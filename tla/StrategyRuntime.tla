--------------------------- MODULE StrategyRuntime ----------------------------
(***************************************************************************)
(* The life of strategy loops: TradingExecutor keeps one thread per running *)
(* strategy in an in-memory registry of its process, the status column of   *)
(* qd_strategies_trading says what should run, and the HTTP handlers, the   *)
(* restore at start-up and the loops themselves all write both.  Sections   *)
(* under the executor's lock are one step, every other statement is its own.*)
(* What a loop does in a tick is left to other modules.                     *)
(***************************************************************************)
EXTENDS Naturals, FiniteSets

CONSTANTS
  Procs,       \* server processes, each with its own TradingExecutor
  Strategies,
  Scripts,     \* those that may be saved as ScriptStrategy
  Loops,       \* thread identities
  NoLoop,
  Callers,     \* concurrent HTTP requests
  Kinds,       \* requests in play, a subset of AllKinds
  MaxThreads,  \* STRATEGY_MAX_THREADS
  LoopFails,   \* queries of a loop or of the restore may fail
  MaxCrashes   \* bound on process crashes

AllKinds == {"start", "batchstart", "stop", "delete", "batchdelete"}
Stopping == {"stop", "batchdelete"}

ASSUME RuntimeAssumption ==
  /\ Scripts \subseteq Strategies /\ Kinds \subseteq AllKinds
  /\ NoLoop \notin Loops /\ Procs \cap Callers = {}
  /\ Procs # {} /\ Strategies # {} /\ IsFiniteSet(Strategies)
  /\ MaxThreads \in Nat /\ MaxCrashes \in Nat /\ LoopFails \in BOOLEAN

VARIABLES
  db,      \* status column, or "gone" when the row is deleted
  reg,     \* running_strategies of each process
  at, home, runs,  \* each loop: where it is, its process, its strategy
  saw,     \* loops whose status query answered "running"
  step, kind, proc, strat,  \* requests, and the restore of each process
  phase, todo,              \* start-up of each process
  crashes,
  parted,  \* history: strategies of a process with a stopped loop still ending
  deserted \* history: left "running" by a batch start that was refused, a restore that
           \* skips them, or a loop that failed, and not touched since

Actors == Callers \cup Procs
loops == <<at, home, runs, saw>>
requests == <<step, kind, proc, strat>>
boot == <<phase, todo>>
vars == <<db, reg, loops, requests, boot, crashes, parted, deserted>>

Places == {"none", "load", "top", "seen", "fix", "tick", "exit"}
Steps == {"idle", "running", "exec", "rollback", "stopexec", "stopped", "delete"}

TypeOK ==
  /\ db \in [Strategies -> {"running", "stopped", "gone"}]
  /\ reg \in [Procs -> [Strategies -> Loops \cup {NoLoop}]]
  /\ at \in [Loops -> Places] /\ home \in [Loops -> Procs]
  /\ runs \in [Loops -> Strategies] /\ saw \subseteq Loops
  /\ step \in [Actors -> Steps] /\ kind \in [Actors -> AllKinds \cup {"restore"}]
  /\ proc \in [Actors -> Procs] /\ strat \in [Actors -> Strategies]
  /\ phase \in [Procs -> {"boot", "restore", "up"}]
  /\ todo \in [Procs -> SUBSET Strategies]
  /\ crashes \in 0..MaxCrashes
  /\ parted \subseteq Procs \X Strategies /\ deserted \subseteq Strategies

SomeProc == CHOOSE p \in Procs : TRUE
SomeStrategy == CHOOSE s \in Strategies : TRUE

\* All strategies exist and are stopped, the processes are about to start.
Init ==
  /\ db = [s \in Strategies |-> "stopped"]
  /\ reg = [p \in Procs |-> [s \in Strategies |-> NoLoop]]
  /\ at = [l \in Loops |-> "none"] /\ saw = {}
  /\ home = [l \in Loops |-> SomeProc] /\ runs = [l \in Loops |-> SomeStrategy]
  /\ step = [a \in Actors |-> "idle"]
  /\ kind = [a \in Actors |-> IF a \in Procs THEN "restore" ELSE "start"]
  /\ proc = [a \in Actors |-> IF a \in Procs THEN a ELSE SomeProc]
  /\ strat = [a \in Actors |-> SomeStrategy]
  /\ phase = [p \in Procs |-> "boot"] /\ todo = [p \in Procs |-> {}]
  /\ crashes = 0 /\ parted = {} /\ deserted = {}

-----------------------------------------------------------------------------
(* Helpers *)

Alive(l) == l # NoLoop /\ at[l] # "none"
Registered(p, s) == Alive(reg[p][s])
LoopsOf(p, s) == {l \in Loops : at[l] # "none" /\ home[l] = p /\ runs[l] = s}
LiveLoops(s) == {l \in Loops : at[l] # "none" /\ runs[l] = s}
\* Which of the free thread identities a new thread gets does not matter; Loops
\* bounds how many run at once.
FreeLoop == CHOOSE l \in Loops : at[l] = "none"
\* UPDATE ... SET status: without effect once the row is deleted.
SetStatus(s, v) ==
  /\ db' = IF db[s] = "gone" THEN db ELSE [db EXCEPT ![s] = v]
  /\ deserted' = deserted \ {s}
Desert(S) == deserted' = deserted \cup {s \in S : db[s] = "running"}
Goto(a, st) == step' = [step EXCEPT ![a] = st]

-----------------------------------------------------------------------------
(* HTTP requests and the restore *)

\* A request for a strategy the user owns reaches a process that serves.
Receive(c) ==
  /\ step[c] = "idle"
  /\ \E k \in Kinds, p \in Procs, s \in Strategies :
       /\ phase[p] = "up" /\ db[s] # "gone"
       /\ kind' = [kind EXCEPT ![c] = k]
       /\ proc' = [proc EXCEPT ![c] = p]
       /\ strat' = [strat EXCEPT ![c] = s]
       /\ Goto(c, CASE k \in {"start", "batchstart"} -> "running"
                     [] k \in Stopping -> "stopexec"
                     [] k = "delete" -> "delete")
  /\ UNCHANGED <<db, reg, loops, boot, crashes, parted, deserted>>

\* The status is set to running before the executor is asked.
SetRunning(a) ==
  /\ step[a] = "running"
  /\ SetStatus(strat[a], "running")
  /\ Goto(a, "exec")
  /\ UNCHANGED <<reg, loops, kind, proc, strat, boot, crashes, parted>>

\* Mutant: the capacity check lets one more in.
FreeSlotOffByOne(p, s) ==
  /\ Cardinality({t \in Strategies : Registered(p, t)}) <= MaxThreads
  /\ ~Registered(p, s)

\* Mutant: the registry is asked for the other strategies only.
FreeSlotUnchecked(p, s) == Cardinality({t \in Strategies \ {s} : Registered(p, t)}) < MaxThreads

\* start_strategy drops exited threads, then refuses above the limit, and when
\* the strategy is registered.
FreeSlot(p, s) ==
  /\ Cardinality({t \in Strategies : Registered(p, t)}) < MaxThreads
  /\ ~Registered(p, s)

\* TradingExecutor.start_strategy, under the lock. The handler of a batch and
\* of a successful start is done; the others go on to take the status back.
StartExec(a) ==
  /\ step[a] = "exec"
  /\ IF FreeSlot(proc[a], strat[a])
     THEN \E l \in Loops :
            /\ at[l] = "none" /\ l = FreeLoop
            /\ reg' = [reg EXCEPT ![proc[a]][strat[a]] = l]
            /\ at' = [at EXCEPT ![l] = "load"]
            /\ home' = [home EXCEPT ![l] = proc[a]]
            /\ runs' = [runs EXCEPT ![l] = strat[a]]
            /\ deserted' = deserted \ {strat[a]}
            /\ Goto(a, "idle")
     ELSE /\ IF kind[a] = "batchstart"
             THEN Goto(a, "idle") /\ Desert({strat[a]})
             ELSE Goto(a, "rollback") /\ UNCHANGED deserted
          /\ UNCHANGED <<reg, at, home, runs>>
  /\ UNCHANGED <<db, saw, kind, proc, strat, boot, crashes, parted>>

\* "If start failed, restore status"
Rollback(a) ==
  /\ step[a] = "rollback"
  /\ SetStatus(strat[a], "stopped")
  /\ Goto(a, "idle")
  /\ UNCHANGED <<reg, loops, kind, proc, strat, boot, crashes, parted>>

\* TradingExecutor.stop_strategy, under the lock: a registered strategy is set
\* to stopped and forgotten. Its thread is left to notice. A batch delete
\* ignores the answer and deletes.
StopExec(a) ==
  /\ step[a] = "stopexec"
  /\ IF reg[proc[a]][strat[a]] # NoLoop
     THEN /\ SetStatus(strat[a], "stopped")
          /\ reg' = [reg EXCEPT ![proc[a]][strat[a]] = NoLoop]
          /\ parted' = parted \cup {<<proc[a], strat[a]>>}
     ELSE UNCHANGED <<db, reg, parted, deserted>>
  /\ Goto(a, IF kind[a] = "batchdelete" THEN "delete" ELSE "stopped")
  /\ UNCHANGED <<loops, kind, proc, strat, boot, crashes>>

SetStopped(a) ==
  /\ step[a] = "stopped"
  /\ SetStatus(strat[a], "stopped")
  /\ Goto(a, "idle")
  /\ UNCHANGED <<reg, loops, kind, proc, strat, boot, crashes, parted>>

\* The row goes; a single delete does not tell the executor.
Delete(a) ==
  /\ step[a] = "delete"
  /\ db' = [db EXCEPT ![strat[a]] = "gone"]
  /\ deserted' = deserted \ {strat[a]}
  /\ Goto(a, "idle")
  /\ UNCHANGED <<reg, loops, kind, proc, strat, boot, crashes, parted>>

\* What the restore passes over: scripts, and everything when its query fails. (The
\* type of a strategy is saved with its settings and may change at any time.)
Skippable == (SUBSET Scripts) \cup (IF LoopFails THEN {Strategies} ELSE {})


\* restore_running_strategies: one query, then strategy by strategy.
Boot(p) ==
  /\ phase[p] = "boot"
  /\ phase' = [phase EXCEPT ![p] = "restore"]
  /\ \E S \in Skippable :
       /\ todo' = [todo EXCEPT ![p] = {s \in Strategies : db[s] = "running"} \ S]
       /\ Desert(S)
  /\ UNCHANGED <<db, reg, loops, requests, crashes, parted>>

RestoreNext(p) ==
  /\ phase[p] = "restore" /\ step[p] = "idle"
  /\ IF todo[p] = {}
     THEN phase' = [phase EXCEPT ![p] = "up"] /\ UNCHANGED <<todo, step, strat>>
     ELSE \E s \in todo[p] :
            /\ todo' = [todo EXCEPT ![p] = @ \ {s}]
            /\ strat' = [strat EXCEPT ![p] = s]
            /\ Goto(p, "exec")
            /\ UNCHANGED phase
  /\ UNCHANGED <<db, reg, loops, kind, proc, crashes, parted, deserted>>

\* A process dies with its threads, its registry and its requests.
Crash(p) ==
  /\ crashes < MaxCrashes /\ crashes' = crashes + 1
  /\ reg' = [reg EXCEPT ![p] = [s \in Strategies |-> NoLoop]]
  /\ at' = [l \in Loops |-> IF home[l] = p THEN "none" ELSE at[l]]
  /\ saw' = {l \in saw : home[l] # p}
  /\ step' = [a \in Actors |-> IF proc[a] = p THEN "idle" ELSE step[a]]
  /\ phase' = [phase EXCEPT ![p] = "boot"]
  /\ todo' = [todo EXCEPT ![p] = {}]
  /\ parted' = {e \in parted : e[1] # p}
  /\ UNCHANGED <<db, home, runs, kind, proc, strat, deserted>>

-----------------------------------------------------------------------------
(* A strategy loop *)

At(l, place) == at' = [at EXCEPT ![l] = place]

\* Load the strategy and its history; whatever is missing ends the loop.
Load(l) ==
  /\ at[l] = "load"
  /\ \/ db[runs[l]] # "gone" /\ At(l, "top") /\ UNCHANGED deserted
     \/ (db[runs[l]] = "gone" \/ LoopFails) /\ At(l, "exit") /\ Desert({runs[l]})
  /\ UNCHANGED <<db, reg, home, runs, saw, requests, boot, crashes, parted>>

\* _is_strategy_running, first query: the status (an error counts as no).
ReadStatus(l) ==
  /\ at[l] = "top"
  /\ \/ /\ At(l, "seen")
        /\ saw' = IF db[runs[l]] = "running" THEN saw \cup {l} ELSE saw \ {l}
        /\ UNCHANGED deserted
     \/ LoopFails /\ At(l, "exit") /\ Desert({runs[l]}) /\ UNCHANGED saw
  /\ UNCHANGED <<db, reg, home, runs, requests, boot, crashes, parted>>

\* Mutant: a registered thread is enough, whatever the status.
CheckThreadOnly(l) ==
  /\ at[l] = "seen"
  /\ At(l, IF Registered(home[l], runs[l]) THEN "tick"
           ELSE IF l \in saw THEN "fix" ELSE "exit")
  /\ UNCHANGED <<db, reg, home, runs, saw, requests, boot, crashes, parted, deserted>>

\* _is_strategy_running, under the lock: some live thread is registered.
CheckThread(l) ==
  /\ at[l] = "seen"
  /\ At(l, IF l \notin saw THEN "exit"
           ELSE IF Registered(home[l], runs[l]) THEN "tick" ELSE "fix")
  /\ UNCHANGED <<db, reg, home, runs, saw, requests, boot, crashes, parted, deserted>>

\* "status mismatch: DB=running but thread not running"
Fix(l) ==
  /\ at[l] = "fix"
  /\ SetStatus(runs[l], "stopped")
  /\ At(l, "exit")
  /\ UNCHANGED <<reg, home, runs, saw, requests, boot, crashes, parted>>

\* One evaluation of the strategy; an exception is logged and the loop goes on.
Work(l) ==
  /\ at[l] = "tick"
  /\ At(l, "top")
  /\ UNCHANGED <<db, reg, home, runs, saw, requests, boot, crashes, parted, deserted>>

\* The last loop of a strategy in its process ends the parting.
Reunite(l) ==
  parted' = IF LoopsOf(home[l], runs[l]) = {l} THEN parted \ {<<home[l], runs[l]>>} ELSE parted

\* Mutant: the thread ends and leaves its entry.
ExitOnly(l) ==
  /\ at[l] = "exit"
  /\ At(l, "none")
  /\ saw' = saw \ {l}
  /\ Reunite(l)
  /\ UNCHANGED <<db, reg, home, runs, requests, boot, crashes, deserted>>

\* finally: the registry entry of the strategy goes, whosever it is.
Exit(l) ==
  /\ at[l] = "exit"
  /\ reg' = [reg EXCEPT ![home[l]][runs[l]] = NoLoop]
  /\ At(l, "none")
  /\ saw' = saw \ {l}
  /\ Reunite(l)
  /\ UNCHANGED <<db, home, runs, requests, boot, crashes, deserted>>

-----------------------------------------------------------------------------
Handle(a) == \/ SetRunning(a) \/ StartExec(a) \/ Rollback(a)
             \/ StopExec(a) \/ SetStopped(a) \/ Delete(a)
StartUp(p) == Boot(p) \/ RestoreNext(p)
Loop(l) == \/ Load(l) \/ ReadStatus(l) \/ CheckThread(l)
           \/ Fix(l) \/ Work(l) \/ Exit(l)
Next == \/ \E c \in Callers : Receive(c)
        \/ \E a \in Actors : Handle(a)
        \/ \E p \in Procs : StartUp(p) \/ Crash(p)
        \/ \E l \in Loops : Loop(l)

Spec == Init /\ [][Next]_vars

\* Threads are scheduled; requests come when they come.
FairSpec == /\ Spec
            /\ \A a \in Actors : WF_vars(Handle(a))
            /\ \A p \in Procs : WF_vars(StartUp(p))
            /\ \A l \in Loops : WF_vars(Loop(l))
-----------------------------------------------------------------------------
(* Properties *)

\* STRATEGY_MAX_THREADS bounds the registry of every process.
RegistryBounded ==
  \A p \in Procs : Cardinality({s \in Strategies : reg[p][s] # NoLoop}) <= MaxThreads

\* A registered thread runs, in this process, for this strategy.
RegistryTrue ==
  \A p \in Procs, s \in Strategies :
    reg[p][s] # NoLoop => Registered(p, s) /\ home[reg[p][s]] = p /\ runs[reg[p][s]] = s

\* "Global singletons (avoid duplicate strategy threads)" (app/__init__.py:54):
\* a strategy has at most one loop. It is refuted by a start soon after a stop;
\* OneLoopUnlessParted below is what holds.
OneLoop == \A s \in Strategies : Cardinality(LiveLoops(s)) <= 1

\* A strategy that is stopped or deleted and not started again loses its loops.
StopEffective ==
  \A s \in Strategies : (db[s] # "running") ~> (LiveLoops(s) = {} \/ db[s] = "running")


\* Without the exception it is refuted.
NeverRunningAlone ==
  \A s \in Strategies : (db[s] = "running") ~> (db[s] # "running" \/ LiveLoops(s) # {})

RuntimeInv == TypeOK /\ RegistryTrue /\ RegistryBounded

\* In one process a strategy has two loops only while a loop that was stopped has
\* not ended: concurrent starts, batches, deletes, failing loops, crashes and
\* restores do not bring it about.
OneLoopUnlessParted ==
  \A p \in Procs, s \in Strategies :
    <<p, s>> \notin parted => \A k, l \in LoopsOf(p, s) : k = l

\* Why: every other loop is the registered one, which keeps a second one out.
OwnsEntry ==
  \A l \in Loops : at[l] # "none" =>
    reg[home[l]][runs[l]] = l \/ <<home[l], runs[l]>> \in parted
=============================================================================
