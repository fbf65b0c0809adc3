------------------------ MODULE StrategyRuntime_proofs ------------------------
(***************************************************************************)
(* What holds of the strategy registry for every set of processes,         *)
(* strategies, threads and requests: the registry is true and bounded, and  *)
(* no process has two loops of a strategy unless a stopped one is ending.   *)
(***************************************************************************)
EXTENDS StrategyRuntime, TLAPS, FiniteSetTheorems

\* The registry of one process as a set.
Entries(p) == {s \in Strategies : reg[p][s] # NoLoop}

\* An entry more makes the registry at most one larger; entries removed do not
\* make it larger.
LEMMA Entered ==
  ASSUME NEW A \in SUBSET Strategies, NEW B, NEW s,
         Cardinality(A) < MaxThreads, B \subseteq A \cup {s}
  PROVE  Cardinality(B) <= MaxThreads
<1>1. IsFiniteSet(A)
  BY RuntimeAssumption, FS_Subset
<1>2. /\ IsFiniteSet(A \cup {s})
      /\ Cardinality(A) \in Nat
      /\ Cardinality(A \cup {s}) <= Cardinality(A) + 1
  BY <1>1, FS_AddElement, FS_CardinalityType
<1>3. /\ Cardinality(B) <= Cardinality(A \cup {s})
      /\ Cardinality(B) \in Nat /\ Cardinality(A \cup {s}) \in Nat
  BY <1>2, FS_Subset, FS_CardinalityType
<1> QED BY <1>2, <1>3, RuntimeAssumption

LEMMA Removed ==
  ASSUME NEW A \in SUBSET Strategies, NEW B,
         Cardinality(A) <= MaxThreads, B \subseteq A
  PROVE  Cardinality(B) <= MaxThreads
<1>1. IsFiniteSet(A)
  BY RuntimeAssumption, FS_Subset
<1>2. /\ Cardinality(B) <= Cardinality(A)
      /\ Cardinality(B) \in Nat /\ Cardinality(A) \in Nat
  BY <1>1, FS_Subset, FS_CardinalityType
<1> QED BY <1>2, RuntimeAssumption

\* The initial state satisfies the inductive invariant.
LEMMA RuntimeInit == Init => RuntimeInv
<1> SUFFICES ASSUME Init PROVE RuntimeInv
  OBVIOUS
<1>1. SomeProc \in Procs /\ SomeStrategy \in Strategies
  BY RuntimeAssumption DEF SomeProc, SomeStrategy
<1>2. TypeOK
  BY <1>1, RuntimeAssumption DEF Init, TypeOK, Places, Steps, AllKinds, Actors
<1>3. RegistryTrue
  BY DEF Init, RegistryTrue
<1>4. RegistryBounded
  <2> SUFFICES ASSUME NEW p \in Procs PROVE Cardinality(Entries(p)) <= MaxThreads
    BY DEF RegistryBounded, Entries
  <2>1. Entries(p) = {}
    BY DEF Init, Entries
  <2> QED BY <2>1, FS_EmptySet, RuntimeAssumption
<1> QED BY <1>2, <1>3, <1>4 DEF RuntimeInv

\* What start_strategy does when it lets a strategy in.
LEMMA Admits ==
  ASSUME TypeOK, NEW a \in Actors, StartExec(a), FreeSlot(proc[a], strat[a])
  PROVE  \E l \in Loops :
           /\ at[l] = "none" /\ at' = [at EXCEPT ![l] = "load"]
           /\ home' = [home EXCEPT ![l] = proc[a]]
           /\ runs' = [runs EXCEPT ![l] = strat[a]]
           /\ step' = [step EXCEPT ![a] = "idle"]
           /\ reg' \in [Procs -> [Strategies -> Loops \cup {NoLoop}]]
           /\ reg'[proc[a]][strat[a]] = l
           /\ \A p \in Procs, s \in Strategies :
                p # proc[a] \/ s # strat[a] => reg'[p][s] = reg[p][s]
<1>1. PICK l \in Loops :
        /\ at[l] = "none" /\ at' = [at EXCEPT ![l] = "load"]
        /\ reg' = [reg EXCEPT ![proc[a]][strat[a]] = l]
        /\ home' = [home EXCEPT ![l] = proc[a]]
        /\ runs' = [runs EXCEPT ![l] = strat[a]]
        /\ step' = [step EXCEPT ![a] = "idle"]
  BY DEF StartExec, Goto
<1>2. proc[a] \in Procs /\ strat[a] \in Strategies
  BY DEF TypeOK
<1>3. reg \in [Procs -> [Strategies -> Loops \cup {NoLoop}]]
  BY DEF TypeOK
<1>4. /\ reg' \in [Procs -> [Strategies -> Loops \cup {NoLoop}]]
      /\ reg'[proc[a]][strat[a]] = l
      /\ \A p \in Procs, s \in Strategies :
           p # proc[a] \/ s # strat[a] => reg'[p][s] = reg[p][s]
  BY <1>1, <1>2, <1>3
<1> QED BY <1>1, <1>4

\* What a stop and the end of a loop do to the registry.
LEMMA Forgets ==
  ASSUME TypeOK, NEW p \in Procs, NEW s \in Strategies,
         reg' = [reg EXCEPT ![p][s] = NoLoop]
  PROVE  /\ reg' \in [Procs -> [Strategies -> Loops \cup {NoLoop}]]
         /\ \A q \in Procs, t \in Strategies :
              reg'[q][t] = IF q = p /\ t = s THEN NoLoop ELSE reg[q][t]
  BY DEF TypeOK

\* Every step keeps the types.
LEMMA RuntimeTyped ==
  ASSUME TypeOK, [Next]_vars
  PROVE  TypeOK'
<1> USE RuntimeAssumption
    DEF TypeOK, Places, Steps, AllKinds, Stopping, Actors, loops, requests, boot, Goto,
        SetStatus, At, Desert
<1>1. CASE UNCHANGED vars
  BY <1>1 DEF vars
<1>2. CASE \E c \in Callers : Receive(c)
  BY <1>2 DEF Receive
<1>3. ASSUME NEW a \in Actors, Handle(a) PROVE TypeOK'
  <2>1. CASE SetRunning(a) BY <2>1 DEF SetRunning
  <2>2. CASE StartExec(a)
    <3>0. deserted' \subseteq Strategies
      <4>1. strat[a] \in Strategies
        OBVIOUS
      <4>2. \/ deserted' = deserted \ {strat[a]} \/ UNCHANGED deserted \/ Desert({strat[a]})
        BY <2>2, Zenon DEF StartExec
      <4> QED BY <4>1, <4>2
    <3>1. CASE FreeSlot(proc[a], strat[a])
      <4>1. PICK l \in Loops :
              /\ at' = [at EXCEPT ![l] = "load"]
              /\ home' = [home EXCEPT ![l] = proc[a]]
              /\ runs' = [runs EXCEPT ![l] = strat[a]]
              /\ step' = [step EXCEPT ![a] = "idle"]
              /\ reg' \in [Procs -> [Strategies -> Loops \cup {NoLoop}]]
        BY <2>2, <3>1, Admits
      <4> QED BY <2>2, <3>0, <4>1 DEF StartExec
    <3>2. CASE ~FreeSlot(proc[a], strat[a])
      BY <2>2, <3>0, <3>2 DEF StartExec
    <3> QED BY <3>1, <3>2
  <2>3. CASE Rollback(a) BY <2>3 DEF Rollback
  <2>4. CASE StopExec(a)
    <3>1. reg' \in [Procs -> [Strategies -> Loops \cup {NoLoop}]]
      BY <2>4, Forgets DEF StopExec
    <3>2. db' \in [Strategies -> {"running", "stopped", "gone"}]
      BY <2>4 DEF StopExec
    <3> QED BY <2>4, <3>1, <3>2 DEF StopExec
  <2>5. CASE SetStopped(a) BY <2>5 DEF SetStopped
  <2>6. CASE Delete(a) BY <2>6 DEF Delete
  <2> QED BY <1>3, <2>1, <2>2, <2>3, <2>4, <2>5, <2>6 DEF Handle
<1>4. ASSUME NEW p \in Procs, StartUp(p) PROVE TypeOK'
  <2>1. CASE Boot(p)
    <3>1. PICK S \in Skippable :
            /\ todo' = [todo EXCEPT ![p] = {s \in Strategies : db[s] = "running"} \ S]
            /\ Desert(S)
      BY <2>1 DEF Boot
    <3>2. S \subseteq Strategies
      <4>1. CASE S \in SUBSET Scripts BY <4>1
      <4>2. CASE S = Strategies BY <4>2
      <4> QED BY <4>1, <4>2 DEF Skippable
    <3>3. todo' \in [Procs -> SUBSET Strategies] /\ deserted' \subseteq Strategies
      BY <3>1, <3>2
    <3> QED BY <2>1, <3>3 DEF Boot
  <2>2. CASE RestoreNext(p)
    <3>1. CASE todo[p] = {}
      BY <2>2, <3>1 DEF RestoreNext
    <3>2. CASE todo[p] # {}
      <4>1. PICK s \in todo[p] :
              /\ todo' = [todo EXCEPT ![p] = @ \ {s}]
              /\ strat' = [strat EXCEPT ![p] = s]
              /\ step' = [step EXCEPT ![p] = "exec"]
              /\ UNCHANGED phase
        BY <2>2, <3>2 DEF RestoreNext
      <4>2. s \in Strategies /\ todo' \in [Procs -> SUBSET Strategies]
        BY <4>1
      <4> QED BY <2>2, <4>1, <4>2 DEF RestoreNext
    <3> QED BY <3>1, <3>2
  <2> QED BY <1>4, <2>1, <2>2 DEF StartUp
<1>5. ASSUME NEW p \in Procs, Crash(p) PROVE TypeOK'
  BY <1>5 DEF Crash
<1>6. ASSUME NEW l \in Loops, Loop(l) PROVE TypeOK'
  <2>0. runs[l] \in Strategies
    OBVIOUS
  <2>1. CASE Load(l)
    <3>1. deserted' \subseteq Strategies
      BY <2>0, <2>1 DEF Load
    <3> QED BY <2>1, <3>1 DEF Load
  <2>2. CASE ReadStatus(l)
    <3>1. deserted' \subseteq Strategies
      BY <2>0, <2>2 DEF ReadStatus
    <3> QED BY <2>2, <3>1 DEF ReadStatus
  <2>3. CASE CheckThread(l) BY <2>3 DEF CheckThread
  <2>4. CASE Fix(l) BY <2>4 DEF Fix
  <2>5. CASE Work(l) BY <2>5 DEF Work
  <2>6. CASE Exit(l) BY <2>6 DEF Exit, Reunite
  <2> QED BY <1>6, <2>1, <2>2, <2>3, <2>4, <2>5, <2>6 DEF Loop
<1> QED BY <1>1, <1>2, <1>3, <1>4, <1>5, <1>6 DEF Next

\* Every step keeps the registry true: who leaves the registry's thread also
\* takes its entry.
LEMMA RegistryStaysTrue ==
  ASSUME RuntimeInv, [Next]_vars
  PROVE  RegistryTrue'
<1> USE RuntimeAssumption
    DEF RuntimeInv, TypeOK, RegistryTrue, Registered, Alive, Actors, loops, At
<1>1. CASE UNCHANGED <<reg, loops>>
  BY <1>1
<1>2. ASSUME NEW a \in Actors, StartExec(a) PROVE RegistryTrue'
  <2>1. CASE FreeSlot(proc[a], strat[a])
    <3>1. PICK l \in Loops :
            /\ at[l] = "none" /\ at' = [at EXCEPT ![l] = "load"]
            /\ home' = [home EXCEPT ![l] = proc[a]]
            /\ runs' = [runs EXCEPT ![l] = strat[a]]
            /\ reg'[proc[a]][strat[a]] = l
            /\ \A p \in Procs, s \in Strategies :
                 p # proc[a] \/ s # strat[a] => reg'[p][s] = reg[p][s]
      BY <1>2, <2>1, Admits
    <3> SUFFICES ASSUME NEW p \in Procs, NEW s \in Strategies, reg'[p][s] # NoLoop
                 PROVE  (Registered(p, s) /\ home[reg[p][s]] = p /\ runs[reg[p][s]] = s)'
      OBVIOUS
    <3>2. CASE p = proc[a] /\ s = strat[a]
      BY <3>1, <3>2
    <3>3. CASE p # proc[a] \/ s # strat[a]
      BY <3>1, <3>3
    <3> QED BY <3>2, <3>3
  <2>2. CASE ~FreeSlot(proc[a], strat[a])
    BY <1>2, <2>2 DEF StartExec
  <2> QED BY <2>1, <2>2
<1>3. ASSUME NEW a \in Actors, StopExec(a) PROVE RegistryTrue'
  <2>1. CASE reg[proc[a]][strat[a]] # NoLoop
    <3>1. reg' = [reg EXCEPT ![proc[a]][strat[a]] = NoLoop] /\ UNCHANGED loops
      BY <1>3, <2>1 DEF StopExec
    <3>2. \A q \in Procs, t \in Strategies :
            reg'[q][t] = IF q = proc[a] /\ t = strat[a] THEN NoLoop ELSE reg[q][t]
      BY <3>1, Forgets
    <3> QED BY <3>1, <3>2
  <2>2. CASE reg[proc[a]][strat[a]] = NoLoop
    BY <1>3, <2>2 DEF StopExec
  <2> QED BY <2>1, <2>2
<1>4. ASSUME NEW p \in Procs, Crash(p) PROVE RegistryTrue'
  BY <1>4 DEF Crash
<1>5. ASSUME NEW l \in Loops, Loop(l) PROVE RegistryTrue'
  <2>1. CASE Load(l) BY <2>1 DEF Load
  <2>2. CASE ReadStatus(l) BY <2>2 DEF ReadStatus
  <2>3. CASE CheckThread(l) BY <2>3 DEF CheckThread
  <2>4. CASE Fix(l) BY <2>4 DEF Fix
  <2>5. CASE Work(l) BY <2>5 DEF Work
  <2>6. CASE Exit(l) BY <2>6 DEF Exit
  <2> QED BY <1>5, <2>1, <2>2, <2>3, <2>4, <2>5, <2>6 DEF Loop
<1>6. CASE \/ \E c \in Callers : Receive(c)
           \/ \E a \in Actors : SetRunning(a) \/ Rollback(a) \/ SetStopped(a) \/ Delete(a)
           \/ \E p \in Procs : StartUp(p)
           \/ UNCHANGED vars
  BY <1>1, <1>6
  DEF Receive, SetRunning, Rollback, SetStopped, Delete, StartUp, Boot, RestoreNext, vars
<1> QED BY <1>2, <1>3, <1>4, <1>5, <1>6 DEF Next, Handle

\* Every step keeps the registry within its limit: only start_strategy adds,
\* one entry at a time, after counting.
LEMMA RegistryStaysBounded ==
  ASSUME RuntimeInv, [Next]_vars
  PROVE  RegistryBounded'
<1> SUFFICES ASSUME NEW p \in Procs PROVE Cardinality(Entries(p)') <= MaxThreads
  BY DEF RegistryBounded, Entries
<1>0. Cardinality(Entries(p)) <= MaxThreads /\ Entries(p) \in SUBSET Strategies
  BY DEF RuntimeInv, RegistryBounded, Entries
<1>1. CASE Entries(p)' \subseteq Entries(p)
  BY <1>0, <1>1, Removed
<1>2. ASSUME NEW a \in Actors, StartExec(a), FreeSlot(proc[a], strat[a])
      PROVE  Cardinality(Entries(p)') <= MaxThreads
  <2>1. CASE proc[a] # p
    <3>1. Entries(p)' = Entries(p)
      BY <1>2, <2>1 DEF StartExec, Entries, RuntimeInv, TypeOK
    <3> QED BY <1>1, <3>1
  <2>2. CASE proc[a] = p
    <3>1. {t \in Strategies : Registered(p, t)} = Entries(p)
      BY DEF Entries, RuntimeInv, RegistryTrue, Registered, Alive
    <3>2. Cardinality(Entries(p)) < MaxThreads
      BY <1>2, <2>2, <3>1 DEF FreeSlot
    <3>3. Entries(p)' \subseteq Entries(p) \cup {strat[a]}
      BY <1>2, <2>2 DEF StartExec, Entries, RuntimeInv, TypeOK
    <3> QED BY <1>0, <3>2, <3>3, Entered
  <2> QED BY <2>1, <2>2
<1> HIDE DEF Entries
<1>3. CASE UNCHANGED reg
  BY <1>1, <1>3 DEF Entries
<1>4. CASE \/ \E a \in Actors : StopExec(a)
           \/ \E q \in Procs : Crash(q)
           \/ \E l \in Loops : Exit(l)
  <2>1. TypeOK
    BY DEF RuntimeInv
  <2>2. ASSUME NEW a \in Actors, StopExec(a) PROVE Entries(p)' \subseteq Entries(p)
    <3>1. proc[a] \in Procs /\ strat[a] \in Strategies
      BY <2>1 DEF TypeOK
    <3>2. CASE UNCHANGED reg
      BY <3>2 DEF Entries
    <3>3. CASE reg' = [reg EXCEPT ![proc[a]][strat[a]] = NoLoop]
      BY <2>1, <3>1, <3>3, Forgets DEF Entries
    <3> QED BY <2>2, <3>2, <3>3 DEF StopExec
  <2>3. ASSUME NEW l \in Loops, Exit(l) PROVE Entries(p)' \subseteq Entries(p)
    <3>1. home[l] \in Procs /\ runs[l] \in Strategies
      BY <2>1 DEF TypeOK
    <3> QED BY <2>1, <2>3, <3>1, Forgets DEF Exit, Entries
  <2>4. ASSUME NEW q \in Procs, Crash(q) PROVE Entries(p)' \subseteq Entries(p)
    BY <2>1, <2>4 DEF Crash, Entries, TypeOK
  <2> QED BY <1>1, <1>4, <2>2, <2>3, <2>4
<1>5. ASSUME NEW a \in Actors, StartExec(a), ~FreeSlot(proc[a], strat[a])
      PROVE  Cardinality(Entries(p)') <= MaxThreads
  BY <1>3, <1>5 DEF StartExec
<1>6. CASE \/ \E c \in Callers : Receive(c)
           \/ \E a \in Actors : SetRunning(a) \/ Rollback(a) \/ SetStopped(a) \/ Delete(a)
           \/ \E q \in Procs : StartUp(q)
           \/ \E l \in Loops : Load(l) \/ ReadStatus(l) \/ CheckThread(l) \/ Fix(l) \/ Work(l)
           \/ UNCHANGED vars
  <2>1. UNCHANGED reg
    BY <1>6
    DEF Receive, SetRunning, Rollback, SetStopped, Delete, StartUp, Boot, RestoreNext,
        Load, ReadStatus, CheckThread, Fix, Work, vars
  <2> QED BY <1>3, <2>1
<1> QED BY <1>2, <1>4, <1>5, <1>6 DEF Next, Handle, Loop

\* The executor's registry holds only threads that run, in its process and for
\* the strategy they are registered under, and never more than
\* STRATEGY_MAX_THREADS of them, whatever the interleaving of requests, loops,
\* crashes and restores.
THEOREM RegistrySound == Spec => []RuntimeInv
<1>1. Init => RuntimeInv
  BY RuntimeInit
<1>2. RuntimeInv /\ [Next]_vars => RuntimeInv'
  BY RuntimeTyped, RegistryStaysTrue, RegistryStaysBounded DEF RuntimeInv
<1> QED BY <1>1, <1>2, PTL DEF Spec

\* The capacity of the executor alone.
THEOREM CapacityHolds == Spec => []RegistryBounded
<1>1. RuntimeInv => RegistryBounded
  BY DEF RuntimeInv
<1> QED BY <1>1, RegistrySound, PTL

-----------------------------------------------------------------------------
(* One loop per strategy and process, unless a stopped one is still ending *)

\* The registry forgets a running loop only when the parting is noted, and the
\* parting ends with the last loop.
LEMMA OwnsEntryStep ==
  ASSUME RuntimeInv, OwnsEntry, [Next]_vars
  PROVE  OwnsEntry'
<1> USE RuntimeAssumption
    DEF RuntimeInv, TypeOK, OwnsEntry, Registered, Alive, Actors, loops, requests, At, Goto
<1>1. CASE UNCHANGED vars
  BY <1>1 DEF vars
<1>2. ASSUME NEW c \in Callers, Receive(c) PROVE OwnsEntry'
  BY <1>2 DEF Receive
<1>3. ASSUME NEW a \in Actors, StartExec(a) PROVE OwnsEntry'
  <2>1. CASE FreeSlot(proc[a], strat[a])
    <3>1. PICK l \in Loops :
            /\ at[l] = "none" /\ at' = [at EXCEPT ![l] = "load"]
            /\ home' = [home EXCEPT ![l] = proc[a]]
            /\ runs' = [runs EXCEPT ![l] = strat[a]]
            /\ step' = [step EXCEPT ![a] = "idle"]
            /\ reg'[proc[a]][strat[a]] = l
            /\ \A p \in Procs, s \in Strategies :
                 p # proc[a] \/ s # strat[a] => reg'[p][s] = reg[p][s]
      BY <1>3, <2>1, Admits
    <3>2. \A k \in Loops : at[k] # "none" /\ reg[home[k]][runs[k]] = k =>
            home[k] # proc[a] \/ runs[k] # strat[a]
      BY <2>1 DEF FreeSlot
    <3>3. UNCHANGED parted
      BY <1>3 DEF StartExec
    <3> QED BY <3>1, <3>2, <3>3
  <2>2. CASE ~FreeSlot(proc[a], strat[a])
    BY <1>3, <2>2 DEF StartExec
  <2> QED BY <2>1, <2>2
<1>4. ASSUME NEW a \in Actors, StopExec(a) PROVE OwnsEntry'
  <2>1. CASE reg[proc[a]][strat[a]] # NoLoop
    <3>1. /\ reg' = [reg EXCEPT ![proc[a]][strat[a]] = NoLoop] /\ UNCHANGED loops
          /\ parted' = parted \cup {<<proc[a], strat[a]>>}
      BY <1>4, <2>1 DEF StopExec
    <3>2. \A q \in Procs, t \in Strategies :
            reg'[q][t] = IF q = proc[a] /\ t = strat[a] THEN NoLoop ELSE reg[q][t]
      BY <3>1, Forgets
    <3> QED BY <3>1, <3>2
  <2>2. CASE reg[proc[a]][strat[a]] = NoLoop
    BY <1>4, <2>2 DEF StopExec
  <2> QED BY <2>1, <2>2
<1>5. ASSUME NEW a \in Actors, SetRunning(a) \/ Rollback(a) \/ SetStopped(a) \/ Delete(a)
      PROVE  OwnsEntry'
  BY <1>5 DEF SetRunning, Rollback, SetStopped, Delete
<1>6. ASSUME NEW p \in Procs, StartUp(p) PROVE OwnsEntry'
  BY <1>6 DEF StartUp, Boot, RestoreNext
<1>7. ASSUME NEW p \in Procs, Crash(p) PROVE OwnsEntry'
  BY <1>7 DEF Crash
<1>8. ASSUME NEW l \in Loops, Loop(l) PROVE OwnsEntry'
  <2>1. CASE Load(l) BY <2>1 DEF Load
  <2>2. CASE ReadStatus(l) BY <2>2 DEF ReadStatus
  <2>3. CASE CheckThread(l) BY <2>3 DEF CheckThread
  <2>4. CASE Fix(l) BY <2>4 DEF Fix
  <2>5. CASE Work(l) BY <2>5 DEF Work
  <2>6. CASE Exit(l)
    <3> SUFFICES ASSUME NEW k \in Loops, at'[k] # "none"
                 PROVE  reg'[home[k]][runs[k]] = k \/ <<home[k], runs[k]>> \in parted'
      BY <2>6 DEF Exit
    <3>1. k # l /\ at[k] # "none" /\ at[l] # "none"
      BY <2>6 DEF Exit
    <3>2. \A q \in Procs, t \in Strategies :
            reg'[q][t] = IF q = home[l] /\ t = runs[l] THEN NoLoop ELSE reg[q][t]
      BY <2>6, Forgets DEF Exit
    <3>3. CASE home[k] = home[l] /\ runs[k] = runs[l]
      <4>1. k \in LoopsOf(home[l], runs[l])
        BY <3>1, <3>3 DEF LoopsOf
      <4>2. parted' = parted
        BY <2>6, <3>1, <4>1 DEF Exit, Reunite
      <4>3. <<home[l], runs[l]>> \in parted
        BY <3>1, <3>3
      <4> QED BY <3>3, <4>2, <4>3
    <3>4. CASE home[k] # home[l] \/ runs[k] # runs[l]
      <4>1. parted \ {<<home[l], runs[l]>>} \subseteq parted'
        BY <2>6 DEF Exit, Reunite
      <4>2. <<home[k], runs[k]>> # <<home[l], runs[l]>>
        BY <3>4
      <4> QED BY <3>1, <3>2, <3>4, <4>1, <4>2
    <3> QED BY <3>3, <3>4
  <2> QED BY <1>8, <2>1, <2>2, <2>3, <2>4, <2>5, <2>6 DEF Loop
<1> QED BY <1>1, <1>2, <1>3, <1>4, <1>5, <1>6, <1>7, <1>8 DEF Next, Handle

\* Every loop is the registered one of its process, or was stopped together with
\* all that are not.
THEOREM EntriesOwned == Spec => []OwnsEntry
<1>1. Init => OwnsEntry
  BY DEF Init, OwnsEntry
<1>2. RuntimeInv /\ OwnsEntry /\ [Next]_vars => OwnsEntry'
  BY OwnsEntryStep
<1>3. Spec => []RuntimeInv
  BY RegistrySound
<1> QED BY <1>1, <1>2, <1>3, PTL DEF Spec

\* In every process the registry is enough for "avoid duplicate strategy threads"
\* (app/__init__.py:54) as long as no stopped loop is still ending: it is the stop
\* that does not wait for the thread that lets a second one in.
THEOREM OneLoopPerProcess == Spec => []OneLoopUnlessParted
<1>1. OwnsEntry => OneLoopUnlessParted
  BY DEF OwnsEntry, OneLoopUnlessParted, LoopsOf
<1>2. Spec => []OwnsEntry
  BY EntriesOwned
<1> QED BY <1>1, <1>2, PTL
=============================================================================
