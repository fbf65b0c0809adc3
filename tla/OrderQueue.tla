------------------------------ MODULE OrderQueue ------------------------------
(***************************************************************************)
(* The pending_orders table and the PendingOrderWorker threads that drain  *)
(* it: one worker per server process, all of them on the same table.  Every *)
(* statement of the code that commits is one step here, so a crash or a    *)
(* step of another worker can fall between any two of them.  Quantities    *)
(* and prices are left to LiveExecution; here a dispatch either reaches    *)
(* the exchange or does not.                                               *)
(***************************************************************************)
EXTENDS Naturals, FiniteSets

CONSTANTS
  Orders,        \* row ids, inserted in ascending order (SERIAL)
  NoOrder,       \* a worker has no row in hand
  Workers,       \* server processes, one PendingOrderWorker each
  Routes,        \* the ways of executing a row in play, a subset of AllRoutes
  MaxAttempts,   \* pending_orders.max_attempts
  BatchSize,     \* batch_size of the SELECT
  Deduplicates,  \* the exchange refuses a client order id it has seen
  MaxFaults      \* bound on crashes and failing database statements

\* notify only; crypto market order; limit order then market order; IBKR or MT5
AllRoutes == {"signal", "market", "maker", "broker"}

ASSUME OrdersAssumption == Orders \subseteq Nat /\ NoOrder \notin Orders
ASSUME RoutesAssumption == Routes \subseteq AllRoutes
ASSUME BoundsAssumption ==
  /\ MaxAttempts \in Nat \ {0} /\ BatchSize \in Nat \ {0} /\ MaxFaults \in Nat
  /\ Deduplicates \in BOOLEAN

VARIABLES
  status, attempts, live,  \* columns of pending_orders (live: rows whose execution_mode is live)
  stale,     \* processing rows untouched for stale_processing_sec
  placed,    \* exchange orders accepted for each row
  seen,      \* client order ids the exchange knows
  recorded,  \* apply_fill_to_local_position + record_trade runs, per row
  pc, batch, cur, route, got,  \* the worker threads (got: those with total_base > 0)
  faults,
  snatched   \* history: rows requeued while a worker had them in hand

rows == <<status, attempts, live, stale>>
exchange == <<placed, seen>>
threads == <<pc, batch, cur, route, got>>
vars == <<rows, exchange, recorded, threads, faults, snatched>>

Statuses == {"absent", "pending", "processing", "sent", "failed"}
Settled == {"sent", "failed"}
Stages == {"idle", "select", "loop", "dispatch", "signal", "maker", "market",
           "broker", "marksent", "record", "markfailed"}
Working == Stages \ {"idle", "select", "loop"}
Phases == {"lmt", "mkt"}

TypeOK ==
  /\ status \in [Orders -> Statuses]
  /\ attempts \in [Orders -> 0..MaxAttempts]
  /\ live \subseteq Orders
  /\ stale \subseteq Orders
  /\ placed \in [Orders -> Nat]
  /\ recorded \in [Orders -> Nat]
  /\ pc \in [Workers -> Stages]
  /\ batch \in [Workers -> SUBSET Orders]
  /\ cur \in [Workers -> Orders \cup {NoOrder}]
  /\ route \in [Workers -> AllRoutes]
  /\ got \subseteq Workers
  /\ faults \in 0..MaxFaults /\ snatched \subseteq Orders

Init ==
  /\ status = [o \in Orders |-> "absent"]
  /\ attempts = [o \in Orders |-> 0]
  /\ live \in SUBSET Orders
  /\ stale = {} /\ seen = {}
  /\ placed = [o \in Orders |-> 0]
  /\ recorded = [o \in Orders |-> 0]
  /\ pc = [w \in Workers |-> "idle"]
  /\ batch = [w \in Workers |-> {}]
  /\ cur = [w \in Workers |-> NoOrder]
  /\ route = [w \in Workers |-> "signal"]
  /\ got = {}
  /\ faults = 0 /\ snatched = {}

-----------------------------------------------------------------------------
(* Helpers *)

Holding(w, o) == pc[w] \in Working /\ cur[w] = o
Goto(w, stage) == pc' = [pc EXCEPT ![w] = stage]
Fault == faults < MaxFaults /\ faults' = faults + 1

\* A row is let go of: the worker takes the next one of its batch.
Release(w) ==
  /\ Goto(w, "loop")
  /\ cur' = [cur EXCEPT ![w] = NoOrder]
  /\ route' = [route EXCEPT ![w] = "signal"]
  /\ got' = got \ {w}

\* The thread is back at the top of _tick with nothing in hand.
Abandon(w) ==
  /\ Goto(w, "idle")
  /\ batch' = [batch EXCEPT ![w] = {}]
  /\ cur' = [cur EXCEPT ![w] = NoOrder]
  /\ route' = [route EXCEPT ![w] = "signal"]
  /\ got' = got \ {w}

\* Mutants: attempts ignored, or compared off by one.
RequeueableAlways == {o \in stale : status[o] = "processing"}
RequeueableEarly == {o \in RequeueableAlways : attempts[o] + 1 < MaxAttempts}

\* WHERE status = 'processing' AND updated_at is old AND attempts < max_attempts
Requeueable == {o \in stale : status[o] = "processing" /\ attempts[o] < MaxAttempts}
Eligible == {o \in Orders : status[o] = "pending" /\ attempts[o] < MaxAttempts}
\* ORDER BY id ASC LIMIT n (every row is inserted with priority 0)
FirstRows(n, S) == {o \in S : Cardinality({p \in S : p < o}) < n}
Oldest(S, o) == o \in S /\ \A p \in S : o <= p

\* Mutant: a new id for every attempt.
ClientOidOfAttempt(o, phase) == <<o, phase, attempts[o]>>

\* The id sent with an exchange order depends on row and phase, not on the attempt.
ClientOid(o, phase) == <<o, phase>>

\* What the exchange may do with an order: accept it, or refuse it. Only a
\* deduplicating exchange is certain to refuse an id it has seen.
Submit(o, phase, accepted) ==
  /\ accepted => ~(Deduplicates /\ ClientOid(o, phase) \in seen)
  /\ placed' = IF accepted THEN [placed EXCEPT ![o] = @ + 1] ELSE placed
  /\ seen' = IF accepted THEN seen \cup {ClientOid(o, phase)} ELSE seen

-----------------------------------------------------------------------------
(* The environment *)

\* A strategy enqueues the next row; its execution_mode is signal or live.
Enqueue(o) ==
  /\ status[o] = "absent" /\ \A p \in Orders : p < o => status[p] # "absent"
  /\ status' = [status EXCEPT ![o] = "pending"]
  /\ UNCHANGED <<attempts, live, stale, exchange, recorded, threads, faults, snatched>>

\* stale_processing_sec pass without an update of a processing row.
Age(o) ==
  /\ status[o] = "processing" /\ o \notin stale
  /\ stale' = stale \cup {o}
  /\ UNCHANGED <<status, attempts, live, exchange, recorded, threads, faults, snatched>>

\* The process dies and its worker starts over.
Crash(w) ==
  /\ pc[w] # "idle" /\ Fault
  /\ Abandon(w)
  /\ UNCHANGED <<rows, exchange, recorded, snatched>>

-----------------------------------------------------------------------------
(* One tick of a worker *)

\* _fetch_pending_orders, first transaction: reclaim stale processing rows.
Requeue(w) ==
  /\ pc[w] = "idle"
  /\ status' = [o \in Orders |-> IF o \in Requeueable THEN "pending" ELSE status[o]]
  /\ stale' = stale \ Requeueable
  /\ snatched' = snatched \cup {o \in Requeueable : \E v \in Workers : Holding(v, o)}
  /\ Goto(w, "select")
  /\ UNCHANGED <<attempts, live, exchange, recorded, batch, cur, route, got, faults>>

\* _fetch_pending_orders, second transaction: the rows of this tick.
Select(w) ==
  /\ pc[w] = "select"
  /\ batch' = [batch EXCEPT ![w] = FirstRows(BatchSize, Eligible)]
  /\ Goto(w, "loop")
  /\ UNCHANGED <<rows, exchange, recorded, cur, route, got, faults, snatched>>

\* Either transaction fails: _fetch_pending_orders returns no row.
SelectFails(w) ==
  /\ pc[w] = "select" /\ Fault
  /\ Abandon(w)
  /\ UNCHANGED <<rows, exchange, recorded, snatched>>

EndBatch(w) ==
  /\ pc[w] = "loop" /\ batch[w] = {}
  /\ Abandon(w)
  /\ UNCHANGED <<rows, exchange, recorded, faults, snatched>>

\* The UPDATE of _mark_processing, effective only on a row still pending.
ClaimRow(o) ==
  /\ status' = [status EXCEPT ![o] = "processing"]
  /\ attempts' = [attempts EXCEPT ![o] = @ + 1]
  /\ stale' = stale \ {o}
\* Mutant: the UPDATE does not look at the status.
ClaimableAlways(o) == TRUE
Claimable(o) == status[o] = "pending"

Claim(w, o) ==
  /\ pc[w] = "loop" /\ Oldest(batch[w], o) /\ Claimable(o)
  /\ ClaimRow(o)
  /\ batch' = [batch EXCEPT ![w] = @ \ {o}]
  /\ cur' = [cur EXCEPT ![w] = o]
  /\ Goto(w, "dispatch")
  /\ UNCHANGED <<live, exchange, recorded, route, got, faults, snatched>>

\* No row changed: another worker was first, or the row is settled.
Skip(w, o) ==
  /\ pc[w] = "loop" /\ Oldest(batch[w], o) /\ ~Claimable(o)
  /\ batch' = [batch EXCEPT ![w] = @ \ {o}]
  /\ UNCHANGED <<rows, exchange, recorded, pc, cur, route, got, faults, snatched>>

\* _mark_processing raises: the worker skips the row, whether or not the
\* commit took effect.
ClaimFails(w, o) ==
  /\ pc[w] = "loop" /\ Oldest(batch[w], o) /\ Fault
  /\ batch' = [batch EXCEPT ![w] = @ \ {o}]
  /\ \/ UNCHANGED <<status, attempts, stale>>
     \/ Claimable(o) /\ ClaimRow(o)
  /\ UNCHANGED <<live, exchange, recorded, pc, cur, route, got, snatched>>

-----------------------------------------------------------------------------
(* Dispatch of the claimed row *)

\* Mutant: the execution mode of the row is ignored.
DispatchAnyRoute(w, r) ==
  /\ pc[w] = "dispatch"
  /\ route' = [route EXCEPT ![w] = r]
  /\ Goto(w, r)
  /\ UNCHANGED <<rows, exchange, recorded, batch, cur, got, faults, snatched>>

\* _dispatch_one: a signal row is executed live when its strategy now is live.
Dispatch(w, r) ==
  /\ pc[w] = "dispatch" /\ (cur[w] \in live => r # "signal")
  /\ route' = [route EXCEPT ![w] = r]
  /\ Goto(w, r)
  /\ UNCHANGED <<rows, exchange, recorded, batch, cur, got, faults, snatched>>

\* A check before the first exchange order fails or raises, or no channel
\* could be notified.
Refuse(w) ==
  /\ pc[w] = "dispatch" \/ pc[w] = route[w]
  /\ Goto(w, "markfailed")
  /\ UNCHANGED <<rows, exchange, recorded, batch, cur, route, got, faults, snatched>>

\* notify_signal: some channel delivered (none delivered: Refuse).
Notify(w) ==
  /\ pc[w] = "signal"
  /\ Goto(w, "marksent")
  /\ UNCHANGED <<rows, exchange, recorded, batch, cur, route, got, faults, snatched>>

\* Phase 1: place the limit order, wait for fills, cancel the rest. Any error,
\* also one raised after the exchange took the order, falls through to phase 2;
\* a rest below the exchange's minimum is not chased.
LimitPhase(w) ==
  /\ pc[w] = "maker"
  /\ \E accepted \in BOOLEAN, reply \in {"full", "part", "none", "error"} :
       /\ accepted \/ reply = "error"
       /\ Submit(cur[w], "lmt", accepted)
       /\ got' = IF reply \in {"full", "part"} THEN got \cup {w} ELSE got \ {w}
       /\ \/ Goto(w, "market") /\ reply # "full"
          \/ Goto(w, "marksent") /\ reply # "error"
  /\ UNCHANGED <<rows, recorded, batch, cur, route, faults, snatched>>

\* Phase 2: market order for what remains. A LiveTradingError after a partial
\* limit fill counts as partial success, any other error fails the row.
MarketPhase(w) ==
  /\ pc[w] = "market"
  /\ \E accepted \in BOOLEAN, reply \in {"ok", "refused", "error"} :
       /\ accepted \/ reply # "ok"
       /\ Submit(cur[w], "mkt", accepted)
       /\ Goto(w, IF reply = "ok" \/ (reply = "refused" /\ w \in got)
                     THEN "marksent" ELSE "markfailed")
  /\ UNCHANGED <<rows, recorded, batch, cur, route, got, faults, snatched>>

\* IBKR and MT5: one market order without a client order id.
BrokerOrder(w) ==
  /\ pc[w] = "broker"
  /\ \E accepted \in BOOLEAN, reply \in {"ok", "error"} :
       /\ accepted \/ reply # "ok"
       /\ placed' = IF accepted THEN [placed EXCEPT ![cur[w]] = @ + 1] ELSE placed
       /\ Goto(w, IF reply = "ok" THEN "marksent" ELSE "markfailed")
  /\ UNCHANGED <<rows, seen, recorded, batch, cur, route, got, faults, snatched>>

\* _mark_sent and _mark_failed update the row by id, whatever its status.
Settle(o, s) ==
  /\ status' = [status EXCEPT ![o] = s]
  /\ stale' = stale \ {o}
  /\ UNCHANGED <<attempts, live>>

MarkSent(w) ==
  /\ pc[w] = "marksent"
  /\ Settle(cur[w], "sent")
  /\ IF route[w] = "signal" THEN Release(w)
     ELSE Goto(w, "record") /\ UNCHANGED <<cur, route, got>>
  /\ UNCHANGED <<exchange, recorded, batch, faults, snatched>>

\* _mark_sent raises, with or without effect: the live path logs it and goes
\* on to record the trade, the other two fail the row.
MarkSentFails(w) ==
  /\ pc[w] = "marksent" /\ Fault
  /\ UNCHANGED rows \/ Settle(cur[w], "sent")
  /\ Goto(w, IF route[w] \in {"signal", "broker"} THEN "markfailed" ELSE "record")
  /\ UNCHANGED <<exchange, recorded, batch, cur, route, got, snatched>>

Record(w) ==
  /\ pc[w] = "record"
  /\ recorded' = [recorded EXCEPT ![cur[w]] = @ + 1]
  /\ Release(w)
  /\ UNCHANGED <<rows, exchange, batch, faults, snatched>>

\* Mutant: an error of the bookkeeping fails the row.
RecordFailsRow(w) ==
  /\ pc[w] = "record" /\ Fault
  /\ Goto(w, "markfailed")
  /\ UNCHANGED <<rows, exchange, recorded, batch, cur, route, got, snatched>>

\* apply_fill_to_local_position or record_trade raises: logged and forgotten.
RecordFails(w) ==
  /\ pc[w] = "record" /\ Fault
  /\ Release(w)
  /\ UNCHANGED <<rows, exchange, recorded, batch, snatched>>

MarkFailed(w) ==
  /\ pc[w] = "markfailed"
  /\ Settle(cur[w], "failed")
  /\ Release(w)
  /\ UNCHANGED <<exchange, recorded, batch, faults, snatched>>

\* _mark_failed raises, with or without effect: once more if it was called
\* under the handler of _tick, else out of _tick, and the batch is dropped.
MarkFailedFails(w) ==
  /\ pc[w] = "markfailed" /\ Fault
  /\ UNCHANGED rows \/ Settle(cur[w], "failed")
  /\ Abandon(w) \/ UNCHANGED threads
  /\ UNCHANGED <<exchange, recorded, snatched>>

-----------------------------------------------------------------------------
Tick(w) ==
  \/ Requeue(w) \/ Select(w) \/ EndBatch(w)
  \/ \E o \in Orders : Claim(w, o) \/ Skip(w, o)
  \/ \E r \in Routes : Dispatch(w, r)
  \/ Refuse(w) \/ Notify(w) \/ LimitPhase(w) \/ MarketPhase(w) \/ BrokerOrder(w)
  \/ MarkSent(w) \/ Record(w) \/ MarkFailed(w)

Faulty(w) ==
  \/ Crash(w) \/ SelectFails(w) \/ (\E o \in Orders : ClaimFails(w, o))
  \/ MarkSentFails(w) \/ RecordFails(w) \/ MarkFailedFails(w)

Next ==
  \/ \E o \in Orders : Enqueue(o) \/ Age(o)
  \/ \E w \in Workers : Tick(w) \/ Faulty(w)

Spec == Init /\ [][Next]_vars

\* Worker threads keep running and time keeps passing; nobody has to enqueue.
FairSpec ==
  Spec /\ (\A w \in Workers : WF_vars(Tick(w))) /\ (\A o \in Orders : WF_vars(Age(o)))
-----------------------------------------------------------------------------
(* Properties *)

\* A worker has a row in hand exactly while it works on it.
WorkerConsistent ==
  /\ \A w \in Workers : pc[w] \in Working <=> cur[w] \in Orders
  /\ \A w \in Workers : cur[w] \in Orders => status[cur[w]] # "absent"
  /\ \A w \in Workers : \A o \in batch[w] : status[o] # "absent"

\* Requeueing and the SELECT agree on the attempts: no row is pending that the
\* attempts filter of the SELECT would hide for ever.
PendingEligible ==
  \A o \in Orders : status[o] \in {"absent", "pending"} => attempts[o] < MaxAttempts

\* A worker reports success on a live row only after the exchange took an
\* order for it in this dispatch (got), or the row needs none.
LiveBacked ==
  \A w \in Workers :
    /\ pc[w] = "signal" => cur[w] \notin live
    /\ pc[w] = "marksent" => placed[cur[w]] > 0 \/ cur[w] \notin live
    /\ w \in got => pc[w] \in Working /\ placed[cur[w]] > 0

\* "Only claim if still pending to avoid double-processing"
\* (pending_order_worker.py:689): no two workers ever work on one row.
NoDoubleProcessing ==
  \A o \in Orders : \A w, v \in Workers : Holding(w, o) /\ Holding(v, o) => w = v

\* Two workers have a row in hand only after it was requeued under one of them:
\* neither racing claims nor crashes and requeueing what they left bring it about.
DoubleOnlyIfSnatched ==
  \A o \in Orders \ snatched : \A w, v \in Workers : Holding(w, o) /\ Holding(v, o) => w = v

\* A row enqueued for live execution is reported sent only if the exchange
\* accepted at least one order for it, whatever crashed or was retried.
SentMeansPlaced ==
  \A o \in Orders : o \in live /\ status[o] = "sent" => placed[o] > 0

\* On an exchange that refuses a known client order id, a row executed as a
\* plain market order is booked at most once, however often it is redispatched.
BookedOnce ==
  Deduplicates /\ Routes \subseteq {"signal", "market"}
    => \A o \in Orders : recorded[o] <= 1 /\ placed[o] <= 1

\* A settled row is never taken up again.
SettledForGood ==
  [][\A o \in Orders : status[o] \in Settled => status'[o] \in Settled]_vars

\* With one worker and crypto exchanges the verdict on a live row is final too:
\* no error of the bookkeeping after the fill turns sent into failed.
VerdictFinal ==
  [][\A o \in live : status[o] \in Settled => status'[o] = status[o]]_vars

\* Every pending row is eventually taken up, also when others keep coming.
PendingTaken == \A o \in Orders : (status[o] = "pending") ~> (status[o] # "pending")

\* A row being processed is settled in the end, unless its last attempt was
\* lost: requeue_stale skips rows without attempts left, and they stay put.
ProcessingResolved ==
  \A o \in Orders : (status[o] = "processing")
     ~> (status[o] \in Settled \/ attempts[o] = MaxAttempts)

\* No row waits for ever, neither in front of the workers nor behind one that
\* is gone.
RowsMoveOn == PendingTaken /\ ProcessingResolved

\* What the queue promises, stated without workers: OrderLifecycle.
Lifecycle == INSTANCE OrderLifecycle
  WITH Rows <- Orders, Limit <- MaxAttempts, phase <- status, taken <- attempts
LifecycleSpec == Lifecycle!Spec

\* The inductive invariant behind SentMeansPlaced and the refinement.
QueueInv == TypeOK /\ WorkerConsistent /\ PendingEligible /\ LiveBacked /\ SentMeansPlaced

=============================================================================
