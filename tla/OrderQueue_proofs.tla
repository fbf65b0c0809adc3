-------------------------- MODULE OrderQueue_proofs --------------------------
(***************************************************************************)
(* What holds of the order queue for every set of rows and workers, every  *)
(* bound and every setting: the inductive invariant, the promise that a    *)
(* live row reported sent reached the exchange, the refinement of the row  *)
(* life cycle, and exclusive processing of rows not requeued under a worker.*)
(***************************************************************************)
EXTENDS OrderQueue, TLAPS

\* The initial state satisfies the inductive invariant.
LEMMA InitInv == Init => QueueInv
<1> SUFFICES ASSUME Init PROVE QueueInv
  OBVIOUS
<1>1. TypeOK
  BY BoundsAssumption DEF Init, TypeOK, Statuses, Stages, AllRoutes
<1>2. WorkerConsistent /\ PendingEligible /\ LiveBacked /\ SentMeansPlaced
  BY OrdersAssumption, BoundsAssumption
  DEF Init, WorkerConsistent, PendingEligible, LiveBacked, SentMeansPlaced, Working
<1> QED BY <1>1, <1>2 DEF QueueInv

\* Steps of the environment: enqueueing and the passing of time.
LEMMA EnvironmentStep ==
  ASSUME QueueInv, NEW o \in Orders, Enqueue(o) \/ Age(o)
  PROVE  QueueInv'
<1>1. CASE Enqueue(o)
  BY <1>1, BoundsAssumption
  DEF QueueInv, Enqueue, TypeOK, WorkerConsistent, PendingEligible, LiveBacked,
      SentMeansPlaced, Statuses, exchange, threads
<1>2. CASE Age(o)
  BY <1>2
  DEF QueueInv, Age, TypeOK, WorkerConsistent, PendingEligible, LiveBacked,
      SentMeansPlaced, exchange, threads
<1> QED BY <1>1, <1>2

\* What writing a verdict on a row, or failing to, leaves true of the rows.
RowsKept ==
  /\ status' \in [Orders -> Statuses] /\ stale' \subseteq Orders
  /\ attempts' = attempts /\ live' = live
  /\ \A o \in Orders : status[o] # "absent" => status'[o] # "absent"
  /\ \A o \in Orders : status'[o] \in {"absent", "pending"} => status'[o] = status[o]
  /\ \A o \in Orders : o \in live /\ status'[o] = "sent" => placed[o] > 0

LEMMA SettleKeepsRows ==
  ASSUME QueueInv, NEW o \in Orders, NEW verdict \in Settled, status[o] # "absent",
         verdict = "sent" => placed[o] > 0 \/ o \notin live,
         UNCHANGED rows \/ Settle(o, verdict)
  PROVE  RowsKept
<1> USE DEF QueueInv, TypeOK, SentMeansPlaced, Statuses, Settled, RowsKept
<1>1. CASE UNCHANGED rows
  BY <1>1 DEF rows
<1>2. CASE Settle(o, verdict)
  BY <1>2 DEF Settle
<1> QED BY <1>1, <1>2

\* Every step of a worker, also a failing one, preserves the invariant.
LEMMA WorkerStep ==
  ASSUME QueueInv, NEW w \in Workers, Tick(w) \/ Faulty(w)
  PROVE  QueueInv'
<1> USE OrdersAssumption, RoutesAssumption, BoundsAssumption
    DEF QueueInv, TypeOK, WorkerConsistent, PendingEligible, LiveBacked, SentMeansPlaced,
        Statuses, Stages, Working, AllRoutes, rows, exchange, threads
<1>1. CASE Requeue(w)
  BY <1>1 DEF Requeue, Requeueable, Goto
<1>2. CASE Select(w)
  BY <1>2 DEF Select, FirstRows, Eligible, Goto
<1>3. CASE SelectFails(w)
  BY <1>3 DEF SelectFails, Abandon, Goto, Fault
<1>4. CASE EndBatch(w)
  BY <1>4 DEF EndBatch, Abandon, Goto
<1>5. CASE Crash(w)
  BY <1>5 DEF Crash, Abandon, Goto, Fault
<1>6. CASE \E o \in Orders : Claim(w, o)
  BY <1>6 DEF Claim, ClaimRow, Claimable, Oldest, Goto
<1>7. CASE \E o \in Orders : Skip(w, o)
  BY <1>7 DEF Skip, Oldest
<1>8. CASE \E o \in Orders : ClaimFails(w, o)
  <2> SUFFICES ASSUME NEW o \in Orders, ClaimFails(w, o) PROVE QueueInv'
    BY <1>8
  <2>1. CASE UNCHANGED <<status, attempts, stale>>
    BY <2>1 DEF ClaimFails, Fault
  <2>2. CASE Claimable(o) /\ ClaimRow(o)
    BY <2>2 DEF ClaimFails, ClaimRow, Claimable, Fault
  <2> QED BY <2>1, <2>2 DEF ClaimFails
<1>9. CASE \E r \in Routes : Dispatch(w, r)
  BY <1>9 DEF Dispatch, Goto, AllRoutes
<1>10. CASE Refuse(w)
  BY <1>10 DEF Refuse, Goto
<1>11. CASE Notify(w)
  BY <1>11 DEF Notify, Goto
<1>12. CASE LimitPhase(w)
  <2>1. cur[w] \in Orders /\ placed[cur[w]] \in Nat
    BY <1>12 DEF LimitPhase
  <2>2. PICK k \in Nat : placed' = [placed EXCEPT ![cur[w]] = k] /\ k >= placed[cur[w]]
    <3>1. placed' = placed \/ placed' = [placed EXCEPT ![cur[w]] = @ + 1]
      BY <1>12 DEF LimitPhase, Submit
    <3>2. placed = [placed EXCEPT ![cur[w]] = placed[cur[w]]]
      BY <2>1
    <3> QED BY <2>1, <3>1, <3>2
  <2>3. TypeOK'
    BY <1>12, <2>1, <2>2 DEF LimitPhase, Goto
  <2>4. (WorkerConsistent /\ PendingEligible /\ SentMeansPlaced)'
    BY <1>12, <2>1, <2>2 DEF LimitPhase, Goto
  <2>5. LiveBacked'
    BY <1>12, <2>1, <2>2 DEF LimitPhase, Submit, Goto
  <2> QED BY <2>3, <2>4, <2>5
<1>13. CASE MarketPhase(w)
  <2>1. cur[w] \in Orders /\ placed[cur[w]] \in Nat
    BY <1>13 DEF MarketPhase
  <2>2. PICK k \in Nat : placed' = [placed EXCEPT ![cur[w]] = k] /\ k >= placed[cur[w]]
    <3>1. placed' = placed \/ placed' = [placed EXCEPT ![cur[w]] = @ + 1]
      BY <1>13 DEF MarketPhase, Submit
    <3>2. placed = [placed EXCEPT ![cur[w]] = placed[cur[w]]]
      BY <2>1
    <3> QED BY <2>1, <3>1, <3>2
  <2>3. TypeOK'
    BY <1>13, <2>1, <2>2 DEF MarketPhase, Goto
  <2>4. (WorkerConsistent /\ PendingEligible /\ SentMeansPlaced)'
    BY <1>13, <2>1, <2>2 DEF MarketPhase, Goto
  <2>5. LiveBacked'
    BY <1>13, <2>1, <2>2 DEF MarketPhase, Submit, Goto
  <2> QED BY <2>3, <2>4, <2>5
<1>14. CASE BrokerOrder(w)
  <2>1. cur[w] \in Orders /\ placed[cur[w]] \in Nat
    BY <1>14 DEF BrokerOrder
  <2>2. PICK k \in Nat : placed' = [placed EXCEPT ![cur[w]] = k] /\ k >= placed[cur[w]]
    <3>1. placed' = placed \/ placed' = [placed EXCEPT ![cur[w]] = @ + 1]
      BY <1>14 DEF BrokerOrder
    <3>2. placed = [placed EXCEPT ![cur[w]] = placed[cur[w]]]
      BY <2>1
    <3> QED BY <2>1, <3>1, <3>2
  <2>3. TypeOK'
    BY <1>14, <2>1, <2>2 DEF BrokerOrder, Goto
  <2>4. (WorkerConsistent /\ PendingEligible /\ SentMeansPlaced)'
    BY <1>14, <2>1, <2>2 DEF BrokerOrder, Goto
  <2>5. LiveBacked'
    BY <1>14, <2>1, <2>2 DEF BrokerOrder, Goto
  <2> QED BY <2>3, <2>4, <2>5
<1>15. CASE MarkSent(w)
  <2>1. cur[w] \in Orders
    BY <1>15 DEF MarkSent
  <2>2. TypeOK' /\ SentMeansPlaced'
    BY <1>15, <2>1 DEF MarkSent, Settle, Release, Goto
  <2>3. WorkerConsistent' /\ PendingEligible' /\ LiveBacked'
    BY <1>15, <2>1 DEF MarkSent, Settle, Release, Goto
  <2> QED BY <2>2, <2>3
<1>16. CASE MarkSentFails(w)
  <2>1. cur[w] \in Orders /\ (UNCHANGED rows \/ Settle(cur[w], "sent"))
    BY <1>16 DEF MarkSentFails
  <2>2. RowsKept
    BY <1>16, <2>1, SettleKeepsRows DEF MarkSentFails, Settled
  <2>3. TypeOK'
    BY <1>16, <2>2 DEF RowsKept, MarkSentFails, Goto, Fault
  <2>4. WorkerConsistent'
    <3>1. \A v \in Workers : pc'[v] \in Working <=> cur'[v] \in Orders
      BY <1>16, <2>2 DEF MarkSentFails, Goto
    <3>2. \A v \in Workers : cur'[v] \in Orders => status'[cur'[v]] # "absent"
      BY <1>16, <2>2 DEF RowsKept, MarkSentFails
    <3>3. \A v \in Workers : \A o \in batch'[v] : o \in Orders /\ status'[o] # "absent"
      BY <1>16, <2>2 DEF RowsKept, MarkSentFails
    <3> QED BY <3>1, <3>2, <3>3
  <2>5. PendingEligible' /\ SentMeansPlaced'
    BY <1>16, <2>2 DEF RowsKept, MarkSentFails
  <2>6. LiveBacked'
    BY <1>16, <2>2 DEF RowsKept, MarkSentFails, Goto
  <2> QED BY <2>3, <2>4, <2>5, <2>6
<1>17. CASE Record(w)
  <2>1. cur[w] \in Orders /\ recorded[cur[w]] \in Nat
    BY <1>17 DEF Record
  <2>2. TypeOK'
    BY <1>17, <2>1 DEF Record, Release, Goto
  <2>3. (WorkerConsistent /\ PendingEligible /\ LiveBacked /\ SentMeansPlaced)'
    BY <1>17, <2>1 DEF Record, Release, Goto
  <2> QED BY <2>2, <2>3
<1>18. CASE RecordFails(w)
  BY <1>18 DEF RecordFails, Release, Goto, Fault
<1>19. CASE MarkFailed(w)
  BY <1>19 DEF MarkFailed, Settle, Release, Goto
<1>20. CASE MarkFailedFails(w)
  <2>1. cur[w] \in Orders /\ (UNCHANGED rows \/ Settle(cur[w], "failed"))
    BY <1>20 DEF MarkFailedFails
  <2>2. RowsKept
    BY <1>20, <2>1, SettleKeepsRows DEF MarkFailedFails, Settled
  <2>3. PendingEligible' /\ SentMeansPlaced'
    BY <1>20, <2>2 DEF RowsKept, MarkFailedFails
  <2>4. CASE Abandon(w)
    <3>1. TypeOK'
      BY <1>20, <2>2, <2>4 DEF RowsKept, MarkFailedFails, Abandon, Goto, Fault
    <3>2. WorkerConsistent'
      <4>1. \A v \in Workers : pc'[v] \in Working <=> cur'[v] \in Orders
        BY <1>20, <2>2, <2>4 DEF MarkFailedFails, Abandon, Goto
      <4>2. \A v \in Workers : cur'[v] \in Orders => status'[cur'[v]] # "absent"
        BY <1>20, <2>2, <2>4 DEF RowsKept, MarkFailedFails, Abandon
      <4>3. \A v \in Workers : \A o \in batch'[v] : o \in Orders /\ status'[o] # "absent"
        BY <1>20, <2>2, <2>4 DEF RowsKept, MarkFailedFails, Abandon
      <4> QED BY <4>1, <4>2, <4>3
    <3>3. LiveBacked'
      BY <1>20, <2>2, <2>4 DEF RowsKept, MarkFailedFails, Abandon, Goto
    <3> QED BY <2>3, <3>1, <3>2, <3>3
  <2>5. CASE UNCHANGED threads
    <3>1. TypeOK'
      BY <1>20, <2>2, <2>5 DEF RowsKept, MarkFailedFails, Fault
    <3>2. WorkerConsistent'
      BY <1>20, <2>2, <2>5 DEF RowsKept, MarkFailedFails
    <3>3. LiveBacked'
      BY <1>20, <2>2, <2>5 DEF RowsKept, MarkFailedFails
    <3> QED BY <2>3, <3>1, <3>2, <3>3
  <2> QED BY <1>20, <2>4, <2>5 DEF MarkFailedFails
<1> QED
  BY <1>1, <1>2, <1>3, <1>4, <1>5, <1>6, <1>7, <1>8, <1>9, <1>10, <1>11, <1>12, <1>13, <1>14, <1>15, <1>16, <1>17, <1>18, <1>19, <1>20 DEF Tick, Faulty

\* In every reachable state, for all constants, the inductive invariant holds:
\* workers hold exactly what they work on, no pending row is hidden from the
\* SELECT, and no worker is about to report a live row sent without an order.
THEOREM Invariance == Spec => []QueueInv
<1>1. QueueInv /\ [Next]_vars => QueueInv'
  <2> SUFFICES ASSUME QueueInv, [Next]_vars PROVE QueueInv'
    OBVIOUS
  <2>1. CASE UNCHANGED vars
    BY <2>1 DEF vars, rows, exchange, threads, QueueInv, TypeOK, WorkerConsistent,
                PendingEligible, LiveBacked, SentMeansPlaced
  <2>2. CASE \E o \in Orders : Enqueue(o) \/ Age(o)
    BY <2>2, EnvironmentStep
  <2>3. CASE \E w \in Workers : Tick(w) \/ Faulty(w)
    BY <2>3, WorkerStep
  <2> QED BY <2>1, <2>2, <2>3 DEF Next
<1> QED BY <1>1, InitInv, PTL DEF Spec

\* A row enqueued for live execution is reported sent only if the exchange
\* accepted an order for it, with any number of workers, crashes and retries.
THEOREM LiveSentIsPlaced == Spec => []SentMeansPlaced
<1>1. QueueInv => SentMeansPlaced
  BY DEF QueueInv
<1> QED BY <1>1, Invariance, PTL

-----------------------------------------------------------------------------
(* The queue implements the life cycle of a row *)

\* Steps that leave status and attempts alone are stuttering steps of the
\* life cycle; the others each map to one of its actions.
LEMMA LifecycleStep ==
  ASSUME QueueInv, [Next]_vars
  PROVE  [Lifecycle!Next]_Lifecycle!vars
<1> USE DEF QueueInv, TypeOK, WorkerConsistent, PendingEligible, Lifecycle!vars, rows
<1>1. CASE UNCHANGED vars
  BY <1>1 DEF vars
<1>2. CASE \E o \in Orders : Enqueue(o) \/ Age(o)
  BY <1>2 DEF Enqueue, Age, Lifecycle!Next, Lifecycle!Insert
<1>3. CASE \E w \in Workers : Tick(w) \/ Faulty(w)
  <2> PICK w \in Workers : Tick(w) \/ Faulty(w)
    BY <1>3
  <2>1. CASE Requeue(w)
    <3>1. Requeueable \in SUBSET Orders /\ Lifecycle!HandBack(Requeueable)
      BY <2>1 DEF Requeue, Requeueable, Lifecycle!HandBack
    <3> QED BY <3>1 DEF Lifecycle!Next
  <2>2. ASSUME NEW o \in Orders, Claim(w, o) \/ ClaimFails(w, o)
        PROVE  UNCHANGED <<status, attempts>> \/ Lifecycle!Take(o)
    BY <2>2 DEF Claim, ClaimFails, ClaimRow, Claimable, Lifecycle!Take
  <2>3. CASE MarkSent(w) \/ MarkSentFails(w) \/ MarkFailed(w) \/ MarkFailedFails(w)
    <3>1. cur[w] \in Orders
      BY <2>3 DEF MarkSent, MarkSentFails, MarkFailed, MarkFailedFails, Working, Stages
    <3>2. \/ UNCHANGED rows
          \/ Lifecycle!Close(cur[w], "sent") \/ Lifecycle!Close(cur[w], "failed")
      BY <2>3, <3>1
      DEF MarkSent, MarkSentFails, MarkFailed, MarkFailedFails, Settle, Lifecycle!Close
    <3> QED
      BY <3>1, <3>2 DEF Lifecycle!Next
  <2>4. CASE \/ Select(w) \/ EndBatch(w) \/ Refuse(w) \/ Notify(w) \/ Record(w)
             \/ Crash(w) \/ SelectFails(w) \/ RecordFails(w)
    BY <2>4 DEF Select, EndBatch, Refuse, Notify, Record, Crash, SelectFails, RecordFails
  <2>5. CASE LimitPhase(w) \/ MarketPhase(w) \/ BrokerOrder(w)
    BY <2>5 DEF LimitPhase, MarketPhase, BrokerOrder
  <2>6. CASE (\E o \in Orders : Skip(w, o)) \/ (\E r \in Routes : Dispatch(w, r))
    BY <2>6 DEF Skip, Dispatch
  <2> QED
    BY <2>1, <2>2, <2>3, <2>4, <2>5, <2>6 DEF Tick, Faulty, Lifecycle!Next
<1> QED BY <1>1, <1>2, <1>3 DEF Next

\* Whatever the workers do, a row is inserted once, taken at most MaxAttempts
\* times, handed back only with attempts left, and never reopened once settled.
THEOREM Refinement == Spec => LifecycleSpec
<1>1. Init => Lifecycle!Init
  BY DEF Init, Lifecycle!Init
<1>2. QueueInv /\ [Next]_vars => [Lifecycle!Next]_Lifecycle!vars
  BY LifecycleStep
<1> QED BY <1>1, <1>2, Invariance, PTL DEF Spec, LifecycleSpec, Lifecycle!Spec

\* A settled row is never taken up again: no step of the life cycle does it.
THEOREM SettledStays == Spec => SettledForGood
<1>1. QueueInv /\ [Next]_vars
        => [\A o \in Orders : status[o] \in Settled => status'[o] \in Settled]_vars
  <2> SUFFICES ASSUME QueueInv, Next, NEW o \in Orders, status[o] \in Settled
               PROVE  status'[o] \in Settled
    OBVIOUS
  <2>1. Lifecycle!Next \/ UNCHANGED Lifecycle!vars
    BY LifecycleStep
  <2> QED
    BY <2>1 DEF QueueInv, TypeOK, Settled, Lifecycle!Next, Lifecycle!Insert, Lifecycle!Take,
                Lifecycle!HandBack, Lifecycle!Close, Lifecycle!vars
<1> QED BY <1>1, Invariance, PTL DEF Spec, SettledForGood

-----------------------------------------------------------------------------
(* Exclusive processing *)

\* A row somebody holds has left the pending state, unless it was snatched, and
\* has one holder.
HeldIsTaken ==
  /\ \A w \in Workers, o \in Orders \ snatched :
       Holding(w, o) => status[o] \notin {"absent", "pending"}
  /\ DoubleOnlyIfSnatched

\* The conditional UPDATE of _mark_processing is enough for exclusive processing
\* as long as no row is requeued under its worker: any number of workers, crashes,
\* failing statements, and rows requeued after their worker let go of them.
THEOREM ExclusiveUnlessSnatched == Spec => []DoubleOnlyIfSnatched
<1> USE DEF QueueInv, TypeOK, WorkerConsistent, HeldIsTaken, DoubleOnlyIfSnatched, Holding
<1>1. Init => HeldIsTaken
  BY OrdersAssumption DEF Init, Working
<1>2. QueueInv /\ HeldIsTaken /\ [Next]_vars => HeldIsTaken'
  <2> SUFFICES ASSUME QueueInv, HeldIsTaken, [Next]_vars PROVE HeldIsTaken'
    OBVIOUS
  <2>1. CASE UNCHANGED vars
    BY <2>1 DEF vars, rows, threads
  <2>2. CASE \E o \in Orders : Enqueue(o) \/ Age(o)
    BY <2>2 DEF Enqueue, Age, threads
  <2>3. CASE \E w \in Workers : Tick(w) \/ Faulty(w)
    <3> PICK w \in Workers : Tick(w) \/ Faulty(w)
      BY <2>3
    <3> USE DEF rows, threads, Goto, Abandon, Release, Working, Stages
    <3>1. CASE Requeue(w)
      BY <3>1 DEF Requeue, Requeueable
    <3>2. CASE \E o \in Orders : Claim(w, o)
      BY <3>2 DEF Claim, ClaimRow, Claimable
    <3>3. CASE \E o \in Orders : ClaimFails(w, o)
      BY <3>3 DEF ClaimFails, ClaimRow, Claimable
    <3>4. CASE MarkSent(w) \/ MarkFailed(w)
      BY <3>4 DEF MarkSent, MarkFailed, Settle
    <3>9. CASE MarkSentFails(w) \/ MarkFailedFails(w)
      <4>1. \A o \in Orders : status'[o] = status[o] \/ status'[o] \in {"sent", "failed"}
        BY <3>9 DEF MarkSentFails, MarkFailedFails, Settle
      <4>2. \A v \in Workers, o \in Orders : Holding(v, o)' => Holding(v, o)
        <5>1. CASE MarkSentFails(w)
          BY <5>1 DEF MarkSentFails
        <5>2. CASE MarkFailedFails(w) /\ Abandon(w)
          BY <5>2, OrdersAssumption DEF MarkFailedFails
        <5>3. CASE UNCHANGED threads
          BY <5>3
        <5> QED BY <3>9, <5>1, <5>2, <5>3 DEF MarkFailedFails
      <4>3. \A v \in Workers, o \in Orders :
              o \notin snatched' /\ Holding(v, o)' => status'[o] \notin {"absent", "pending"}
        BY <3>9, <4>1, <4>2 DEF MarkSentFails, MarkFailedFails
      <4>4. \A o \in Orders : \A v, u \in Workers :
              o \notin snatched' /\ Holding(v, o)' /\ Holding(u, o)' => v = u
        BY <3>9, <4>2 DEF MarkSentFails, MarkFailedFails
      <4> QED BY <4>3, <4>4
    <3>5. CASE \/ Select(w) \/ EndBatch(w) \/ Crash(w) \/ SelectFails(w)
               \/ Record(w) \/ RecordFails(w)
      BY <3>5, OrdersAssumption
      DEF Select, EndBatch, Crash, SelectFails, Record, RecordFails
    <3>6. CASE Refuse(w) \/ Notify(w)
      BY <3>6 DEF Refuse, Notify
    <3>7. CASE LimitPhase(w) \/ MarketPhase(w) \/ BrokerOrder(w)
      BY <3>7 DEF LimitPhase, MarketPhase, BrokerOrder
    <3>8. CASE (\E o \in Orders : Skip(w, o)) \/ (\E r \in Routes : Dispatch(w, r))
      BY <3>8, RoutesAssumption DEF Skip, Dispatch, AllRoutes
    <3> QED
      BY <3>1, <3>2, <3>3, <3>4, <3>5, <3>6, <3>7, <3>8, <3>9 DEF Tick, Faulty
  <2> QED BY <2>1, <2>2, <2>3 DEF Next
<1>3. HeldIsTaken => DoubleOnlyIfSnatched
  OBVIOUS
<1> QED BY <1>1, <1>2, <1>3, Invariance, PTL DEF Spec

-----------------------------------------------------------------------------
(* Rows executed as plain market orders *)

\* On these settings every dispatch that is going to be booked answers to the one
\* order the exchange ever accepted for its row, and is alone in that.
Deduplicated == Deduplicates /\ Routes \subseteq {"signal", "market"}
Booking(w, o) == cur[w] = o /\ pc[w] \in {"marksent", "record"} /\ route[w] # "signal"

OnPlainRoute ==
  /\ got = {}
  /\ \A w \in Workers :
       /\ pc[w] \notin {"maker", "broker"}
       /\ pc[w] = "signal" => route[w] = "signal"
       /\ pc[w] \in {"market", "record"} => route[w] # "signal"

OneOrderEach ==
  /\ \A o \in Orders : recorded[o] <= placed[o] /\ placed[o] <= 1
  /\ \A o \in Orders : placed[o] = 1 => ClientOid(o, "mkt") \in seen
  /\ \A w \in Workers, o \in Orders : Booking(w, o) => recorded[o] = 0 /\ placed[o] = 1
  /\ \A w, v \in Workers, o \in Orders : Booking(w, o) /\ Booking(v, o) => w = v

OnceInv == Deduplicated => OnPlainRoute /\ OneOrderEach

\* A worker's steps keep to the plain routes.
LEMMA RouteStep ==
  ASSUME QueueInv, Deduplicated, OnPlainRoute, NEW w \in Workers, Tick(w) \/ Faulty(w)
  PROVE  OnPlainRoute'
<1> USE DEF QueueInv, TypeOK, OnPlainRoute, Deduplicated, threads, Goto, Abandon, Release
<1>1. CASE \/ Requeue(w) \/ Select(w) \/ EndBatch(w) \/ Crash(w) \/ SelectFails(w)
  BY <1>1 DEF Requeue, Select, EndBatch, Crash, SelectFails
<1>2. CASE \E o \in Orders : Claim(w, o) \/ Skip(w, o) \/ ClaimFails(w, o)
  BY <1>2 DEF Claim, Skip, ClaimFails
<1>3. CASE \E r \in Routes : Dispatch(w, r)
  BY <1>3 DEF Dispatch
<1>4. CASE Refuse(w) \/ Notify(w) \/ LimitPhase(w) \/ BrokerOrder(w)
  BY <1>4 DEF Refuse, Notify, LimitPhase, BrokerOrder
<1>5. CASE MarketPhase(w)
  BY <1>5 DEF MarketPhase
<1>6. CASE MarkSent(w) \/ Record(w) \/ MarkFailed(w)
  BY <1>6 DEF MarkSent, Record, MarkFailed
<1>7. CASE MarkSentFails(w) \/ RecordFails(w) \/ MarkFailedFails(w)
  BY <1>7 DEF MarkSentFails, RecordFails, MarkFailedFails
<1> QED BY <1>1, <1>2, <1>3, <1>4, <1>5, <1>6, <1>7 DEF Tick, Faulty

\* A step that neither reaches the exchange nor books, and puts no worker before a
\* booking, leaves each row with its one order.
LEMMA QuietStep ==
  ASSUME OneOrderEach, UNCHANGED <<placed, seen, recorded>>,
         \A v \in Workers, o \in Orders : Booking(v, o)' => Booking(v, o)
  PROVE  OneOrderEach'
BY DEF OneOrderEach, ClientOid

LEMMA OrderStep ==
  ASSUME QueueInv, Deduplicated, OnPlainRoute, OneOrderEach,
         NEW w \in Workers, Tick(w) \/ Faulty(w)
  PROVE  OneOrderEach'
<1> USE OrdersAssumption
    DEF QueueInv, TypeOK, WorkerConsistent, OnPlainRoute, Deduplicated, Booking, Stages,
        Working, exchange, threads, Goto, Abandon, Release
<1>1. CASE \/ Requeue(w) \/ Select(w) \/ EndBatch(w) \/ Crash(w) \/ SelectFails(w)
  BY <1>1, QuietStep DEF Requeue, Select, EndBatch, Crash, SelectFails
<1>2. CASE \E o \in Orders : Claim(w, o) \/ Skip(w, o) \/ ClaimFails(w, o)
  BY <1>2, QuietStep DEF Claim, Skip, ClaimFails
<1>3. CASE \E r \in Routes : Dispatch(w, r)
  BY <1>3, QuietStep DEF Dispatch
<1>4. CASE Refuse(w) \/ Notify(w)
  BY <1>4, QuietStep DEF Refuse, Notify
<1>5. CASE MarkSent(w) \/ MarkFailed(w) \/ RecordFails(w)
  BY <1>5, QuietStep DEF MarkSent, MarkFailed, RecordFails
<1>6. CASE MarkSentFails(w) \/ MarkFailedFails(w)
  BY <1>6, QuietStep DEF MarkSentFails, MarkFailedFails
<1>7. CASE Record(w)
  <2>1. cur[w] \in Orders /\ Booking(w, cur[w])
    BY <1>7 DEF Record
  <2>2. recorded[cur[w]] = 0 /\ placed[cur[w]] = 1
    BY <2>1 DEF OneOrderEach
  <2>3. UNCHANGED <<placed, seen>> /\ recorded' = [recorded EXCEPT ![cur[w]] = 1]
    BY <1>7, <2>1, <2>2 DEF Record
  <2>4. \A v \in Workers, o \in Orders : Booking(v, o)' => v # w /\ Booking(v, o)
    BY <1>7 DEF Record
  <2>5. \A v \in Workers, o \in Orders : Booking(v, o)' => o # cur[w]
    BY <2>1, <2>4 DEF OneOrderEach
  <2> QED BY <2>1, <2>2, <2>3, <2>4, <2>5 DEF OneOrderEach, ClientOid
<1>8. CASE MarketPhase(w)
  <2>1. cur[w] \in Orders /\ route[w] # "signal"
    BY <1>8 DEF MarketPhase
  <2>2. PICK accepted \in BOOLEAN, reply \in {"ok", "refused", "error"} :
          /\ accepted \/ reply # "ok"
          /\ Submit(cur[w], "mkt", accepted)
          /\ Goto(w, IF reply = "ok" THEN "marksent" ELSE "markfailed")
    BY <1>8 DEF MarketPhase
  <2>3. CASE ~accepted
    <3>1. UNCHANGED <<placed, seen, recorded>>
      BY <1>8, <2>2, <2>3 DEF MarketPhase, Submit
    <3>2. \A v \in Workers, o \in Orders : Booking(v, o)' => Booking(v, o)
      BY <1>8, <2>2, <2>3 DEF MarketPhase
    <3> QED BY <3>1, <3>2, QuietStep
  <2>4. CASE accepted
    <3>1. ClientOid(cur[w], "mkt") \notin seen
      BY <2>2, <2>4 DEF Submit
    <3>2. placed[cur[w]] = 0 /\ recorded[cur[w]] = 0
      <4>1. placed[cur[w]] \in Nat /\ recorded[cur[w]] \in Nat
        BY <2>1
      <4>2. /\ placed[cur[w]] # 1 /\ placed[cur[w]] <= 1
            /\ recorded[cur[w]] <= placed[cur[w]]
        BY <2>1, <3>1 DEF OneOrderEach
      <4> QED BY <4>1, <4>2
    <3>3. /\ placed' = [placed EXCEPT ![cur[w]] = 1] /\ recorded' = recorded
          /\ seen' = seen \cup {ClientOid(cur[w], "mkt")}
      BY <1>8, <2>2, <2>4, <3>2, <2>1 DEF MarketPhase, Submit
    <3>4. \A v \in Workers, o \in Orders : Booking(v, o)' => Booking(v, o) \/ (v = w /\ o = cur[w])
      BY <1>8, <2>2 DEF MarketPhase
    <3>5. \A v \in Workers : ~Booking(v, cur[w])
      <4> SUFFICES ASSUME NEW v \in Workers, Booking(v, cur[w]) PROVE FALSE
        OBVIOUS
      <4>1. placed[cur[w]] = 1
        BY <2>1 DEF OneOrderEach
      <4> QED BY <3>2, <4>1
    <3>6. \A o \in Orders \ {cur[w]} : placed'[o] = placed[o]
      BY <3>3
    <3>7. placed'[cur[w]] = 1
      BY <2>1, <3>3
    <3>8. \A v \in Workers, o \in Orders : Booking(v, o)' => recorded'[o] = 0 /\ placed'[o] = 1
      BY <3>2, <3>3, <3>4, <3>5, <3>6, <3>7 DEF OneOrderEach
    <3>9. \A v, u \in Workers, o \in Orders : Booking(v, o)' /\ Booking(u, o)' => v = u
      BY <3>4, <3>5 DEF OneOrderEach
    <3> HIDE DEF Booking
    <3>10. /\ \A o \in Orders : recorded'[o] <= placed'[o] /\ placed'[o] <= 1
           /\ \A o \in Orders : placed'[o] = 1 => ClientOid(o, "mkt") \in seen'
      BY <3>2, <3>3, <3>6, <3>7 DEF OneOrderEach, ClientOid
    <3> QED BY <3>8, <3>9, <3>10 DEF OneOrderEach, ClientOid
  <2> QED BY <2>3, <2>4
<1>9. CASE LimitPhase(w) \/ BrokerOrder(w)
  BY <1>9 DEF LimitPhase, BrokerOrder
<1> QED
  BY <1>1, <1>2, <1>3, <1>4, <1>5, <1>6, <1>7, <1>8, <1>9 DEF Tick, Faulty

\* A row executed as a plain market order is booked at most once, with any number of
\* workers, crashes and redispatches, because the client order id is the row's and the
\* exchange refuses to take it twice.
THEOREM BookedAtMostOnce == Spec => []BookedOnce
<1>1. Init => OnceInv
  BY BoundsAssumption, OrdersAssumption
  DEF Init, OnceInv, OnPlainRoute, OneOrderEach, Booking
<1>2. QueueInv /\ OnceInv /\ [Next]_vars => OnceInv'
  <2> SUFFICES ASSUME QueueInv, OnceInv, [Next]_vars, Deduplicated
               PROVE  OnPlainRoute' /\ OneOrderEach'
    BY DEF OnceInv, Deduplicated
  <2>1. CASE UNCHANGED vars
    BY <2>1 DEF vars, exchange, threads, OnceInv, OnPlainRoute, OneOrderEach, Booking,
                ClientOid
  <2>2. CASE \E o \in Orders : Enqueue(o) \/ Age(o)
    BY <2>2 DEF Enqueue, Age, exchange, threads, OnceInv, OnPlainRoute, OneOrderEach, Booking,
                ClientOid
  <2>3. CASE \E w \in Workers : Tick(w) \/ Faulty(w)
    BY <2>3, RouteStep, OrderStep DEF OnceInv
  <2> QED BY <2>1, <2>2, <2>3 DEF Next
<1>3. QueueInv /\ OnceInv => BookedOnce
  BY DEF QueueInv, TypeOK, OnceInv, OneOrderEach, Deduplicated, BookedOnce
<1> QED BY <1>1, <1>2, <1>3, Invariance, PTL DEF Spec

-----------------------------------------------------------------------------
(* Final verdicts *)

\* With one worker a live row in hand is still being processed, except where the
\* verdict on it may already be written.
InProcess ==
  \A w \in Workers :
    /\ pc[w] # "broker" /\ route[w] # "broker"
    /\ cur[w] \in live =>
         /\ pc[w] = "markfailed" => status[cur[w]] \in {"processing", "failed"}
         /\ pc[w] \in Working \ {"record", "markfailed"} => status[cur[w]] = "processing"
         /\ pc[w] \in {"maker", "market", "marksent"} => route[w] # "signal"

\* The verdict on a live row is final in a server of one process that trades on
\* crypto exchanges: no error of the bookkeeping turns sent into failed.
THEOREM FinalVerdict ==
  ASSUME \A w, v \in Workers : w = v, "broker" \notin Routes
  PROVE  Spec => VerdictFinal
<1> DEFINE Final == \A o \in live : status[o] \in Settled => status'[o] = status[o]
<1>1. Init => InProcess
  BY OrdersAssumption DEF Init, InProcess
<1>2. QueueInv /\ InProcess /\ [Next]_vars => InProcess' /\ [Final]_vars
  <2> SUFFICES ASSUME QueueInv, InProcess, [Next]_vars PROVE InProcess' /\ [Final]_vars
    OBVIOUS
  <2> USE OrdersAssumption
      DEF QueueInv, TypeOK, WorkerConsistent, LiveBacked, InProcess, Settled, rows, threads,
          Working, Stages, Statuses
  <2>1. CASE UNCHANGED vars
    BY <2>1 DEF vars
  <2>2. CASE \E o \in Orders : Enqueue(o) \/ Age(o)
    <3>1. ASSUME NEW o \in Orders, Enqueue(o) \/ Age(o), NEW p \in Orders
          PROVE  status'[p] = status[p] \/ status[p] = "absent"
      BY <3>1 DEF Enqueue, Age
    <3>2. UNCHANGED <<live, threads>>
      BY <2>2 DEF Enqueue, Age
    <3>3. \A p \in Orders : status'[p] = status[p] \/ status[p] = "absent"
      BY <2>2, <3>1
    <3> QED BY <3>2, <3>3
  <2>3. CASE \E w \in Workers : Tick(w) \/ Faulty(w)
    <3> PICK w \in Workers : Tick(w) \/ Faulty(w)
      BY <2>3
    <3> USE DEF Goto, Abandon, Release
    <3>1. CASE Requeue(w)
      BY <3>1 DEF Requeue, Requeueable
    <3>2. CASE \E o \in Orders : Claim(w, o)
      BY <3>2 DEF Claim, ClaimRow, Claimable
    <3>3. CASE \E o \in Orders : ClaimFails(w, o)
      BY <3>3 DEF ClaimFails, ClaimRow, Claimable
    <3>4. CASE MarkSent(w) \/ MarkFailed(w)
      BY <3>4 DEF MarkSent, MarkFailed, Settle
    <3>5. CASE MarkSentFails(w)
      BY <3>5 DEF MarkSentFails, Settle
    <3>6. CASE MarkFailedFails(w)
      BY <3>6 DEF MarkFailedFails, Settle
    <3>7. CASE \/ Select(w) \/ EndBatch(w) \/ Crash(w) \/ SelectFails(w)
               \/ Record(w) \/ RecordFails(w)
      BY <3>7 DEF Select, EndBatch, Crash, SelectFails, Record, RecordFails
    <3>8. CASE Refuse(w) \/ Notify(w)
      BY <3>8 DEF Refuse, Notify, AllRoutes
    <3>9. CASE LimitPhase(w) \/ MarketPhase(w) \/ BrokerOrder(w)
      BY <3>9 DEF LimitPhase, MarketPhase, BrokerOrder
    <3>10. CASE (\E o \in Orders : Skip(w, o)) \/ (\E r \in Routes : Dispatch(w, r))
      BY <3>10, RoutesAssumption DEF Skip, Dispatch, AllRoutes
    <3> QED
      BY <3>1, <3>2, <3>3, <3>4, <3>5, <3>6, <3>7, <3>8, <3>9, <3>10 DEF Tick, Faulty
  <2> QED BY <2>1, <2>2, <2>3 DEF Next
<1> QED BY <1>1, <1>2, Invariance, PTL DEF Spec, VerdictFinal
=============================================================================
