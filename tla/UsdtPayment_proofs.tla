-------------------------- MODULE UsdtPayment_proofs --------------------------
(***************************************************************************)
(* What holds of USDT orders for every set of orders, workers and requests, *)
(* with failing queries and crashes: the inductive invariant, rows that     *)
(* only move forward, and one activation per order and refresher.           *)
(***************************************************************************)
EXTENDS UsdtPayment, TLAPS

\* The initial state satisfies the inductive invariant.
LEMMA PaymentInit == Init => PaymentInv
<1> SUFFICES ASSUME Init PROVE PaymentInv
  OBVIOUS
<1>1. TypeOK
  BY PaymentAssumption DEF Init, TypeOK, Statuses, Steps, Actors, NoRows, SomeOrder
<1>2. PaidIsVisible /\ ActivatedIsConfirmed /\ AddressesDistinct /\ StepKnows /\ StepOwners
  BY DEF Init, PaidIsVisible, ActivatedIsConfirmed, AddressesDistinct, Present,
         StepKnows, StepOwners, Actors, NoRows
<1> QED BY <1>1, <1>2 DEF PaymentInv

\* Only refreshers take the steps of a refresh.
LEMMA RefresherAtWork ==
  ASSUME PaymentInv, NEW r \in Actors, pc[r] \notin {"idle", "insert"}
  PROVE  r \in Refreshers /\ r \notin Creators
BY DEF PaymentInv, StepOwners, Actors

\* The count of faults stays within its bound.
LEMMA FaultsBounded ==
  ASSUME TypeOK, UNCHANGED faults \/ Fault
  PROVE  faults' \in 0..MaxFaults
BY PaymentAssumption DEF TypeOK, Fault

\* Payments, listings and the clock disturb nothing.
LEMMA EnvironmentStep ==
  ASSUME PaymentInv, NEW o \in Orders, Pay(o) \/ Listed(o) \/ Ripen(o) \/ Age(o) \/ Due(o)
  PROVE  PaymentInv'
<1> USE DEF PaymentInv, TypeOK, PaidIsVisible, ActivatedIsConfirmed, AddressesDistinct,
            Present, StepKnows, StepOwners, chain, locals
<1>1. CASE Pay(o) BY <1>1 DEF Pay
<1>2. CASE Listed(o) BY <1>2 DEF Listed
<1>3. CASE Ripen(o) BY <1>3 DEF Ripen
<1>4. CASE Age(o) BY <1>4 DEF Age
<1>5. CASE Due(o) BY <1>5 DEF Due
<1> QED BY <1>1, <1>2, <1>3, <1>4, <1>5

\* Creating an order: the unique index keeps the addresses apart.
LEMMA CreateStep ==
  ASSUME PaymentInv, NEW r \in Actors, ReadMax(r) \/ Insert(r)
  PROVE  PaymentInv'
<1> USE DEF PaymentInv, TypeOK, PaidIsVisible, ActivatedIsConfirmed, AddressesDistinct,
            Present, StepKnows, StepOwners, chain, Goto, Actors, Steps
<1>1. CASE ReadMax(r)
  <2>1. PICK n \in {0} \cup {addr[o] + 1 : o \in Present} : next' = [next EXCEPT ![r] = n]
    BY <1>1 DEF ReadMax
  <2>2. n \in Nat
    BY <2>1
  <2> QED BY <1>1, <2>1, <2>2 DEF ReadMax
<1>2. CASE Insert(r)
  <2>0. /\ next' \in [Actors -> Nat] /\ faults' \in 0..MaxFaults
        /\ pc' = [pc EXCEPT ![r] = "idle"]
    BY <1>2, PaymentAssumption DEF Insert, Fault
  <2>1. CASE UNCHANGED <<status, addr>>
    BY <1>2, <2>0, <2>1 DEF Insert
  <2>2. ASSUME NEW o \in Orders \ Present, Fresh(next[r]), UNCHANGED faults,
               status' = [status EXCEPT ![o] = "pending"],
               addr' = [addr EXCEPT ![o] = next[r]]
        PROVE  PaymentInv'
    <3>1. TypeOK' /\ StepOwners'
      BY <1>2, <2>2 DEF Insert, Statuses, Open
    <3>2. AddressesDistinct'
      BY <2>2 DEF Fresh
    <3>3. PaidIsVisible' /\ ActivatedIsConfirmed'
      BY <1>2, <2>2 DEF Insert
    <3>4. StepKnows'
      BY <1>2, <2>2 DEF Insert
    <3> QED BY <3>1, <3>2, <3>3, <3>4
  <2> QED BY <1>2, <2>1, <2>2 DEF Insert
<1> QED BY <1>1, <1>2

\* Loading the rows, and a crash.
LEMMA LoadStep ==
  ASSUME PaymentInv, NEW r \in Actors, Load(r) \/ LoadDone(r) \/ Crash(r)
  PROVE  PaymentInv'
<1> USE PaymentAssumption
    DEF PaymentInv, TypeOK, PaidIsVisible, ActivatedIsConfirmed, AddressesDistinct,
        Present, StepKnows, StepOwners, chain, locals, Goto, Steps
<1>1. CASE Load(r)
  <2>1. PICK rows \in [Orders -> Statuses] :
          /\ row' = [row EXCEPT ![r] = rows]
          /\ \A o \in Orders : rows[o] \in {"absent", status[o]}
    <3>1. CASE r \in Workers
      <4> DEFINE rows == [o \in Orders |-> IF status[o] \in {"pending", "paid"}
                                           THEN status[o] ELSE "absent"]
      <4>1. rows \in [Orders -> Statuses] /\ \A o \in Orders : rows[o] \in {"absent", status[o]}
        BY DEF Statuses
      <4>2. CASE row' = [row EXCEPT ![r] = rows]
        BY <4>1, <4>2
      <4> QED BY <1>1, <3>1, <4>2 DEF Load, Refreshers
    <3>2. CASE r \in Queries
      <4>1. PICK q \in Present : row' = [row EXCEPT ![r] = [NoRows EXCEPT ![q] = status[q]]]
        BY <1>1, <3>2 DEF Load
      <4> DEFINE rows == [NoRows EXCEPT ![q] = status[q]]
      <4>2. rows \in [Orders -> Statuses] /\ \A o \in Orders : rows[o] \in {"absent", status[o]}
        BY DEF NoRows, Statuses
      <4> QED BY <4>1, <4>2
    <3> QED BY <1>1, <3>1, <3>2 DEF Load
  <2>2. TypeOK' /\ StepOwners'
    <3>1. r \notin Creators
      BY <1>1 DEF Load
    <3> QED BY <1>1, <2>1, <3>1 DEF Load
  <2>3. StepKnows'
    BY <1>1, <2>1 DEF Load
  <2>4. PaidIsVisible' /\ ActivatedIsConfirmed' /\ AddressesDistinct'
    BY <1>1 DEF Load
  <2> QED BY <2>2, <2>3, <2>4
<1>2. CASE LoadDone(r)
  BY <1>2 DEF LoadDone, SomeOrder
<1>3. CASE Crash(r)
  BY <1>3 DEF Crash, SomeOrder, NoRows, Fault, Statuses
<1> QED BY <1>1, <1>2, <1>3

\* Deciding what to do with a loaded row.
LEMMA RefreshStep ==
  ASSUME PaymentInv, NEW r \in Actors, Refresh(r)
  PROVE  PaymentInv'
<1> USE DEF PaymentInv, TypeOK, PaidIsVisible, ActivatedIsConfirmed, AddressesDistinct,
            Present, StepKnows, StepOwners, chain, Goto
<1>1. PICK o \in Orders :
        /\ row[r][o] # "absent" /\ row' = [row EXCEPT ![r][o] = "absent"]
        /\ cur' = [cur EXCEPT ![r] = o]
        /\ \E step \in {"refresh", "markpaid", "expire", "check"} :
             /\ pc' = [pc EXCEPT ![r] = step]
             /\ step = "markpaid" => o \in visible
             /\ step = "check" => row[r][o] = "paid"
  BY DEF Refresh, Verdict, Blind, Found, Fault
<1>2. PICK step \in {"refresh", "markpaid", "expire", "check"} :
        /\ pc' = [pc EXCEPT ![r] = step]
        /\ step = "markpaid" => o \in visible
        /\ step = "check" => row[r][o] = "paid"
  BY <1>1
<1>3. r \in Refreshers /\ r \notin Creators
  BY RefresherAtWork DEF Refresh
<1>4. TypeOK' /\ StepOwners'
  <2>1. faults' \in 0..MaxFaults
    BY FaultsBounded DEF Refresh
  <2> QED BY <1>1, <1>2, <1>3, <2>1 DEF Refresh, Steps, Statuses
<1>5. StepKnows'
  BY <1>1, <1>2 DEF Refresh
<1> QED BY <1>4, <1>5 DEF Refresh

\* What a conditional UPDATE leaves behind.
LEMMA Updated ==
  ASSUME TypeOK, NEW o \in Orders, NEW from, NEW v \in Statuses, Update(o, from, v)
  PROVE  /\ status' \in [Orders -> Statuses]
         /\ \A q \in Orders : status'[q] = IF q = o /\ status[o] \in from THEN v ELSE status[q]
  BY DEF TypeOK, Update

\* The conditional updates of a refresh.
LEMMA MarkPaidStep ==
  ASSUME PaymentInv, NEW r \in Actors, MarkPaid(r)
  PROVE  PaymentInv'
<1> USE DEF PaymentInv, StepKnows, StepOwners, chain, Goto
<1>1. cur[r] \in Orders /\ cur[r] \in visible /\ r \in Refreshers /\ r \notin Creators
  BY RefresherAtWork DEF MarkPaid, TypeOK
<1>2. /\ status' \in [Orders -> Statuses]
      /\ \A q \in Orders : \/ status'[q] = status[q]
                           \/ /\ q = cur[r] /\ status'[q] = "paid"
                              /\ status[q] \in {"pending", "expired"}
  BY <1>1, Updated DEF MarkPaid, Statuses, Open, TypeOK
<1>3. \E step \in {"check", "refresh"} :
        /\ pc' = [pc EXCEPT ![r] = step]
        /\ step = "check" => status'[cur[r]] \in {"paid", "confirmed"}
  <2>1. CASE Update(cur[r], {"pending", "expired"}, "paid")
    <3>1. status[cur[r]] \in {"pending", "expired", "paid", "confirmed"} =>
            status'[cur[r]] \in {"paid", "confirmed"}
      BY <1>1, <2>1, Updated DEF Statuses, Open
    <3>2. status[cur[r]] # "absent"
      BY <1>1 DEF TypeOK, Present
    <3> QED BY <1>1, <3>1, <3>2 DEF MarkPaid, TypeOK, Statuses, Open
  <2> QED BY <2>1 DEF MarkPaid
<1>4. TypeOK' /\ StepOwners'
  <2>1. faults' \in 0..MaxFaults
    BY FaultsBounded DEF MarkPaid
  <2> QED BY <1>1, <1>2, <1>3, <2>1 DEF MarkPaid, TypeOK, Steps
<1>7. Present' = Present
  BY <1>2 DEF Present
<1>5. PaidIsVisible' /\ ActivatedIsConfirmed' /\ AddressesDistinct'
  <2>1. PaidIsVisible' /\ ActivatedIsConfirmed'
    BY <1>1, <1>2 DEF MarkPaid, PaidIsVisible, ActivatedIsConfirmed
  <2>2. AddressesDistinct'
    BY <1>7 DEF MarkPaid, AddressesDistinct
  <2> QED BY <2>1, <2>2
<1>6. StepKnows'
  BY <1>1, <1>2, <1>3 DEF MarkPaid, TypeOK, Present
<1> QED BY <1>4, <1>5, <1>6

LEMMA ExpireStep ==
  ASSUME PaymentInv, NEW r \in Actors, Expire(r)
  PROVE  PaymentInv'
<1> USE DEF PaymentInv, StepKnows, StepOwners, chain, Goto
<1>1. cur[r] \in Orders /\ r \in Refreshers /\ r \notin Creators
  BY RefresherAtWork DEF Expire, TypeOK
<1>2. /\ status' \in [Orders -> Statuses]
      /\ \A q \in Orders : \/ status'[q] = status[q]
                           \/ status'[q] = "expired" /\ status[q] = "pending"
  BY <1>1, Updated DEF Expire, Statuses, Open, TypeOK
<1>3. pc' = [pc EXCEPT ![r] = "refresh"]
  BY DEF Expire
<1>4. TypeOK' /\ StepOwners'
  <2>1. faults' \in 0..MaxFaults
    BY FaultsBounded DEF Expire
  <2> QED BY <1>1, <1>2, <1>3, <2>1 DEF Expire, TypeOK, Steps
<1>5. PaidIsVisible' /\ ActivatedIsConfirmed' /\ AddressesDistinct'
  BY <1>1, <1>2
  DEF Expire, TypeOK, PaidIsVisible, ActivatedIsConfirmed, AddressesDistinct, Present
<1>6. StepKnows'
  <2>1. Present' = Present
    BY <1>2 DEF Present
  <2>2. \A q \in Orders : status[q] \in {"paid", "confirmed"} => status'[q] = status[q]
    BY <1>2
  <2> QED BY <1>1, <1>3, <2>1, <2>2 DEF Expire, TypeOK
<1> QED BY <1>4, <1>5, <1>6

LEMMA ConfirmStep ==
  ASSUME PaymentInv, NEW r \in Actors, Confirm(r)
  PROVE  PaymentInv'
<1> USE DEF PaymentInv, StepKnows, StepOwners, chain, Goto
<1>1. /\ cur[r] \in Orders /\ r \in Refreshers /\ r \notin Creators
      /\ status[cur[r]] \in {"paid", "confirmed"} /\ cur[r] \in visible
  BY RefresherAtWork DEF Confirm, TypeOK, PaidIsVisible
<1>2. /\ status' \in [Orders -> Statuses]
      /\ \A q \in Orders : \/ status'[q] = status[q]
                           \/ q = cur[r] /\ status'[q] = "confirmed"
  BY <1>1, Updated DEF Confirm, Statuses, Open, TypeOK
<1>3. \E step \in {"activate", "refresh"} :
        /\ pc' = [pc EXCEPT ![r] = step]
        /\ step = "activate" => status'[cur[r]] = "confirmed"
  <2>1. CASE Update(cur[r], {"paid", "pending"}, "confirmed")
    <3>1. status'[cur[r]] = "confirmed"
      BY <1>1, <2>1, Updated DEF Statuses, Open
    <3> QED BY <3>1 DEF Confirm
  <2> QED BY <2>1 DEF Confirm
<1>4. TypeOK' /\ StepOwners'
  <2>1. faults' \in 0..MaxFaults
    BY FaultsBounded DEF Confirm
  <2> QED BY <1>1, <1>2, <1>3, <2>1 DEF Confirm, TypeOK, Steps
<1>7. Present' = Present
  BY <1>1, <1>2 DEF Present
<1>5. PaidIsVisible' /\ ActivatedIsConfirmed' /\ AddressesDistinct'
  <2>1. PaidIsVisible' /\ ActivatedIsConfirmed'
    BY <1>1, <1>2 DEF Confirm, PaidIsVisible, ActivatedIsConfirmed
  <2>2. AddressesDistinct'
    BY <1>7 DEF Confirm, AddressesDistinct
  <2> QED BY <2>1, <2>2
<1>6. StepKnows'
  BY <1>1, <1>2, <1>3, <1>7 DEF Confirm, TypeOK
<1> QED BY <1>4, <1>5, <1>6

\* The idempotency check and the activation.
LEMMA CheckStep ==
  ASSUME PaymentInv, NEW r \in Actors, Check(r)
  PROVE  PaymentInv'
<1> USE DEF PaymentInv, StepKnows, StepOwners, chain, Goto
<1>1. /\ cur[r] \in Orders /\ r \in Refreshers /\ r \notin Creators
      /\ status[cur[r]] \in {"paid", "confirmed"}
  BY RefresherAtWork DEF Check, TypeOK
<1>2. \E step \in {"confirm", "refresh"} : pc' = [pc EXCEPT ![r] = step]
  BY DEF Check
<1>3. TypeOK' /\ StepOwners'
  <2>1. faults' \in 0..MaxFaults
    BY FaultsBounded DEF Check
  <2> QED BY <1>1, <1>2, <2>1 DEF Check, TypeOK, Steps
<1>4. PaidIsVisible' /\ ActivatedIsConfirmed' /\ AddressesDistinct'
  BY DEF Check, PaidIsVisible, ActivatedIsConfirmed, AddressesDistinct, Present
<1>5. StepKnows'
  BY <1>1, <1>2 DEF Check, TypeOK, Present
<1> QED BY <1>3, <1>4, <1>5

LEMMA ActivateStep ==
  ASSUME PaymentInv, NEW r \in Actors, Activate(r)
  PROVE  PaymentInv'
<1> USE DEF PaymentInv, StepKnows, StepOwners, chain, Goto
<1>1. /\ cur[r] \in Orders /\ r \in Refreshers /\ r \notin Creators
      /\ status[cur[r]] = "confirmed"
  BY RefresherAtWork DEF Activate, TypeOK
<1>2. /\ activated' \in [Orders -> [Refreshers -> Nat]]
      /\ \A q \in Orders : activated'[q] = activated[q] \/ q = cur[r]
  <2>1. CASE activated' = [activated EXCEPT ![cur[r]][r] = @ + 1]
    BY <1>1, <2>1 DEF TypeOK
  <2>2. CASE UNCHANGED activated
    BY <2>2 DEF TypeOK
  <2> QED BY <2>1, <2>2 DEF Activate
<1>3. pc' = [pc EXCEPT ![r] = "refresh"]
  BY DEF Activate
<1>4. TypeOK' /\ StepOwners'
  <2>1. faults' \in 0..MaxFaults
    BY FaultsBounded DEF Activate
  <2> QED BY <1>1, <1>2, <1>3, <2>1 DEF Activate, TypeOK, Steps
<1>5. PaidIsVisible' /\ ActivatedIsConfirmed' /\ AddressesDistinct'
  BY <1>1, <1>2 DEF Activate, PaidIsVisible, ActivatedIsConfirmed, AddressesDistinct, Present
<1>6. StepKnows'
  BY <1>1, <1>3 DEF Activate, TypeOK, Present
<1> QED BY <1>4, <1>5, <1>6

LEMMA PaymentStep ==
  ASSUME PaymentInv, [Next]_vars
  PROVE  PaymentInv'
<1>1. CASE UNCHANGED vars
  BY <1>1
  DEF vars, chain, locals, PaymentInv, TypeOK, PaidIsVisible, ActivatedIsConfirmed,
      AddressesDistinct, Present, StepKnows, StepOwners
<1>2. CASE Environment
  BY <1>2, EnvironmentStep DEF Environment
<1>3. ASSUME NEW r \in Actors,
             ReadMax(r) \/ Insert(r) \/ Load(r) \/ Refreshing(r) \/ Crash(r)
      PROVE  PaymentInv'
  BY <1>3, CreateStep, LoadStep, RefreshStep, MarkPaidStep, ExpireStep, ConfirmStep,
     CheckStep, ActivateStep DEF Refreshing
<1> QED BY <1>1, <1>2, <1>3 DEF Next

\* Whatever the interleaving of workers, queries and insertions, with failing
\* statements and crashes: an order counts as paid only with its transfer on the
\* chain, membership is activated only for confirmed orders, and no two orders
\* share an address.
THEOREM PaymentSound == Spec => []PaymentInv
<1> QED BY PaymentInit, PaymentStep, PTL DEF Spec

\* Rows only move forward; in particular an expiry decided on a stale row does
\* not undo a payment.
THEOREM RowsMoveForward == Spec => StatusForward
<1>1. PaymentInv /\ [Next]_vars
        => [\A o \in Orders : status'[o] # status[o] => <<status[o], status'[o]>> \in Forward]_vars
  <2> SUFFICES ASSUME PaymentInv, Next, NEW o \in Orders, status'[o] # status[o]
               PROVE  <<status[o], status'[o]>> \in Forward
    OBVIOUS
  <2> USE DEF PaymentInv, TypeOK, StepKnows, Update, Forward, Present
  <2>1. PICK r \in Actors : Insert(r) \/ MarkPaid(r) \/ Expire(r) \/ Confirm(r)
    BY DEF Next, Environment, Pay, Listed, Ripen, Age, Due, ReadMax, Load, Refreshing, LoadDone,
           Refresh, Check, Activate, Crash
  <2>2. CASE Insert(r) BY <2>2 DEF Insert
  <2>3. CASE MarkPaid(r) BY <2>3 DEF MarkPaid
  <2>4. CASE Expire(r) BY <2>4 DEF Expire
  <2>5. CASE Confirm(r)
    <3>1. cur[r] \in Orders /\ status[cur[r]] \in {"paid", "confirmed"}
      BY <2>5 DEF Confirm
    <3> QED BY <2>5, <3>1 DEF Confirm
  <2> QED BY <2>1, <2>2, <2>3, <2>4, <2>5
<1> QED BY <1>1, PaymentSound, PTL DEF Spec, StatusForward

\* What a refresher has before it, it has not activated.
LEMMA NoneHurries == Spec => []Unhurried
<1> USE PaymentAssumption
    DEF PaymentInv, TypeOK, Unhurried, Ahead, chain, locals, Goto
<1>0. Refreshers \subseteq Actors
  BY DEF Actors
<1>1. Init => Unhurried
  BY <1>0 DEF Init, NoRows, Open
<1>2. PaymentInv /\ Unhurried /\ [Next]_vars => Unhurried'
  <2> SUFFICES ASSUME PaymentInv, Unhurried, [Next]_vars PROVE Unhurried'
    OBVIOUS
  <2>1. CASE UNCHANGED vars
    BY <1>0, <2>1 DEF vars
  <2>2. CASE Environment
    BY <1>0, <2>2 DEF Environment, Pay, Listed, Ripen, Age, Due
  <2>3. ASSUME NEW r \in Actors,
               ReadMax(r) \/ Insert(r) \/ Load(r) \/ Refreshing(r) \/ Crash(r)
        PROVE  Unhurried'
    <3>1. CASE ReadMax(r) \/ Insert(r)
      <4>1. /\ UNCHANGED <<row, cur, activated>>
            /\ \E step \in {"idle", "insert"} : pc' = [pc EXCEPT ![r] = step]
        BY <3>1 DEF ReadMax, Insert
      <4> QED BY <1>0, <4>1
    <3>2. CASE LoadDone(r) \/ Crash(r)
      BY <1>0, <3>2 DEF LoadDone, Crash, NoRows, Open
    <3>3. CASE Load(r)
      <4>1. r \in Refreshers
        BY <3>3 DEF Load, Refreshers
      <4>2. ASSUME NEW o \in Orders, row'[r][o] \in Open PROVE activated[o][r] = 0
        <5>1. row'[r][o] = status[o]
          <6>1. CASE r \in Workers
            BY <3>3, <4>2, <6>1 DEF Load, Open
          <6>2. CASE r \in Queries
            BY <3>3, <4>2, <6>2 DEF Load, Open, NoRows
          <6> QED BY <3>3, <6>1, <6>2 DEF Load
        <5>2. activated[o][r] \in Nat /\ ~(activated[o][r] > 0)
          BY <4>1, <4>2, <5>1 DEF ActivatedIsConfirmed, Open
        <5> QED BY <5>2
      <4> QED BY <1>0, <3>3, <4>1, <4>2 DEF Load
    <3>4. CASE Refresh(r)
      <4>1. PICK o \in Orders :
              /\ row[r][o] # "absent" /\ row' = [row EXCEPT ![r][o] = "absent"]
              /\ cur' = [cur EXCEPT ![r] = o]
        BY <3>4 DEF Refresh
      <4>2. PICK step \in {"refresh", "markpaid", "expire", "check"} :
              /\ pc' = [pc EXCEPT ![r] = step]
              /\ step \in {"markpaid", "check"} => row[r][o] \in Open
        BY <3>4, <4>1 DEF Refresh, Verdict, Blind, Open
      <4> QED BY <1>0, <3>4, <4>1, <4>2 DEF Refresh, Open
    <3>5. CASE MarkPaid(r) \/ Expire(r) \/ Check(r) \/ Confirm(r)
      BY <1>0, <3>5 DEF MarkPaid, Expire, Check, Confirm, Steps
    <3>6. CASE Activate(r)
      <4>1. cur[r] \in Orders /\ r \in Refreshers /\ activated[cur[r]][r] = 0
            /\ row[r][cur[r]] = "absent" /\ pc' = [pc EXCEPT ![r] = "refresh"]
        BY <3>6, RefresherAtWork DEF Activate, Steps
      <4>2. \A o \in Orders, q \in Refreshers :
              \/ activated'[o][q] = activated[o][q]
              \/ o = cur[r] /\ q = r /\ activated'[o][q] = 1
        <5>1. CASE activated' = [activated EXCEPT ![cur[r]][r] = @ + 1]
          BY <4>1, <5>1
        <5>2. CASE UNCHANGED activated
          BY <5>2
        <5> QED BY <3>6, <5>1, <5>2 DEF Activate
      <4> QED BY <1>0, <3>6, <4>1, <4>2 DEF Activate, Open
    <3> QED BY <2>3, <3>1, <3>2, <3>3, <3>4, <3>5, <3>6 DEF Refreshing
  <2> QED BY <2>1, <2>2, <2>3 DEF Next
<1> QED BY <1>1, <1>2, PaymentSound, PTL DEF Spec

\* A refresher activates an order at most once, also when the process dies
\* between the confirmation and the activation and starts over.
THEOREM OneActivationEach == Spec => []OnceEach
<1>1. Unhurried => OnceEach
  BY DEF Unhurried, OnceEach
<1> QED BY <1>1, NoneHurries, PTL

-----------------------------------------------------------------------------
(* The life cycle of an order *)

\* A step of the refreshers, the chain or the clock is a step of the life cycle of
\* one order, or leaves it as it is.
LEMMA LifecycleStep ==
  ASSUME PaymentInv, Unhurried, [Next]_vars
  PROVE  [Lifecycle!Next]_Lifecycle!vars
<1> USE DEF PaymentInv, TypeOK, StepKnows, Present
<1>1. CASE UNCHANGED <<status, visible, activated>>
  BY <1>1 DEF Lifecycle!vars
<1>2. ASSUME NEW o \in Orders, Listed(o)
      PROVE  Lifecycle!Next
  <2>1. Lifecycle!Transfer(o)
    BY <1>2 DEF Listed, Lifecycle!Transfer
  <2> QED BY <2>1 DEF Lifecycle!Next
<1>3. ASSUME NEW o \in Orders, NEW from, NEW v,
             UNCHANGED <<visible, activated>>, Update(o, from, v),
             \/ v = "paid" /\ from = {"pending", "expired"} /\ o \in visible
             \/ v = "expired" /\ from = {"pending"}
             \/ v = "confirmed" /\ status[o] \in {"paid", "confirmed"} /\ from = {"paid", "pending"}
      PROVE  [Lifecycle!Next]_Lifecycle!vars
  <2>1. CASE status[o] \notin from
    BY <1>3, <2>1 DEF Update, Lifecycle!vars
  <2>2. CASE status[o] \in from
    <3>1. Lifecycle!Settle(o) \/ Lifecycle!Expire(o) \/ Lifecycle!Confirm(o)
      BY <1>3, <2>2 DEF Update, Lifecycle!Settle, Lifecycle!Expire, Lifecycle!Confirm, Lifecycle!Moves
    <3> QED BY <3>1 DEF Lifecycle!Next
  <2> QED BY <2>1, <2>2
<1>4. ASSUME NEW r \in Actors, Insert(r) PROVE [Lifecycle!Next]_Lifecycle!vars
  <2>1. CASE UNCHANGED status
    BY <1>1, <1>4, <2>1 DEF Insert, chain
  <2>2. ASSUME NEW o \in Orders \ Present, status' = [status EXCEPT ![o] = "pending"]
        PROVE  Lifecycle!Next
    <3>1. Lifecycle!Insert(o)
      BY <1>4, <2>2 DEF Insert, chain, Lifecycle!Insert, Lifecycle!Moves
    <3> QED BY <3>1 DEF Lifecycle!Next
  <2> QED BY <1>4, <2>1, <2>2 DEF Insert
<1>5. ASSUME NEW r \in Actors, MarkPaid(r) \/ Expire(r) \/ Confirm(r)
      PROVE  [Lifecycle!Next]_Lifecycle!vars
  <2>1. cur[r] \in Orders /\ UNCHANGED <<visible, activated>>
    BY <1>5 DEF MarkPaid, Expire, Confirm, chain
  <2>2. CASE UNCHANGED status
    BY <1>1, <2>1, <2>2
  <2>3. CASE MarkPaid(r) /\ Update(cur[r], {"pending", "expired"}, "paid")
    <3>1. cur[r] \in visible
      BY <2>3 DEF MarkPaid
    <3> QED BY <1>3, <2>1, <2>3, <3>1
  <2>4. CASE Expire(r) /\ Update(cur[r], {"pending"}, "expired")
    BY <1>3, <2>1, <2>4
  <2>5. CASE Confirm(r) /\ Update(cur[r], {"paid", "pending"}, "confirmed")
    <3>1. status[cur[r]] \in {"paid", "confirmed"}
      BY <2>5 DEF Confirm
    <3> QED BY <1>3, <2>1, <2>5, <3>1
  <2> QED BY <1>5, <2>2, <2>3, <2>4, <2>5 DEF MarkPaid, Expire, Confirm
<1>6. ASSUME NEW r \in Actors, Activate(r) PROVE [Lifecycle!Next]_Lifecycle!vars
  <2>1. CASE UNCHANGED activated
    BY <1>1, <1>6, <2>1 DEF Activate, chain
  <2>2. CASE activated' = [activated EXCEPT ![cur[r]][r] = @ + 1]
    <3>1. PICK p \in Orders : p = cur[r]
      BY <1>6, RefresherAtWork DEF Activate
    <3>2. r \in Refreshers /\ status[p] = "confirmed" /\ activated[p][r] = 0
      BY <1>6, <3>1, RefresherAtWork DEF Unhurried, Ahead, Activate
    <3> DEFINE grants == [o \in Orders |-> {q \in Refreshers : activated[o][q] > 0}]
    <3>3. r \notin grants[p] /\ grants' = [grants EXCEPT ![p] = @ \cup {r}]
      <4>1. \A o \in Orders, q \in Refreshers :
              activated'[o][q] > 0 <=> activated[o][q] > 0 \/ (o = p /\ q = r)
        BY <2>2, <3>1, <3>2
      <4>2. r \notin grants[p]
        BY <3>2
      <4>3. ASSUME NEW o \in Orders
            PROVE  grants'[o] = IF o = p THEN grants[o] \cup {r} ELSE grants[o]
        BY <3>2, <4>1
      <4>4. grants = [o \in Orders |-> grants[o]] /\ grants' = [o \in Orders |-> grants'[o]]
        OBVIOUS
      <4> HIDE DEF grants
      <4>5. grants' = [grants EXCEPT ![p] = @ \cup {r}]
        BY <4>3, <4>4
      <4> QED BY <4>2, <4>5
    <3>4. UNCHANGED <<status, visible>>
      BY <1>6 DEF Activate, chain
    <3>5. Lifecycle!Grant(p, r)
      BY <3>2, <3>3, <3>4, Zenon DEF Lifecycle!Grant
    <3> QED BY <3>2, <3>5 DEF Lifecycle!Next
  <2> QED BY <1>6, <2>1, <2>2 DEF Activate
<1> QED BY <1>1, <1>2, <1>4, <1>5, <1>6
    DEF Next, Environment, Pay, Ripen, Age, Due, ReadMax, Load, Refreshing, LoadDone,
        Refresh, Check, Crash, vars, chain

\* The threads, requests and processes that refresh orders, with failing statements
\* and crashes, keep the promise of PaymentLifecycle.
THEOREM PaymentImplementsLifecycle == Spec => LifecycleSpec
<1>1. Init => Lifecycle!Init
  BY DEF Init, NoRows, Lifecycle!Init
<1>2. PaymentInv /\ Unhurried /\ [Next]_vars => [Lifecycle!Next]_Lifecycle!vars
  BY LifecycleStep
<1> QED BY <1>1, <1>2, PaymentSound, NoneHurries, PTL DEF Spec, LifecycleSpec, Lifecycle!Spec
=============================================================================
