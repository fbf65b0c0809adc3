----------------------------- MODULE UsdtPayment ------------------------------
(***************************************************************************)
(* Paying a membership in USDT: an order gets an address of its own, the    *)
(* payment is looked up on the chain, and a confirmed order activates the   *)
(* membership. The background worker and the user's own queries refresh the *)
(* same rows; every read, chain query and short transaction is a step.      *)
(* What purchase_membership does to the account is in module CreditLedger.  *)
(***************************************************************************)
EXTENDS Naturals, FiniteSets

CONSTANTS
  Orders,      \* rows of qd_usdt_orders
  Workers,     \* UsdtOrderWorker threads, one per process
  Creators,    \* concurrent create_order requests
  Queries,     \* concurrent get_order requests
  MaxFaults    \* bound on crashes, failing queries and failing statements

ASSUME PaymentAssumption ==
  /\ Orders # {}
  /\ Workers \cap Creators = {} /\ Queries \cap (Workers \cup Creators) = {}
  /\ MaxFaults \in Nat

VARIABLES
  status, addr,            \* columns; status "absent" before the INSERT
  due,                     \* expires_at has passed
  paid, visible, ripe,     \* transferred; listed; older than the confirm delay
  aged,                    \* marked paid for longer than the confirm delay
  activated,               \* how often each refresher activated the order's membership
  pc, row, cur, next,      \* a refresh or an insertion under way
  faults

Refreshers == Workers \cup Queries
Actors == Refreshers \cup Creators
chain == <<paid, visible, ripe, aged>>
locals == <<pc, row, cur, next>>
vars == <<status, addr, due, chain, activated, locals, faults>>

Open == {"pending", "paid", "expired"}
Statuses == Open \cup {"absent", "confirmed"}
Steps == {"idle", "insert", "refresh", "markpaid", "expire", "check", "confirm", "activate"}
Present == {o \in Orders : status[o] # "absent"}
NoRows == [o \in Orders |-> "absent"]
SomeOrder == CHOOSE o \in Orders : TRUE

TypeOK ==
  /\ status \in [Orders -> Statuses] /\ addr \in [Orders -> Nat]
  /\ due \subseteq Orders /\ paid \subseteq Orders
  /\ visible \subseteq paid /\ ripe \subseteq visible /\ aged \subseteq ripe
  /\ activated \in [Orders -> [Refreshers -> Nat]]
  /\ pc \in [Actors -> Steps]
  /\ row \in [Actors -> [Orders -> Statuses]]  \* "absent": nothing left to refresh
  /\ cur \in [Actors -> Orders] /\ next \in [Actors -> Nat]
  /\ faults \in 0..MaxFaults

Init ==
  /\ status = NoRows /\ addr = [o \in Orders |-> 0]
  /\ due = {} /\ paid = {} /\ visible = {} /\ ripe = {} /\ aged = {}
  /\ activated = [o \in Orders |-> [r \in Refreshers |-> 0]]
  /\ pc = [r \in Actors |-> "idle"] /\ row = [r \in Actors |-> NoRows]
  /\ cur = [r \in Actors |-> SomeOrder] /\ next = [r \in Actors |-> 0]
  /\ faults = 0

-----------------------------------------------------------------------------
(* The user, the chain and the clock *)

\* Addresses never expire: users also pay late.
Pay(o) ==
  /\ o \in Present \ paid /\ paid' = paid \cup {o}
  /\ UNCHANGED <<status, addr, due, visible, ripe, aged, activated, locals, faults>>
Listed(o) ==
  /\ o \in paid \ visible /\ visible' = visible \cup {o}
  /\ UNCHANGED <<status, addr, due, paid, ripe, aged, activated, locals, faults>>
Ripen(o) ==
  /\ o \in visible \ ripe /\ ripe' = ripe \cup {o}
  /\ UNCHANGED <<status, addr, due, paid, visible, aged, activated, locals, faults>>
Age(o) ==
  /\ o \in ripe \ aged /\ status[o] = "paid" /\ aged' = aged \cup {o}
  /\ UNCHANGED <<status, addr, due, paid, visible, ripe, activated, locals, faults>>
Due(o) ==
  /\ o \in Present \ due /\ due' = due \cup {o}
  /\ UNCHANGED <<status, addr, chain, activated, locals, faults>>

-----------------------------------------------------------------------------
(* Creating orders *)

Goto(r, step) == pc' = [pc EXCEPT ![r] = step]
Fault == faults < MaxFaults /\ faults' = faults + 1

\* create_order reads the highest address index.
ReadMax(r) ==
  /\ r \in Creators /\ pc[r] = "idle" /\ Present # Orders
  /\ \E n \in {0} \cup {addr[o] + 1 : o \in Present} :
       /\ \A o \in Present : addr[o] < n
       /\ next' = [next EXCEPT ![r] = n]
  /\ Goto(r, "insert")
  /\ UNCHANGED <<status, addr, due, chain, activated, row, cur, faults>>

\* The unique index on (chain, address) refuses a second order of an address.
Fresh(n) == \A o \in Present : addr[o] # n

Insert(r) ==
  /\ pc[r] = "insert"
  /\ Goto(r, "idle") /\ next' = [next EXCEPT ![r] = 0]
  /\ \/ \E o \in Orders \ Present :
          /\ Fresh(next[r])
          /\ status' = [status EXCEPT ![o] = "pending"]
          /\ addr' = [addr EXCEPT ![o] = next[r]]
          /\ UNCHANGED faults
     \/ ~Fresh(next[r]) /\ UNCHANGED <<status, addr, faults>>
     \/ Fault /\ UNCHANGED <<status, addr>>
  /\ UNCHANGED <<due, chain, activated, row, cur>>

-----------------------------------------------------------------------------
(* Refreshing orders *)

\* Mutant: orders waiting for the confirm delay are not loaded.
LoadPendingOnly(r) ==
  /\ pc[r] = "idle"
  /\ \/ /\ r \in Workers
        /\ row' = [row EXCEPT ![r] =
             [o \in Orders |-> IF status[o] = "pending" THEN status[o] ELSE "absent"]]
     \/ /\ r \in Queries
        /\ \E o \in Present : row' = [row EXCEPT ![r] = [NoRows EXCEPT ![o] = status[o]]]
  /\ Goto(r, "refresh")
  /\ UNCHANGED <<status, addr, due, chain, activated, cur, next, faults>>

\* The worker loads the open orders, a request one order of its user, whatever
\* its status.
Load(r) ==
  /\ pc[r] = "idle"
  /\ \/ /\ r \in Workers
        /\ row' = [row EXCEPT ![r] =
             [o \in Orders |-> IF status[o] \in {"pending", "paid"} THEN status[o] ELSE "absent"]]
     \/ /\ r \in Queries
        /\ \E o \in Present : row' = [row EXCEPT ![r] = [NoRows EXCEPT ![o] = status[o]]]
  /\ Goto(r, "refresh")
  /\ UNCHANGED <<status, addr, due, chain, activated, cur, next, faults>>

LoadDone(r) ==
  /\ pc[r] = "refresh" /\ row[r] = NoRows
  /\ Goto(r, "idle") /\ cur' = [cur EXCEPT ![r] = SomeOrder]
  /\ UNCHANGED <<status, addr, due, chain, activated, row, next, faults>>

\* Mutant: a transfer that the chain has not settled is taken.
FoundEarly(o) == o \in paid

\* TronGrid lists a transfer of at least the amount, after the order was made.
Found(o) == o \in visible

\* _refresh_one_order_out_of_tx, on the row as it was loaded: what to do next.
Verdict(r, o) ==
  LET st == row[r][o]
      chained == st \in {"pending", "expired"}
  IN  CASE st = "paid" /\ o \in aged -> "check"
        [] chained /\ Found(o) -> "markpaid"
        [] st = "pending" /\ ~Found(o) /\ o \in due -> "expire"
        [] OTHER -> "refresh"

\* A query that fails counts as no transfer found.
Blind(r, o) == IF row[r][o] = "pending" /\ o \in due THEN "expire" ELSE "refresh"

Refresh(r) ==
  /\ pc[r] = "refresh"
  /\ \E o \in Orders :
       /\ row[r][o] # "absent" /\ row' = [row EXCEPT ![r][o] = "absent"]
       /\ cur' = [cur EXCEPT ![r] = o]
       /\ \/ Goto(r, Verdict(r, o)) /\ UNCHANGED faults
          \/ row[r][o] \in {"pending", "expired"} /\ Goto(r, Blind(r, o)) /\ Fault
  /\ UNCHANGED <<status, addr, due, chain, activated, next>>

\* UPDATE ... SET status = v WHERE status IN from
Update(o, from, v) == status' = IF status[o] \in from THEN [status EXCEPT ![o] = v] ELSE status

\* Paid, and confirmed at once when the transfer is old enough. Like every
\* statement, the UPDATE may fail with or without effect.
MarkPaid(r) ==
  /\ pc[r] = "markpaid"
  /\ \/ /\ Update(cur[r], {"pending", "expired"}, "paid") /\ UNCHANGED faults
        /\ Goto(r, IF cur[r] \in ripe THEN "check" ELSE "refresh")
     \/ /\ UNCHANGED status \/ Update(cur[r], {"pending", "expired"}, "paid")
        /\ Fault /\ Goto(r, "refresh")
  /\ UNCHANGED <<addr, due, chain, activated, row, cur, next>>

\* Mutant: the status is not looked at again.
ExpireAnyway(r) ==
  /\ pc[r] = "expire"
  /\ \/ Update(cur[r], {"pending", "paid"}, "expired") /\ UNCHANGED faults
     \/ UNCHANGED status /\ Fault
  /\ Goto(r, "refresh")
  /\ UNCHANGED <<addr, due, chain, activated, row, cur, next>>

Expire(r) ==
  /\ pc[r] = "expire"
  /\ \/ Update(cur[r], {"pending"}, "expired") /\ UNCHANGED faults
     \/ UNCHANGED status /\ Fault
  /\ Goto(r, "refresh")
  /\ UNCHANGED <<addr, due, chain, activated, row, cur, next>>

\* _confirm_and_activate_short_tx: skip what is confirmed already,
Check(r) ==
  /\ pc[r] = "check"
  /\ \/ Goto(r, IF status[cur[r]] = "confirmed" THEN "refresh" ELSE "confirm") /\ UNCHANGED faults
     \/ Goto(r, "refresh") /\ Fault
  /\ UNCHANGED <<status, addr, due, chain, activated, row, cur, next>>

\* Mutant: a failing transaction does not end the function.
ConfirmAlways(r) ==
  /\ pc[r] = "confirm"
  /\ \/ UNCHANGED faults /\ Update(cur[r], {"paid", "pending"}, "confirmed")
     \/ Fault /\ UNCHANGED status
  /\ Goto(r, "activate")
  /\ UNCHANGED <<addr, due, chain, activated, row, cur, next>>

\* confirm, without asking whether the UPDATE matched,
Confirm(r) ==
  /\ pc[r] = "confirm"
  /\ \/ /\ Update(cur[r], {"paid", "pending"}, "confirmed") /\ UNCHANGED faults
        /\ Goto(r, "activate")
     \/ /\ UNCHANGED status \/ Update(cur[r], {"paid", "pending"}, "confirmed")
        /\ Fault /\ Goto(r, "refresh")
  /\ UNCHANGED <<addr, due, chain, activated, row, cur, next>>

\* then purchase_membership in a transaction of its own; an error is logged.
Activate(r) ==
  /\ pc[r] = "activate"
  /\ Goto(r, "refresh")
  /\ \/ activated' = [activated EXCEPT ![cur[r]][r] = @ + 1] /\ UNCHANGED faults
     \/ UNCHANGED activated /\ Fault
  /\ UNCHANGED <<status, addr, due, chain, row, cur, next>>

\* A process dies with its threads; the table stays.
Crash(r) ==
  /\ pc[r] # "idle" /\ Goto(r, "idle") /\ Fault
  /\ row' = [row EXCEPT ![r] = NoRows] /\ cur' = [cur EXCEPT ![r] = SomeOrder]
  /\ next' = [next EXCEPT ![r] = 0]
  /\ UNCHANGED <<status, addr, due, chain, activated>>

-----------------------------------------------------------------------------
Environment == \E o \in Orders : Pay(o) \/ Listed(o) \/ Ripen(o) \/ Age(o) \/ Due(o)
Refreshing(r) == \/ LoadDone(r) \/ Refresh(r) \/ MarkPaid(r) \/ Expire(r)
                 \/ Check(r) \/ Confirm(r) \/ Activate(r)
Next == \/ Environment
        \/ \E r \in Actors : \/ ReadMax(r) \/ Insert(r) \/ Load(r)
                             \/ Refreshing(r) \/ Crash(r)
Spec == Init /\ [][Next]_vars

\* Threads run; the worker comes back every poll interval; transfers are listed
\* and time passes.
FairSpec == /\ Spec
            /\ \A r \in Actors : WF_vars(Refreshing(r))
            /\ \A r \in Workers : WF_vars(Load(r))
            /\ \A o \in Orders : WF_vars(Listed(o)) /\ WF_vars(Ripen(o)) /\ WF_vars(Age(o))
-----------------------------------------------------------------------------
(* Properties *)

\* An order counts as paid only when its transfer is on the chain, however
\* refreshes, expiry and failing queries fall.
PaidIsVisible == \A o \in Orders : status[o] \in {"paid", "confirmed"} => o \in visible

\* Membership is activated only for orders that are confirmed, and stay so.
ActivatedIsConfirmed ==
  \A o \in Orders, r \in Refreshers : activated[o][r] > 0 => status[o] = "confirmed"

\* Concurrent orders never share an address, so a transfer settles one order.
AddressesDistinct == \A o, q \in Present : addr[o] = addr[q] => o = q

\* A row only moves forward: a late expiry does not undo a payment, a late
\* payment does undo an expiry, nothing follows a confirmation.
Forward == {<<"absent", "pending">>, <<"pending", "paid">>, <<"pending", "expired">>,
            <<"expired", "paid">>, <<"paid", "confirmed">>}
StatusForward ==
  [][\A o \in Orders : status'[o] # status[o] => <<status[o], status'[o]>> \in Forward]_vars

\* No refresher activates an order twice, whatever failed or was started over: a
\* second activation takes a second one at work on the order at the same time.
OnceEach == \A o \in Orders, r \in Refreshers : activated[o][r] <= 1

\* Each order activates the membership once. "Idempotently mark confirmed"
\* (usdt_payment_service.py:711). Two refreshers refute it; OnceEach is what holds.
ActivatedOnce ==
  \A o \in Orders : \A r, q \in Refreshers : activated[o][r] > 0 /\ activated[o][q] > 0 => r = q

\* A listed transfer confirms its order or finds it expired, although queries,
\* statements and processes fail some of the time.
ListedSettled == \A o \in Orders : (o \in visible) ~> (status[o] \in {"confirmed", "expired"})

\* The inductive invariant: what each pending step of a refresh knows.
StepKnows ==
  /\ paid \subseteq Present
  /\ \A r \in Actors :
       /\ pc[r] = "markpaid" => cur[r] \in visible
       /\ pc[r] \in {"check", "confirm"} => status[cur[r]] \in {"paid", "confirmed"}
       /\ pc[r] = "activate" => status[cur[r]] = "confirmed"
       /\ \A o \in Orders : row[r][o] # "absent" => o \in Present
       /\ \A o \in Orders : row[r][o] = "paid" => status[o] \in {"paid", "confirmed"}
\* Creating an order and refreshing orders are different actors' work.
StepOwners == \A r \in Creators : pc[r] \in {"idle", "insert"}
PaymentInv == /\ StepOwners
              /\ TypeOK /\ PaidIsVisible /\ ActivatedIsConfirmed
              /\ AddressesDistinct /\ StepKnows

\* Why OnceEach holds: what a refresher still has before it, it has not activated.
Ahead(r, o) == \/ row[r][o] \in Open
               \/ cur[r] = o /\ pc[r] \in {"markpaid", "check", "confirm", "activate"}
Unhurried ==
  \A r \in Refreshers : \A o \in Orders :
    /\ activated[o][r] <= 1
    /\ Ahead(r, o) => activated[o][r] = 0
    /\ cur[r] = o /\ pc[r] \in Steps \ {"idle", "insert", "refresh"} => row[r][o] = "absent"

\* What the payment promises, stated without threads: PaymentLifecycle.
Lifecycle == INSTANCE PaymentLifecycle
  WITH Rows <- Orders, Parties <- Refreshers, phase <- status, listed <- visible,
       granted <- [o \in Orders |-> {r \in Refreshers : activated[o][r] > 0}]
LifecycleSpec == Lifecycle!Spec
=============================================================================
