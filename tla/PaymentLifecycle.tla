--------------------------- MODULE PaymentLifecycle ---------------------------
(***************************************************************************)
(* What paying a membership in USDT promises about one order, whatever     *)
(* refreshers race, crash or see of the chain: it is inserted once, counts *)
(* as paid only with a transfer on the chain and also after it expired,    *)
(* and only once it is confirmed does each party that refreshes it         *)
(* activate the membership, at most once.  UsdtPayment implements this.    *)
(***************************************************************************)
CONSTANTS Rows, Parties
VARIABLES
  phase,    \* status of an order
  listed,   \* orders whose transfer is on the chain
  granted   \* order -> parties that have activated its membership
vars == <<phase, listed, granted>>

Init ==
  /\ phase = [o \in Rows |-> "absent"]
  /\ listed = {}
  /\ granted = [o \in Rows |-> {}]

Moves(o, from, to) ==
  /\ phase[o] \in from /\ phase' = [phase EXCEPT ![o] = to]
  /\ UNCHANGED <<listed, granted>>

Insert(o) == Moves(o, {"absent"}, "pending")
Settle(o) == o \in listed /\ Moves(o, {"pending", "expired"}, "paid")
Expire(o) == Moves(o, {"pending"}, "expired")
Confirm(o) == Moves(o, {"paid"}, "confirmed")

Transfer(o) ==
  /\ phase[o] # "absent" /\ listed' = listed \cup {o}
  /\ UNCHANGED <<phase, granted>>

Grant(o, r) ==
  /\ phase[o] = "confirmed" /\ r \notin granted[o]
  /\ granted' = [granted EXCEPT ![o] = @ \cup {r}]
  /\ UNCHANGED <<phase, listed>>

Next == \E o \in Rows :
  \/ Insert(o) \/ Transfer(o) \/ Settle(o) \/ Expire(o) \/ Confirm(o)
  \/ \E r \in Parties : Grant(o, r)
Spec == Init /\ [][Next]_vars
=============================================================================
