----------------------------- MODULE IndicatorSale -----------------------------
(***************************************************************************)
(* What the indicator market promises, without connections, locks and       *)
(* requests: a person gets an offer of somebody else once, for a fee that   *)
(* the offer asks of this person and that is there, and the fee goes to the *)
(* seller in the same step.  A sale may also write over what another sale   *)
(* has done to the two balances meanwhile: the balances are then no longer  *)
(* clean, but still not negative, and nobody else's has changed.  Members   *)
(* get credits besides.                                                     *)
(* IndicatorMarket implements this.                                         *)
(***************************************************************************)
EXTENDS Integers

CONSTANTS
  Offers, People,
  SoldBy,  \* offer -> its seller
  Fees,    \* offer -> person -> what may be asked
  Members, \* people who get credits now and then
  Gifts    \* how many
VARIABLES balance, owns, clean
vars == <<balance, owns, clean>>

Init == balance \in [People -> Nat] /\ owns = {} /\ clean = TRUE

HandOver(o, p) ==
  /\ p # SoldBy[o] /\ <<o, p>> \notin owns
  /\ owns' = owns \cup {<<o, p>>}

Sell(o, p, fee) ==
  /\ HandOver(o, p) /\ fee <= balance[p]
  /\ balance' = [balance EXCEPT ![p] = @ - fee, ![SoldBy[o]] = @ + fee]
  /\ UNCHANGED clean

Overwrite(o, p) ==
  /\ HandOver(o, p) /\ clean' = FALSE
  /\ \A q \in People : balance'[q] >= 0
  /\ \A q \in People \ {p, SoldBy[o]} : balance'[q] = balance[q]

Give(p, n) ==
  /\ balance' = [balance EXCEPT ![p] = @ + n]
  /\ UNCHANGED <<owns, clean>>

Next ==
  \/ \E o \in Offers, p \in People : Overwrite(o, p) \/ \E fee \in Fees[o][p] : Sell(o, p, fee)
  \/ \E p \in Members, n \in Gifts : Give(p, n)
Spec == Init /\ [][Next]_vars
=============================================================================
