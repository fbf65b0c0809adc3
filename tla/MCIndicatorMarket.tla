--------------------------- MODULE MCIndicatorMarket ---------------------------
(***************************************************************************)
(* Two users who sell an indicator each and can buy the other's, one of     *)
(* which is free for members.                                               *)
(***************************************************************************)
EXTENDS IndicatorMarket, TLC

CONSTANTS a, b, ia, ib

MCOwner == ia :> a @@ ib :> b
MCPrice == ia :> 2 @@ ib :> 1
MCDeposits == a :> 2 @@ b :> 2
=============================================================================
