---------------------------- MODULE MCSignalEngine -----------------------------
(***************************************************************************)
(* Three strategies for SignalEngine: a live indicator strategy for both   *)
(* directions, a live bot, and one that only signals, for longs.           *)
(***************************************************************************)
EXTENDS SignalEngine

Emit(act, side) == [act |-> act, side |-> side]

MCSetups ==
  {[mode |-> "live", bot |-> FALSE, direction |-> "both",
    emits |-> {Emit("open", "long"), Emit("open", "short")}],
   [mode |-> "live", bot |-> TRUE, direction |-> "both",
    emits |-> {Emit("open", "long"), Emit("add", "long"), Emit("close", "long")}],
   [mode |-> "signal", bot |-> FALSE, direction |-> "long",
    emits |-> {Emit("open", "long"), Emit("open", "short"), Emit("add", "long"), Emit("reduce", "long")}]}

\* An order is always for one unit, and a position worth half at the lower price.
MCWorth == [p \in Prices |-> IF p = "low" THEN 1 ELSE 2]
MCLot == [p \in Prices |-> 1]
=============================================================================
