----------------------------- MODULE MCBacktestService --------------------------
(* Small plans for BacktestService. *)
EXTENDS BacktestService

Off == [enabled |-> FALSE, step |-> 0, max |-> 0]
NoRules == [r \in Rules |-> Off]
On(on) == [r \in Rules |-> IF r \in on THEN [enabled |-> TRUE, step |-> 1, max |-> 1] ELSE Off]
Reversing == {{}, {"open_long"}, {"open_short"}}
FourWay == {{}, {"open_long"}, {"close_long"}, {"open_short", "close_long"}}

MCPlans == {
  [timing |-> "open", both |-> TRUE, stop |-> 1, profit |-> 0, trail |-> 0, activation |-> 0, fee |-> 1, slip |-> 0,
   rules |-> NoRules, emits |-> Reversing, adds |-> FALSE],
  [timing |-> "open", both |-> FALSE, stop |-> 0, profit |-> 2, trail |-> 1, activation |-> 0, fee |-> 1, slip |-> 1,
   rules |-> NoRules, emits |-> FourWay, adds |-> FALSE],
  [timing |-> "open", both |-> TRUE, stop |-> 1, profit |-> 2, trail |-> 0, activation |-> 0, fee |-> 1, slip |-> 0,
   rules |-> On({"trendAdd", "trendReduce"}), emits |-> Reversing, adds |-> FALSE],
  [timing |-> "close", both |-> FALSE, stop |-> 0, profit |-> 0, trail |-> 0, activation |-> 0, fee |-> 1, slip |-> 0,
   rules |-> On({"dcaAdd", "adverseReduce"}), emits |-> {{}, {"open_long"}}, adds |-> TRUE],
  [timing |-> "open", both |-> FALSE, stop |-> 0, profit |-> 0, trail |-> 0, activation |-> 0, fee |-> 0, slip |-> 1,
   rules |-> NoRules, emits |-> {{}, {"open_long"}, {"open_short"}}, adds |-> FALSE]}
=============================================================================
