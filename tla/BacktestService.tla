---------------------------- MODULE BacktestService -----------------------------
(***************************************************************************)
(* BacktestService.run_multi_timeframe: a backtest is simulated along the   *)
(* path of finer candles when that is asked for and possible, and otherwise *)
(* bar by bar.                                                              *)
(***************************************************************************)
EXTENDS BarBacktest, PathBacktest

VARIABLE simulator    \* "bars" or "path"

serviceVars == <<btVars, pathVars, simulator>>

\* Finer candles serve no plan that scales its position or trades on the close.
Precise == plan.timing = "open" /\ \A rule \in Rules : ~plan.rules[rule].enabled

ServiceInit ==
  /\ BtInit /\ PathInit
  /\ simulator \in {"bars", "path"} /\ (simulator = "path" => Precise)

ServiceNext ==
  \/ simulator = "bars" /\ BtNext /\ UNCHANGED <<pathVars, simulator>>
  \/ simulator = "path" /\ PathNext /\ UNCHANGED <<btVars, simulator>>

ServiceSpec == ServiceInit /\ [][ServiceNext]_serviceVars
=============================================================================
