------------------------------ MODULE BacktestPlans -----------------------------
(***************************************************************************)
(* What the two simulators of BacktestService are given: a plan (the        *)
(* strategy settings and what its indicator may signal) and prices.         *)
(***************************************************************************)
EXTENDS Integers, FiniteSets

CONSTANTS
  Plans,        \* settings of a backtest, see PlanOf
  Prices,       \* prices of bars
  Liquidation,  \* distance of the liquidation line from the entry: 1 / leverage
  Deposit,      \* initial_capital
  MinCapital,   \* min_capital_to_trade
  MaxCapital,   \* bound of the model
  MaxLots       \* bound of the model

Signals == {"open_long", "close_long", "open_short", "close_short"}
Rules == {"trendAdd", "dcaAdd", "trendReduce", "adverseReduce"}

PlanOf ==
  [timing : {"open", "close"},        \* signalTiming: next_bar_open or bar_close
   both : BOOLEAN,                    \* buy/sell signals that reverse (_both_mode)
   stop : Nat, profit : Nat,          \* 0 for none
   trail : Nat, activation : Nat,
   fee : Nat, slip : Nat,             \* commission and slippage of a lot, shares of its price
   rules : [Rules -> [enabled : BOOLEAN, step : Nat, max : Nat]],
   emits : SUBSET SUBSET Signals,     \* what the indicator may signal on one bar
   adds : BOOLEAN]                    \* it also signals to add

ASSUME BacktestAssumption ==
  /\ Plans \subseteq PlanOf /\ Prices \subseteq Nat
  /\ Liquidation \in Nat \ {0} /\ Deposit \in Nat
  /\ MinCapital \in Nat /\ MinCapital >= Liquidation
  /\ MaxCapital \in Nat /\ MaxLots \in Nat

VARIABLE plan    \* strategy_config, commission and the indicator of this backtest

\* What an execution costs: commission, and an exit its slippage too.
Charge(lots) == lots * plan.fee
Toll(lots) == lots * (plan.fee + plan.slip)

NoBar == [open |-> 0, high |-> 0, low |-> 0, close |-> 0]
BarOf == [open : Nat, high : Nat, low : Nat, close : Nat]
Bars == {b \in [open : Prices, high : Prices, low : Prices, close : Prices] :
           /\ b.low <= b.open /\ b.open <= b.high /\ b.low <= b.close /\ b.close <= b.high}

\* The better of two prices for a position in direction d.
Better(d, a, b) == IF (d = 1) = (a > b) THEN a ELSE b
================================================================================
