------------------------------ MODULE BarBacktest -------------------------------
(***************************************************************************)
(* BacktestService._simulate_trading_new_format: a strategy is run over    *)
(* bars.  On each bar, in this order, the exits of the risk settings, the  *)
(* signals that close, four rules that scale the position, the signals     *)
(* that add, the signals that open (with a check of the bar they open on), *)
(* and at last the liquidation line.  Each of them is a step here.         *)
(*                                                                         *)
(* Prices are ticks and percentages of a price are numbers of ticks; an    *)
(* average entry price is any price between the old one and the new;       *)
(* amounts are lots, any number where the code takes a share of something, *)
(* and a lot gains its ticks.  The indicator's own target prices are left   *)
(* out.  A long and a short mirror each other (Dir).                        *)
(***************************************************************************)
EXTENDS BacktestPlans

VARIABLES
  phase,     \* the next section of the loop over the bars
  bar,       \* open, high, low, close
  due,       \* signals that take effect on this bar
  carried,   \* signals of the bar before that take effect at the next open
  capital,
  position,  \* signed, in lots
  entry,     \* entry_price
  best,      \* highest_since_entry of a long, lowest_since_entry of a short
  times,     \* trend_add_times, ...
  anchor,    \* last_trend_add_anchor, ...
  wiped,     \* is_liquidated
  leftover,  \* history: the last position ended without a reset of times
  scaled,    \* history: the position was scaled since it was opened, "bar" on this bar
  paid,      \* history: costs of the position, or of one that ended on this bar
  burst      \* history: a liquidation by price, of a position scaled on that bar or not

btVars == <<plan, phase, bar, due, carried, capital, position, entry, best, times, anchor,
            wiped, leftover, scaled, paid, burst>>

Unused == [r \in Rules |-> 0]

BtInit ==
  /\ plan \in Plans /\ phase = "bar" /\ bar = NoBar
  /\ due = {} /\ carried = {}
  /\ capital = Deposit /\ position = 0 /\ entry = 0 /\ best = 0
  /\ times = Unused /\ anchor = Unused
  /\ wiped = FALSE /\ leftover = FALSE /\ scaled = "no" /\ paid = 0 /\ burst = "no"

-----------------------------------------------------------------------------
(* Helpers *)

Dir == IF position > 0 THEN 1 ELSE -1
Lots == IF position > 0 THEN position ELSE -position

\* Mutant: the liquidation line is twice as far away as the margin lasts.
LineFar == entry - Dir * 2 * Liquidation

Line == entry - Dir * Liquidation   \* liquidation_price

\* The bar reaches a level in favour of a position, or against it.
Toward(d, level) == IF d = 1 THEN bar.high >= level ELSE bar.low <= level
Against(d, level) == IF d = 1 THEN bar.low <= level ELSE bar.high >= level

\* What an exit at this price adds to the capital.
Gain(level) == Dir * (level - entry) * Lots - Toll(Lots)

\* The position is gone. (What is left in entry and extremes is set anew by the
\* next entry; times is not.)
Flat == position' = 0 /\ entry' = 0 /\ best' = 0 /\ anchor' = Unused /\ scaled' = "no"
\* Mutant: a signal close forgets the counters of the rules.
ResetNothing == UNCHANGED times /\ leftover' = FALSE
Reset == times' = Unused /\ leftover' = FALSE
Keep == UNCHANGED times /\ leftover' = TRUE

\* "continue": the rest of the bar is skipped.
SkipBar == phase' = "bar" /\ bar' = NoBar /\ due' = {}
Goto(next) == phase' = next /\ UNCHANGED <<bar, due>>

Holds == UNCHANGED <<capital, position, entry, best, times, anchor, wiped, leftover, scaled, paid, burst>>
-----------------------------------------------------------------------------
(* The bars *)

\* Signals are confirmed on the close: they take effect here, or at the next open.
NextBar ==
  /\ phase = "bar" /\ ~wiped /\ (position # 0 \/ capital >= MinCapital)
  /\ capital <= MaxCapital
  /\ bar' \in Bars
  /\ \E S \in plan.emits :
       IF plan.timing = "open" THEN due' = carried /\ carried' = S
       ELSE due' = S /\ carried' = {}
  /\ phase' = "risk" /\ scaled' = (IF scaled = "no" THEN "no" ELSE "before")
  /\ paid' = IF position = 0 THEN 0 ELSE paid
  /\ UNCHANGED <<plan, capital, position, entry, best, times, anchor, wiped, leftover, burst>>

\* Flat with less than a trade takes: the backtest stops.
Broke ==
  /\ phase = "bar" /\ ~wiped /\ position = 0 /\ capital < MinCapital
  /\ wiped' = TRUE /\ capital' = 0 /\ phase' = "done"
  /\ UNCHANGED <<plan, bar, due, carried, position, entry, best, times, anchor, leftover, scaled, paid, burst>>

\* Stop loss, trailing stop, take profit, in this order; the price is the trigger's.
StopHit == plan.stop > 0 /\ Against(Dir, entry - Dir * plan.stop)
TrailHit(reach) ==
  /\ plan.trail > 0
  /\ plan.activation > 0 => Dir * (reach - entry) >= plan.activation
  /\ Against(Dir, reach - Dir * plan.trail)
ProfitHit == plan.trail = 0 /\ plan.profit > 0 /\ Toward(Dir, entry + Dir * plan.profit)
ExitPrice(reach) ==
  IF StopHit THEN entry - Dir * plan.stop
  ELSE IF TrailHit(reach) THEN reach - Dir * plan.trail
  ELSE entry + Dir * plan.profit

\* The exits of the risk settings. Only a short is checked for ruin.
Risk ==
  /\ phase = "risk" /\ UNCHANGED <<plan, carried, burst>>
  /\ LET reach == Better(Dir, IF Dir = 1 THEN bar.high ELSE bar.low, best)
         worth == capital + Gain(ExitPrice(reach))
         ruined == Dir = -1 /\ worth <= 0
     IN IF position = 0 THEN Goto("close") /\ UNCHANGED <<capital, position, entry, best, times, anchor, wiped, leftover, scaled, paid>>
        ELSE IF StopHit \/ TrailHit(reach) \/ ProfitHit
        THEN /\ capital' = (IF ruined THEN 0 ELSE worth) /\ wiped' = ruined
             /\ paid' = paid + Toll(Lots)
             /\ Flat /\ (IF ruined THEN Keep ELSE Reset) /\ SkipBar
        ELSE /\ best' = reach /\ Goto("close")
             /\ UNCHANGED <<capital, position, entry, times, anchor, wiped, leftover, scaled, paid>>

\* The price at which signals are executed.
SignalPrice == IF plan.timing = "open" THEN bar.open ELSE bar.close
Closing == IF position > 0 THEN "close_long" \in due ELSE "close_short" \in due

\* Nothing is scaled on a bar with a signal to open or close.
Scaling == IF due = {} /\ position # 0 /\ capital >= MinCapital THEN "trendAdd" ELSE "add"

\* A signal closes the position; too little capital afterwards ends the backtest,
\* and a ruined short also ends the bar.
SignalClose ==
  /\ phase = "close" /\ UNCHANGED <<plan, carried, burst>>
  /\ LET worth == capital + Gain(SignalPrice)
         ruined == position < 0 /\ worth <= 0
     IN IF position = 0 \/ ~Closing
        THEN Goto(Scaling) /\ UNCHANGED <<capital, position, entry, best, times, anchor, wiped, leftover, scaled, paid>>
        ELSE /\ capital' = (IF worth < MinCapital THEN 0 ELSE worth) /\ wiped' = (worth < MinCapital)
             /\ paid' = paid + Toll(Lots) /\ Flat
             /\ IF ruined THEN Keep /\ SkipBar ELSE Reset /\ Goto("add")

-----------------------------------------------------------------------------
(* Scaling *)

After(rule) ==
  CASE rule = "trendAdd" -> "dcaAdd" [] rule = "dcaAdd" -> "trendReduce"
    [] rule = "trendReduce" -> "adverseReduce" [] OTHER -> "add"

Favourable(rule) == rule \in {"trendAdd", "trendReduce"}
Adding(rule) == rule \in {"trendAdd", "dcaAdd"}
Trigger(rule) ==
  LET step == Dir * plan.rules[rule].step
  IN IF Favourable(rule) THEN anchor[rule] + step ELSE anchor[rule] - step

\* Enabled, with a step, and used less than its maximum (0 is no maximum). The
\* two rules that add exclude each other.
Allowed(rule) ==
  LET r == plan.rules[rule]
  IN /\ r.enabled /\ r.step > 0 /\ (r.max > 0 => times[rule] < r.max)
     /\ rule = "dcaAdd" => ~plan.rules["trendAdd"].enabled

Scales(rule) ==
  /\ position # 0 /\ Allowed(rule)
  /\ IF Favourable(rule) THEN Toward(Dir, Trigger(rule)) ELSE Against(Dir, Trigger(rule))
  /\ Adding(rule) => Lots < MaxLots

\* A new entry price is the average of the old one and the price of the add.
Grow(lots, price) ==
  /\ position' = position + Dir * lots
  /\ entry' \in (entry..price) \cup (price..entry)
  /\ scaled' = "bar"

\* A parameterised rule. A reduce that empties the position leaves its counters.
Scale(rule) ==
  /\ phase = rule /\ UNCHANGED <<plan, carried, burst, wiped>> /\ Goto(After(rule))
  /\ IF ~Scales(rule)
     THEN UNCHANGED <<capital, position, entry, best, times, anchor, leftover, scaled, paid>>
     ELSE \E lots \in 1..MaxLots :
       /\ times' = [times EXCEPT ![rule] = @ + 1]
       /\ paid' = paid + IF Adding(rule) THEN Charge(lots) ELSE Toll(lots)
       /\ \/ /\ Adding(rule) /\ Lots + lots <= MaxLots
             /\ Grow(lots, Trigger(rule) + Dir * plan.slip) /\ capital' = capital - Charge(lots) /\ UNCHANGED <<best, leftover>>
             /\ anchor' = [anchor EXCEPT ![rule] = Trigger(rule)]
          \/ /\ ~Adding(rule) /\ lots < Lots
             /\ capital' = capital + Dir * (Trigger(rule) - entry) * lots - Toll(lots)
             /\ position' = position - Dir * lots /\ scaled' = "bar"
             /\ anchor' = [anchor EXCEPT ![rule] = Trigger(rule)]
             /\ UNCHANGED <<entry, best, leftover>>
          \/ /\ ~Adding(rule) /\ lots = Lots
             /\ capital' = capital + Gain(Trigger(rule))
             /\ Flat /\ leftover' = TRUE

\* The indicator's own add, at the close of the bar it is signalled on, also
\* when other signals wait for the next open.
AddSignal ==
  /\ phase = "add" /\ UNCHANGED <<plan, carried, burst, wiped, best, times, anchor, leftover>>
  /\ Goto("enter")
  /\ \/ UNCHANGED <<capital, position, entry, scaled, paid>>
     \/ /\ plan.adds /\ due = {} /\ position # 0 /\ capital >= MinCapital /\ Lots < MaxLots
        /\ Grow(1, bar.close + Dir * plan.slip) /\ capital' = capital - Charge(1) /\ paid' = paid + Charge(1)

-----------------------------------------------------------------------------
(* Entries and the liquidation line *)

\* Mutant: a position on the other side keeps a signal from opening.
OpeningFlat ==
  IF capital < MinCapital \/ position # 0 THEN 0
  ELSE IF "open_long" \in due THEN 1 ELSE IF "open_short" \in due THEN -1 ELSE 0

\* The direction in which a signal opens, 0 for none.
Opening ==
  IF capital < MinCapital THEN 0
  ELSE IF "open_long" \in due /\ (position = 0 \/ (plan.both /\ position < 0)) THEN 1
  ELSE IF "open_short" \in due /\ (position = 0 \/ (plan.both /\ position > 0)) THEN -1
  ELSE 0

\* A reversal first closes at the open, and never ends below nothing.
Balance ==
  IF position = 0 THEN capital
  ELSE IF capital + Gain(bar.open) > 0 THEN capital + Gain(bar.open) ELSE 0

EntryPrice(d) == SignalPrice + d * plan.slip

\* Mutant: the liquidation line is tested first.
LiquidatedFirst(d, price) == Against(d, price - d * Liquidation)

\* On the bar of the entry the line counts only when the stop is no nearer.
Liquidated(d, price) ==
  /\ Against(d, price - d * Liquidation)
  /\ plan.stop = 0 \/ plan.stop >= Liquidation \/ ~Against(d, price - d * plan.stop)

\* Any part of the capital is used, up to all of it; the commission comes on top.
\* The whole bar is then held against the stop and the line, which end the position
\* without a reset of the counters.
Enter ==
  /\ phase = "enter" /\ UNCHANGED <<plan, carried>>
  /\ IF Opening = 0
     THEN Goto("line") /\ Holds
     ELSE IF position # 0 /\ Balance < MinCapital
     THEN capital' = 0 /\ wiped' = TRUE /\ paid' = 0 /\ Flat /\ Reset /\ SkipBar /\ UNCHANGED burst
     ELSE \E n \in 1..MaxLots :
       LET d == Opening
           price == EntryPrice(d)
           stopped == plan.stop > 0 /\ Against(d, price - d * plan.stop)
           worth == Balance - Charge(n) - (plan.stop * n + Toll(n))
       IN /\ n * Liquidation <= Balance
          /\ \/ /\ Liquidated(d, price)
                /\ capital' = 0 /\ wiped' = TRUE /\ paid' = 0 /\ Flat /\ SkipBar
                /\ burst' = "bare"
             \/ /\ stopped /\ ~Liquidated(d, price)
                /\ capital' = (IF worth <= 0 THEN 0 ELSE worth) /\ wiped' = (worth <= 0)
                /\ paid' = Charge(n) + Toll(n) /\ Flat /\ SkipBar /\ UNCHANGED burst
             \/ /\ ~stopped /\ ~Liquidated(d, price)
                /\ capital' = Balance - Charge(n) /\ paid' = Charge(n)
                /\ position' = d * n /\ entry' = price /\ best' = price
                /\ anchor' = [r \in Rules |-> IF plan.rules[r].enabled THEN price ELSE 0]
                /\ scaled' = "no" /\ Goto("line") /\ UNCHANGED <<wiped, burst>>
          /\ IF position = 0 THEN UNCHANGED <<times, leftover>> ELSE Reset

\* The safety net: a position beyond its line takes the whole capital with it.
LiquidationLine ==
  /\ phase = "line" /\ UNCHANGED <<plan, carried>>
  /\ IF position # 0 /\ ~wiped /\ Against(Dir, Line)
     THEN /\ capital' = 0 /\ wiped' = TRUE /\ paid' = 0 /\ Flat /\ Keep /\ SkipBar
          /\ burst' = IF scaled = "bar" THEN "scaled" ELSE "bare"
     ELSE Goto("mark") /\ Holds

\* The equity of this bar; it may have been the last one.
Mark ==
  /\ phase = "mark" /\ UNCHANGED <<plan, carried>> /\ Holds
  /\ SkipBar \/ Goto("end")

\* What is open at the end is closed at the last close.
ForceExit ==
  /\ phase = "end" /\ phase' = "done"
  /\ LET worth == capital + Gain(bar.close)
         ruined == position < 0 /\ worth <= 0
     IN capital' = (IF position = 0 THEN capital ELSE IF ruined THEN 0 ELSE worth)
        /\ wiped' = (wiped \/ ruined)
  /\ paid' = paid + Toll(Lots) /\ Flat /\ Keep /\ bar' = NoBar /\ due' = {}
  /\ UNCHANGED <<plan, carried, burst>>

BtNext ==
  \/ NextBar \/ Broke \/ Risk \/ SignalClose \/ (\E rule \in Rules : Scale(rule))
  \/ AddSignal \/ Enter \/ LiquidationLine \/ Mark \/ ForceExit

BtSpec == BtInit /\ [][BtNext]_btVars

-----------------------------------------------------------------------------
(* Properties *)

Phases == {"bar", "risk", "close", "add", "enter", "line", "mark", "end", "done"} \cup Rules

BtTypeOK ==
  /\ plan \in Plans /\ phase \in Phases /\ bar \in BarOf
  /\ due \subseteq Signals /\ carried \subseteq Signals
  /\ capital \in Int /\ position \in Int /\ entry \in Int /\ best \in Int
  /\ times \in [Rules -> Nat] /\ anchor \in [Rules -> Int]
  /\ wiped \in BOOLEAN /\ leftover \in BOOLEAN
  /\ scaled \in {"no", "before", "bar"} /\ paid \in Nat /\ burst \in {"no", "bare", "scaled"}

\* While nothing is held the counters of the scaling rules are unused, so the next
\* position may be scaled as often as the settings allow, unless the last position
\* was emptied by a reduce or ended in ruin.
CountersUnused == position = 0 /\ ~leftover => times = Unused
FlatUnscaled == position = 0 => scaled = "no"

\* What is held after the exits of a bar has a stop the bar has not touched.
StopUntouched ==
  position # 0 /\ scaled # "bar" /\ phase \notin {"bar", "risk"} /\ plan.stop > 0 =>
    ~Against(Dir, entry - Dir * plan.stop)

\* A ruined backtest holds nothing.
RuinedFlat == wiped => capital = 0 /\ position = 0

\* What every section of the bar relies on when it begins.
BacktestInv == BtTypeOK /\ CountersUnused /\ FlatUnscaled /\ StopUntouched /\ RuinedFlat

\* A stop loss nearer than the liquidation line protects: the line takes the
\* capital only from a position without such a stop, or one whose average price,
\* and with it the line, was moved by scaling on that very bar.
StopsProtect == burst = "bare" => plan.stop = 0 \/ plan.stop >= Liquidation

\* No position is carried out of a bar that touched its liquidation line or its
\* stop, be it an old one, one opened on the bar or the other side of a reversal.
NoSurvivor ==
  phase \in {"mark", "end"} /\ position # 0 =>
    /\ ~Against(Dir, entry - Dir * Liquidation)
    /\ plan.stop > 0 /\ scaled # "bar" => ~Against(Dir, entry - Dir * plan.stop)

\* Stop and liquidation line act in the order of their prices, and none is missed.
ExitsInOrder == StopsProtect /\ NoSurvivor

\* Without scaling, and with exits no further than the line, all that the capital can
\* lack of the margin of what is held is what its executions cost, and no sequence
\* of exits, reversals and gaps leaves a debt larger than that. (The code sizes an
\* entry by the whole capital before its commission, and does not check an exit of a
\* long for ruin, so such a debt does occur.)
Unscaled == ~plan.adds /\ \A rule \in Rules : ~plan.rules[rule].enabled
Solvent ==
  Unscaled /\ plan.stop <= Liquidation /\ plan.trail <= Liquidation =>
    capital + paid >= Lots * Liquidation

\* A signal to open that reaches its section is served: with buy and sell signals
\* that reverse, or with the other side closed on the same bar, what is held
\* afterwards is on the side of the signal.
Reverses ==
  phase = "line" /\ capital >= MinCapital =>
    /\ due \cap {"open_long", "open_short"} = {"open_long"} /\ (plan.both \/ "close_short" \in due)
         => position > 0
    /\ due \cap {"open_long", "open_short"} = {"open_short"} /\ (plan.both \/ "close_long" \in due)
         => position < 0

\* "If activationPct is not provided, reuse takeProfitPct as the trailing
\* activation threshold": such a trailing exit only follows a gain of that size.
\* It is refuted: the threshold is computed anew, without the fallback (2452).
TrailingWaits ==
  [][LET reach == Better(Dir, IF Dir = 1 THEN bar.high ELSE bar.low, best)
     IN /\ phase = "risk" /\ position # 0 /\ position' = 0 /\ ~StopHit
        /\ plan.trail > 0 /\ plan.activation = 0 /\ plan.profit > 0
        => Dir * (reach - entry) >= plan.profit]_btVars
=============================================================================
