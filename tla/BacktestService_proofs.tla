-------------------------- MODULE BacktestService_proofs -----------------------
(***************************************************************************)
(* Theorems about BacktestService, for all plans, prices and bounds. Of the *)
(* simulator over bars: what a bar leaves behind never touches its stop or  *)
(* its liquidation line, the line never takes a position with a nearer stop *)
(* unless it was scaled on that bar, a reversing signal is served, and      *)
(* without scaling the capital lacks no more of the margin of what is held  *)
(* than its executions cost. Of the simulator along paths: no price is used      *)
(* before it is reached, none is missed by a stop, and no signal is         *)
(* executed a bar late.                                                     *)
(***************************************************************************)
EXTENDS BacktestService, FiniteSetTheorems, TLAPS

\* What a signal was meant to close is gone when the later sections run.
Closed ==
  phase \in {"add", "enter"} \cup Rules =>
    /\ position > 0 => "close_long" \notin due
    /\ position < 0 => "close_short" \notin due

\* The inductive invariant.
BtIInv == BacktestInv /\ Closed /\ StopsProtect /\ NoSurvivor /\ Reverses

LEMMA PlanTyped ==
  ASSUME BtTypeOK
  PROVE  /\ plan.stop \in Nat /\ plan.trail \in Nat /\ plan.profit \in Nat /\ plan.activation \in Nat
         /\ plan.rules \in [Rules -> [enabled : BOOLEAN, step : Nat, max : Nat]]
         /\ plan.emits \in SUBSET SUBSET Signals /\ plan.fee \in Nat /\ plan.slip \in Nat
         /\ plan.both \in BOOLEAN /\ plan.adds \in BOOLEAN
BY BacktestAssumption DEF BtTypeOK, PlanOf

LEMMA BarTyped ==
  ASSUME BtTypeOK
  PROVE  bar.open \in Nat /\ bar.high \in Nat /\ bar.low \in Nat /\ bar.close \in Nat
BY DEF BtTypeOK, BarOf

LEMMA ReachTyped ==
  ASSUME BtTypeOK
  PROVE  Better(Dir, IF Dir = 1 THEN bar.high ELSE bar.low, best) \in Int
BY BarTyped DEF BtTypeOK, Better, Dir

LEMMA ExitTyped ==
  ASSUME BtTypeOK, NEW reach \in Int
  PROVE  ExitPrice(reach) \in Int
BY PlanTyped DEF BtTypeOK, ExitPrice, Dir

LEMMA ChargeTyped ==
  ASSUME plan \in Plans, NEW lots \in Nat
  PROVE  Charge(lots) \in Nat /\ Toll(lots) \in Nat
<1>1. plan.fee \in Nat /\ plan.fee + plan.slip \in Nat
  BY BacktestAssumption DEF PlanOf
<1>2. \A charge \in Nat : lots * charge \in Nat
  OBVIOUS
<1> QED BY <1>1, <1>2 DEF Charge, Toll

\* The cost of an exit of the whole position.
LEMMA WholeTyped ==
  ASSUME BtTypeOK
  PROVE  Lots \in Nat /\ Toll(Lots) \in Nat
<1>1. Lots \in Nat
  BY DEF BtTypeOK, Lots
<1> HIDE DEF Lots
<1> QED BY <1>1, ChargeTyped DEF BtTypeOK

LEMMA GainTyped ==
  ASSUME BtTypeOK, NEW level \in Int
  PROVE  Gain(level) \in Int
<1>1. Lots \in Int /\ Dir \in Int /\ level - entry \in Int
  BY DEF BtTypeOK, Lots, Dir
<1>2. Dir * (level - entry) \in Int
  BY <1>1
<1> HIDE DEF Lots
<1> QED BY <1>1, <1>2, WholeTyped DEF Gain

LEMMA SignalPriceTyped == ASSUME BtTypeOK PROVE SignalPrice \in Nat
BY BarTyped DEF SignalPrice

LEMMA EntryTyped == ASSUME BtTypeOK PROVE EntryPrice(Opening) \in Int
<1>1. Opening \in {-1, 0, 1}
  BY BacktestAssumption DEF Opening, BtTypeOK
<1> QED BY <1>1, SignalPriceTyped, PlanTyped DEF EntryPrice

LEMMA TriggerTyped ==
  ASSUME BtTypeOK, NEW rule \in Rules
  PROVE  Trigger(rule) \in Int
<1>1. plan.rules[rule].step \in Nat /\ anchor[rule] \in Int
  BY PlanTyped DEF BtTypeOK
<1> QED BY <1>1 DEF Trigger, Dir

LEMMA BalanceTyped ==
  ASSUME BtTypeOK
  PROVE  Balance \in Int /\ (position # 0 => Balance >= 0)
BY GainTyped, BarTyped DEF Balance, BtTypeOK

LEMMA OpeningDirection ==
  ASSUME BtTypeOK
  PROVE  /\ Opening \in {-1, 0, 1}
         /\ Opening # 0 => capital >= MinCapital
BY BacktestAssumption DEF Opening, BtTypeOK

\* What ends a position or a bar leaves values of the right kind.
LEMMA FlatTyped ==
  Flat => /\ position' = 0 /\ entry' = 0 /\ best' = 0
          /\ anchor' \in [Rules -> Int] /\ scaled' \in {"no", "before", "bar"}
BY DEF Flat, Unused

LEMMA CountersTyped ==
  ASSUME BtTypeOK, Reset \/ Keep
  PROVE  times' \in [Rules -> Nat] /\ leftover' \in BOOLEAN
<1>1. CASE Reset
  BY <1>1 DEF Reset, Unused
<1>2. CASE Keep
  BY <1>2 DEF Keep, BtTypeOK
<1> QED BY <1>1, <1>2

LEMMA SkipTyped == SkipBar => bar' \in BarOf /\ due' \subseteq Signals /\ phase' = "bar"
BY DEF SkipBar, NoBar, BarOf

\* The three outcomes of an entry of n lots, named.
Burst(n) ==
  /\ Liquidated(Opening, EntryPrice(Opening)) /\ capital' = 0 /\ wiped' = TRUE
  /\ paid' = 0 /\ Flat /\ SkipBar /\ burst' = "bare"
\* What is left of the capital when the stop acts on the bar of the entry.
Remains(n) == Balance - Charge(n) - (plan.stop * n + Toll(n))
Stopped(n) ==
  /\ ~Liquidated(Opening, EntryPrice(Opening))
  /\ plan.stop > 0 /\ Against(Opening, EntryPrice(Opening) - Opening * plan.stop)
  /\ capital' = (IF Remains(n) <= 0 THEN 0 ELSE Remains(n))
  /\ wiped' = (Remains(n) <= 0)
  /\ paid' = Charge(n) + Toll(n) /\ Flat /\ SkipBar /\ UNCHANGED burst
Opened(n) ==
  /\ ~Liquidated(Opening, EntryPrice(Opening))
  /\ ~(plan.stop > 0 /\ Against(Opening, EntryPrice(Opening) - Opening * plan.stop))
  /\ capital' = Balance - Charge(n) /\ paid' = Charge(n)
  /\ position' = Opening * n /\ entry' = EntryPrice(Opening) /\ best' = EntryPrice(Opening)
  /\ anchor' = [r \in Rules |-> IF plan.rules[r].enabled THEN EntryPrice(Opening) ELSE 0]
  /\ scaled' = "no" /\ Goto("line") /\ UNCHANGED <<wiped, burst>>
EnterWith(n) ==
  /\ n * Liquidation <= Balance
  /\ Burst(n) \/ Stopped(n) \/ Opened(n)
  /\ IF position = 0 THEN UNCHANGED <<times, leftover>> ELSE Reset

LEMMA EnterCases ==
  ASSUME Enter, Opening # 0, ~(position # 0 /\ Balance < MinCapital)
  PROVE  \E n \in 1..MaxLots : EnterWith(n)
BY DEF Enter, EnterWith, Burst, Stopped, Remains, Opened

-----------------------------------------------------------------------------
LEMMA TypeInit == BtInit => BtTypeOK
<1> SUFFICES ASSUME BtInit PROVE BtTypeOK
  OBVIOUS
<1>1. /\ bar \in BarOf /\ times \in [Rules -> Nat] /\ anchor \in [Rules -> Int]
  BY DEF BtInit, NoBar, BarOf, Unused
<1>2. /\ plan \in Plans /\ phase \in Phases /\ due \subseteq Signals /\ carried \subseteq Signals
      /\ capital \in Int /\ position \in Int /\ entry \in Int /\ best \in Int
  BY BacktestAssumption DEF BtInit, Phases
<1>3. wiped \in BOOLEAN /\ leftover \in BOOLEAN
  BY DEF BtInit
<1>4. scaled \in {"no", "before", "bar"} /\ paid \in Nat /\ burst \in {"no", "bare", "scaled"}
  BY DEF BtInit
<1> QED BY <1>1, <1>2, <1>3, <1>4 DEF BtTypeOK

LEMMA TypeNext == BtTypeOK /\ [BtNext]_btVars => BtTypeOK'
<1> SUFFICES ASSUME BtTypeOK, [BtNext]_btVars PROVE BtTypeOK'
  OBVIOUS
<1> USE DEF Phases
<1>1. CASE NextBar
  <2>1. bar' \in BarOf
    BY <1>1, BacktestAssumption DEF NextBar, Bars, BarOf
  <2>2. PICK S \in plan.emits : IF plan.timing = "open" THEN due' = carried /\ carried' = S
                                ELSE due' = S /\ carried' = {}
    BY <1>1 DEF NextBar
  <2>3. due' \subseteq Signals /\ carried' \subseteq Signals
    BY <2>2, PlanTyped DEF BtTypeOK
  <2> QED BY <1>1, <2>1, <2>3 DEF NextBar, BtTypeOK
<1>2. CASE Broke
  BY <1>2 DEF Broke, BtTypeOK
<1>3. CASE Risk
  <2> DEFINE reach == Better(Dir, IF Dir = 1 THEN bar.high ELSE bar.low, best)
  <2>1. reach \in Int /\ capital + Gain(ExitPrice(reach)) \in Int
    BY ReachTyped, ExitTyped, GainTyped DEF BtTypeOK
  <2>2. capital' \in Int /\ position' \in Int /\ entry' \in Int /\ best' \in Int
        /\ anchor' \in [Rules -> Int] /\ scaled' \in {"no", "before", "bar"}
    BY <1>3, <2>1, FlatTyped DEF Risk, BtTypeOK
  <2>3. times' \in [Rules -> Nat] /\ leftover' \in BOOLEAN
    BY <1>3, CountersTyped DEF Risk, BtTypeOK
  <2>5. wiped' \in BOOLEAN
    BY <1>3 DEF Risk, BtTypeOK
  <2>6. paid' \in Nat
    BY <1>3, WholeTyped DEF Risk, BtTypeOK
  <2>4. bar' \in BarOf /\ due' \subseteq Signals /\ phase' \in Phases
    BY <1>3, SkipTyped DEF Risk, BtTypeOK, Goto
  <2> QED BY <1>3, <2>2, <2>3, <2>4, <2>5, <2>6 DEF Risk, BtTypeOK
<1>4. CASE SignalClose
  <2>1. capital + Gain(SignalPrice) \in Int
    BY SignalPriceTyped, GainTyped DEF BtTypeOK
  <2>2. capital' \in Int /\ position' \in Int /\ entry' \in Int /\ best' \in Int
        /\ anchor' \in [Rules -> Int] /\ scaled' \in {"no", "before", "bar"}
    BY <1>4, <2>1, FlatTyped DEF SignalClose, BtTypeOK
  <2>3. times' \in [Rules -> Nat] /\ leftover' \in BOOLEAN
    BY <1>4, CountersTyped DEF SignalClose, BtTypeOK
  <2>5. wiped' \in BOOLEAN
    <3>1. CASE capital + Gain(SignalPrice) < MinCapital
      BY <1>4, <3>1 DEF SignalClose, BtTypeOK
    <3>2. CASE ~(capital + Gain(SignalPrice) < MinCapital)
      <4>1. CASE position = 0 \/ ~Closing
        BY <1>4, <4>1 DEF SignalClose, BtTypeOK
      <4>2. CASE ~(position = 0 \/ ~Closing)
        <5>1. wiped' = (capital + Gain(SignalPrice) < MinCapital)
          BY <1>4, <4>2, Zenon DEF SignalClose
        <5> QED BY <3>2, <5>1
      <4> QED BY <4>1, <4>2
    <3> QED BY <3>1, <3>2
  <2>6. paid' \in Nat
    BY <1>4, WholeTyped DEF SignalClose, BtTypeOK
  <2>4. bar' \in BarOf /\ due' \subseteq Signals /\ phase' \in Phases
    BY <1>4, SkipTyped DEF SignalClose, BtTypeOK, Goto, Scaling, Rules
  <2> QED BY <1>4, <2>2, <2>3, <2>4, <2>5, <2>6 DEF SignalClose, BtTypeOK
<1>5. ASSUME NEW rule \in Rules, Scale(rule) PROVE BtTypeOK'
  <2>1. bar' \in BarOf /\ due' \subseteq Signals /\ phase' \in Phases
    BY <1>5 DEF Scale, BtTypeOK, Goto, After, Rules
  <2>2. CASE ~Scales(rule)
    BY <1>5, <2>1, <2>2 DEF Scale, BtTypeOK
  <2>3. CASE Scales(rule)
    <3> DEFINE price == Trigger(rule)
    <3>1. price \in Int
      BY TriggerTyped
    <3>2. PICK lots \in 1..MaxLots :
       /\ times' = [times EXCEPT ![rule] = @ + 1]
       /\ paid' = paid + IF Adding(rule) THEN Charge(lots) ELSE Toll(lots)
       /\ \/ /\ Adding(rule) /\ Lots + lots <= MaxLots
             /\ Grow(lots, Trigger(rule) + Dir * plan.slip) /\ capital' = capital - Charge(lots) /\ UNCHANGED <<best, leftover>>
             /\ anchor' = [anchor EXCEPT ![rule] = Trigger(rule)]
          \/ /\ ~Adding(rule) /\ lots < Lots
             /\ capital' = capital + Dir * (Trigger(rule) - entry) * lots - Toll(lots)
             /\ position' = position - Dir * lots /\ scaled' = "bar"
             /\ anchor' = [anchor EXCEPT ![rule] = Trigger(rule)]
             /\ UNCHANGED <<entry, best, leftover>>
          \/ /\ ~Adding(rule) /\ lots = Lots
             /\ capital' = capital + Gain(Trigger(rule))
             /\ Flat /\ leftover' = TRUE
      BY <1>5, <2>3 DEF Scale
    <3>3. times' \in [Rules -> Nat] /\ anchor' \in [Rules -> Int]
      BY <3>1, <3>2 DEF BtTypeOK, Flat, Unused
    <3>4. lots \in Int /\ Dir \in {1, -1}
      BY <3>2, BacktestAssumption DEF Dir
    <3>5. Dir * (price - entry) \in Int
      BY <3>1, <3>4 DEF BtTypeOK
    <3>6. Dir * (price - entry) * lots \in Int /\ Gain(price) \in Int
      BY <3>1, <3>4, <3>5, GainTyped
    <3>12. Charge(lots) \in Nat /\ Toll(lots) \in Nat
      BY <3>2, ChargeTyped, BacktestAssumption DEF BtTypeOK
    <3>13. paid' \in Nat
      BY <3>2, <3>12 DEF BtTypeOK
    <3>7. position + Dir * lots \in Int /\ position - Dir * lots \in Int
      BY <3>4 DEF BtTypeOK
    <3>14. price + Dir * plan.slip \in Int
      BY <3>1, <3>4, PlanTyped
    <3>8. Grow(lots, price + Dir * plan.slip) => entry' \in Int /\ position' \in Int
      BY <3>7, <3>14 DEF Grow, BtTypeOK
    <3>9. capital' \in Int /\ position' \in Int /\ entry' \in Int /\ best' \in Int
      BY <3>2, <3>6, <3>7, <3>8, <3>12 DEF BtTypeOK, Flat
    <3>10. leftover' \in BOOLEAN
      BY <3>2 DEF BtTypeOK
    <3>11. scaled' \in {"no", "before", "bar"}
      BY <3>2 DEF BtTypeOK, Flat, Grow
    <3> QED BY <1>5, <2>1, <3>3, <3>9, <3>10, <3>11, <3>13 DEF Scale, BtTypeOK
  <2> QED BY <2>2, <2>3
<1>6. CASE AddSignal
  <2>1. Grow(1, bar.close + Dir * plan.slip) => entry' \in Int /\ position' \in Int /\ scaled' \in {"no", "before", "bar"}
    BY BarTyped, PlanTyped DEF Grow, BtTypeOK, Dir
  <2>2. Charge(1) \in Nat
    BY ChargeTyped DEF BtTypeOK
  <2> QED BY <1>6, <2>1, <2>2 DEF AddSignal, BtTypeOK, Goto
<1>7. CASE Enter
  <2>1. CASE Opening = 0
    BY <1>7, <2>1 DEF Enter, BtTypeOK, Goto, Holds
  <2>2. CASE Opening # 0 /\ position # 0 /\ Balance < MinCapital
    <3>1. /\ capital' = 0 /\ wiped' = TRUE /\ paid' = 0 /\ Flat /\ Reset /\ SkipBar
          /\ UNCHANGED <<plan, carried, burst>>
      BY <1>7, <2>2 DEF Enter
    <3> QED BY <3>1, FlatTyped, CountersTyped, SkipTyped DEF BtTypeOK
  <2>3. CASE Opening # 0 /\ ~(position # 0 /\ Balance < MinCapital)
    <3>1. Balance \in Int /\ EntryPrice(Opening) \in Int /\ plan.stop \in Nat
      BY BalanceTyped, EntryTyped, PlanTyped
    <3>2. ASSUME NEW n \in 1..MaxLots
          PROVE  Remains(n) \in Int /\ Charge(n) \in Nat /\ Toll(n) \in Nat /\ Opening * n \in Int
      <4>1. n \in Nat /\ Charge(n) \in Nat /\ Toll(n) \in Nat
        BY BacktestAssumption, ChargeTyped DEF BtTypeOK
      <4>2. plan.stop * n \in Int /\ Opening * n \in Int
        BY <3>1, <4>1, OpeningDirection
      <4> QED BY <3>1, <4>1, <4>2 DEF Remains
    <3>3. PICK n \in 1..MaxLots : EnterWith(n)
      BY <1>7, <2>3, EnterCases
    <3>4. /\ capital' \in Int /\ position' \in Int /\ entry' \in Int /\ best' \in Int
          /\ scaled' \in {"no", "before", "bar"}
      BY <3>1, <3>2, <3>3, FlatTyped DEF EnterWith, Burst, Stopped, Opened
    <3>5. anchor' \in [Rules -> Int]
      BY <3>1, <3>3, FlatTyped DEF EnterWith, Burst, Stopped, Opened
    <3>6. wiped' \in BOOLEAN
      <4>1. CASE Remains(n) <= 0
        BY <3>3, <4>1 DEF EnterWith, Burst, Stopped, Opened, BtTypeOK
      <4>2. CASE ~(Remains(n) <= 0)
        <5>1. wiped' = TRUE \/ wiped' = FALSE \/ wiped' = wiped
          BY <3>3, <4>2 DEF EnterWith, Burst, Stopped, Opened
        <5> QED BY <5>1 DEF BtTypeOK
      <4> QED BY <4>1, <4>2
    <3>7. burst' \in {"no", "bare", "scaled"}
      BY <3>3 DEF EnterWith, Burst, Stopped, Opened, BtTypeOK
    <3>8. times' \in [Rules -> Nat] /\ leftover' \in BOOLEAN
      BY <3>3, CountersTyped DEF EnterWith, BtTypeOK
    <3>9. bar' \in BarOf /\ due' \subseteq Signals /\ phase' \in Phases
      BY <3>3, SkipTyped DEF EnterWith, Burst, Stopped, Opened, BtTypeOK, Goto
    <3>10. paid' \in Nat
      BY <3>2, <3>3 DEF EnterWith, Burst, Stopped, Opened
    <3> QED BY <1>7, <3>4, <3>5, <3>6, <3>7, <3>8, <3>9, <3>10 DEF Enter, BtTypeOK
  <2> QED BY <2>1, <2>2, <2>3
<1>8. CASE LiquidationLine
  <2>1. CASE position # 0 /\ ~wiped /\ Against(Dir, Line)
    <3>1. /\ capital' = 0 /\ wiped' = TRUE /\ paid' = 0 /\ Flat /\ Keep /\ SkipBar
          /\ burst' \in {"bare", "scaled"} /\ UNCHANGED <<plan, carried>>
      BY <1>8, <2>1 DEF LiquidationLine
    <3> QED BY <3>1, FlatTyped, CountersTyped, SkipTyped DEF BtTypeOK
  <2>2. CASE ~(position # 0 /\ ~wiped /\ Against(Dir, Line))
    BY <1>8, <2>2 DEF LiquidationLine, BtTypeOK, Goto, Holds
  <2> QED BY <2>1, <2>2
<1>9. CASE Mark
  BY <1>9 DEF Mark, BtTypeOK, Holds, SkipBar, Goto, NoBar, BarOf
<1>10. CASE ForceExit
  <2>1. capital + Gain(bar.close) \in Int
    BY BarTyped, GainTyped DEF BtTypeOK
  <2> QED BY <1>10, <2>1, WholeTyped DEF ForceExit, BtTypeOK, Flat, Keep, NoBar, BarOf, Unused
<1>11. CASE UNCHANGED btVars
  BY <1>11 DEF btVars, BtTypeOK
<1> QED BY <1>1, <1>2, <1>3, <1>4, <1>5, <1>6, <1>7, <1>8, <1>9, <1>10, <1>11 DEF BtNext

-----------------------------------------------------------------------------
(* The sections of a bar *)

\* The parts of the invariant that look at the position only.
Held == CountersUnused /\ FlatUnscaled /\ RuinedFlat

\* A position that ends leaves nothing behind.
LEMMA FlatSafe ==
  ASSUME Flat, Reset \/ leftover' = TRUE, wiped' => capital' = 0, phase' # "line"
  PROVE  Held' /\ StopUntouched' /\ Closed' /\ NoSurvivor' /\ Reverses'
BY DEF Flat, Reset, Held, CountersUnused, FlatUnscaled, RuinedFlat, StopUntouched, Closed,
   NoSurvivor, Reverses

\* A section that touches no position only moves on.
LEMMA MovesOn ==
  ASSUME Held, UNCHANGED <<capital, position, times, wiped, leftover, scaled>>
  PROVE  Held'
BY DEF Held, CountersUnused, FlatUnscaled, RuinedFlat

\* A level against the position is reached sooner the nearer it is.
LEMMA NearerFirst ==
  ASSUME BtTypeOK, NEW d \in {1, -1}, NEW price \in Int, NEW near \in Nat, NEW far \in Nat,
         near <= far, Against(d, price - d * far)
  PROVE  Against(d, price - d * near)
BY BarTyped DEF Against

\* Adding and partly reducing keep the side of the position.
LEMMA SideKept ==
  ASSUME BtTypeOK, position # 0, NEW lots \in Int, lots > 0
  PROVE  /\ position > 0 => position + Dir * lots > 0
         /\ position < 0 => position + Dir * lots < 0
         /\ lots < Lots => /\ position > 0 => position - Dir * lots > 0
                           /\ position < 0 => position - Dir * lots < 0
         /\ position > 0 \/ position < 0
BY DEF BtTypeOK, Dir, Lots

LEMMA InvInit == BtInit => BtIInv
<1> SUFFICES ASSUME BtInit PROVE BtIInv
  OBVIOUS
<1>1. BtTypeOK
  BY TypeInit
<1>2. phase = "bar" /\ position = 0 /\ times = Unused /\ scaled = "no" /\ ~wiped /\ burst = "no"
  BY DEF BtInit
<1> QED BY <1>1, <1>2 DEF BtIInv, BacktestInv, CountersUnused, FlatUnscaled, RuinedFlat,
     StopUntouched, Closed, StopsProtect, NoSurvivor, Reverses, Rules

\* Every section of the bar keeps the invariant.
LEMMA InvNext == BtIInv /\ [BtNext]_btVars => BtIInv'
<1> SUFFICES ASSUME BtIInv, [BtNext]_btVars PROVE BtIInv'
  OBVIOUS
<1>0. BtTypeOK /\ BtTypeOK' /\ Held /\ StopUntouched /\ Closed /\ StopsProtect /\ NoSurvivor /\ Reverses
  BY TypeNext DEF BtIInv, BacktestInv, Held
<1>a. SUFFICES Held' /\ StopUntouched' /\ Closed' /\ StopsProtect' /\ NoSurvivor' /\ Reverses'
  BY <1>0 DEF BtIInv, BacktestInv, Held
<1>1. CASE NextBar
  <2>1. Held'
    BY <1>0, <1>1 DEF NextBar, Held, CountersUnused, FlatUnscaled, RuinedFlat
  <2>2. phase' = "risk" /\ UNCHANGED <<plan, burst>>
    BY <1>1 DEF NextBar
  <2> QED BY <1>0, <2>1, <2>2 DEF StopUntouched, Closed, StopsProtect, NoSurvivor, Reverses, Rules
<1>2. CASE Broke
  BY <1>0, <1>2 DEF Broke, Held, CountersUnused, FlatUnscaled, RuinedFlat, StopUntouched, Closed,
     StopsProtect, NoSurvivor, Reverses, Rules
<1>3. CASE Risk
  <2> DEFINE reach == Better(Dir, IF Dir = 1 THEN bar.high ELSE bar.low, best)
  <2>1. UNCHANGED <<plan, burst>>
    BY <1>3 DEF Risk
  <2>2. CASE position = 0
    <3>1. Goto("close") /\ UNCHANGED <<capital, position, times, wiped, leftover, scaled>>
      BY <1>3, <2>2 DEF Risk
    <3> QED BY <1>0, <2>1, <2>2, <3>1, MovesOn DEF Goto, StopUntouched, Closed, StopsProtect,
            NoSurvivor, Reverses, Rules
  <2>3. CASE position # 0 /\ (StopHit \/ TrailHit(reach) \/ ProfitHit)
    <3>1. Flat /\ (Reset \/ Keep) /\ SkipBar /\ (wiped' => capital' = 0)
      BY <1>3, <2>3 DEF Risk
    <3> QED BY <1>0, <2>1, <3>1, FlatSafe DEF SkipBar, Keep, StopsProtect
  <2>4. CASE position # 0 /\ ~(StopHit \/ TrailHit(reach) \/ ProfitHit)
    <3>1. Goto("close") /\ UNCHANGED <<capital, position, entry, times, wiped, leftover, scaled>>
      BY <1>3, <2>4 DEF Risk
    <3>2. StopUntouched'
      BY <2>1, <2>4, <3>1 DEF Goto, StopHit, StopUntouched, Against, Dir
    <3> QED BY <1>0, <2>1, <3>1, <3>2, MovesOn DEF Goto, Closed, StopsProtect, NoSurvivor, Reverses, Rules
  <2> QED BY <2>2, <2>3, <2>4
<1>4. CASE SignalClose
  <2>1. phase = "close" /\ UNCHANGED <<plan, burst>>
    BY <1>4 DEF SignalClose
  <2>2. CASE position = 0 \/ ~Closing
    <3>1. Goto(Scaling) /\ UNCHANGED <<capital, position, entry, times, wiped, leftover, scaled>>
      BY <1>4, <2>2 DEF SignalClose
    <3>2. Scaling \in {"trendAdd", "add"}
      BY DEF Scaling
    <3>3. StopUntouched'
      BY <1>0, <2>1, <3>1 DEF Goto, StopUntouched, Against, Dir
    <3>4. Closed'
      BY <1>0, <2>2, <3>1 DEF Goto, Closing, Closed, BtTypeOK
    <3> QED BY <1>0, <2>1, <3>1, <3>2, <3>3, <3>4, MovesOn DEF Goto, StopsProtect, NoSurvivor, Reverses
  <2>3. CASE ~(position = 0 \/ ~Closing)
    <3> DEFINE worth == capital + Gain(SignalPrice)
               ruined == position < 0 /\ worth <= 0
    <3>1. /\ capital' = (IF worth < MinCapital THEN 0 ELSE worth) /\ wiped' = (worth < MinCapital)
          /\ Flat /\ IF ruined THEN Keep /\ SkipBar ELSE Reset /\ Goto("add")
      BY <1>4, <2>3 DEF SignalClose
    <3>2. Reset \/ leftover' = TRUE
      BY <3>1 DEF Keep
    <3>3. phase' # "line"
      BY <3>1 DEF SkipBar, Goto
    <3>4. wiped' => capital' = 0
      <4> HIDE DEF worth
      <4> QED BY <3>1
    <3>5. Flat
      BY <3>1
    <3> QED BY <1>0, <2>1, <3>2, <3>3, <3>4, <3>5, FlatSafe DEF StopsProtect
  <2> QED BY <2>2, <2>3
<1>5. ASSUME NEW rule \in Rules, Scale(rule)
      PROVE  Held' /\ StopUntouched' /\ Closed' /\ StopsProtect' /\ NoSurvivor' /\ Reverses'
  <2>1. phase = rule /\ Goto(After(rule)) /\ UNCHANGED <<plan, burst, wiped>>
    BY <1>5 DEF Scale
  <2>2. phase' \in {"add"} \cup Rules
    BY <2>1 DEF Goto, After, Rules
  <2>3. phase' \notin {"line", "mark", "end"} /\ StopsProtect'
    BY <1>0, <2>1, <2>2 DEF Rules, StopsProtect
  <2>4. CASE ~Scales(rule)
    <3>1. UNCHANGED <<capital, position, entry, times, leftover, scaled>>
      BY <1>5, <2>4 DEF Scale
    <3>2. StopUntouched'
      BY <1>0, <2>1, <3>1 DEF Goto, StopUntouched, Against, Dir, Rules
    <3>3. Closed'
      BY <1>0, <2>1, <3>1 DEF Goto, Closed
    <3> QED BY <1>0, <2>1, <2>3, <3>1, <3>2, <3>3, MovesOn DEF NoSurvivor, Reverses
  <2>5. CASE Scales(rule)
    <3>1. PICK lots \in 1..MaxLots :
       /\ times' = [times EXCEPT ![rule] = @ + 1]
       /\ paid' = paid + IF Adding(rule) THEN Charge(lots) ELSE Toll(lots)
       /\ \/ /\ Adding(rule) /\ Lots + lots <= MaxLots
             /\ Grow(lots, Trigger(rule) + Dir * plan.slip) /\ capital' = capital - Charge(lots) /\ UNCHANGED <<best, leftover>>
             /\ anchor' = [anchor EXCEPT ![rule] = Trigger(rule)]
          \/ /\ ~Adding(rule) /\ lots < Lots
             /\ capital' = capital + Dir * (Trigger(rule) - entry) * lots - Toll(lots)
             /\ position' = position - Dir * lots /\ scaled' = "bar"
             /\ anchor' = [anchor EXCEPT ![rule] = Trigger(rule)]
             /\ UNCHANGED <<entry, best, leftover>>
          \/ /\ ~Adding(rule) /\ lots = Lots
             /\ capital' = capital + Gain(Trigger(rule))
             /\ Flat /\ leftover' = TRUE
      BY <1>5, <2>5 DEF Scale
    <3>2. lots \in Int /\ lots > 0 /\ position # 0
      BY <2>5, <3>1, BacktestAssumption DEF Scales
    <3>3. ~wiped
      BY <1>0, <3>2 DEF Held, RuinedFlat
    <3>4. CASE Flat /\ leftover' = TRUE
      BY <2>1, <2>3, <3>3, <3>4, FlatSafe
    <3>5. CASE /\ scaled' = "bar"
               /\ position' = position + Dir * lots \/ (lots < Lots /\ position' = position - Dir * lots)
      <4>1. (position > 0 => position' > 0) /\ (position < 0 => position' < 0) /\ position' # 0
        BY <1>0, <3>2, <3>5, SideKept
      <4>2. Held'
        BY <2>1, <3>3, <4>1 DEF Held, CountersUnused, FlatUnscaled, RuinedFlat
      <4>3. Closed'
        BY <1>0, <2>1, <3>2, <4>1, SideKept DEF Goto, Closed, BtTypeOK
      <4> QED BY <2>3, <3>5, <4>2, <4>3 DEF StopUntouched, NoSurvivor, Reverses
    <3> QED BY <3>1, <3>4, <3>5 DEF Grow
  <2> QED BY <2>4, <2>5
<1>6. CASE AddSignal
  <2>1. phase = "add" /\ phase' = "enter" /\ UNCHANGED <<plan, bar, due, burst, wiped, times, leftover>>
    BY <1>6 DEF AddSignal, Goto
  <2>2. CASE UNCHANGED <<capital, position, entry, scaled>>
    <3>1. StopUntouched' /\ Closed'
      BY <1>0, <2>1, <2>2 DEF StopUntouched, Closed, Against, Dir
    <3> QED BY <1>0, <2>1, <2>2, <3>1, MovesOn DEF StopsProtect, NoSurvivor, Reverses
  <2>3. CASE position # 0 /\ Grow(1, bar.close + Dir * plan.slip)
    <3>1. (position > 0 => position' > 0) /\ (position < 0 => position' < 0) /\ position' # 0
          /\ scaled' = "bar"
      BY <1>0, <2>3, SideKept DEF Grow
    <3>2. ~wiped
      BY <1>0, <2>3 DEF Held, RuinedFlat
    <3>3. Held'
      BY <2>1, <3>1, <3>2 DEF Held, CountersUnused, FlatUnscaled, RuinedFlat
    <3>4. Closed'
      BY <1>0, <2>1, <2>3, <3>1, SideKept DEF Closed, BtTypeOK
    <3> QED BY <1>0, <2>1, <3>1, <3>3, <3>4 DEF StopUntouched, StopsProtect, NoSurvivor, Reverses
  <2> QED BY <1>6, <2>2, <2>3 DEF AddSignal
<1>7. CASE Enter
  <2>1. phase = "enter" /\ UNCHANGED plan
    BY <1>7 DEF Enter
  <2>2. CASE Opening = 0
    <3>1. Goto("line") /\ Holds
      BY <1>7, <2>2 DEF Enter
    <3>2. StopUntouched'
      BY <1>0, <2>1, <3>1 DEF Goto, Holds, StopUntouched, Against, Dir
    <3>3. Reverses'
      <4> SUFFICES ASSUME capital >= MinCapital
                   PROVE  /\ due \cap {"open_long", "open_short"} = {"open_long"} /\ (plan.both \/ "close_short" \in due)
                               => position > 0
                          /\ due \cap {"open_long", "open_short"} = {"open_short"} /\ (plan.both \/ "close_long" \in due)
                               => position < 0
        BY <2>1, <3>1 DEF Goto, Holds, Reverses
      <4>1. ~("open_long" \in due /\ (position = 0 \/ (plan.both /\ position < 0)))
            /\ ~("open_short" \in due /\ (position = 0 \/ (plan.both /\ position > 0)))
        BY <1>0, <2>2, BacktestAssumption DEF Opening, BtTypeOK
      <4>2. (position > 0 => "close_long" \notin due) /\ (position < 0 => "close_short" \notin due)
        BY <1>0, <2>1 DEF Closed
      <4>3. position = 0 \/ position > 0 \/ position < 0
        BY <1>0 DEF BtTypeOK
      <4> QED BY <4>1, <4>2, <4>3, Zenon
    <3> QED BY <1>0, <2>1, <3>1, <3>2, <3>3, MovesOn DEF Goto, Holds, Closed, StopsProtect, NoSurvivor, Rules
  <2>3. CASE Opening # 0 /\ position # 0 /\ Balance < MinCapital
    <3>1. capital' = 0 /\ Flat /\ Reset /\ SkipBar /\ UNCHANGED burst
      BY <1>7, <2>3 DEF Enter
    <3> QED BY <1>0, <2>1, <3>1, FlatSafe DEF SkipBar, StopsProtect
  <2>4. CASE Opening # 0 /\ ~(position # 0 /\ Balance < MinCapital)
    <3>1. PICK n \in 1..MaxLots : EnterWith(n)
      BY <1>7, <2>4, EnterCases
    <3>2. Opening \in {1, -1} /\ n \in Int /\ n > 0 /\ EntryPrice(Opening) \in Int /\ plan.stop \in Nat
      BY <1>0, <2>4, OpeningDirection, EntryTyped, PlanTyped, BacktestAssumption
    <3>3. capital >= MinCapital /\ ~wiped
      BY <1>0, <2>4, OpeningDirection, BacktestAssumption DEF Held, RuinedFlat
    <3>4. ASSUME Flat, SkipBar, wiped' => capital' = 0
          PROVE  Held' /\ StopUntouched' /\ Closed' /\ NoSurvivor' /\ Reverses'
      <4>1. CountersUnused'
        BY <1>0, <3>1, <3>4 DEF EnterWith, Reset, Held, CountersUnused
      <4> QED BY <3>4, <4>1 DEF Flat, SkipBar, Held, FlatUnscaled, RuinedFlat, StopUntouched, Closed,
              NoSurvivor, Reverses, Rules
    <3>5. CASE Burst(n)
      <4>1. StopsProtect'
        <5> SUFFICES ASSUME plan.stop > 0, plan.stop < Liquidation PROVE FALSE
          BY <2>1, <3>2, BacktestAssumption DEF StopsProtect
        <5>1. /\ Against(Opening, EntryPrice(Opening) - Opening * Liquidation)
              /\ ~Against(Opening, EntryPrice(Opening) - Opening * plan.stop)
          BY <3>2, <3>5, BacktestAssumption DEF Burst, Liquidated
        <5>2. Liquidation \in Nat /\ plan.stop <= Liquidation
          BY <3>2, BacktestAssumption
        <5> QED BY <1>0, <3>2, <5>1, <5>2, NearerFirst
      <4> QED BY <3>4, <3>5, <4>1 DEF Burst
    <3>6. CASE Stopped(n)
      <4>1. Flat /\ SkipBar /\ UNCHANGED burst
        BY <3>6 DEF Stopped
      <4>2. wiped' => capital' = 0
        <5>1. CASE Remains(n) <= 0
          BY <3>6, <5>1 DEF Stopped
        <5>2. CASE ~(Remains(n) <= 0)
          BY <3>6, <5>2 DEF Stopped
        <5> QED BY <5>1, <5>2
      <4> QED BY <1>0, <2>1, <3>4, <4>1, <4>2 DEF StopsProtect
    <3>7. CASE Opened(n)
      <4>1. /\ position' = Opening * n /\ entry' = EntryPrice(Opening)
            /\ scaled' = "no" /\ Goto("line") /\ UNCHANGED <<wiped, burst>>
            /\ ~(plan.stop > 0 /\ Against(Opening, EntryPrice(Opening) - Opening * plan.stop))
        BY <3>7 DEF Opened
      <4>2. position' # 0 /\ Dir' = Opening /\ (position' > 0 <=> Opening = 1) /\ (position' < 0 <=> Opening = -1)
        BY <3>2, <4>1 DEF Dir
      <4>3. Held'
        BY <3>3, <4>1, <4>2 DEF Held, CountersUnused, FlatUnscaled, RuinedFlat
      <4>4. StopUntouched'
        BY <2>1, <4>1, <4>2 DEF Goto, StopUntouched, Against
      <4>5. Reverses'
        <5>1. /\ Opening = 1 => "open_long" \in due
              /\ Opening = -1 => "open_short" \in due
          BY <3>3, BacktestAssumption DEF Opening
        <5> QED BY <2>1, <3>2, <4>1, <4>2, <5>1 DEF Goto, Reverses
      <4> QED BY <1>0, <2>1, <4>1, <4>3, <4>4, <4>5 DEF Goto, Closed, StopsProtect, NoSurvivor, Rules
    <3> QED BY <3>1, <3>5, <3>6, <3>7 DEF EnterWith
  <2> QED BY <2>2, <2>3, <2>4
<1>8. CASE LiquidationLine
  <2>1. phase = "line" /\ UNCHANGED plan
    BY <1>8 DEF LiquidationLine
  <2>2. plan.stop \in Nat /\ entry \in Int /\ Dir \in {1, -1}
    BY <1>0, PlanTyped DEF BtTypeOK, Dir
  <2>3. CASE position # 0 /\ ~wiped /\ Against(Dir, Line)
    <3>1. capital' = 0 /\ Flat /\ Keep /\ SkipBar /\ burst' = IF scaled = "bar" THEN "scaled" ELSE "bare"
      BY <1>8, <2>3 DEF LiquidationLine
    <3>2. StopsProtect'
      <4> SUFFICES ASSUME scaled # "bar", plan.stop > 0, plan.stop < Liquidation PROVE FALSE
        BY <2>1, <2>2, <3>1, BacktestAssumption DEF StopsProtect
      <4>1. ~Against(Dir, entry - Dir * plan.stop)
        BY <1>0, <2>1, <2>3 DEF StopUntouched
      <4>2. Against(Dir, entry - Dir * Liquidation)
        BY <2>3 DEF Line
      <4>3. Liquidation \in Nat /\ plan.stop <= Liquidation
        BY <2>2, BacktestAssumption
      <4> QED BY <1>0, <2>2, <4>1, <4>2, <4>3, NearerFirst
    <3> QED BY <3>1, <3>2, FlatSafe DEF Keep, SkipBar
  <2>4. CASE ~(position # 0 /\ ~wiped /\ Against(Dir, Line))
    <3>1. Goto("mark") /\ Holds
      BY <1>8, <2>4 DEF LiquidationLine
    <3>2. StopUntouched'
      BY <1>0, <2>1, <3>1 DEF Goto, Holds, StopUntouched, Against, Dir
    <3>3. NoSurvivor'
      <4> SUFFICES ASSUME position # 0
                   PROVE  /\ ~Against(Dir, entry - Dir * Liquidation)
                          /\ plan.stop > 0 /\ scaled # "bar" => ~Against(Dir, entry - Dir * plan.stop)
        BY <2>1, <3>1 DEF Goto, Holds, NoSurvivor, Against, Dir
      <4>1. ~wiped
        BY <1>0 DEF Held, RuinedFlat
      <4> QED BY <1>0, <2>1, <2>4, <4>1 DEF Line, StopUntouched
    <3> QED BY <1>0, <2>1, <3>1, <3>2, <3>3, MovesOn DEF Goto, Holds, Closed, StopsProtect, Reverses, Rules
  <2> QED BY <2>3, <2>4
<1>9. CASE Mark
  <2>1. phase = "mark" /\ UNCHANGED plan /\ Holds
    BY <1>9 DEF Mark
  <2>2. Held' /\ StopsProtect'
    BY <1>0, <2>1, MovesOn DEF Holds, StopsProtect
  <2>3. CASE SkipBar
    BY <2>2, <2>3 DEF SkipBar, StopUntouched, Closed, NoSurvivor, Reverses, Rules
  <2>4. CASE Goto("end")
    <3>1. StopUntouched' /\ NoSurvivor'
      BY <1>0, <2>1, <2>4 DEF Goto, Holds, StopUntouched, NoSurvivor, Against, Dir
    <3> QED BY <2>2, <2>4, <3>1 DEF Goto, Closed, Reverses, Rules
  <2> QED BY <1>9, <2>3, <2>4 DEF Mark
<1>10. CASE ForceExit
  <2> DEFINE worth == capital + Gain(bar.close)
             ruined == position < 0 /\ worth <= 0
  <2>1. /\ phase' = "done" /\ Flat /\ Keep /\ UNCHANGED <<plan, burst>>
        /\ capital' = (IF position = 0 THEN capital ELSE IF ruined THEN 0 ELSE worth)
        /\ wiped' = (wiped \/ ruined)
    BY <1>10 DEF ForceExit
  <2>2. wiped' => capital' = 0
    <3>1. CASE wiped
      BY <1>0, <2>1, <3>1 DEF Held, RuinedFlat
    <3>2. CASE ~wiped /\ ruined
      BY <1>0, <2>1, <3>2 DEF BtTypeOK
    <3>3. CASE ~wiped /\ ~ruined
      BY <2>1, <3>3
    <3> QED BY <3>1, <3>2, <3>3
  <2> QED BY <1>0, <2>1, <2>2, FlatSafe DEF Keep, StopsProtect
<1>11. CASE UNCHANGED btVars
  BY <1>0, <1>11 DEF btVars, Held, CountersUnused, FlatUnscaled, RuinedFlat, StopUntouched, Closed,
     StopsProtect, NoSurvivor, Reverses, Against, Dir
<1> QED BY <1>1, <1>2, <1>3, <1>4, <1>5, <1>6, <1>7, <1>8, <1>9, <1>10, <1>11 DEF BtNext

-----------------------------------------------------------------------------
LEMMA Invariance == BtSpec => []BtIInv
<1>1. BtIInv /\ [BtNext]_btVars => BtIInv'
  BY InvNext
<1> QED BY InvInit, <1>1, PTL DEF BtSpec

\* To the simulator over bars the choice of a simulator adds nothing.
LEMMA BarsInside == ServiceSpec => BtSpec
<1>1. ServiceInit => BtInit
  BY DEF ServiceInit
<1>2. [ServiceNext]_serviceVars => [BtNext]_btVars
  BY DEF ServiceNext, serviceVars
<1> QED BY <1>1, <1>2, PTL DEF ServiceSpec, BtSpec

\* Whatever the plan and the prices, each section of a bar may rely on what the
\* one before left: counters, stops and a ruined backtest.
THEOREM SectionsSound == ServiceSpec => []BacktestInv
<1>1. BtIInv => BacktestInv
  BY DEF BtIInv
<1> QED BY BarsInside, Invariance, <1>1, PTL

\* A stop nearer than the liquidation line acts first, except on a bar on which the
\* position was scaled, and no position survives a bar that touched its line or stop.
THEOREM ExitsHold == ServiceSpec => []ExitsInOrder
<1>1. BtIInv => ExitsInOrder
  BY DEF BtIInv, ExitsInOrder
<1> QED BY BarsInside, Invariance, <1>1, PTL

\* What is held after the entries is on the side of the signal that opened.
THEOREM SignalsServed == ServiceSpec => []Reverses
<1>1. BtIInv => Reverses
  BY DEF BtIInv
<1> QED BY BarsInside, Invariance, <1>1, PTL

-----------------------------------------------------------------------------
(* The margin of what is held *)

Plain == Unscaled /\ plan.stop <= Liquidation /\ plan.trail <= Liquidation

\* The inductive invariant behind Solvent: the extreme since the entry is never
\* worse than the entry, which is what bounds the loss of a trailing exit.
Margin ==
  /\ bar.low <= bar.close /\ bar.close <= bar.high
  /\ Plain => /\ capital + paid >= Lots * Liquidation
              /\ position # 0 => Dir * (best - entry) >= 0

LEMMA Product ==
  ASSUME NEW x \in Int, NEW n \in Nat, NEW l \in Nat, x >= -l
  PROVE  x * n >= -(n * l)
<1>1. (x + l) * n >= 0
  OBVIOUS
<1>2. (x + l) * n = x * n + n * l
  OBVIOUS
<1>3. x * n \in Int /\ n * l \in Int
  OBVIOUS
<1> QED BY <1>1, <1>2, <1>3

\* An exit no further than the line leaves no debt but its costs.
LEMMA NoDebt ==
  ASSUME BtTypeOK, Margin, Plain, position # 0, NEW level \in Int,
         Dir * (level - entry) >= -Liquidation
  PROVE  capital + Gain(level) + paid + Toll(Lots) >= 0
<1> DEFINE x == Dir * (level - entry)
<1>1. x \in Int /\ Lots \in Nat /\ Liquidation \in Nat
  BY BacktestAssumption DEF BtTypeOK, Lots, Dir
<1>2. capital + paid >= Lots * Liquidation /\ capital \in Int /\ paid \in Nat
  BY DEF Margin, BtTypeOK
<1>3. Gain(level) = x * Lots - Toll(Lots) /\ Toll(Lots) \in Nat
  BY WholeTyped DEF Gain
<1>4. x >= -Liquidation
  OBVIOUS
<1> HIDE DEF x
<1>5. x * Lots >= -(Lots * Liquidation)
  BY <1>1, <1>4, Product
<1>6. x * Lots \in Int /\ Lots * Liquidation \in Int
  BY <1>1
<1> QED BY <1>2, <1>3, <1>5, <1>6

LEMMA NothingNegative == \A x \in Int, y \in Nat : x >= 0 => x + y >= 0
OBVIOUS

LEMMA FlatMargin ==
  ASSUME Flat, capital' + paid' >= 0,
         bar' = NoBar \/ (bar' = bar /\ bar.low <= bar.close /\ bar.close <= bar.high)
  PROVE  Margin'
<1>1. position' = 0
  BY DEF Flat
<1>2. (Lots * Liquidation)' = 0
  BY <1>1, BacktestAssumption DEF Lots
<1>3. (bar.low <= bar.close /\ bar.close <= bar.high)'
  BY DEF NoBar
<1> QED BY <1>1, <1>2, <1>3 DEF Margin

\* A section that leaves the position alone.
LEMMA SameMargin ==
  ASSUME Margin, UNCHANGED <<plan, capital, position, entry, best, paid>>,
         bar' = bar \/ bar' = NoBar \/ bar' \in Bars
  PROVE  Margin'
<1>1. (bar.low <= bar.close /\ bar.close <= bar.high)'
  BY DEF Margin, NoBar, Bars
<1> QED BY <1>1 DEF Margin, Plain, Unscaled, Lots, Dir

LEMMA MarginInit == BtInit => Margin
BY BacktestAssumption DEF BtInit, Margin, NoBar, Lots

LEMMA MarginNext == BtIInv /\ Margin /\ [BtNext]_btVars => Margin'
<1> SUFFICES ASSUME BtIInv, Margin, [BtNext]_btVars PROVE Margin'
  OBVIOUS
<1>0. BtTypeOK /\ BtTypeOK' /\ NoSurvivor
  BY TypeNext DEF BtIInv, BacktestInv
<1>b. /\ bar.low <= bar.close /\ bar.close <= bar.high
      /\ Dir \in {1, -1} /\ plan.stop \in Nat /\ plan.trail \in Nat /\ plan.profit \in Nat
      /\ entry \in Int /\ best \in Int /\ capital \in Int /\ capital' \in Int
      /\ paid \in Nat /\ paid' \in Nat /\ Lots \in Nat /\ Toll(Lots) \in Nat /\ Liquidation \in Nat
  BY <1>0, PlanTyped, WholeTyped, BacktestAssumption DEF Margin, Dir, BtTypeOK
<1>c. ASSUME capital' >= 0 PROVE capital' + paid' >= 0
  <2>1. capital' \in Int /\ paid' \in Nat
    BY <1>b
  <2> QED BY <1>c, <2>1, NothingNegative
<1>1. CASE NextBar
  <2>1. CASE position = 0
    <3>1. capital >= 0 /\ paid' = 0 /\ (Lots * Liquidation)' = 0
      BY <1>1, <1>b, <2>1, BacktestAssumption DEF NextBar, Lots
    <3>2. position' = 0 /\ capital' = capital /\ (bar.low <= bar.close /\ bar.close <= bar.high)'
      BY <1>1, <2>1 DEF NextBar, Bars
    <3> QED BY <1>b, <3>1, <3>2 DEF Margin
  <2>2. CASE position # 0
    BY <1>1, <2>2, SameMargin DEF NextBar
  <2> QED BY <2>1, <2>2
<1>2. CASE Broke
  BY <1>2, <1>b DEF Broke, Margin, Lots
<1>3. CASE Risk
  <2> DEFINE reach == Better(Dir, IF Dir = 1 THEN bar.high ELSE bar.low, best)
             worth == capital + Gain(ExitPrice(reach))
             ruined == Dir = -1 /\ worth <= 0
  <2>1. CASE position = 0
    BY <1>3, <2>1, SameMargin DEF Risk, Goto
  <2>2. CASE position # 0 /\ (StopHit \/ TrailHit(reach) \/ ProfitHit)
    <3>1. /\ capital' = (IF ruined THEN 0 ELSE worth) /\ paid' = paid + Toll(Lots)
          /\ Flat /\ SkipBar /\ UNCHANGED plan
      BY <1>3, <2>2 DEF Risk
    <3>2. reach \in Int /\ ExitPrice(reach) \in Int
      BY <1>0, ReachTyped, ExitTyped
    <3>3. CASE Plain
      <4>1. Dir * (best - entry) >= 0 /\ plan.stop <= Liquidation /\ plan.trail <= Liquidation
        BY <2>2, <3>3 DEF Margin, Plain
      <4>2. Dir * (reach - entry) >= 0
        BY <1>0, <1>b, <4>1, BarTyped DEF Better
      <4>3. Dir * (ExitPrice(reach) - entry) >= -Liquidation
        <5>1. CASE StopHit
          BY <1>b, <4>1, <5>1 DEF ExitPrice
        <5>2. CASE ~StopHit /\ TrailHit(reach)
          <6> HIDE DEF reach
          <6> QED BY <1>b, <3>2, <4>1, <4>2, <5>2 DEF ExitPrice
        <5>3. CASE ~StopHit /\ ~TrailHit(reach)
          BY <1>b, <5>3 DEF ExitPrice
        <5> QED BY <5>1, <5>2, <5>3
      <4>4. worth + paid + Toll(Lots) >= 0 /\ worth \in Int
        BY <1>0, <1>b, <2>2, <3>2, <3>3, <4>3, NoDebt, GainTyped
      <4> HIDE DEF worth
      <4>5. capital' + paid' >= 0
        BY <1>b, <3>1, <4>4
      <4> QED BY <1>b, <3>1, <4>5, FlatMargin DEF SkipBar
    <3>4. CASE ~Plain
      BY <3>1, <3>4 DEF SkipBar, NoBar, Margin, Plain, Unscaled
    <3> QED BY <3>3, <3>4
  <2>3. CASE position # 0 /\ ~(StopHit \/ TrailHit(reach) \/ ProfitHit)
    <3>1. best' = reach /\ Goto("close") /\ UNCHANGED <<plan, capital, position, entry, paid>>
      BY <1>3, <2>3 DEF Risk
    <3>2. Plain => Dir * (reach - entry) >= 0
      BY <1>0, <1>b, <2>3, BarTyped DEF Better, Margin
    <3> QED BY <1>b, <3>1, <3>2 DEF Goto, Margin, Plain, Unscaled, Lots, Dir
  <2> QED BY <2>1, <2>2, <2>3
<1>4. CASE SignalClose
  <2>1. CASE position = 0 \/ ~Closing
    BY <1>4, <2>1, SameMargin DEF SignalClose, Goto
  <2>2. CASE ~(position = 0 \/ ~Closing)
    <3> DEFINE worth == capital + Gain(SignalPrice)
    <3>1. /\ capital' = (IF worth < MinCapital THEN 0 ELSE worth)
          /\ Flat /\ (bar' = bar \/ bar' = NoBar)
      BY <1>4, <2>2 DEF SignalClose, SkipBar, Goto
    <3>2. worth \in Int
      BY <1>0, <1>b, SignalPriceTyped, GainTyped
    <3>3. capital' >= 0
      <4> HIDE DEF worth
      <4> QED BY <3>1, <3>2, BacktestAssumption
    <3>4. capital' + paid' >= 0
      BY <1>c, <3>3
    <3> QED BY <1>b, <3>1, <3>4, FlatMargin
  <2> QED BY <2>1, <2>2
<1>5. ASSUME NEW rule \in Rules, Scale(rule) PROVE Margin'
  <2>1. CASE ~Scales(rule)
    BY <1>5, <2>1, SameMargin DEF Scale, Goto
  <2>2. CASE Scales(rule)
    <3>1. ~Plain
      BY <2>2 DEF Scales, Allowed, Plain, Unscaled
    <3>2. bar' = bar /\ plan' = plan
      BY <1>5 DEF Scale, Goto
    <3> QED BY <1>b, <3>1, <3>2 DEF Margin, Plain, Unscaled
  <2> QED BY <2>1, <2>2
<1>6. CASE AddSignal
  <2>1. CASE UNCHANGED <<capital, position, entry, scaled, paid>>
    BY <1>6, <2>1, SameMargin DEF AddSignal, Goto
  <2>2. CASE plan.adds
    BY <1>6, <1>b, <2>2 DEF AddSignal, Goto, Margin, Plain, Unscaled
  <2> QED BY <1>6, <2>1, <2>2 DEF AddSignal
<1>7. CASE Enter
  <2>1. CASE Opening = 0
    BY <1>7, <2>1, SameMargin DEF Enter, Goto, Holds
  <2>2. CASE Opening # 0 /\ position # 0 /\ Balance < MinCapital
    BY <1>7, <1>b, <2>2, FlatMargin DEF Enter, SkipBar
  <2>3. CASE Opening # 0 /\ ~(position # 0 /\ Balance < MinCapital)
    <3>1. PICK n \in 1..MaxLots : EnterWith(n)
      BY <1>7, <2>3, EnterCases
    <3>2. Opening \in {1, -1} /\ n \in Nat /\ n > 0 /\ EntryPrice(Opening) \in Int /\ UNCHANGED plan
      BY <1>0, <1>7, <2>3, OpeningDirection, EntryTyped, BacktestAssumption DEF Enter
    <3>6. Charge(n) \in Nat /\ Toll(n) \in Nat
      BY <1>0, <3>2, ChargeTyped DEF BtTypeOK
    <3>3. CASE Burst(n)
      BY <1>b, <3>3, FlatMargin DEF Burst, SkipBar
    <3>4. CASE Stopped(n)
      <4>1. capital' >= 0
        <5>1. CASE Remains(n) <= 0
          BY <3>4, <5>1 DEF Stopped
        <5>2. CASE ~(Remains(n) <= 0)
          <6>1. Remains(n) \in Int
            BY <1>0, <1>b, <3>2, <3>6, BalanceTyped DEF Remains
          <6> QED BY <3>4, <5>2, <6>1 DEF Stopped
        <5> QED BY <5>1, <5>2
      <4>2. capital' + paid' >= 0
        BY <1>c, <4>1
      <4> QED BY <1>b, <3>4, <4>2, FlatMargin DEF Stopped, SkipBar
    <3>5. CASE Opened(n)
      <4>1. /\ capital' = Balance - Charge(n) /\ paid' = Charge(n)
            /\ position' = Opening * n /\ entry' = EntryPrice(Opening) /\ best' = EntryPrice(Opening) /\ bar' = bar
        BY <3>5 DEF Opened, Goto
      <4>2. Lots' = n /\ Dir' = Opening
        BY <3>2, <4>1 DEF Lots, Dir
      <4>3. n * Liquidation <= Balance
        BY <3>1 DEF EnterWith
      <4>4. (capital + paid >= Lots * Liquidation)'
        <5>1. Balance \in Int
          BY <1>0, BalanceTyped
        <5>2. capital' + paid' = Balance
          BY <3>6, <4>1, <5>1
        <5> QED BY <4>2, <4>3, <5>2
      <4>5. (Dir * (best - entry))' = 0
        BY <3>2, <4>1, <4>2
      <4> QED BY <1>b, <4>1, <4>4, <4>5 DEF Margin
    <3> QED BY <3>1, <3>3, <3>4, <3>5 DEF EnterWith
  <2> QED BY <2>1, <2>2, <2>3
<1>8. CASE LiquidationLine
  <2>1. CASE position # 0 /\ ~wiped /\ Against(Dir, Line)
    BY <1>8, <1>b, <2>1, FlatMargin DEF LiquidationLine, SkipBar
  <2>2. CASE ~(position # 0 /\ ~wiped /\ Against(Dir, Line))
    BY <1>8, <2>2, SameMargin DEF LiquidationLine, Goto, Holds
  <2> QED BY <2>1, <2>2
<1>9. CASE Mark
  BY <1>9, SameMargin DEF Mark, Holds, SkipBar, Goto
<1>10. CASE ForceExit
  <2> DEFINE worth == capital + Gain(bar.close)
             ruined == position < 0 /\ worth <= 0
  <2>1. /\ phase = "end" /\ Flat /\ bar' = NoBar /\ UNCHANGED plan
        /\ capital' = (IF position = 0 THEN capital ELSE IF ruined THEN 0 ELSE worth)
        /\ paid' = paid + Toll(Lots)
    BY <1>10 DEF ForceExit
  <2>2. CASE ~Plain
    BY <2>1, <2>2 DEF NoBar, Margin, Plain, Unscaled
  <2>3. CASE Plain /\ position = 0
    <3>1. capital + paid >= 0
      <4>1. Lots * Liquidation = 0
        BY <1>b, <2>3 DEF Lots
      <4> QED BY <2>3, <4>1 DEF Margin
    <3>2. capital' + paid' >= 0
      BY <1>b, <2>1, <2>3, <3>1
    <3> QED BY <1>b, <2>1, <3>2, FlatMargin
  <2>4. CASE Plain /\ position # 0
    <3>1. ~Against(Dir, entry - Dir * Liquidation)
      BY <1>0, <2>1, <2>4 DEF NoSurvivor
    <3>2. Dir * (bar.close - entry) >= -Liquidation /\ bar.close \in Int
      BY <1>0, <1>b, <3>1, BarTyped DEF Against
    <3>3. worth + paid + Toll(Lots) >= 0 /\ worth \in Int
      BY <1>0, <1>b, <2>4, <3>2, NoDebt, GainTyped
    <3> HIDE DEF worth
    <3>4. capital' + paid' >= 0
      BY <1>b, <2>1, <2>4, <3>3
    <3> QED BY <1>b, <2>1, <3>4, FlatMargin
  <2> QED BY <2>2, <2>3, <2>4
<1>11. CASE UNCHANGED btVars
  BY <1>11, SameMargin DEF btVars
<1> QED BY <1>1, <1>2, <1>3, <1>4, <1>5, <1>6, <1>7, <1>8, <1>9, <1>10, <1>11 DEF BtNext

\* Without scaling no sequence of exits, reversals and gaps leaves a debt larger than
\* what the executions of one position cost, nor the margin of what is held uncovered by more.
THEOREM NoDebtWithoutScaling == ServiceSpec => []Solvent
<1>1. Margin => Solvent
  BY DEF Margin, Plain, Solvent
<1>2. BtIInv /\ Margin /\ [BtNext]_btVars => Margin'
  BY MarginNext
<1> QED BY BarsInside, Invariance, MarginInit, <1>1, <1>2, PTL DEF BtSpec

-----------------------------------------------------------------------------
(* The simulator along paths *)

LEMMA PathPlan ==
  ASSUME plan \in Plans
  PROVE  /\ plan.stop \in Nat /\ plan.trail \in Nat /\ plan.profit \in Nat /\ plan.activation \in Nat
         /\ plan.emits \in SUBSET SUBSET Signals /\ plan.fee \in Nat /\ plan.slip \in Nat
BY BacktestAssumption DEF PlanOf

LEMMA PriceTyped ==
  ASSUME PathTypeOK
  PROVE  Price \in Int /\ candle.open \in Int
<1>1. /\ candle.open \in Int /\ candle.high \in Int /\ candle.low \in Int /\ candle.close \in Int
      /\ at \in {0, 1, 2, 3}
  BY DEF PathTypeOK, BarOf
<1>2. CASE candle.close >= candle.open
  <2>1. Path(candle) = <<candle.open, candle.low, candle.high, candle.close>>
    BY <1>2 DEF Path
  <2> QED BY <1>1, <2>1 DEF Price
<1>3. CASE ~(candle.close >= candle.open)
  <2>1. Path(candle) = <<candle.open, candle.high, candle.low, candle.close>>
    BY <1>3 DEF Path
  <2> QED BY <1>1, <2>1 DEF Price
<1> QED BY <1>2, <1>3

LEMMA SideTyped ==
  ASSUME PathTypeOK
  PROVE  Side \in {1, -1} /\ Size \in Nat /\ Reach \in Int
BY PriceTyped DEF PathTypeOK, Side, Size, Reach, Better

LEMMA WorthTyped ==
  ASSUME plan \in Plans, PathTypeOK, NEW level \in Int
  PROVE  money + Side * (level - cost) * Size - Toll(Size) \in Int
<1>1. Side * (level - cost) \in Int /\ Size \in Int /\ money \in Int /\ Toll(Size) \in Nat
  BY SideTyped, ChargeTyped DEF PathTypeOK
<1> HIDE DEF Side, Size
<1> QED BY <1>1

LEMMA RealisedTyped == ASSUME plan \in Plans, PathTypeOK PROVE Realised \in Int
<1>1. money + Side * (Price - cost) * Size - Toll(Size) \in Int /\ money \in Int
  BY PriceTyped, WorthTyped DEF PathTypeOK
<1> HIDE DEF Side, Size, Price
<1> QED BY <1>1 DEF Realised

\* What a step along the path does to the loop.
LEMMA AdvanceTyped ==
  ASSUME PathTypeOK, Advance
  PROVE  /\ at' \in 0..3 /\ step' \in {"candle", "path", "done"}
         /\ UNCHANGED <<candle, clock, ready, late>>
BY DEF PathTypeOK, Advance

\* A step that ends the position, with no signal pending.
LEMMA DropSound ==
  ASSUME PathInv, Advance, Drop, pend' = "none",
         broke' \in BOOLEAN, money' \in Int, broke' => money' = 0
  PROVE  PathInv'
<1>1. PathTypeOK'
  BY AdvanceTyped DEF PathInv, PathTypeOK, Drop
<1> QED BY <1>1 DEF PathInv, PendingServed, NoHindsight, StopsKept, BrokeEmpty, Drop

LEMMA ExitSound ==
  ASSUME plan \in Plans, PathInv, NEW level \in Int, NEW checked \in BOOLEAN, Exit(level, checked)
  PROVE  PathInv'
<1> DEFINE worth == money + Side * (level - cost) * Size - Toll(Size)
           ruined == checked /\ (worth < 0 \/ (Side = -1 /\ worth = 0))
<1>1. worth \in Int
  BY WorthTyped DEF PathInv
<1>2. broke' = ruined /\ money' = (IF ruined THEN 0 ELSE worth) /\ Drop /\ pend' = "none" /\ Advance
  BY DEF Exit
<1>3. ruined \in BOOLEAN
  OBVIOUS
<1> HIDE DEF worth, ruined
<1>4. broke' \in BOOLEAN /\ money' \in Int /\ (broke' => money' = 0)
  BY <1>1, <1>2, <1>3
<1> QED BY <1>2, <1>4, DropSound

LEMMA PathInvInit == plan \in Plans /\ PathInit => PathInv
<1> SUFFICES ASSUME PathInit PROVE PathInv
  OBVIOUS
<1>1. candle \in BarOf
  BY DEF PathInit, NoBar, BarOf
<1>2. money \in Int /\ clock \in 0..Ratio /\ at \in 0..3
  BY BacktestAssumption, RatioAssumption DEF PathInit
<1>3. ready \subseteq Nat \X Signals /\ visited \subseteq Int /\ held \in Int /\ cost \in Int /\ peak \in Int
  BY DEF PathInit
<1>4. broke \in BOOLEAN /\ late \in BOOLEAN /\ pend \in Signals \cup {"none"} /\ step \in {"candle", "path", "done"}
  BY DEF PathInit
<1>5. PathTypeOK
  BY <1>1, <1>2, <1>3, <1>4 DEF PathTypeOK
<1> QED BY <1>5 DEF PathInit, PathInv, PendingServed, NoHindsight, StopsKept, BrokeEmpty

LEMMA PathInvNext == plan \in Plans /\ PathInv /\ [PathNext]_pathVars /\ UNCHANGED plan => PathInv'
<1> SUFFICES ASSUME plan \in Plans, PathInv, [PathNext]_pathVars, UNCHANGED plan PROVE PathInv'
  OBVIOUS
<1>0. PathTypeOK
  BY DEF PathInv
<1>1. CASE Starved
  <2>1. PathTypeOK'
    BY <1>0, <1>1 DEF Starved, PathTypeOK
  <2> QED BY <1>1, <2>1 DEF Starved, PathInv, PendingServed, NoHindsight, StopsKept, BrokeEmpty
<1>2. CASE NextCandle
  <2>1. PICK S \in (IF clock < Ratio THEN {{}} ELSE plan.emits) :
          LET older == IF clock < Ratio THEN ready ELSE {<<q[1] + 1, q[2]>> : q \in ready}
              queue == older \cup ({0} \X S)
          IN /\ ready' = Left(queue)
             /\ IF Taken(queue) = {}
                THEN UNCHANGED <<pend, late>>
                ELSE \E q \in Taken(queue) : pend' = q[2] /\ late' = (late \/ q[1] > 0)
    BY <1>2 DEF NextCandle
  <2> DEFINE older == IF clock < Ratio THEN ready ELSE {<<q[1] + 1, q[2]>> : q \in ready}
             queue == older \cup ({0} \X S)
  <2>2. queue \subseteq Nat \X Signals
    <3>1. S \subseteq Signals
      BY PathPlan
    <3> QED BY <1>0, <3>1 DEF PathTypeOK
  <2>3. /\ ready' = Left(queue)
        /\ IF Taken(queue) = {}
           THEN UNCHANGED <<pend, late>>
           ELSE \E q \in Taken(queue) : pend' = q[2] /\ late' = (late \/ q[1] > 0)
    BY <2>1
  <2> HIDE DEF queue
  <2>4. ready' \subseteq Nat \X Signals
    BY <2>2, <2>3 DEF Left
  <2>5. pend' \in Signals \cup {"none"} /\ late' \in BOOLEAN /\ (pend' # "none" => Executable(pend'))
    <3>1. CASE Taken(queue) = {}
      BY <1>0, <1>2, <2>3, <3>1 DEF PathTypeOK, PathInv, PendingServed, NextCandle
    <3>2. CASE Taken(queue) # {}
      <4>1. PICK q \in Taken(queue) : pend' = q[2] /\ late' = (late \/ q[1] > 0)
        BY <2>3, <3>2
      <4>2. q[2] \in Signals /\ Executable(q[2])
        BY <2>2, <4>1 DEF Taken
      <4> QED BY <1>0, <4>1, <4>2 DEF PathTypeOK
    <3> QED BY <3>1, <3>2
  <2>6. candle' \in BarOf /\ clock' \in 0..Ratio
    <3>1. candle' \in Bars /\ clock' = IF clock < Ratio THEN clock + 1 ELSE 1
      BY <1>2 DEF NextCandle
    <3>2. candle' \in BarOf
      BY <3>1, BacktestAssumption DEF Bars, BarOf
    <3>3. clock' \in 0..Ratio
      BY <1>0, <3>1, RatioAssumption DEF PathTypeOK
    <3> QED BY <3>2, <3>3
  <2>7. at' = 0 /\ step' = "path" /\ UNCHANGED <<money, held, cost, peak, broke, visited>>
    BY <1>2 DEF NextCandle
  <2>8. PathTypeOK'
    BY <1>0, <2>4, <2>5, <2>6, <2>7 DEF PathTypeOK
  <2>9. PendingServed'
    BY <2>5, <2>7 DEF PendingServed, Executable
  <2> QED BY <2>7, <2>8, <2>9 DEF PathInv, NoHindsight, StopsKept, BrokeEmpty, Side, Size
<1>3. CASE StopOut
  <2>1. cost - Side * plan.stop \in Int
    BY <1>0, PathPlan, SideTyped DEF PathTypeOK
  <2> QED BY <1>3, <2>1, ExitSound DEF StopOut
<1>4. CASE TrailOut
  <2>1. TrailLevel \in Int /\ (Side = -1) \in BOOLEAN
    BY <1>0, PathPlan, SideTyped DEF TrailLevel
  <2> QED BY <1>4, <2>1, ExitSound DEF TrailOut
<1>5. CASE ProfitOut
  <2>1. cost + Side * plan.profit \in Int
    BY <1>0, PathPlan, SideTyped DEF PathTypeOK
  <2> QED BY <1>5, <2>1, ExitSound DEF ProfitOut
<1>6. CASE CloseOut
  BY <1>0, <1>6, RealisedTyped, DropSound DEF CloseOut
<1>7. CASE ReversedBroke
  BY <1>7, DropSound DEF ReversedBroke
<1>8. CASE Open
  <2>1. PICK n \in 1..MaxLots : /\ n * Liquidation <= Realised
                               /\ held' = (IF pend = "open_long" THEN n ELSE -n) /\ money' = Realised - Charge(n)
    BY <1>8 DEF Open
  <2>2. /\ cost' = EntryPaid /\ peak' = EntryPaid /\ visited' = {EntryPaid}
        /\ pend' = "none" /\ UNCHANGED broke /\ Advance /\ step = "path"
    BY <1>8 DEF Open, Calm
  <2>3. n \in Nat /\ n > 0 /\ held' \in Int
    BY <2>1, BacktestAssumption
  <2>10. EntryPaid \in Int
    BY <1>0, PriceTyped, PathPlan DEF EntryPaid
  <2>9. money' \in Int
    BY <1>0, <2>1, <2>3, RealisedTyped, ChargeTyped
  <2>4. Size' = n /\ Side' \in {1, -1}
    BY <2>1, <2>3 DEF Size, Side
  <2>5. PathTypeOK'
    BY <1>0, <2>2, <2>3, <2>9, <2>10, AdvanceTyped DEF PathTypeOK
  <2>6. NoHindsight' /\ StopsKept'
    <3>1. EntryPaid \in Int /\ plan'.stop \in Nat
      BY <2>10, PathPlan
    <3>2. Side' * (EntryPaid - EntryPaid) = 0
      <4>1. EntryPaid - EntryPaid = 0
        BY <3>1
      <4> QED BY <2>4, <4>1
    <3> QED BY <2>2, <3>1, <3>2 DEF NoHindsight, StopsKept
  <2>7. ~broke
    <3> SUFFICES ASSUME broke PROVE FALSE
      OBVIOUS
    <3>1. held = 0 /\ money = 0
      BY DEF PathInv, BrokeEmpty
    <3>2. n * Liquidation <= 0
      BY <2>1, <3>1 DEF Realised
    <3> QED BY <2>3, <3>2, BacktestAssumption
  <2>8. BrokeEmpty'
    BY <2>2, <2>7 DEF BrokeEmpty
  <2> QED BY <2>2, <2>5, <2>6, <2>8 DEF PathInv, PendingServed
<1>9. CASE Pass
  <2>1. ~Executes /\ Calm /\ Advance /\ UNCHANGED <<pend, money, held, cost, broke>>
    BY <1>9 DEF Pass
  <2>2. pend = "none"
    <3>1. at = 0 => Price = candle.open
      BY <1>0 DEF Price, Path, PathTypeOK
    <3> QED BY <2>1, <3>1 DEF PathInv, PendingServed, Executes
  <2>3. CASE held = 0
    <3>1. UNCHANGED <<peak, visited>>
      BY <1>9, <2>3 DEF Pass
    <3>2. PathTypeOK'
      BY <1>0, <2>1, <3>1, AdvanceTyped DEF PathTypeOK
    <3> QED BY <2>1, <2>2, <2>3, <3>1, <3>2 DEF PathInv, PendingServed, NoHindsight, StopsKept, BrokeEmpty
  <2>4. CASE held # 0
    <3>1. peak' = Reach /\ visited' = visited \cup {Price}
      BY <1>9, <2>4 DEF Pass
    <3>2. PathTypeOK'
      BY <1>0, <2>1, <3>1, AdvanceTyped, PriceTyped, SideTyped DEF PathTypeOK
    <3>3. Side' = Side /\ Size' = Size
      BY <2>1 DEF Side, Size
    <3>4. NoHindsight'
      BY <1>0, <2>1, <2>4, <3>1, PriceTyped DEF PathInv, NoHindsight, Side, Reach, Better, PathTypeOK
    <3>5. StopsKept'
      <4>1. plan.stop > 0 => Side * (Price - cost) > -plan.stop
        BY <1>0, <2>1, <2>4, PriceTyped, PathPlan, SideTyped DEF Calm, Stopping, PathTypeOK
      <4> QED BY <2>1, <2>4, <3>1, <3>3, <4>1 DEF PathInv, StopsKept
    <3> QED BY <2>1, <2>2, <3>2, <3>3, <3>4, <3>5 DEF PathInv, PendingServed, BrokeEmpty
  <2> QED BY <2>3, <2>4
<1>10. CASE UNCHANGED pathVars
  BY <1>10 DEF pathVars, PathInv, PathTypeOK, PendingServed, NoHindsight, StopsKept, BrokeEmpty, Side, Size, Executable
<1> QED BY <1>1, <1>2, <1>3, <1>4, <1>5, <1>6, <1>7, <1>8, <1>9, <1>10 DEF PathNext

\* The plan of a backtest is never changed.
LEMMA PlanFixed == [ServiceNext]_serviceVars => UNCHANGED plan
BY DEF ServiceNext, serviceVars, BtNext, btVars, NextBar, Broke, Risk, SignalClose, Scale, AddSignal,
   Enter, LiquidationLine, Mark, ForceExit

LEMMA PathInvariance == ServiceSpec => [](plan \in Plans /\ PathInv)
<1>1. ServiceInit => plan \in Plans /\ PathInv
  BY PathInvInit DEF ServiceInit, BtInit
<1>2. plan \in Plans /\ PathInv /\ [ServiceNext]_serviceVars => (plan \in Plans /\ PathInv)'
  <2>1. [ServiceNext]_serviceVars => [PathNext]_pathVars
    BY DEF ServiceNext, serviceVars
  <2> QED BY <2>1, PlanFixed, PathInvNext
<1> QED BY <1>1, <1>2, PTL DEF ServiceSpec

\* No price of a candle is used before its path reaches it, and no stop misses one:
\* what the finer simulator is for.
THEOREM PathSound == ServiceSpec => []PathInv
BY PathInvariance, PTL

-----------------------------------------------------------------------------
(* The queue of signals *)

LEMMA SignalsFinite ==
  ASSUME NEW S \in SUBSET Signals
  PROVE  IsFiniteSet({0} \X S) /\ Cardinality({0} \X S) = Cardinality(S)
<1>1. IsFiniteSet(Signals)
  <2>1. Signals = (({"open_long"} \cup {"close_long"}) \cup {"open_short"}) \cup {"close_short"}
    BY DEF Signals
  <2>2. IsFiniteSet({"open_long"} \cup {"close_long"})
    BY FS_Singleton, FS_AddElement
  <2>3. IsFiniteSet(({"open_long"} \cup {"close_long"}) \cup {"open_short"})
    BY <2>2, FS_AddElement
  <2> QED BY <2>1, <2>3, FS_AddElement
<1>2. IsFiniteSet(S)
  BY <1>1, FS_Subset
<1>3. IsFiniteSet({0}) /\ Cardinality({0}) = 1
  BY FS_Singleton
<1>4. Cardinality(S) \in Nat
  BY <1>2, FS_CardinalityType
<1> QED BY <1>2, <1>3, <1>4, FS_Product

\* Of signals of the same bar each candle takes or drops at least one.
LEMMA QueueShrinks ==
  ASSUME NEW queue \in SUBSET ({0} \X Signals), queue # {}
  PROVE  \E q \in queue : q \notin Left(queue)
<1>1. PICK q \in queue : \A r \in queue : ~Before(r, q)
  <2>1. \A r \in queue : r[1] = 0 /\ r = <<0, r[2]>> /\ r[2] \in Signals
    OBVIOUS
  <2>2. CASE <<0, "open_long">> \in queue
    BY <2>1, <2>2 DEF Before, Rank, Signals
  <2>3. CASE <<0, "open_long">> \notin queue /\ <<0, "close_long">> \in queue
    BY <2>1, <2>3 DEF Before, Rank, Signals
  <2>4. CASE <<0, "open_long">> \notin queue /\ <<0, "close_long">> \notin queue /\ <<0, "open_short">> \in queue
    BY <2>1, <2>4 DEF Before, Rank, Signals
  <2>5. CASE /\ <<0, "open_long">> \notin queue /\ <<0, "close_long">> \notin queue
             /\ <<0, "open_short">> \notin queue
    BY <2>1, <2>5 DEF Before, Rank, Signals
  <2> QED BY <2>2, <2>3, <2>4, <2>5
<1> QED BY <1>1 DEF Left

\* The inductive invariant behind SignalsFresh: what waits is of the last bar, and
\* not more than there are candles to come.
Fits == \A S \in plan.emits : Cardinality(S) <= Ratio
Short ==
  Fits => /\ ~late /\ ready \subseteq {0} \X Signals
          /\ IsFiniteSet(ready) /\ Cardinality(ready) <= Ratio - clock

LEMMA ShortNext ==
  ASSUME plan \in Plans, PathInv, Short, [PathNext]_pathVars, UNCHANGED plan
  PROVE  Short'
<1> SUFFICES ASSUME Fits PROVE (/\ ~late /\ ready \subseteq {0} \X Signals
                               /\ IsFiniteSet(ready) /\ Cardinality(ready) <= Ratio - clock)'
  BY DEF Short, Fits
<1>0. /\ ~late /\ ready \subseteq {0} \X Signals
      /\ IsFiniteSet(ready) /\ Cardinality(ready) <= Ratio - clock
  BY DEF Short
<1>1. CASE UNCHANGED <<clock, ready, late>>
  BY <1>0, <1>1
<1>2. CASE NextCandle
  <2>1. PICK S \in (IF clock < Ratio THEN {{}} ELSE plan.emits) :
          LET older == IF clock < Ratio THEN ready ELSE {<<q[1] + 1, q[2]>> : q \in ready}
              queue == older \cup ({0} \X S)
          IN /\ ready' = Left(queue)
             /\ IF Taken(queue) = {}
                THEN UNCHANGED <<pend, late>>
                ELSE \E q \in Taken(queue) : pend' = q[2] /\ late' = (late \/ q[1] > 0)
    BY <1>2 DEF NextCandle
  <2> DEFINE older == IF clock < Ratio THEN ready ELSE {<<q[1] + 1, q[2]>> : q \in ready}
             queue == older \cup ({0} \X S)
             room == IF clock < Ratio THEN Ratio - clock ELSE Ratio
  <2>2. /\ ready' = Left(queue)
        /\ IF Taken(queue) = {}
           THEN UNCHANGED <<pend, late>>
           ELSE \E q \in Taken(queue) : pend' = q[2] /\ late' = (late \/ q[1] > 0)
    BY <2>1
  <2>3. clock \in 0..Ratio /\ Ratio \in Nat /\ Ratio > 0 /\ room \in Nat /\ room > 0
    BY RatioAssumption DEF PathInv, PathTypeOK
  <2>4. clock' = (IF clock < Ratio THEN clock + 1 ELSE 1)
    BY <1>2 DEF NextCandle
  <2>5. queue \in SUBSET ({0} \X Signals) /\ IsFiniteSet(queue) /\ Cardinality(queue) <= room
    <3>1. CASE clock < Ratio
      <4>1. S = {} /\ queue = ready
        BY <3>1
      <4> QED BY <1>0, <3>1, <4>1
    <3>2. CASE ~(clock < Ratio)
      <4>1. clock = Ratio /\ Cardinality(ready) \in Nat
        BY <1>0, <2>3, <3>2, FS_CardinalityType
      <4>2. Cardinality(ready) = 0
        BY <1>0, <2>3, <4>1
      <4>3. ready = {}
        BY <1>0, <4>2, FS_EmptySet
      <4>4. queue = {0} \X S
        BY <4>3
      <4>5. S \in SUBSET Signals /\ Cardinality(S) <= Ratio
        BY <3>2, PathPlan DEF Fits
      <4> QED BY <3>2, <4>4, <4>5, SignalsFinite
    <3> QED BY <3>1, <3>2
  <2> HIDE DEF queue
  <2>6. ready' \subseteq queue
    BY <2>2 DEF Left
  <2>7. ready' \subseteq {0} \X Signals /\ IsFiniteSet(ready')
    BY <2>5, <2>6, FS_Subset
  <2>8. Cardinality(ready') <= room - 1
    <3>1. CASE queue = {}
      <4>1. ready' = {}
        BY <2>6, <3>1
      <4> QED BY <2>3, <4>1, FS_EmptySet
    <3>2. CASE queue # {}
      <4>1. PICK q \in queue : q \notin ready'
        BY <2>2, <2>5, <3>2, QueueShrinks
      <4>2. ready' \in SUBSET (queue \ {q})
        BY <2>6, <4>1
      <4>3. IsFiniteSet(queue \ {q}) /\ Cardinality(queue \ {q}) = Cardinality(queue) - 1
        BY <2>5, <4>1, FS_RemoveElement
      <4>4. Cardinality(ready') <= Cardinality(queue \ {q})
        BY <4>2, <4>3, FS_Subset
      <4>5. Cardinality(queue) \in Nat /\ Cardinality(ready') \in Nat
        BY <2>5, <2>7, FS_CardinalityType
      <4> QED BY <2>3, <2>5, <4>3, <4>4, <4>5
    <3> QED BY <3>1, <3>2
  <2>9. ~late'
    <3>1. CASE Taken(queue) = {}
      BY <1>0, <2>2, <3>1
    <3>2. CASE Taken(queue) # {}
      <4>1. PICK q \in Taken(queue) : late' = (late \/ q[1] > 0)
        BY <2>2, <3>2
      <4>2. ~(q[1] > 0)
        BY <2>5, <4>1 DEF Taken
      <4> QED BY <1>0, <4>1, <4>2, Zenon
    <3> QED BY <3>1, <3>2
  <2>10. Cardinality(ready') <= Ratio - clock'
    <3>1. Cardinality(ready') \in Nat
      BY <2>7, FS_CardinalityType
    <3> QED BY <2>3, <2>4, <2>8, <3>1
  <2> QED BY <2>7, <2>9, <2>10
<1>3. Starved \/ NextCandle \/ Advance \/ UNCHANGED pathVars
  BY DEF PathNext, StopOut, TrailOut, ProfitOut, Exit, CloseOut, ReversedBroke, Open, Pass
<1> QED BY <1>1, <1>2, <1>3 DEF Starved, Advance, pathVars

\* As long as a bar signals no more often than it has candles, no signal is
\* executed a bar after it was due.
THEOREM NoLateSignal == ServiceSpec => []SignalsFresh
<1>1. ServiceInit => Short
  BY FS_EmptySet, RatioAssumption DEF ServiceInit, PathInit, Short
<1>2. (plan \in Plans /\ PathInv) /\ Short /\ [ServiceNext]_serviceVars => Short'
  <2>1. [ServiceNext]_serviceVars => [PathNext]_pathVars
    BY DEF ServiceNext, serviceVars
  <2> QED BY <2>1, PlanFixed, ShortNext
<1>3. Short => SignalsFresh
  BY DEF Short, Fits, SignalsFresh
<1> QED BY PathInvariance, <1>1, <1>2, <1>3, PTL DEF ServiceSpec

=============================================================================
