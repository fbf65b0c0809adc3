------------------------------ MODULE PathBacktest ------------------------------
(***************************************************************************)
(* BacktestService._simulate_trading_mtf: the same backtest over candles    *)
(* finer than the bars of the signals.  A candle is walked along an         *)
(* inferred path of four prices; at each of them the stop, the trailing     *)
(* stop and the take profit are tried, then a pending signal, which only    *)
(* the open executes.  Signals become due when their bar has ended and      *)
(* wait in a queue, from which each candle takes at most one.               *)
(*                                                                         *)
(* There is no liquidation line, no scaling and no exit at the end of the   *)
(* data.  The abstractions are those of BarBacktest; a trailing stop that   *)
(* is enabled has a distance.                                               *)
(***************************************************************************)
EXTENDS BacktestPlans

CONSTANT Ratio    \* candles in a bar of the signals

ASSUME RatioAssumption == Ratio \in Nat \ {0}

VARIABLES
  step,     \* the loop over the candles, the walk along one, or the end
  candle,   \* open, high, low, close
  at,       \* prices of its path already visited
  clock,    \* candles of the present bar that have begun
  ready,    \* the part of signal_queue that is due: <<bars waited, signal>>
  pend,     \* pending_signal, or "none"
  money,    \* capital
  held,     \* position, signed, in lots
  cost,     \* entry_price
  peak,     \* highest_since_entry of a long, lowest_since_entry of a short
  broke,    \* is_liquidated
  visited,  \* history: the prices visited since the entry, that of the entry included
  late      \* history: a signal was taken after a bar or more in the queue

pathVars == <<step, candle, at, clock, ready, pend, money, held, cost, peak, broke, visited, late>>

PathInit ==
  /\ step = "candle" /\ candle = NoBar /\ at = 0 /\ clock = 0
  /\ ready = {} /\ pend = "none"
  /\ money = Deposit /\ held = 0 /\ cost = 0 /\ peak = 0
  /\ broke = FALSE /\ visited = {} /\ late = FALSE

-----------------------------------------------------------------------------
(* The queue *)

Rank(s) == CASE s = "open_long" -> 1 [] s = "close_long" -> 2 [] s = "open_short" -> 3 [] OTHER -> 4
Before(q, r) == q[1] > r[1] \/ (q[1] = r[1] /\ Rank(q[2]) < Rank(r[2]))

\* can_execute. With buy and sell signals an open also reverses.
Executable(s) ==
  CASE s = "open_long" -> held = 0 \/ (plan.both /\ held < 0)
    [] s = "open_short" -> held = 0 \/ (plan.both /\ held > 0)
    [] s = "close_long" -> held > 0
    [] OTHER -> held < 0

\* Mutant: a signal that cannot be executed stays in the queue.
LeftWaits(queue) == {r \in queue : Executable(r[2]) => \E q \in queue : Executable(q[2]) /\ Before(q, r)}

\* A candle takes the first signal that can be executed, and drops those before it.
Left(queue) == {r \in queue : \E q \in queue : Executable(q[2]) /\ Before(q, r)}
Taken(queue) == {q \in queue : Executable(q[2])} \ Left(queue)

\* Flat with less than a trade takes: the backtest stops.
Starved ==
  /\ step = "candle" /\ held = 0 /\ money < MinCapital
  /\ broke' = TRUE /\ money' = 0 /\ step' = "done"
  /\ UNCHANGED <<candle, at, clock, ready, pend, held, cost, peak, visited, late>>

\* With the first candle of a bar the signals of the bar before become due.
NextCandle ==
  /\ step = "candle" /\ (held # 0 \/ money >= MinCapital) /\ money <= MaxCapital
  /\ candle' \in Bars /\ at' = 0 /\ step' = "path"
  /\ clock' = IF clock < Ratio THEN clock + 1 ELSE 1
  /\ \E S \in IF clock < Ratio THEN {{}} ELSE plan.emits :
       LET older == IF clock < Ratio THEN ready ELSE {<<q[1] + 1, q[2]>> : q \in ready}
           queue == older \cup ({0} \X S)
       IN /\ ready' = Left(queue)
          /\ IF Taken(queue) = {}
             THEN UNCHANGED <<pend, late>>
             ELSE \E q \in Taken(queue) : pend' = q[2] /\ late' = (late \/ q[1] > 0)
  /\ UNCHANGED <<money, held, cost, peak, broke, visited>>

-----------------------------------------------------------------------------
(* The path of a candle *)

Path(c) ==
  IF c.close >= c.open THEN <<c.open, c.low, c.high, c.close>> ELSE <<c.open, c.high, c.low, c.close>>
Price == Path(candle)[at + 1]

Side == IF held > 0 THEN 1 ELSE -1
Size == IF held > 0 THEN held ELSE -held

\* Mutant: the extreme of the whole candle, as the simulator over bars takes it.
ReachOfCandle == Better(Side, IF Side = 1 THEN candle.high ELSE candle.low, peak)
Reach == Better(Side, Price, peak)

Activation == IF plan.activation > 0 THEN plan.activation ELSE plan.profit
TrailLevel == Reach - Side * plan.trail

Stopping == held # 0 /\ plan.stop > 0 /\ Side * (Price - cost) <= -plan.stop
Trailing ==
  /\ held # 0 /\ plan.trail > 0 /\ Side * (Reach - cost) >= Activation
  /\ Side * (Price - TrailLevel) <= 0
Profiting == held # 0 /\ plan.trail = 0 /\ plan.profit > 0 /\ Side * (Price - cost) >= plan.profit

\* The rest of the path is walked unless the capital is gone.
Advance ==
  /\ at' = IF at < 3 THEN at + 1 ELSE 0
  /\ step' = IF broke' THEN "done" ELSE IF at < 3 THEN "path" ELSE "candle"
  /\ UNCHANGED <<candle, clock, ready, late>>

Drop == held' = 0 /\ cost' = 0 /\ peak' = 0 /\ visited' = {}

\* An exit at its level, whatever the price; it drops the pending signal. Only a
\* stop of a long, and a stop or a trailing stop of a short, is checked for ruin.
Exit(level, checked) ==
  LET worth == money + Side * (level - cost) * Size - Toll(Size)
      ruined == checked /\ (worth < 0 \/ (Side = -1 /\ worth = 0))
  IN /\ broke' = ruined /\ money' = (IF ruined THEN 0 ELSE worth)
     /\ Drop /\ pend' = "none" /\ Advance

StopOut == step = "path" /\ Stopping /\ Exit(cost - Side * plan.stop, TRUE)
TrailOut == step = "path" /\ ~Stopping /\ Trailing /\ Exit(TrailLevel, Side = -1)
ProfitOut == step = "path" /\ ~Stopping /\ Profiting /\ Exit(cost + Side * plan.profit, FALSE)

\* What comes after the exits.
Calm == step = "path" /\ ~Stopping /\ ~Trailing /\ ~Profiting
Executes == pend # "none" /\ Price = candle.open /\ Executable(pend)

\* The capital after the position is closed by a signal, never below nothing.
Realised ==
  LET worth == money + Side * (Price - cost) * Size - Toll(Size)
  IN IF held = 0 THEN money ELSE IF worth < 0 THEN 0 ELSE worth

CloseOut ==
  /\ Calm /\ Executes /\ pend \in {"close_long", "close_short"}
  /\ broke' = (Realised < MinCapital) /\ money' = (IF broke' THEN 0 ELSE Realised)
  /\ Drop /\ pend' = "none" /\ Advance

\* A reversal that leaves too little for a trade.
ReversedBroke ==
  /\ Calm /\ Executes /\ pend \in {"open_long", "open_short"} /\ held # 0 /\ Realised < MinCapital
  /\ broke' = TRUE /\ money' = 0
  /\ Drop /\ pend' = "none" /\ Advance

EntryPaid == Price + (IF pend = "open_long" THEN plan.slip ELSE -plan.slip)

\* Sized by any part of the capital, up to all of it; the commission comes on top.
Open ==
  /\ Calm /\ Executes /\ pend \in {"open_long", "open_short"} /\ (held = 0 \/ Realised >= MinCapital)
  /\ \E n \in 1..MaxLots :
       /\ n * Liquidation <= Realised
       /\ held' = (IF pend = "open_long" THEN n ELSE -n) /\ money' = Realised - Charge(n)
  /\ cost' = EntryPaid /\ peak' = EntryPaid /\ visited' = {EntryPaid}
  /\ pend' = "none" /\ UNCHANGED broke /\ Advance

\* Nothing happens at this price but that an open position has seen it.
Pass ==
  /\ Calm /\ ~Executes
  /\ IF held = 0 THEN UNCHANGED <<peak, visited>> ELSE peak' = Reach /\ visited' = visited \cup {Price}
  /\ UNCHANGED <<pend, money, held, cost, broke>> /\ Advance

PathNext ==
  \/ Starved \/ NextCandle
  \/ StopOut \/ TrailOut \/ ProfitOut \/ CloseOut \/ ReversedBroke \/ Open \/ Pass

-----------------------------------------------------------------------------
(* Properties *)

PathTypeOK ==
  /\ step \in {"candle", "path", "done"} /\ candle \in BarOf /\ at \in 0..3 /\ clock \in 0..Ratio
  /\ ready \subseteq Nat \X Signals /\ pend \in Signals \cup {"none"}
  /\ money \in Int /\ held \in Int /\ cost \in Int /\ peak \in Int
  /\ broke \in BOOLEAN /\ visited \subseteq Int /\ late \in BOOLEAN

\* A signal that was taken is executed at the open of that candle, or dropped by
\* an exit there: it never meets a later price or another position.
PendingServed == pend # "none" => step = "path" /\ at = 0 /\ Executable(pend)

\* The trailing stop follows the best price seen so far: no price of the candle is
\* used before the path has reached it.
NoHindsight == held # 0 => peak \in visited /\ \A p \in visited : Side * (peak - p) >= 0

\* No price visited since the entry was beyond the stop of what is still held.
StopsKept == held # 0 /\ plan.stop > 0 => \A p \in visited : Side * (p - cost) > -plan.stop

\* A ruined backtest holds nothing and trades no more.
BrokeEmpty == broke => held = 0 /\ money = 0

\* What each step along a path relies on.
PathInv == PathTypeOK /\ PendingServed /\ NoHindsight /\ StopsKept /\ BrokeEmpty

\* As long as a bar signals no more often than it has candles, the queue is empty
\* when the next bar ends: no signal is executed a bar after it was due.
SignalsFresh == (\A S \in plan.emits : Cardinality(S) <= Ratio) => ~late
=============================================================================
