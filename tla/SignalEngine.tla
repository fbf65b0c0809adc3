----------------------------- MODULE SignalEngine ------------------------------
(***************************************************************************)
(* One strategy's loop in TradingExecutor._run_strategy_loop: each tick it *)
(* takes the price, recomputes its signals, adds the server-side exits,    *)
(* chooses what the position allows and turns it into an order row, while  *)
(* the order worker executes and books the rows it wrote before.  In       *)
(* signal mode the loop books its signals itself.                          *)
(*                                                                         *)
(* A signal is an action on a side and is taken once per candle (seen),    *)
(* which stands for the bars signals belong to and the memory of those     *)
(* that were taken.  What an order goes through is OrderQueue's and        *)
(* LiveExecution's: here it is settled in one step.  The price is where it *)
(* stands to the exits of a position: "low" is beyond the stop of a long   *)
(* and the profit of a short.  What a position is worth there is for the   *)
(* limit, which is one of notional, and decides how much an entry buys.    *)
(***************************************************************************)
EXTENDS Naturals, FiniteSets

CONSTANTS
  Setups,      \* strategies: execution mode, bot or not, trade_direction, what they emit
  Prices,      \* where the price goes
  MaxEmitted,  \* bound of the model: signals emitted at once
  Slots,       \* bound of the model: order rows in flight
  Worth,       \* what one unit is worth at a price
  Lot,         \* amount of an open or add at a price
  Part,        \* amount of a reduce
  MaxPosition, \* trading_config.max_position, a notional, 0 for none
  MaxHeld,     \* bound of the model: size of a position
  MaxFaults    \* bound of the model: failing statements, refused orders, restarts

Sides == {"long", "short"}
Acts == {"open", "add", "reduce", "close"}
Signal == [act : Acts, side : Sides]

ASSUME EngineAssumption ==
  /\ Setups \subseteq [mode : {"live", "signal"}, bot : BOOLEAN, direction : {"both"} \cup Sides,
                     emits : SUBSET Signal]
  /\ Prices \subseteq {"low", "mid", "high"} /\ MaxEmitted \in Nat /\ Slots # {}
  /\ Worth \in [Prices -> Nat \ {0}] /\ Lot \in [Prices -> Nat \ {0}]
  /\ Part \in Nat \ {0} /\ MaxPosition \in Nat /\ MaxHeld \in Nat
  /\ MaxFaults \in Nat

VARIABLES
  setup,      \* the strategy
  price,      \* current_price
  rows,       \* size of the position row, per side; 0 is no row
  held,       \* what the exchange (live) or the trade records (signal) hold
  orders,     \* pending_orders in flight
  step,       \* where the loop is in its tick
  pending,    \* pending_signals
  triggered,  \* triggered_signals
  read,       \* position sizes read to be written back with a new extreme
  batch,      \* execution_batch
  seen,       \* _signal_dedup: signals taken in this candle
  torn,       \* history: sides with a row written on a reading that was stale or
              \* failed, or not written
  hasty,      \* history: an entry was decided while an order was in flight or
              \* on a position that could not be read
  entered,    \* history: the price at which the last entry was decided, until one was hasty
  faults      \* what the bound counts

engineVars == <<setup, price, rows, held, orders, step, pending, triggered, read, batch, seen,
                 torn, hasty, entered, faults>>

NoOrder == [act |-> "none"]
OrderOf == [act : Acts, side : Sides, amount : Nat \ {0}]
None == [d \in Sides |-> 0]
Anywhere == CHOOSE p \in Prices : TRUE

EngineTypeOK ==
  /\ setup \in Setups /\ price \in Prices
  /\ rows \in [Sides -> Nat] /\ held \in [Sides -> Nat] /\ read \in [Sides -> Nat]
  /\ orders \in [Slots -> OrderOf \cup {NoOrder}]
  /\ step \in {"idle", "marking", "armed", "trailing", "stops", "choose", "execute"}
  /\ pending \subseteq Signal /\ triggered \subseteq Signal /\ batch \subseteq Signal
  /\ seen \subseteq Signal
  /\ torn \subseteq Sides /\ hasty \in BOOLEAN /\ entered \in Prices /\ faults \in 0..MaxFaults

EngineInit ==
  /\ setup \in Setups /\ price \in Prices /\ rows = None /\ held = None
  /\ orders = [o \in Slots |-> NoOrder] /\ step = "idle"
  /\ pending = {} /\ triggered = {} /\ read = None /\ batch = {} /\ seen = {}
  /\ torn = {} /\ hasty = FALSE /\ entered = Anywhere /\ faults = 0

Fault == faults < MaxFaults /\ faults' = faults + 1
Fine == faults' = faults

\* _get_current_positions: a failing read looks like no position.
Positions(answer) ==
  \/ answer = rows /\ Fine
  \/ answer = None /\ Fault

\* _position_state: the side of the first position, in no particular order.
States(positions) ==
  LET open == {d \in Sides : positions[d] > 0} IN IF open = {} THEN {"flat"} ELSE open

\* _is_signal_allowed
Allowed(state, s) == IF state = "flat" THEN s.act = "open" ELSE s.act # "open" /\ s.side = state

InFlight == \E o \in Slots : orders[o] # NoOrder

-----------------------------------------------------------------------------
(* A tick up to its triggered signals *)

\* The price, the position for the indicator, and the signals of a new evaluation;
\* a script without a new closed bar, or a failing evaluation, keeps the old ones.
Tick ==
  /\ step = "idle" /\ step' = "marking"
  /\ price' \in Prices
  /\ Positions(read')
  /\ \/ pending' = pending
     \/ pending' \in {E \in SUBSET setup.emits : Cardinality(E) <= MaxEmitted}
  /\ UNCHANGED <<setup, rows, held, orders, triggered, batch, seen, torn, hasty, entered>>

\* Rows are written back as they were read: INSERT ... ON CONFLICT DO UPDATE SET
\* size = excluded.size.
WriteBack(ds) ==
  /\ rows' = [d \in Sides |-> IF d \in ds /\ read[d] > 0 THEN read[d] ELSE rows[d]]
  /\ torn' = torn \cup {d \in Sides : rows'[d] # rows[d]}
  /\ read' = None

\* The indicator has found a new highest price, or not.
MarkHighest ==
  /\ step = "marking" /\ step' = "armed"
  /\ \/ ~setup.bot /\ WriteBack(Sides)
     \/ read' = None /\ UNCHANGED <<rows, torn>>
  /\ UNCHANGED <<setup, price, held, orders, pending, triggered, batch, seen,
                 hasty, entered, faults>>

\* The trigger loop: closes are due at once, entries at their price, and a bot's
\* signals always. Then the position is read for take profit and trailing stop.
Trigger ==
  /\ step = "armed" /\ step' = "trailing"
  /\ \E due \in SUBSET pending :
       /\ \A s \in pending : s.act = "close" \/ setup.bot => s \in due
       /\ triggered' = due /\ pending' = pending \ due
  /\ Positions(read')
  /\ UNCHANGED <<setup, price, rows, held, orders, batch, seen, torn, hasty, entered>>

Exit(d) == [act |-> "close", side |-> d]

\* _server_side_take_profit_or_trailing_signal writes the extremes of the first
\* position back and may close it at a profit.
TakeProfit ==
  /\ step = "trailing" /\ step' = "stops"
  /\ \E d \in States(read) :
       /\ WriteBack({d})
       /\ LET profit == d # "flat" /\ price = (IF d = "long" THEN "high" ELSE "low")
          IN triggered' = triggered \cup (IF profit THEN {Exit(d)} ELSE {})
  /\ UNCHANGED <<setup, price, held, orders, pending, batch, seen, hasty, entered, faults>>

\* Mutant: the stop lines of the sides are exchanged.
BeyondExchanged(d) == d # "flat" /\ price = (IF d = "long" THEN "high" ELSE "low")

\* current_price <= stop_line, or >= for a short
Beyond(d) == d # "flat" /\ price = (IF d = "long" THEN "low" ELSE "high")

\* _server_side_stop_loss_signal
StopLoss ==
  /\ step = "stops" /\ step' = "choose"
  /\ \E positions \in {rows, None} :
       /\ Positions(positions)
       /\ \E d \in States(positions) :
            triggered' = triggered \cup (IF Beyond(d) THEN {Exit(d)} ELSE {})
  /\ UNCHANGED <<setup, price, rows, held, orders, pending, read, batch, seen,
                 torn, hasty, entered>>

-----------------------------------------------------------------------------
(* Choosing and executing *)

\* Mutant: a signal that opens or adds goes before one that closes.
PriorityEntriesFirst(s) == CASE s.act = "open" -> 0 [] s.act = "add" -> 1 [] s.act = "reduce" -> 2 [] OTHER -> 3

\* _signal_priority, then timestamp, then name.
Priority(s) == CASE s.act = "close" -> 0 [] s.act = "reduce" -> 1 [] s.act = "open" -> 2 [] OTHER -> 3
First(S) ==
  {s \in S : \A t \in S : Priority(s) <= Priority(t) /\ (s.act = t.act => s.side = "long" \/ s = t)}

\* Choosing: the state machine, trade_direction while flat, one signal per tick
\* and the key _should_skip_signal_once_per_candle reserves for it; a bot takes all.
Choose ==
  /\ step = "choose" /\ triggered' = {}
  /\ \E positions \in {rows, None} :
       /\ Positions(positions)
       /\ \E state \in States(positions) :
            LET allowed == IF setup.bot THEN triggered ELSE {s \in triggered : Allowed(state, s)}
                candidates == IF state = "flat" /\ setup.direction # "both"
                              THEN {s \in allowed : s.act = "open" /\ s.side = setup.direction}
                              ELSE allowed
                chosen == First(candidates \ seen)
            IN /\ batch' = IF setup.bot THEN candidates ELSE chosen
               /\ step' = IF batch' = {} THEN "idle" ELSE "execute"
               /\ seen' = IF setup.bot THEN seen ELSE seen \cup chosen
  /\ UNCHANGED <<setup, price, rows, held, orders, pending, read, torn, hasty, entered>>

\* _execute_signal sizes the order: a close takes the position, a reduce that is
\* effectively full becomes a close, a bot's close of less than that a reduce.
Sizes(s, positions, at) ==
  LET whole == [act |-> "close", side |-> s.side, amount |-> positions[s.side]]
      part == [act |-> "reduce", side |-> s.side, amount |-> Part]
  IN CASE s.act \in {"open", "add"} -> {[act |-> s.act, side |-> s.side, amount |-> Lot[at]]}
       [] s.act = "reduce" -> {IF Part < whole.amount THEN part ELSE whole}
       [] OTHER -> {whole} \cup (IF setup.bot /\ Part < whole.amount THEN {part} ELSE {})

\* _current_position_value: the notional of what is held, at that price.
Value(positions, at) == (positions["long"] + positions["short"]) * Worth[at]

\* cur_pos_value >= max_pos blocks; the daily loss, whose query PostgreSQL refuses, does not.
UnderLimit(positions, at) == MaxPosition = 0 \/ Value(positions, at) < MaxPosition

\* Mutant: a signal chosen is executed, whatever has been booked meanwhile.
MayRunAnyway(s, positions, at) == TRUE

\* The state machine again, and the risk limits of an entry.
MayRun(s, positions, at) ==
  /\ \E state \in States(positions) : Allowed(state, s)
  /\ s.act \in {"open", "add"} => UnderLimit(positions, at)

\* Mutant: a reduce takes the whole row.
HoldNothing(o, sizes) ==
  [sizes EXCEPT ![o.side] = IF o.act \in {"open", "add"} THEN @ + o.amount ELSE 0]

\* A row after an order of that size.
Hold(o, sizes) ==
  [sizes EXCEPT ![o.side] = IF o.act \in {"open", "add"} THEN @ + o.amount
                            ELSE IF @ > o.amount THEN @ - o.amount ELSE 0]

\* What really changes hands.
Filled(o) ==
  [held EXCEPT ![o.side] = IF o.act \in {"open", "add"} THEN @ + o.amount
                           ELSE IF @ > o.amount THEN @ - o.amount ELSE 0]

\* Live: an order row, unless the insert fails.
Enqueue(o, lost) ==
  /\ UNCHANGED <<rows, held, torn>>
  /\ IF lost = "row" THEN UNCHANGED orders
     ELSE /\ \E slot \in Slots : orders[slot] = NoOrder
          /\ orders' = [orders EXCEPT ![CHOOSE slot \in Slots : orders[slot] = NoOrder] = o]

\* Signal mode: the trade record and the position row; what fails is logged and
\* the next one is tried. The row gets what was read and the amount, size =
\* excluded.size, also when the reading has failed.
Book(o, positions, lost) ==
  /\ held' = IF lost = "trade" THEN held ELSE Filled(o)
  /\ rows' = IF lost = "position" THEN rows
             ELSE [rows EXCEPT ![o.side] = Hold(o, positions)[o.side]]
  /\ torn' = torn \cup (IF lost # "none" \/ positions[o.side] # rows[o.side] THEN {o.side} ELSE {})
  /\ UNCHANGED orders

AtBound(s, at) == held[s.side] + Lot[at] > MaxHeld

Losses == {"none"} \cup (IF setup.mode = "live" THEN {"row"} ELSE {"trade", "position"})

\* The next signal of the batch, on the position as it is now and at its trigger price,
\* wherever that is. An entry may also be held back by the AI filter.
Execute ==
  /\ step = "execute"
  /\ \E s \in First(batch), positions \in {rows, None}, lost \in Losses, at \in Prices :
       /\ IF positions = rows /\ lost = "none" THEN Fine ELSE Fault
       /\ batch' = batch \ {s} /\ step' = IF batch' = {} THEN "idle" ELSE "execute"
       /\ LET entry == s.act \in {"open", "add"} IN
          \/ /\ MayRun(s, positions, at) /\ (entry => ~AtBound(s, at))
             /\ \E o \in Sizes(s, positions, at) :
                  IF setup.mode = "live" THEN Enqueue(o, lost) ELSE Book(o, positions, lost)
             /\ hasty' = (hasty \/ (entry /\ (InFlight \/ positions # held)))
             /\ entered' = IF hasty' THEN Anywhere ELSE IF entry THEN at ELSE entered
          \/ /\ MayRun(s, positions, at) => s.act = "open" \/ (entry /\ AtBound(s, at))
             /\ lost = "none"
             /\ UNCHANGED <<rows, held, orders, torn, hasty, entered>>
  /\ UNCHANGED <<setup, price, pending, triggered, read, seen>>

-----------------------------------------------------------------------------
(* What happens around the loop *)

\* The worker's sync: the rows are what the exchange holds.
Sync ==
  /\ setup.mode = "live" /\ rows # held
  /\ rows' = held /\ torn' = {}
  /\ UNCHANGED <<setup, price, held, orders, step, pending, triggered, read, batch, seen, hasty, entered, faults>>

\* An order is executed after a targeted sync and booked; closes are cut to the
\* position. It may be refused, and its booking may fail.
Settle(slot) ==
  LET o == orders[slot]
      nothing == o.act \in {"reduce", "close"} /\ held[o.side] = 0
  IN /\ o # NoOrder
     /\ orders' = [orders EXCEPT ![slot] = NoOrder]
     /\ \/ /\ ~nothing /\ Fine
           /\ held' = Filled(o) /\ rows' = Hold(o, held) /\ torn' = {}
        \/ /\ ~nothing /\ Fault
           /\ held' = Filled(o) /\ rows' = held /\ torn' = {o.side}
        \/ /\ IF nothing THEN Fine ELSE Fault
           /\ rows' = held /\ torn' = {} /\ UNCHANGED held
     /\ UNCHANGED <<setup, price, step, pending, triggered, read, batch, seen, hasty, entered>>

\* A candle ends: what was taken may be taken again.
NextCandle ==
  /\ step = "idle" /\ seen # {} /\ seen' = {}
  /\ UNCHANGED <<setup, price, rows, held, orders, step, pending, triggered, read, batch, torn, hasty,
                 entered, faults>>

\* The process starts again: the loop and its memory begin anew.
Restart ==
  /\ Fault
  /\ step' = "idle" /\ pending' = {} /\ triggered' = {} /\ read' = None /\ batch' = {}
  /\ seen' = {}
  /\ UNCHANGED <<setup, price, rows, held, orders, torn, hasty, entered>>

Loop ==
  \/ Tick \/ MarkHighest \/ Trigger \/ TakeProfit \/ StopLoss
  \/ Choose \/ Execute
Worker == \E slot \in Slots : Settle(slot)

EngineNext == Loop \/ Worker \/ Sync \/ NextCandle \/ Restart

EngineSpec == EngineInit /\ [][EngineNext]_engineVars

\* The loop's thread and the worker go on, the sync comes round, time passes.
EngineFairness ==
  /\ WF_engineVars(Loop) /\ WF_engineVars(Worker) /\ WF_engineVars(Sync)
  /\ SF_engineVars(NextCandle)

EngineFairSpec == EngineSpec /\ EngineFairness
-----------------------------------------------------------------------------
(* Properties *)

\* Both directions are held, or at the price of the last entry more than the limit and
\* that entry, only after an entry was decided with an order in flight or on a wrong
\* view of the position.
OneDirection == hasty \/ held["long"] = 0 \/ held["short"] = 0
WithinLimit ==
  hasty \/ MaxPosition = 0 \/ Value(held, entered) < MaxPosition + Lot[entered] * Worth[entered]

\* Whatever is read before and after, and however orders overlap, no other entry
\* breaks the state machine or the limit.
EntriesGuarded == OneDirection /\ WithinLimit

\* The rows are what is held, unless the loop wrote one on a reading that was stale or
\* failed or a booking failed: until the next sync.
RowsFollow == \A d \in Sides \ torn : rows[d] = held[d]

\* A long that stands alone below its stop, of a strategy that enters no more, is
\* closed for good, whatever failed before. (Its row may come back: each time it
\* is deleted, the loop may just have read it.)
Falling == price = "low" /\ rows["short"] = 0 /\ \A s \in batch : s.act \notin {"open", "add"}
Position == IF setup.mode = "live" THEN held ELSE rows
StopLossCloses == <>[]Falling => <>[](Position["long"] = 0)

\* The steps behind StopLossCloses. The exit of a position that is read rightly is chosen
\* whatever else the tick has triggered and whatever trade_direction says, unless it was
\* taken in this candle; and once chosen it becomes an order for the position, all of it
\* unless a bot sizes it, although the position has changed in the meantime.
Entering(o) == orders[o] # NoOrder /\ orders[o].act \in {"open", "add"}
Alone(d) == rows[d] > 0 /\ \A e \in Sides \ {d} : rows[e] = 0
ExitsWin ==
  [][\A d \in Sides : Alone(d) /\ Fine =>
       /\ Choose /\ Exit(d) \in triggered \ seen => Exit(d) \in batch'
       /\ Execute /\ Exit(d) \in batch \ batch' =>
            IF setup.mode = "signal" THEN rows'[d] < rows[d] /\ (setup.bot \/ rows'[d] = 0)
            ELSE \E slot \in Slots :
                   /\ orders[slot] = NoOrder /\ orders'[slot] # NoOrder
                   /\ ~Entering(slot)' /\ orders'[slot].side = d
                   /\ setup.bot \/ orders'[slot].amount = rows[d]]_engineVars

\* Why: entries decided with care are one at a time, along the position and below the limit.
Cautious ==
  ~hasty => \A o \in Slots : Entering(o) =>
    /\ \A p \in Slots : Entering(p) => p = o
    /\ \A d \in Sides \ {orders[o].side} : held[d] = 0
    /\ orders[o].amount = Lot[entered]
    /\ UnderLimit(held, entered)

EngineInv == EngineTypeOK /\ RowsFollow /\ Cautious /\ OneDirection /\ WithinLimit
=============================================================================
