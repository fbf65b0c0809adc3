---------------------------- MODULE LiveExecution -----------------------------
(***************************************************************************)
(* How PendingOrderWorker._execute_live_order turns one claimed row into   *)
(* exchange orders: the amount of a close is cut to the position, a limit  *)
(* order is tried first when the order mode says so, the rest goes to a    *)
(* market order, and what was seen filled is booked.  The exchange fills   *)
(* on its own time, so a fill can fall between any two calls of the worker.*)
(* OrderQueue holds what surrounds this: claiming, crashes and retries.    *)
(***************************************************************************)
EXTENDS Naturals

CONSTANTS
  Amount,      \* payload amount, in the exchange's smallest unit
  Sizes,       \* position sizes in play: on the exchange and in the database
  FillLevels,  \* how far an order can be filled besides fully and not at all
  MinBase,     \* least tradable quantity of an OKX swap, 0 elsewhere
  One,         \* units in one coin
  Venues,      \* clients of the strategies in play:
               \* cutting: Binance, OKX and Bybit swaps: synced, closes cut to the exchange
               \* synced:  Gate swaps, and Bitget ones, whose cut meets no slashed symbol
               \* renamed: KuCoin and Kraken futures, synced under the exchange's symbols
               \* skipped: spot, and clients the sync does not know
  Modes,       \* order modes and
  Signals,     \* signals of the rows in play
  Weathers     \* calm: the exchange and the database answer every call, the
               \* exchange at worst with a refusal of the market order

ASSUME ExecutionAssumption ==
  /\ Amount \in Nat \ {0} /\ Sizes \subseteq Nat /\ FillLevels \subseteq Nat
  /\ MinBase \in Nat /\ One \in Nat \ {0}
  /\ Venues \subseteq {"cutting", "synced", "renamed", "skipped"}
  /\ Modes \subseteq {"maker", "market"} /\ Signals \subseteq {"open", "close"}
  /\ Weathers \subseteq {"calm", "rough"}

VARIABLES
  mode, signal, venue,    \* what the row asks for, and of which client
  weather,                \* what happens to its calls
  pc,
  amount, remaining,  \* locals of _execute_live_order
  total, seen,        \* total_base, and its part that the limit phase reported
  limit, market,      \* the two exchange orders
  cancelled,          \* the limit order was cancelled
  pos, local,         \* the position on the exchange, and in the database
  start,              \* history: the two after the sync before the order, in calm weather
  booked, verdict     \* the fill handed to the books; sent or failed

request == <<mode, signal, venue, weather>>
orders == <<limit, market, cancelled>>
vars == <<request, pc, amount, remaining, total, seen, orders, pos, local, start, booked, verdict>>

Order == [size : Nat, filled : Nat]
None == [size |-> 0, filled |-> 0]
Accepted(q) == [size |-> q, filled |-> 0]
Executed == limit.filled + market.filled
Least(a, b) == IF a < b THEN a ELSE b
Minus(a, b) == IF a > b THEN a - b ELSE 0

\* order_mode maker, limit, limit_first and maker_then_market
LimitFirst == mode = "maker"
\* close_* and reduce_* signals of a swap
ReduceOnly == signal = "close"
Faultless == weather = "calm"

TypeOK ==
  /\ mode \in Modes /\ signal \in Signals /\ venue \in Venues /\ weather \in Weathers
  /\ pc \in {"prepare", "limit", "waitlimit", "tailguard", "cancel", "market",
             "waitmarket", "finish", "record", "done"}
  /\ amount \in Nat /\ remaining \in Nat /\ total \in Nat /\ seen \in Nat
  /\ pos \in Nat /\ local \in Nat /\ start \in [pos : Nat, local : Nat] /\ booked \in Nat
  /\ limit \in Order /\ market \in Order /\ cancelled \in BOOLEAN
  /\ verdict \in {"none", "sent", "failed"}

Init ==
  /\ mode \in Modes /\ signal \in Signals /\ venue \in Venues /\ weather \in Weathers
  /\ pc = "prepare"
  /\ amount = Amount /\ remaining = 0 /\ total = 0 /\ seen = 0
  /\ limit = None /\ market = None /\ cancelled = FALSE
  /\ pos \in Sizes /\ local \in Sizes /\ start = [pos |-> 0, local |-> 0]
  /\ booked = 0 /\ verdict = "none"

-----------------------------------------------------------------------------
(* The exchange *)

Fill(ord, q) == /\ ord.filled < q /\ q <= ord.size
                /\ q \in FillLevels \cup {ord.size}
Filled(ord, q) == [ord EXCEPT !.filled = q]

\* A reduce-only order fills no more than there is to reduce.
MovePosition(q) == /\ ReduceOnly => q <= pos
                   /\ pos' = IF ReduceOnly THEN pos - q ELSE pos + q

FillLimit ==
  \E q \in FillLevels \cup {limit.size} :
    /\ ~cancelled /\ Fill(limit, q) /\ limit' = Filled(limit, q) /\ MovePosition(q - limit.filled)
    /\ UNCHANGED <<request, pc, amount, remaining, total, seen, market, cancelled, local, start,
                   booked, verdict>>

FillMarket ==
  \E q \in FillLevels \cup {market.size} :
    /\ Fill(market, q) /\ market' = Filled(market, q) /\ MovePosition(q - market.filled)
    /\ UNCHANGED <<request, pc, amount, remaining, total, seen, limit, cancelled, local, start,
                   booked, verdict>>

\* The position shrinks by itself: closed by hand, liquidated, or by fees.
Shrink ==
  /\ ~Faultless /\ \E s \in Sizes : s < pos /\ pos' = s
  /\ UNCHANGED <<request, pc, amount, remaining, total, seen, orders, local, start, booked, verdict>>

-----------------------------------------------------------------------------
(* The worker *)

\* abs(exch_qty - local_size) / max(1.0, local_size) > 0.01
Diverged(mine, theirs) ==
  100 * (Minus(mine, theirs) + Minus(theirs, mine)) > (IF mine > One THEN mine ELSE One)

\* Mutant: no sync before execution.
SyncedNever(repriced) == local

\* The size in the database after the sync: a row is deleted, inserted, or corrected
\* when it is off by more than the tolerance or its entry price is.
Synced(repriced) ==
  IF venue = "skipped" THEN local
  ELSE IF venue = "renamed" \/ pos = 0 THEN 0
  ELSE IF local = 0 \/ Diverged(local, pos) \/ repriced THEN pos ELSE local

\* The query answers the position, or fails; a position of 0 changes nothing.
CutToPosition(a, known) ==
  IF venue = "cutting" /\ known /\ pos > 0 THEN Least(a, pos) ELSE a

\* Sync of the database with the exchange, then the amount of a close is cut to
\* the position in the database, then to the one on the exchange. Each of the
\* three is best effort; setting the leverage, which comes between, is not.
Prepare ==
  /\ pc = "prepare"
  /\ \E synced, checked, known \in (IF Faultless THEN {TRUE} ELSE BOOLEAN), repriced \in BOOLEAN :
       /\ local' = IF synced THEN Synced(repriced) ELSE local
       /\ amount' = IF ~ReduceOnly THEN Amount
                    ELSE CutToPosition(IF checked THEN Least(Amount, local') ELSE Amount, known)
  /\ remaining' = amount'
  /\ start' = IF Faultless THEN [pos |-> pos, local |-> local'] ELSE start
  /\ \/ /\ amount' = 0 \/ ~Faultless
        /\ pc' = "done" /\ verdict' = "failed"
     \/ /\ amount' > 0
        /\ pc' = (IF LimitFirst THEN "limit" ELSE "market") /\ UNCHANGED verdict
  /\ UNCHANGED <<request, total, seen, orders, pos, booked>>

\* Any error of the limit phase: market for the full amount.
FallBack == pc' = "market" /\ remaining' = amount

PlaceLimit ==
  /\ pc = "limit"
  /\ \/ limit' = Accepted(amount) /\ pc' = "waitlimit" /\ UNCHANGED remaining
     \/ ~Faultless /\ limit' \in {None, Accepted(amount)} /\ FallBack
  /\ UNCHANGED <<request, amount, total, seen, market, cancelled, pos, local, start, booked, verdict>>

\* Mutant: the rest is not what the limit order left.
RestAfterAlways(q) == amount

\* remaining = max(0, amount - total_base)
RestAfter(q) == Minus(amount, q)

\* wait_for_fill reports the filled quantity, or none when the query failed, or
\* raises.
WaitLimit ==
  /\ pc = "waitlimit"
  /\ \/ \E q \in {limit.filled} \cup (IF Faultless THEN {} ELSE {0}) :
          /\ total' = q /\ seen' = q
          /\ remaining' = RestAfter(q)
          /\ pc' = "tailguard"
     \/ ~Faultless /\ FallBack /\ UNCHANGED <<total, seen>>
  /\ UNCHANGED <<request, amount, orders, pos, local, start, booked, verdict>>

\* A rest below the exchange's minimum is not chased, if the minimum is known.
TailGuard ==
  /\ pc = "tailguard"
  /\ pc' = "cancel"
  /\ \/ remaining' = IF remaining < MinBase THEN 0 ELSE remaining
     \/ ~Faultless /\ UNCHANGED remaining
  /\ UNCHANGED <<request, amount, total, seen, orders, pos, local, start, booked, verdict>>

\* Mutant: the cancel waits for the market order and is then forgotten.
CancelLate ==
  /\ pc = "cancel"
  /\ pc' = IF remaining > 0 THEN "market" ELSE "finish"
  /\ UNCHANGED <<request, amount, remaining, total, seen, orders, pos, local, start, booked, verdict>>

\* Cancel if more than a thousandth is missing; a failing cancel is ignored.
Cancel ==
  /\ pc = "cancel"
  /\ pc' = IF remaining > 0 THEN "market" ELSE "finish"
  /\ \/ /\ remaining * 1000 > amount
        /\ cancelled' = TRUE
     \/ remaining * 1000 <= amount /\ UNCHANGED cancelled
     \/ ~Faultless /\ UNCHANGED cancelled
  /\ UNCHANGED <<request, amount, remaining, total, seen, limit, market, pos, local, start, booked,
                 verdict>>

\* Mutant: the order is tried again.
MarketErrorRetry == pc' = "market" /\ UNCHANGED verdict

\* Mutant: every error counts as a partial success.
MarketErrorIgnored == pc' = "finish" /\ UNCHANGED verdict

\* Mutant: the row fails although the limit order has filled in part.
MarketErrorFails == pc' = "done" /\ verdict' = "failed"

\* A LiveTradingError, which is what a refusal is, after a partial fill is a partial
\* success; every other error fails the row.
MarketError ==
  \/ total > 0 /\ pc' = "finish" /\ UNCHANGED verdict
  \/ (total = 0 \/ ~Faultless) /\ pc' = "done" /\ verdict' = "failed"

PlaceMarket ==
  /\ pc = "market"
  /\ \/ market' = Accepted(remaining) /\ pc' = "waitmarket" /\ UNCHANGED verdict
     \/ market' \in {None} \cup (IF Faultless THEN {} ELSE {Accepted(remaining)}) /\ MarketError
  /\ UNCHANGED <<request, amount, remaining, total, seen, limit, cancelled, pos, local, start, booked>>

WaitMarket ==
  /\ pc = "waitmarket"
  /\ \/ \E q \in {market.filled} \cup (IF Faultless THEN {} ELSE {0}) :
          total' = total + q /\ pc' = "finish" /\ UNCHANGED verdict
     \/ ~Faultless /\ MarketError /\ UNCHANGED total
  /\ UNCHANGED <<request, amount, remaining, seen, orders, pos, local, start, booked>>

\* When no fill was seen the whole amount is taken as filled at ref_price (the
\* price of the row, never 0 for a row the executor inserted).
FinalFill == IF total > 0 THEN total ELSE amount

\* "Persist queue result first"
MarkSent ==
  /\ pc = "finish"
  /\ pc' = "record" /\ verdict' = "sent"
  /\ UNCHANGED <<request, amount, remaining, total, seen, orders, pos, local, start, booked>>

\* apply_fill_to_local_position and record_trade
Book ==
  /\ pc = "record" /\ pc' = "done"
  /\ booked' = FinalFill
  /\ local' = IF ReduceOnly THEN Minus(local, FinalFill) ELSE local + FinalFill
  /\ UNCHANGED <<request, amount, remaining, total, seen, orders, pos, start, verdict>>

Worker == \/ Prepare \/ PlaceLimit \/ WaitLimit \/ TailGuard \/ Cancel
          \/ PlaceMarket \/ WaitMarket \/ MarkSent \/ Book
Next == Worker \/ FillLimit \/ FillMarket \/ Shrink
Spec == Init /\ [][Next]_vars
FairSpec == Spec /\ WF_vars(Worker)
-----------------------------------------------------------------------------
(* Properties *)

Over == Minus(Executed, amount)

\* What is executed beyond the requested amount was filled by the limit order
\* after its last poll (or all of it, when the poll raised), nothing else.
OvershootIsLate == Over <= limit.filled - seen

\* No fill is counted that the exchange did not make; what the books get beyond
\* that is the whole amount, taken for filled when no fill was seen.
BookedIsSeen ==
  /\ total <= Executed
  /\ booked > Executed => total = 0 /\ booked = amount

\* What the limit order was seen to fill is not lost: when every call is answered, a
\* row fails only if nothing was.
PartialKept == Faultless /\ verdict = "failed" => seen = 0

\* A row is reported sent only after the exchange accepted an order for it.
SentBacked == verdict = "sent" => limit.size > 0 \/ market.size > 0

\* In market mode one dispatch never executes or books more than the row asked
\* for, however the amount of a close was cut.
MarketModeExact == ~LimitFirst => Executed <= Amount /\ booked <= Amount

\* When every call is answered and no fill came after its poll, the dispatch adds
\* nothing to the difference it found between the position in the database and the
\* one on the exchange; where the sync knows the client's symbols, that difference
\* was within its tolerance, and neither position was missing.
BooksFollow ==
  Faultless /\ verdict = "sent" /\ booked = Executed =>
    /\ local + start.pos = pos + start.local
    /\ venue \in {"cutting", "synced"} =>
         ~Diverged(start.local, start.pos) /\ (start.local = 0 <=> start.pos = 0)

\* What the tail guard gives up leaves the limit order open behind the dispatch.
\* When every call is answered this is dust only: the rest as last polled was
\* below the exchange's minimum or within the tolerance of the cancel.
OpenRestIsDust ==
  Faultless /\ verdict = "sent" /\ limit.size > 0 /\ ~cancelled
    => LET rest == Minus(amount, seen) IN rest < MinBase \/ rest * 1000 <= amount

\* Refuted: when every call is answered, a close of a position that the sync deals
\* with does not fail for its amount. For a renamed client the sync before the order
\* deletes the row, and the close is cut to nothing.
CloseReachesExchange ==
  Faultless /\ ReduceOnly /\ venue # "skipped" /\ verdict = "failed" /\ amount = 0 => pos = 0

\* A row gets one verdict: a failed dispatch does not go on to report success.
VerdictOnce == [][verdict # "none" => verdict' = verdict]_vars

\* Every dispatch comes to a verdict.
Concludes == <>(verdict # "none")

\* The inductive invariant: how the phases hand the rest on to each other.
\* The market order asks for no more than the limit order was seen to lack.
RestHandedOn ==
  /\ amount <= Amount
  /\ seen <= limit.filled /\ seen <= amount
  /\ pc \in {"tailguard", "cancel", "market"} => seen + remaining <= amount
  /\ pc \in {"prepare", "limit", "waitlimit"} => seen = 0
  /\ pc \in {"prepare", "limit", "waitlimit", "tailguard", "cancel", "market"}
       => market = None
  /\ pc \notin {"finish", "record", "done"} => total = seen
  /\ seen + market.size <= amount
OrdersSane ==
  /\ limit.filled <= limit.size /\ market.filled <= market.size
  /\ limit.size <= amount /\ (~LimitFirst => limit = None)
  /\ pc \in {"prepare", "limit"} => limit = None
  /\ pc \in {"waitlimit", "tailguard", "cancel"} => limit.size > 0
  /\ pc \in {"limit", "waitlimit", "tailguard", "cancel"} => LimitFirst
  /\ pc = "waitmarket" => market.size > 0
  /\ pc = "market" => remaining > 0
  /\ pc \notin {"prepare", "done"} => amount > 0
TotalSane ==
  /\ total <= seen + market.filled
  /\ pc = "finish" => limit.size > 0 \/ market.size > 0
  /\ booked <= amount /\ (pc # "done" => booked = 0)
  /\ verdict = "none" <=> pc \notin {"record", "done"}
  /\ pc = "record" => verdict = "sent"
ExecInv ==
  TypeOK /\ RestHandedOn /\ OrdersSane /\ TotalSane /\ BookedIsSeen /\ SentBacked /\ PartialKept
-----------------------------------------------------------------------------
(* The dispatch as the queue sees it *)

\* The one row, as in OrderQueue: its route, and what the exchange took of it by
\* the time each of the two phases is over.
Chosen == IF LimitFirst THEN "maker" ELSE "market"
LimitOver == pc \notin {"prepare", "limit", "waitlimit", "tailguard", "cancel"}
MarketOver == LimitOver /\ pc \notin {"market", "waitmarket"}
Taken == (IF LimitOver /\ limit.size > 0 THEN {"lmt"} ELSE {})
         \cup (IF MarketOver /\ market.size > 0 THEN {"mkt"} ELSE {})
Released == pc = "done" /\ verdict = "sent"
FillSeen == LimitOver /\ ~Released /\ seen > 0
QueueStage ==
  CASE pc = "prepare" -> Chosen
    [] pc \in {"limit", "waitlimit", "tailguard", "cancel"} -> "maker"
    [] pc \in {"market", "waitmarket"} -> "market"
    [] pc = "finish" -> "marksent"
    [] pc = "record" -> "record"
    [] OTHER -> IF verdict = "sent" THEN "loop" ELSE "markfailed"

OneRow == 1
OneWorker == "worker"
Queue == INSTANCE OrderQueue WITH
  Orders <- {OneRow}, NoOrder <- 0, Workers <- {OneWorker}, Routes <- {"maker", "market"},
  MaxAttempts <- 1, BatchSize <- 1, Deduplicates <- TRUE, MaxFaults <- 0,
  status <- [o \in {OneRow} |-> IF verdict = "sent" THEN "sent" ELSE "processing"],
  attempts <- [o \in {OneRow} |-> 1], live <- {OneRow}, stale <- {},
  placed <- [o \in {OneRow} |-> (IF "lmt" \in Taken THEN 1 ELSE 0) + (IF "mkt" \in Taken THEN 1 ELSE 0)],
  seen <- {OneRow} \X Taken,
  recorded <- [o \in {OneRow} |-> IF Released THEN 1 ELSE 0],
  pc <- [w \in {OneWorker} |-> QueueStage], batch <- [w \in {OneWorker} |-> {}],
  cur <- [w \in {OneWorker} |-> IF Released THEN 0 ELSE OneRow],
  route <- [w \in {OneWorker} |-> IF Released THEN "signal" ELSE Chosen],
  got <- IF FillSeen THEN {OneWorker} ELSE {},
  faults <- 0, snatched <- {}

\* A dispatch, with all its calls, is what OrderQueue takes it for: one step of the
\* queue's worker for each phase, each with an outcome the queue allows for.
QueueDispatch == Queue!QueueInv /\ [][Queue!Tick(OneWorker)]_(Queue!vars)
=============================================================================
