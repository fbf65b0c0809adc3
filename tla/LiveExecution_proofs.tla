------------------------ MODULE LiveExecution_proofs --------------------------
(***************************************************************************)
(* For every amount, minimum, mode, signal, fill and failure pattern:      *)
(* the rest handed from the limit to the market phase bounds what one      *)
(* dispatch can execute, and nothing is reported sent without an order.    *)
(***************************************************************************)
EXTENDS LiveExecution, TLAPS

LEMMA ExecInit == Init => ExecInv
<1> SUFFICES ASSUME Init PROVE ExecInv
  OBVIOUS
<1> USE ExecutionAssumption DEF Init, Order, None, Executed, request, LimitFirst
<1>1. TypeOK
  BY DEF TypeOK
<1>2. RestHandedOn
  BY DEF RestHandedOn
<1>3. OrdersSane
  BY DEF OrdersSane
<1>4. TotalSane
  BY DEF TotalSane
<1>5. BookedIsSeen /\ SentBacked
  BY DEF BookedIsSeen, SentBacked
<1>6. PartialKept
  BY DEF PartialKept
<1> QED BY <1>1, <1>2, <1>3, <1>4, <1>5, <1>6 DEF ExecInv

\* Fills on the exchange only add to what the worker has seen.
LEMMA FillStep ==
  ASSUME ExecInv, FillLimit \/ FillMarket
  PROVE  ExecInv'
<1> USE DEF ExecInv, TypeOK, RestHandedOn, OrdersSane, TotalSane, BookedIsSeen, SentBacked,
            PartialKept, Faultless, Order, None, Executed, request, LimitFirst
<1>1. CASE FillLimit
  <2>1. PICK q \in Nat : /\ limit.filled < q /\ q <= limit.size
                         /\ limit' = [limit EXCEPT !.filled = q]
                         /\ pos' \in Nat
    BY <1>1, ExecutionAssumption DEF FillLimit, Fill, Filled, MovePosition
  <2>2. limit' \in Order /\ limit'.filled = q /\ limit'.size = limit.size
    BY <2>1
  <2>3. UNCHANGED <<mode, signal, venue, weather, start, pc, amount, remaining, total, seen, market, cancelled,
                    local, booked, verdict>>
    BY <1>1 DEF FillLimit
  <2>4. TypeOK' /\ RestHandedOn' /\ OrdersSane'
    BY <2>1, <2>2, <2>3
  <2>5. TotalSane'
    BY <2>1, <2>2, <2>3
  <2>a. Executed <= Executed' /\ Executed \in Nat /\ Executed' \in Nat
    BY <2>1, <2>2, <2>3
  <2>b. UNCHANGED <<total, booked, amount, verdict, market>>
    BY <2>3
  <2>6. BookedIsSeen' /\ SentBacked'
    <3>1. BookedIsSeen'
      BY <2>a, <2>b
    <3>2. SentBacked'
      BY <2>2, <2>b
    <3> QED BY <3>1, <3>2
  <2>7. PartialKept'
    BY <2>3
  <2> QED BY <2>4, <2>5, <2>6, <2>7
<1>2. CASE FillMarket
  <2>1. PICK q \in Nat : /\ market.filled < q /\ q <= market.size
                         /\ market' = [market EXCEPT !.filled = q]
                         /\ pos' \in Nat
    BY <1>2, ExecutionAssumption DEF FillMarket, Fill, Filled, MovePosition
  <2>2. market' \in Order /\ market'.filled = q /\ market'.size = market.size
    BY <2>1
  <2> QED BY <1>2, <2>1, <2>2 DEF FillMarket
<1> QED BY <1>1, <1>2

\* Every call of the worker, answered or not.
LEMMA CallStep ==
  ASSUME ExecInv, Worker \/ Shrink
  PROVE  ExecInv'
<1> USE ExecutionAssumption
    DEF ExecInv, TypeOK, RestHandedOn, OrdersSane, TotalSane, BookedIsSeen, SentBacked,
        PartialKept, Faultless, Order, None, Executed, request, LimitFirst, orders, Least, Minus
<1>1. CASE Prepare
  <2>1. local' \in Nat /\ start' \in [pos : Nat, local : Nat]
    BY <1>1 DEF Prepare, Synced
  <2>2. amount' \in Nat /\ amount' <= Amount /\ remaining' = amount'
    BY <1>1, <2>1 DEF Prepare, CutToPosition
  <2>3. \/ pc' = "done" /\ verdict' = "failed"
        \/ /\ amount' > 0 /\ verdict' = verdict
           /\ pc' = IF mode = "maker" THEN "limit" ELSE "market"
    BY <1>1, <2>2 DEF Prepare
  <2>4. /\ pc = "prepare"
        /\ UNCHANGED <<mode, signal, venue, weather, total, seen, limit, market, cancelled, pos, booked>>
    BY <1>1 DEF Prepare
  <2>5. TypeOK'
    BY <2>1, <2>2, <2>3, <2>4
  <2>a. seen = 0 /\ total = 0 /\ market = None /\ limit.filled \in Nat
    BY <2>4
  <2>b. pc' \in {"done", "limit", "market"} /\ UNCHANGED <<seen, total, limit, market>>
    BY <2>3, <2>4
  <2>c. \A a \in Nat : 0 + a <= a /\ a + 0 <= a /\ 0 <= a
    OBVIOUS
  <2>6. RestHandedOn'
    <3>0. seen' = 0 /\ market'.size = 0 /\ remaining' = amount'
      BY <2>2, <2>a, <2>b
    <3>1. (seen + remaining <= amount)'
      BY <2>2, <2>c, <3>0
    <3>2. (seen <= limit.filled /\ seen <= amount /\ seen + market.size <= amount)'
      BY <2>2, <2>a, <2>b, <2>c, <3>0
    <3> QED BY <2>2, <2>a, <2>b, <3>1, <3>2
  <2>7. OrdersSane'
    BY <2>2, <2>3, <2>4
  <2>8. TotalSane' /\ BookedIsSeen'
    BY <2>2, <2>3, <2>4
  <2>9. SentBacked' /\ PartialKept'
    BY <2>3, <2>4
  <2> QED BY <2>5, <2>6, <2>7, <2>8, <2>9
<1>2. CASE PlaceLimit
  <2>1. TypeOK'
    BY <1>2 DEF PlaceLimit, Accepted, FallBack
  <2>2. RestHandedOn'
    BY <1>2 DEF PlaceLimit, Accepted, FallBack
  <2>3. OrdersSane'
    BY <1>2 DEF PlaceLimit, Accepted, FallBack
  <2>4. TotalSane'
    BY <1>2 DEF PlaceLimit, Accepted, FallBack
  <2>5. (BookedIsSeen /\ SentBacked /\ PartialKept)'
    BY <1>2 DEF PlaceLimit, Accepted, FallBack
  <2> QED BY <2>1, <2>2, <2>3, <2>4, <2>5
<1>3. CASE WaitLimit
  <2>1. TypeOK'
    BY <1>3 DEF WaitLimit, RestAfter, FallBack
  <2>2. RestHandedOn'
    BY <1>3 DEF WaitLimit, RestAfter, FallBack
  <2>3. OrdersSane'
    BY <1>3 DEF WaitLimit, RestAfter, FallBack
  <2>4. TotalSane'
    BY <1>3 DEF WaitLimit, RestAfter, FallBack
  <2>5. (BookedIsSeen /\ SentBacked /\ PartialKept)'
    BY <1>3 DEF WaitLimit, RestAfter, FallBack
  <2> QED BY <2>1, <2>2, <2>3, <2>4, <2>5
<1>4. CASE TailGuard
  BY <1>4 DEF TailGuard
<1>5. CASE Cancel
  <2>1. TypeOK'
    <3>1. cancelled' \in BOOLEAN
      BY <1>5, Zenon DEF Cancel
    <3> QED BY <1>5, <3>1 DEF Cancel
  <2>2. RestHandedOn'
    BY <1>5 DEF Cancel
  <2>3. OrdersSane'
    BY <1>5 DEF Cancel
  <2>4. TotalSane'
    BY <1>5 DEF Cancel
  <2>5. (BookedIsSeen /\ SentBacked /\ PartialKept)'
    BY <1>5 DEF Cancel
  <2> QED BY <2>1, <2>2, <2>3, <2>4, <2>5
<1>6. CASE PlaceMarket
  <2>1. TypeOK'
    BY <1>6 DEF PlaceMarket, Accepted, MarketError
  <2>2. RestHandedOn'
    BY <1>6 DEF PlaceMarket, Accepted, MarketError
  <2>3. OrdersSane'
    <3>1. /\ UNCHANGED <<limit, amount, mode>> /\ pc' \in {"waitmarket", "finish", "done"}
          /\ market' = None \/ market' = Accepted(remaining)
          /\ pc' = "waitmarket" => market' = Accepted(remaining)
      BY <1>6 DEF PlaceMarket, MarketError
    <3>2. /\ market'.filled <= market'.size
          /\ pc' = "waitmarket" => market'.size > 0
      BY <1>6, <3>1 DEF PlaceMarket, Accepted
    <3>3. amount > 0 /\ (mode # "maker" => limit = [size |-> 0, filled |-> 0])
      BY <1>6 DEF PlaceMarket
    <3> QED BY <3>1, <3>2, <3>3
  <2>4. TotalSane'
    BY <1>6 DEF PlaceMarket, Accepted, MarketError
  <2>5. (BookedIsSeen /\ SentBacked /\ PartialKept)'
    BY <1>6 DEF PlaceMarket, Accepted, MarketError
  <2> QED BY <2>1, <2>2, <2>3, <2>4, <2>5
<1>7. CASE WaitMarket
  <2>1. TypeOK'
    BY <1>7 DEF WaitMarket, MarketError
  <2>2. RestHandedOn'
    BY <1>7 DEF WaitMarket, MarketError
  <2>3. OrdersSane'
    BY <1>7 DEF WaitMarket, MarketError
  <2>4. TotalSane'
    BY <1>7 DEF WaitMarket, MarketError
  <2>5. (BookedIsSeen /\ SentBacked /\ PartialKept)'
    BY <1>7 DEF WaitMarket, MarketError
  <2> QED BY <2>1, <2>2, <2>3, <2>4, <2>5
<1>8. CASE MarkSent
  BY <1>8 DEF MarkSent
<1>9. CASE Book
  BY <1>9 DEF Book, FinalFill
<1>10. CASE Shrink
  BY <1>10 DEF Shrink
<1> QED BY <1>1, <1>2, <1>3, <1>4, <1>5, <1>6, <1>7, <1>8, <1>9, <1>10 DEF Worker

\* In every reachable state of a dispatch the rest is handed on correctly.
THEOREM ExecInvariance == Spec => []ExecInv
<1>1. ExecInv /\ [Next]_vars => ExecInv'
  <2> SUFFICES ASSUME ExecInv, [Next]_vars PROVE ExecInv'
    OBVIOUS
  <2>1. CASE UNCHANGED vars
    BY <2>1 DEF vars, request, LimitFirst, orders, ExecInv, TypeOK, RestHandedOn, OrdersSane, TotalSane,
                BookedIsSeen, SentBacked, PartialKept, Faultless, Executed
  <2>2. CASE Next
    BY <2>2, FillStep, CallStep DEF Next
  <2> QED BY <2>1, <2>2
<1> QED BY <1>1, ExecInit, PTL DEF Spec

\* What is executed beyond the amount, the limit order filled after its last poll.
THEOREM OvershootBounded == Spec => []OvershootIsLate
<1>1. ExecInv => OvershootIsLate
  BY DEF ExecInv, TypeOK, RestHandedOn, OrdersSane, OvershootIsLate, Over, Minus, Executed, Order
<1> QED BY <1>1, ExecInvariance, PTL

\* No fill is counted that the exchange did not make.
THEOREM BookedSeen == Spec => []BookedIsSeen
<1>1. ExecInv => BookedIsSeen
  BY DEF ExecInv
<1> QED BY <1>1, ExecInvariance, PTL

\* A market-mode dispatch executes and books at most its amount.
THEOREM MarketExact == Spec => []MarketModeExact
<1>1. ExecInv => MarketModeExact
  <2> SUFFICES ASSUME ExecInv, ~LimitFirst
               PROVE  Executed <= Amount /\ booked <= Amount
    BY DEF MarketModeExact
  <2>1. Executed = market.filled /\ market.filled \in Nat /\ market.size \in Nat
    BY DEF ExecInv, TypeOK, OrdersSane, Executed, Order, None
  <2>2. market.filled <= market.size /\ market.size <= amount /\ amount <= Amount
    BY <2>1 DEF ExecInv, TypeOK, OrdersSane, RestHandedOn
  <2>3. booked <= Executed \/ booked = amount
    BY <2>1 DEF ExecInv, TypeOK, BookedIsSeen
  <2> QED BY <2>1, <2>2, <2>3, ExecutionAssumption DEF ExecInv, TypeOK
<1> QED BY <1>1, ExecInvariance, PTL

\* After the verdict the worker only fills the books, so a verdict is final:
\* a row marked failed is not reported sent afterwards, nor the other way round.
THEOREM OneVerdict == Spec => VerdictOnce
<1>1. ASSUME ExecInv, [Next]_vars
      PROVE  verdict # "none" => verdict' = verdict
  <2> SUFFICES ASSUME verdict # "none"
               PROVE  verdict' = verdict
    OBVIOUS
  <2>1. pc \in {"record", "done"}
    BY <1>1 DEF ExecInv, TotalSane
  <2>2. Worker => Book
    BY <2>1 DEF Worker, Prepare, PlaceLimit, WaitLimit, TailGuard, Cancel, PlaceMarket,
                WaitMarket, MarkSent
  <2> QED BY <1>1, <2>2 DEF Next, Book, FillLimit, FillMarket, Shrink, vars
<1>2. ExecInv /\ [Next]_vars => [verdict # "none" => verdict' = verdict]_vars
  BY <1>1
<1> QED BY <1>2, ExecInvariance, PTL DEF Spec, VerdictOnce

\* A row is reported sent only after the exchange accepted an order for it.
THEOREM SentIsBacked == Spec => []SentBacked
<1>1. ExecInv => SentBacked
  BY DEF ExecInv
<1> QED BY <1>1, ExecInvariance, PTL

-----------------------------------------------------------------------------
(* Calm weather *)

Dust == LET rest == Minus(amount, seen) IN rest < MinBase \/ rest * 1000 <= amount

\* The position has moved by what a calm dispatch has executed, the books follow at
\* its end by what they are given, and a close asks for no more than they held.
BooksTrack ==
  /\ pc # "prepare" /\ ReduceOnly => start.pos = pos + Executed
  /\ pc # "prepare" /\ ~ReduceOnly => pos = start.pos + Executed
  /\ pc \notin {"prepare", "done"} => local = start.local
  /\ pc = "done" /\ verdict = "sent" =>
       local = IF ReduceOnly THEN Minus(start.local, booked) ELSE start.local + booked
  /\ pc # "prepare" /\ ReduceOnly => amount <= start.local
  /\ pc # "prepare" /\ venue \in {"cutting", "synced"} =>
       ~Diverged(start.local, start.pos) /\ (start.local = 0 <=> start.pos = 0)
  /\ pc = "prepare" => Executed = 0

\* What the tail guard and the cancel know of the rest.
RestKnown ==
  /\ pc = "tailguard" => remaining = Minus(amount, seen)
  /\ pc = "cancel" => \/ remaining = Minus(amount, seen)
                      \/ remaining = 0 /\ Minus(amount, seen) < MinBase
  /\ pc \in {"market", "waitmarket", "finish", "record", "done"} /\ limit.size > 0 /\ ~cancelled => Dust

CalmInv == Faultless => BooksTrack /\ RestKnown

LEMMA CalmInit == Init => CalmInv
BY ExecutionAssumption
   DEF Init, CalmInv, BooksTrack, RestKnown, Executed, None, Faultless, Minus, ReduceOnly

\* A fill moves the position by what it executes.
LEMMA CalmFill ==
  ASSUME ExecInv, CalmInv, FillLimit \/ FillMarket
  PROVE  CalmInv'
<1> SUFFICES ASSUME Faultless PROVE (BooksTrack /\ RestKnown)'
  BY DEF CalmInv, FillLimit, FillMarket, request, Faultless
<1> USE DEF ExecInv, TypeOK, RestHandedOn, OrdersSane, TotalSane, Order, None, Executed, request,
            ReduceOnly, Faultless, CalmInv, BooksTrack, MovePosition, Minus
<1>1. CASE FillLimit
  <2>1. PICK q \in Nat : /\ limit.filled < q /\ q <= limit.size
                         /\ limit' = [limit EXCEPT !.filled = q]
                         /\ MovePosition(q - limit.filled)
    BY <1>1, ExecutionAssumption DEF FillLimit, Fill, Filled
  <2>2. limit' \in Order /\ limit'.filled = q /\ limit'.size = limit.size
    BY <2>1
  <2>3. UNCHANGED <<mode, signal, venue, weather, start, pc, amount, remaining, seen, market, cancelled,
                    local, booked, verdict>>
    BY <1>1 DEF FillLimit
  <2>4. BooksTrack'
    BY <2>1, <2>2, <2>3
  <2>5. RestKnown'
    BY <2>2, <2>3 DEF RestKnown, Dust
  <2> QED BY <2>4, <2>5
<1>2. CASE FillMarket
  <2>1. PICK q \in Nat : /\ market.filled < q /\ q <= market.size
                         /\ market' = [market EXCEPT !.filled = q]
                         /\ MovePosition(q - market.filled)
    BY <1>2, ExecutionAssumption DEF FillMarket, Fill, Filled
  <2>2. market' \in Order /\ market'.filled = q /\ market'.size = market.size
    BY <2>1
  <2>3. UNCHANGED <<mode, signal, venue, weather, start, pc, amount, remaining, seen, limit, cancelled,
                    local, booked, verdict>>
    BY <1>2 DEF FillMarket
  <2>4. BooksTrack'
    BY <2>1, <2>2, <2>3
  <2>5. RestKnown'
    BY <2>3 DEF RestKnown, Dust
  <2> QED BY <2>4, <2>5
<1> QED BY <1>1, <1>2

\* A worker whose calls are answered hands on what it knows.
LEMMA CalmCall ==
  ASSUME ExecInv, CalmInv, Worker \/ Shrink
  PROVE  CalmInv'
<1> SUFFICES ASSUME Faultless PROVE (BooksTrack /\ RestKnown)'
  BY DEF CalmInv, Worker, Shrink, Prepare, PlaceLimit, WaitLimit, TailGuard, Cancel, PlaceMarket,
         WaitMarket, MarkSent, Book, request, Faultless
<1> USE ExecutionAssumption
    DEF ExecInv, TypeOK, RestHandedOn, OrdersSane, TotalSane, Order, None, Executed, request,
        ReduceOnly, Faultless, CalmInv, BooksTrack, RestKnown, Dust, orders, Minus
<1>1. CASE Prepare
  <2>0. PICK repriced \in BOOLEAN : local' = Synced(repriced)
    BY <1>1 DEF Prepare
  <2>a. local' \in Nat /\ (venue \in {"cutting", "synced"} =>
             ~Diverged(local', pos) /\ (local' = 0 <=> pos = 0))
    <3>1. /\ venue = "skipped" => local' = local
          /\ venue = "renamed" => local' = 0
          /\ venue \in {"cutting", "synced"} /\ pos = 0 => local' = 0
          /\ venue \in {"cutting", "synced"} /\ pos > 0 =>
               local' = IF local = 0 \/ Diverged(local, pos) \/ repriced THEN pos ELSE local
      <4>1. CASE venue = "skipped"
        BY <2>0, <4>1 DEF Synced
      <4>2. CASE venue = "renamed"
        BY <2>0, <4>2 DEF Synced
      <4>3. CASE venue \in {"cutting", "synced"} /\ pos = 0
        BY <2>0, <4>3 DEF Synced
      <4>4. CASE venue \in {"cutting", "synced"} /\ pos > 0
        BY <2>0, <4>4 DEF Synced
      <4> QED BY <4>1, <4>2, <4>3, <4>4
    <3>2. ~Diverged(pos, pos) /\ ~Diverged(0, 0)
      BY DEF Diverged
    <3> QED BY <3>1, <3>2
  <2>b. ReduceOnly => amount' <= local'
    BY <1>1, <2>a DEF Prepare, CutToPosition, Least
  <2>1. /\ start' = [pos |-> pos, local |-> local']
        /\ UNCHANGED <<pos, limit, market, signal, venue, weather>>
        /\ \/ pc' = "done" /\ verdict' = "failed"
           \/ pc' \in {"limit", "market"} /\ verdict' = "none"
    BY <1>1 DEF Prepare
  <2>2. Executed = 0 /\ limit = [size |-> 0, filled |-> 0]
    BY <1>1 DEF Prepare
  <2>3. BooksTrack'
    BY <2>1, <2>2, <2>a, <2>b
  <2>4. RestKnown'
    BY <2>1, <2>2
  <2> QED BY <2>3, <2>4
<1>2. CASE PlaceLimit
  BY <1>2 DEF PlaceLimit, Accepted
<1>3. CASE WaitLimit
  BY <1>3 DEF WaitLimit, RestAfter
<1>4. CASE TailGuard
  <2>1. /\ pc = "tailguard" /\ pc' = "cancel"
        /\ remaining' = IF remaining < MinBase THEN 0 ELSE remaining
        /\ UNCHANGED <<amount, seen, limit, market, signal, venue, pos, local, start, booked, verdict>>
    BY <1>4 DEF TailGuard
  <2>2. BooksTrack'
    BY <2>1
  <2>3. RestKnown'
    BY <2>1
  <2> QED BY <2>2, <2>3
<1>5. CASE Cancel
  BY <1>5 DEF Cancel
<1>6. CASE PlaceMarket
  <2>1. /\ UNCHANGED <<amount, remaining, total, seen, limit, cancelled, pos, local, start, booked,
                       signal, venue>>
        /\ market' = None \/ market' = Accepted(remaining)
        /\ pc = "market" /\ pc' \in {"waitmarket", "finish", "done"}
        /\ verdict' = verdict \/ verdict' = "failed"
    BY <1>6 DEF PlaceMarket, MarketError
  <2>2. market = None /\ Executed' = Executed /\ verdict = "none"
    BY <2>1 DEF Accepted
  <2>3. BooksTrack'
    BY <2>1, <2>2
  <2>4. RestKnown'
    BY <2>1
  <2> QED BY <2>3, <2>4
<1>7. CASE WaitMarket
  BY <1>7 DEF WaitMarket
<1>8. CASE MarkSent
  BY <1>8 DEF MarkSent
<1>9. CASE Book
  BY <1>9 DEF Book, FinalFill
<1>10. CASE Shrink
  BY <1>10 DEF Shrink
<1> QED BY <1>1, <1>2, <1>3, <1>4, <1>5, <1>6, <1>7, <1>8, <1>9, <1>10 DEF Worker

LEMMA CalmInvariance == Spec => []CalmInv
<1>1. ExecInv /\ CalmInv /\ [Next]_vars => CalmInv'
  <2> SUFFICES ASSUME ExecInv, CalmInv, [Next]_vars PROVE CalmInv'
    OBVIOUS
  <2>1. CASE UNCHANGED vars
    BY <2>1 DEF vars, request, orders, CalmInv, BooksTrack, RestKnown, Dust, Executed, Faultless,
                ReduceOnly, Minus
  <2>2. CASE Next
    BY <2>2, CalmFill, CalmCall DEF Next
  <2> QED BY <2>1, <2>2
<1> QED BY <1>1, CalmInit, ExecInvariance, PTL DEF Spec

\* When every call is answered, a dispatch whose last fill was polled leaves the books
\* as far from the exchange as the sync before it has left them.
THEOREM BooksAreFollowed == Spec => []BooksFollow
<1>1. ExecInv /\ CalmInv => BooksFollow
  <2> SUFFICES ASSUME ExecInv, CalmInv, Faultless, verdict = "sent", booked = Executed
               PROVE  /\ local + start.pos = pos + start.local
                      /\ venue \in {"cutting", "synced"} =>
                           ~Diverged(start.local, start.pos) /\ (start.local = 0 <=> start.pos = 0)
    BY DEF BooksFollow
  <2>1. BooksTrack /\ pc \in {"record", "done"}
    BY DEF CalmInv, ExecInv, TotalSane
  <2>2. /\ local \in Nat /\ pos \in Nat /\ start.local \in Nat /\ start.pos \in Nat
        /\ booked \in Nat /\ amount \in Nat /\ booked <= amount /\ (pc = "record" => booked = 0)
    BY DEF ExecInv, TypeOK, TotalSane
  <2>3. CASE ReduceOnly
    <3>1. start.pos = pos + booked /\ booked <= start.local
      BY <2>1, <2>2, <2>3 DEF BooksTrack
    <3>2. local = start.local - booked
      BY <2>1, <2>2, <2>3, <3>1 DEF BooksTrack, Minus
    <3> QED BY <2>1, <2>2, <3>1, <3>2 DEF BooksTrack
  <2>4. CASE ~ReduceOnly
    BY <2>1, <2>2, <2>4 DEF BooksTrack
  <2> QED BY <2>3, <2>4
<1> QED BY <1>1, ExecInvariance, CalmInvariance, PTL

\* When every call is answered, only dust stays open behind a finished dispatch.
THEOREM OnlyDustStaysOpen == Spec => []OpenRestIsDust
<1>1. ExecInv /\ CalmInv => OpenRestIsDust
  BY DEF ExecInv, TotalSane, CalmInv, RestKnown, Dust, OpenRestIsDust
<1> QED BY <1>1, ExecInvariance, CalmInvariance, PTL

-----------------------------------------------------------------------------
(* The dispatch as a step of OrderQueue *)

\* The queue's variables follow from five facts about the dispatch.
Sent == verdict = "sent"
SameView ==
  /\ UNCHANGED <<QueueStage, Chosen, Taken>>
  /\ (Sent' <=> Sent) /\ (FillSeen' <=> FillSeen) /\ (Released' <=> Released)

LEMMA Unnoticed ==
  ASSUME SameView
  PROVE  UNCHANGED Queue!vars
BY DEF SameView, Sent, Queue!vars, Queue!rows, Queue!exchange, Queue!threads

\* Where the worker has got with the row, for every state of the dispatch.
LEMMA ViewTyped ==
  ASSUME ExecInv
  PROVE  /\ Chosen \in {"maker", "market"} /\ Taken \subseteq {"lmt", "mkt"}
         /\ FillSeen \in BOOLEAN /\ Released \in BOOLEAN
         /\ QueueStage \in {"maker", "market", "marksent", "record", "loop", "markfailed"}
         /\ Released <=> QueueStage = "loop"
         /\ QueueStage = "marksent" => Taken # {}
         /\ FillSeen => "lmt" \in Taken /\ QueueStage # "loop"
         /\ verdict = "sent" => Taken # {}
<1> USE DEF ExecInv, TypeOK
<1>1. Chosen \in {"maker", "market"} /\ Taken \subseteq {"lmt", "mkt"}
  BY DEF Chosen, Taken
<1>2. FillSeen \in BOOLEAN /\ Released \in BOOLEAN
  BY DEF FillSeen, Released
<1>3. QueueStage \in {"maker", "market", "marksent", "record", "loop", "markfailed"}
      /\ (Released <=> QueueStage = "loop")
  BY DEF QueueStage, Chosen, Released
<1>4. QueueStage = "marksent" => pc = "finish"
  BY DEF QueueStage, Chosen
<1>5. pc = "finish" => limit.size > 0 \/ market.size > 0
  BY DEF TotalSane
<1>6. verdict = "sent" => pc \in {"record", "done"} /\ (limit.size > 0 \/ market.size > 0)
  BY DEF TotalSane, SentBacked
<1>7. pc \in {"finish", "record", "done"} /\ (limit.size > 0 \/ market.size > 0) => Taken # {}
  BY DEF Taken, LimitOver, MarketOver
<1>8. seen > 0 => limit.size > 0
  BY DEF RestHandedOn, OrdersSane, Order
<1>9. FillSeen => "lmt" \in Taken /\ QueueStage # "loop"
  BY <1>3, <1>8 DEF Taken, FillSeen
<1> QED BY <1>1, <1>2, <1>3, <1>4, <1>5, <1>6, <1>7, <1>9

\* The invariant of the queue holds of what it sees.
LEMMA ViewInv == ExecInv => Queue!QueueInv
<1> SUFFICES ASSUME ExecInv PROVE Queue!QueueInv
  OBVIOUS
<1> USE ViewTyped DEF OneRow, OneWorker
<1>1. Queue!TypeOK
  BY DEF Queue!TypeOK, Queue!Statuses, Queue!Settled, Queue!Stages, Queue!AllRoutes
<1>2. Queue!WorkerConsistent
  BY DEF Queue!WorkerConsistent, Queue!Working, Queue!Stages
<1>3. Queue!PendingEligible
  BY DEF Queue!PendingEligible
<1>4. Queue!LiveBacked
  BY DEF Queue!LiveBacked, Queue!Working, Queue!Stages
<1>5. Queue!SentMeansPlaced
  BY DEF Queue!SentMeansPlaced
<1> QED BY <1>1, <1>2, <1>3, <1>4, <1>5 DEF Queue!QueueInv

\* A check before the first exchange order fails.
LEMMA AsRefuse ==
  ASSUME QueueStage = Chosen, QueueStage' = "markfailed", ~Released,
         UNCHANGED <<Chosen, Taken>>, Sent' <=> Sent, FillSeen' <=> FillSeen, ~Released'
  PROVE  Queue!Refuse(OneWorker)
<1>1. Queue!Goto(OneWorker, "markfailed")
  BY DEF Queue!Goto, OneWorker
<1> QED BY <1>1 DEF Queue!Refuse, Queue!rows, Queue!exchange, OneRow, OneWorker, Sent

\* The limit phase is over: answered or not, with a fill or none, and the order
\* accepted or not.
LEMMA AsLimitPhase ==
  ASSUME QueueStage = "maker", UNCHANGED Chosen, Sent' <=> Sent, ~Released, ~Released',
         ~FillSeen, Taken = {}, Taken' \in {{}, {"lmt"}},
         FillSeen' => Taken' = {"lmt"},
         \/ QueueStage' = "market"
         \/ QueueStage' = "marksent" /\ Taken' = {"lmt"}
  PROVE  Queue!LimitPhase(OneWorker)
<1> DEFINE accepted == Taken' = {"lmt"}
           reply == IF FillSeen' THEN "part" ELSE IF accepted THEN "none" ELSE "error"
<1> USE DEF OneRow, OneWorker
<1>1. accepted \in BOOLEAN /\ reply \in {"full", "part", "none", "error"}
      /\ (accepted \/ reply = "error") /\ reply # "full" /\ (QueueStage' = "marksent" => reply # "error")
      /\ (reply \in {"full", "part"} <=> FillSeen')
  OBVIOUS
<1>2. Queue!Submit(OneRow, "lmt", accepted)
  BY DEF Queue!Submit, Queue!ClientOid
<1> HIDE DEF accepted, reply
<1>3. Queue!Goto(OneWorker, QueueStage')
  BY DEF Queue!Goto
<1> QED BY <1>1, <1>2, <1>3 DEF Queue!LimitPhase, Queue!rows, Sent

\* The market phase is over: the order accepted and answered, refused or not
\* answered after a fill of the limit order, or failed.
LEMMA AsMarketPhase ==
  ASSUME QueueStage = "market", UNCHANGED Chosen, Sent' <=> Sent, FillSeen' <=> FillSeen,
         ~Released, ~Released', Taken \subseteq {"lmt"}, Taken' \in {Taken, Taken \cup {"mkt"}},
         \/ QueueStage' = "markfailed"
         \/ QueueStage' = "marksent" /\ ("mkt" \in Taken' \/ FillSeen)
  PROVE  Queue!MarketPhase(OneWorker)
<1> DEFINE accepted == "mkt" \in Taken'
           reply == IF QueueStage' = "markfailed" THEN "error" ELSE IF accepted THEN "ok" ELSE "refused"
<1> USE DEF OneRow, OneWorker
<1>1. accepted \in BOOLEAN /\ reply \in {"ok", "refused", "error"} /\ (accepted \/ reply # "ok")
      /\ QueueStage' = IF reply = "ok" \/ (reply = "refused" /\ FillSeen)
                       THEN "marksent" ELSE "markfailed"
  OBVIOUS
<1>2. Queue!Submit(OneRow, "mkt", accepted)
  <2>1. CASE accepted
    <3>1. Taken' = Taken \cup {"mkt"} /\ "mkt" \notin Taken
      BY <2>1
    <3> QED BY <2>1, <3>1 DEF Queue!Submit, Queue!ClientOid
  <2>2. CASE ~accepted
    BY <2>2 DEF Queue!Submit
  <2> QED BY <2>1, <2>2
<1> HIDE DEF accepted, reply
<1>3. Queue!Goto(OneWorker, QueueStage')
  BY DEF Queue!Goto
<1> QED BY <1>1, <1>2, <1>3 DEF Queue!MarketPhase, Queue!rows, Sent

LEMMA AsMarkSent ==
  ASSUME QueueStage = "marksent", QueueStage' = "record", Sent',
         UNCHANGED <<Chosen, Taken>>, FillSeen' <=> FillSeen, ~Released, ~Released',
         Chosen \in {"maker", "market"}
  PROVE  Queue!MarkSent(OneWorker)
BY DEF Queue!MarkSent, Queue!Settle, Queue!Goto, Queue!exchange, OneRow, OneWorker, Sent

LEMMA AsRecord ==
  ASSUME QueueStage = "record", QueueStage' = "loop", UNCHANGED Taken, Sent' <=> Sent,
         ~Released, Released', ~FillSeen'
  PROVE  Queue!Record(OneWorker)
<1> USE DEF OneRow, OneWorker
<1>1. Queue!Release(OneWorker)
  BY DEF Queue!Release, Queue!Goto
<1> QED BY <1>1 DEF Queue!Record, Queue!rows, Queue!exchange, Sent

\* Every step of the dispatch is one of these, or the queue does not notice it.
LEMMA DispatchStep ==
  ASSUME ExecInv, ExecInv', [Next]_vars
  PROVE  Queue!Tick(OneWorker) \/ UNCHANGED Queue!vars
<1> USE DEF ExecInv, TypeOK, LimitFirst, request, orders
<1>a. SUFFICES \/ SameView \/ Queue!Refuse(OneWorker) \/ Queue!LimitPhase(OneWorker)
               \/ Queue!MarketPhase(OneWorker) \/ Queue!MarkSent(OneWorker)
               \/ Queue!Record(OneWorker)
  BY Unnoticed DEF Queue!Tick
<1>1. CASE Prepare
  <2>1. /\ pc = "prepare" /\ verdict = "none" /\ limit = None /\ market = None /\ seen = 0
        /\ UNCHANGED <<mode, limit, market, seen>>
        /\ \/ pc' = "done" /\ verdict' = "failed"
           \/ pc' = (IF LimitFirst THEN "limit" ELSE "market") /\ verdict' = "none"
    BY <1>1 DEF Prepare, RestHandedOn, OrdersSane, TotalSane
  <2>2. /\ Chosen' = Chosen /\ QueueStage = Chosen /\ Taken = {} /\ Taken' = {}
        /\ ~Released /\ ~Released' /\ ~FillSeen /\ ~FillSeen' /\ ~Sent /\ ~Sent'
    BY <2>1 DEF Sent, Chosen, QueueStage, Taken, Released, FillSeen, None
  <2>3. CASE pc' = "done" /\ verdict' = "failed"
    <3>1. QueueStage' = "markfailed"
      BY <2>3 DEF QueueStage
    <3> QED BY <2>1, <2>2, <2>3, <3>1, AsRefuse
  <2>4. CASE pc' = (IF LimitFirst THEN "limit" ELSE "market") /\ verdict' = "none"
    <3>1. QueueStage' = Chosen
      BY <2>1, <2>4 DEF QueueStage, Chosen
    <3> QED BY <2>1, <2>2, <2>4, <3>1 DEF SameView
  <2> QED BY <2>1, <2>3, <2>4
<1>2. CASE PlaceLimit \/ WaitLimit \/ TailGuard \/ Cancel
  <2>1. /\ pc \in {"limit", "waitlimit", "tailguard", "cancel"}
        /\ UNCHANGED <<mode, market, verdict>> /\ market = None /\ verdict = "none"
        /\ pc' \in {"waitlimit", "tailguard", "cancel", "market", "finish"}
    BY <1>2 DEF PlaceLimit, WaitLimit, TailGuard, Cancel, FallBack, RestHandedOn, TotalSane
  <2>2. /\ Chosen' = Chosen /\ QueueStage = "maker" /\ Taken = {}
        /\ ~Released /\ ~Released' /\ ~FillSeen /\ ~Sent /\ ~Sent'
    BY <2>1 DEF Sent, Chosen, QueueStage, Taken, Released, FillSeen, LimitOver, MarketOver
  <2>3. CASE pc' \in {"waitlimit", "tailguard", "cancel"}
    <3>1. QueueStage' = "maker" /\ Taken' = {} /\ ~FillSeen'
      BY <2>3 DEF QueueStage, Taken, FillSeen, LimitOver, MarketOver
    <3> QED BY <2>2, <3>1 DEF SameView
  <2>4. CASE pc' \in {"market", "finish"}
    <3>1. QueueStage' = IF pc' = "market" THEN "market" ELSE "marksent"
      BY <2>4 DEF QueueStage
    <3>2. market'.size = 0 /\ Taken' = IF limit'.size > 0 THEN {"lmt"} ELSE {}
      BY <2>1, <2>4 DEF Taken, LimitOver, MarketOver, None
    <3>3. FillSeen' => Taken' = {"lmt"}
      BY <3>2 DEF FillSeen, RestHandedOn, OrdersSane, Order
    <3>4. pc' = "finish" => Taken' = {"lmt"}
      BY <3>2 DEF TotalSane
    <3> QED BY <2>2, <2>4, <3>1, <3>2, <3>3, <3>4, AsLimitPhase
  <2> QED BY <2>1, <2>3, <2>4
<1>3. CASE PlaceMarket \/ WaitMarket
  <2>1. /\ pc \in {"market", "waitmarket"} /\ UNCHANGED <<mode, limit, seen>> /\ verdict = "none"
        /\ \/ pc' = "waitmarket" /\ verdict' = "none"
           \/ pc' = "finish" /\ verdict' = "none" /\ (market'.size > 0 \/ seen > 0)
           \/ pc' = "done" /\ verdict' = "failed"
    <3>1. CASE PlaceMarket
      BY <3>1 DEF PlaceMarket, MarketError, RestHandedOn, TotalSane
    <3>2. CASE WaitMarket
      BY <3>2 DEF WaitMarket, MarketError, OrdersSane, TotalSane
    <3> QED BY <1>3, <3>1, <3>2
  <2>2. /\ Chosen' = Chosen /\ QueueStage = "market" /\ ~Released /\ ~Released' /\ ~Sent /\ ~Sent'
        /\ Taken = IF limit.size > 0 THEN {"lmt"} ELSE {}
        /\ (FillSeen <=> seen > 0) /\ (FillSeen' <=> seen > 0)
    BY <2>1 DEF Sent, Chosen, QueueStage, Taken, Released, FillSeen, LimitOver, MarketOver
  <2>3. CASE pc' = "waitmarket"
    <3>1. QueueStage' = "market" /\ Taken' = Taken
      BY <2>1, <2>2, <2>3 DEF QueueStage, Taken, LimitOver, MarketOver
    <3> QED BY <2>2, <3>1 DEF SameView
  <2>4. CASE pc' \in {"finish", "done"}
    <3>1. QueueStage' = IF pc' = "finish" THEN "marksent" ELSE "markfailed"
      BY <2>1, <2>4 DEF QueueStage
    <3>2. Taken' = Taken \cup (IF market'.size > 0 THEN {"mkt"} ELSE {})
      BY <2>1, <2>2, <2>4 DEF Taken, LimitOver, MarketOver
    <3>3. Taken \subseteq {"lmt"} /\ Taken' \in {Taken, Taken \cup {"mkt"}}
      BY <2>2, <3>2
    <3>4. \/ QueueStage' = "markfailed"
          \/ QueueStage' = "marksent" /\ ("mkt" \in Taken' \/ FillSeen)
      BY <2>1, <2>2, <2>4, <3>1, <3>2
    <3> QED BY <2>2, <3>3, <3>4, AsMarketPhase
  <2> QED BY <2>1, <2>3, <2>4
<1>4. CASE MarkSent
  <2>1. /\ pc = "finish" /\ pc' = "record" /\ verdict' = "sent" /\ UNCHANGED <<mode, limit, market, seen>>
    BY <1>4 DEF MarkSent
  <2>2. /\ QueueStage = "marksent" /\ QueueStage' = "record" /\ Sent' /\ ~Released /\ ~Released'
        /\ UNCHANGED <<Chosen, Taken>> /\ (FillSeen' <=> FillSeen)
    BY <2>1 DEF Sent, Chosen, QueueStage, Taken, Released, FillSeen, LimitOver, MarketOver
  <2> QED BY <2>2, ViewTyped, AsMarkSent
<1>5. CASE Book
  <2>1. /\ pc = "record" /\ pc' = "done" /\ verdict = "sent" /\ verdict' = "sent"
        /\ UNCHANGED <<mode, limit, market, seen>>
    BY <1>5 DEF Book, TotalSane
  <2>2. /\ QueueStage = "record" /\ QueueStage' = "loop" /\ UNCHANGED Taken /\ (Sent' <=> Sent)
        /\ ~Released /\ Released' /\ ~FillSeen'
    BY <2>1 DEF Sent, QueueStage, Taken, Released, FillSeen, LimitOver, MarketOver
  <2> QED BY <2>2, AsRecord
<1>6. CASE FillLimit \/ FillMarket \/ Shrink \/ UNCHANGED vars
  <2>1. /\ UNCHANGED <<mode, pc, seen, verdict>>
        /\ limit'.size = limit.size /\ market'.size = market.size
    BY <1>6 DEF FillLimit, FillMarket, Shrink, vars, Filled, Order
  <2>2. /\ UNCHANGED <<QueueStage, Chosen, Taken>>
        /\ (Sent' <=> Sent) /\ (FillSeen' <=> FillSeen) /\ (Released' <=> Released)
    BY <2>1 DEF Sent, Chosen, QueueStage, Taken, Released, FillSeen, LimitOver, MarketOver
  <2> QED BY <2>2 DEF SameView
<1> QED BY <1>1, <1>2, <1>3, <1>4, <1>5, <1>6 DEF Next, Worker

\* The dispatch does what OrderQueue, which has crashes and retries around it, takes
\* it for: no row is marked sent without an accepted order, no phase runs twice, and
\* a refused market order is a success only after a fill of the limit order.
THEOREM DispatchImplementsQueue == Spec => QueueDispatch
<1>1. Init => Queue!QueueInv
  BY ExecInit, ViewInv
<1>2. ExecInv /\ ExecInv' /\ [Next]_vars => [Queue!Tick(OneWorker)]_(Queue!vars)
  BY DispatchStep
<1> QED BY <1>1, <1>2, ExecInvariance, PTL DEF Spec, QueueDispatch
=============================================================================
