---------------------------- MODULE PositionBooks -----------------------------
(***************************************************************************)
(* The position rows of live strategies beside the exchange account they   *)
(* stand for.  Two things write the rows: a worker that books the fill of  *)
(* an order (records.py: read the row in one transaction, write it in      *)
(* another), and the position sync (PendingOrderWorker.                    *)
(* _sync_positions_best_effort: read the rows, ask the exchange, then      *)
(* delete, update and insert in a third transaction).  Every process has   *)
(* a worker of its own, a sync also runs when a strategy starts, and the   *)
(* account moves without the program, too.  LiveExecution holds the orders *)
(* themselves; here an order is one step that moves the account.           *)
(***************************************************************************)
EXTENDS Naturals, FiniteSets

CONSTANTS
  Strategies,    \* live strategies of one account
  Teams,         \* which of them run
  Markets,       \* symbol and side of a position
  Trades,        \* symbol and symbol_list of each strategy
  Client,        \* how the sync deals with the client of each strategy:
                 \* named:   under the strategy's symbols (Binance, OKX, Bitget, Bybit, Gate swaps)
                 \* renamed: under the exchange's (KuCoin and Kraken futures, MT5)
                 \* skipped: not at all (spot, other clients)
  Procs,         \* workers of the server's processes
  Lots,          \* quantities an order fills
  OutsideSizes,  \* what positions are set to by hand
  One,           \* units in one coin or contract
  MaxEvents      \* bound of the model, per team: orders, starts of strategies, moves
                 \* from outside and errors of the sync

ASSUME BooksAssumption ==
  /\ Strategies # {} /\ Trades \in [Strategies -> SUBSET Markets]
  /\ Client \in [Strategies -> {"named", "renamed", "skipped"}]
  /\ Lots \subseteq Nat \ {0} /\ OutsideSizes \subseteq Nat /\ One \in Nat \ {0}
  /\ Teams \subseteq (SUBSET Strategies) \ {{}} /\ MaxEvents \in [Teams -> Nat]

VARIABLES
  team,      \* the strategies with status running and execution_mode live
  account,   \* the position on the exchange, per market
  rows,      \* sizes in qd_strategy_positions, per strategy and market; 0 is no row
  busy,      \* what each worker is doing
  todo,      \* strategies its sync has still before it
  snapshot,  \* the rows its sync has read
  gone,      \* those of them deleted since: their ids name no row any more
  cursor,    \* the strategy it has asked the exchange for
  view,      \* and the answer
  order,     \* the order it executes after a targeted sync
  current,   \* the size read by the booking in progress
  crossed,   \* history: markets where a sync or booking crossed an unbooked
             \* fill, or that moved from outside
  booked,    \* history: keys whose row some booking wrote
  events     \* what the bound counts

booksVars == <<team, account, rows, busy, todo, snapshot, gone, cursor, view, order, current,
               crossed, booked, events>>

Keys == Strategies \X Markets
NoOrder == [kind |-> "none"]
OrderOf == [kind : {"open", "close"}, key : Keys, qty : Nat]

BooksTypeOK ==
  /\ account \in [Markets -> Nat] /\ rows \in [Keys -> Nat]
  /\ busy \in [Procs -> {"idle", "sync", "fetched", "order", "filled", "booking"}]
  /\ todo \in [Procs -> SUBSET Strategies]
  /\ snapshot \in [Procs -> [Keys -> Nat]] /\ gone \in [Procs -> SUBSET Keys]
  /\ cursor \in [Procs -> Strategies] /\ view \in [Procs -> [Markets -> Nat]]
  /\ order \in [Procs -> OrderOf \cup {NoOrder}] /\ current \in [Procs -> Nat]
  /\ crossed \subseteq Markets /\ booked \subseteq Keys
  /\ team \in Teams /\ events \in Nat

NoRows == [k \in Keys |-> 0]
Nobody == CHOOSE s \in Strategies : TRUE
Flat == [m \in Markets |-> 0]

BooksInit ==
  /\ account = Flat /\ rows = NoRows
  /\ busy = [p \in Procs |-> "idle"] /\ todo = [p \in Procs |-> {}]
  /\ snapshot = [p \in Procs |-> NoRows] /\ gone = [p \in Procs |-> {}]
  /\ cursor = [p \in Procs |-> Nobody]
  /\ view = [p \in Procs |-> Flat]
  /\ order = [p \in Procs |-> NoOrder] /\ current = [p \in Procs |-> 0]
  /\ crossed = {} /\ booked = {}
  /\ team \in Teams /\ events = 0

Event == events < MaxEvents[team] /\ events' = events + 1

\* The markets a worker's sync has still to settle, or whose fill it has not booked yet.
Syncing(q) == {m \in Markets : \E s \in todo[q] : m \in Trades[s]}
Filling(q) == {m \in Markets : busy[q] \in {"filled", "booking"} /\ order[q].key[2] = m}
OthersSyncing(p) == {m \in Markets : \E q \in Procs \ {p} : m \in Syncing(q)}
OthersFilling(p) == {m \in Markets : \E q \in Procs \ {p} : m \in Filling(q)}

-----------------------------------------------------------------------------
(* The account *)

\* The user trades by hand or with quick trade, a liquidation, a fee taken in the coin
\* that was bought, or an order the program has given up fills late.
Outside ==
  /\ Event /\ UNCHANGED team
  /\ \E m \in Markets, n \in OutsideSizes :
       /\ n # account[m]
       /\ account' = [account EXCEPT ![m] = n]
       /\ crossed' = crossed \cup {m}
  /\ UNCHANGED <<rows, busy, todo, snapshot, gone, cursor, view, order, current, booked>>

-----------------------------------------------------------------------------
(* _sync_positions_best_effort *)

\* Rows of the strategies in scope, and the running live strategies without rows.
SyncRead(p, scope, next) ==
  /\ todo' = [todo EXCEPT ![p] = scope]
  /\ snapshot' = [snapshot EXCEPT ![p] = [k \in Keys |-> IF k[1] \in scope THEN rows[k] ELSE 0]]
  /\ busy' = [busy EXCEPT ![p] = "sync"]
  /\ order' = [order EXCEPT ![p] = next]
  /\ crossed' = crossed \cup {m \in OthersFilling(p) : \E s \in scope : m \in Trades[s]}

\* _maybe_sync_positions, between two batches.
SyncAll(p) ==
  /\ busy[p] = "idle"
  /\ SyncRead(p, team, NoOrder)
  /\ UNCHANGED <<team, account, rows, gone, cursor, view, current, booked, events>>

\* A strategy starts: the same for one strategy, on the thread that starts it.
SyncOne(p) ==
  /\ busy[p] = "idle" /\ Event
  /\ \E s \in team : SyncRead(p, {s}, NoOrder)
  /\ UNCHANGED <<team, account, rows, gone, cursor, view, current, booked>>

\* What the exchange's answer holds under the symbols of s: the markets' names are
\* translated, or left as the exchange has them and then found under no symbol of s.
AnswerFor(s) == IF Client[s] = "named" THEN account ELSE Flat

\* The positions of the strategy's account, as the exchange has them now.
SyncFetch(p) ==
  /\ busy[p] = "sync"
  /\ \E s \in todo[p] :
       /\ Client[s] # "skipped"
       /\ cursor' = [cursor EXCEPT ![p] = s]
       /\ view' = [view EXCEPT ![p] = AnswerFor(s)]
  /\ busy' = [busy EXCEPT ![p] = "fetched"]
  /\ UNCHANGED <<team, account, rows, todo, snapshot, gone, order, current, crossed, booked, events>>

\* The strategy that was dealt with leaves the loop. After the last one a
\* targeted sync goes on to its order, any other ends.
Leave(p, s) ==
  LET rest == todo[p] \ {s}
      next == IF rest # {} THEN "sync" ELSE IF order[p] = NoOrder THEN "idle" ELSE "order"
  IN /\ todo' = [todo EXCEPT ![p] = rest]
     /\ busy' = [busy EXCEPT ![p] = next]
     /\ snapshot' = [snapshot EXCEPT ![p] = [k \in Keys |-> IF k[1] \in rest THEN @[k] ELSE 0]]
     /\ view' = [view EXCEPT ![p] = Flat] /\ cursor' = [cursor EXCEPT ![p] = Nobody]

\* The rows that disappear are gone for every sync that has read them.
Forget(dead) ==
  gone' = [q \in Procs |-> {k \in gone[q] \cup dead : k[1] \in todo'[q] /\ snapshot[q][k] > 0}]

\* "Spot reconciliation is optional; skip for now"
SyncPass(p) ==
  /\ busy[p] = "sync"
  /\ \E s \in todo[p] : Client[s] = "skipped" /\ Leave(p, s)
  /\ Forget({})
  /\ UNCHANGED <<team, account, rows, order, current, crossed, booked, events>>

\* An error while one strategy is looked at is logged and the loop goes on.
SyncSkip(p) ==
  /\ busy[p] = "sync" /\ Event
  /\ \E s \in todo[p] : Leave(p, s)
  /\ Forget({})
  /\ UNCHANGED <<team, account, rows, order, current, crossed, booked>>

\* Mutant: sizes below one coin are compared as they are.
DivergedNever(local, exch) == FALSE

\* abs(exch_qty - local_size) / max(1.0, local_size) > 0.01
Diverged(local, exch) ==
  LET diff == IF exch > local THEN exch - local ELSE local - exch
  IN 100 * diff > (IF local > One THEN local ELSE One)

\* Mutant: markets of other strategies are taken in as well.
InsertAnything(p, s) == {m \in Markets : view[p][m] > 0 /\ snapshot[p][<<s, m>>] = 0}

\* What the sync decides for strategy s from its snapshot and the exchange's answer.
\* A row is also updated when its entry price is off by more than half a hundredth:
\* repriced are the markets where it is.
Deletes(p, s) == {m \in Markets : snapshot[p][<<s, m>>] > 0 /\ view[p][m] = 0}
Updates(p, s, repriced) ==
  {m \in Markets : /\ snapshot[p][<<s, m>>] > 0 /\ view[p][m] > 0
                   /\ Diverged(snapshot[p][<<s, m>>], view[p][m]) \/ m \in repriced}
Inserts(p, s) == {m \in Trades[s] : view[p][m] > 0 /\ snapshot[p][<<s, m>>] = 0}

\* The rows after the transaction: DELETE and UPDATE name the id read before, so
\* a row that was deleted and written anew is not met.
Reconciled(p, s, repriced, k) ==
  LET m == k[2] IN
  IF k[1] # s THEN rows[k]
  ELSE IF m \in Deletes(p, s) /\ k \notin gone[p] THEN 0
  ELSE IF (m \in Updates(p, s, repriced) /\ k \notin gone[p]) \/ m \in Inserts(p, s) THEN view[p][m]
  ELSE rows[k]

\* One transaction. A position that meanwhile has a row breaks the unique index:
\* nothing of this strategy is written.
SyncApply(p) ==
  LET s == cursor[p]
      clash == \E m \in Inserts(p, s) : rows[<<s, m>>] > 0
  IN /\ busy[p] = "fetched"
     /\ \E repriced \in SUBSET {m \in Markets : snapshot[p][<<s, m>>] > 0 /\ view[p][m] > 0} :
          rows' = IF clash THEN rows ELSE [k \in Keys |-> Reconciled(p, s, repriced, k)]
     /\ Leave(p, s)
     /\ Forget({k \in Keys : rows[k] > 0 /\ rows'[k] = 0})
     /\ UNCHANGED <<team, account, order, current, crossed, booked, events>>

-----------------------------------------------------------------------------
(* A dispatch and its booking *)

\* A claimed row: sync the strategy first, then its order.
Dispatch(p) ==
  /\ busy[p] = "idle" /\ Event
  /\ \E s \in team, kind \in {"open", "close"} :
       \E m \in Trades[s] :
         SyncRead(p, {s}, [kind |-> kind, key |-> <<s, m>>, qty |-> 0])
  /\ UNCHANGED <<team, account, rows, gone, cursor, view, current, booked>>

\* Nothing to close, or the exchange refuses: the row is failed.
Refused(p) ==
  /\ busy[p] = "order"
  /\ busy' = [busy EXCEPT ![p] = "idle"] /\ order' = [order EXCEPT ![p] = NoOrder]
  /\ UNCHANGED <<team, account, rows, todo, snapshot, gone, cursor, view, current, crossed, booked, events>>

\* The order fills: opens add, closes take at most the local and the real position.
Execute(p) ==
  /\ busy[p] = "order"
  /\ \E q \in Lots :
       LET m == order[p].key[2] IN
         /\ order[p].kind = "close" => q <= rows[order[p].key] /\ q <= account[m]
         /\ account' = [account EXCEPT ![m] = IF order[p].kind = "open" THEN @ + q ELSE @ - q]
         /\ order' = [order EXCEPT ![p].qty = q]
         /\ busy' = [busy EXCEPT ![p] = "filled"]
         /\ crossed' = crossed \cup ({m} \cap (OthersSyncing(p) \cup OthersFilling(p)))
  /\ UNCHANGED <<team, rows, todo, snapshot, gone, cursor, view, current, booked, events>>

\* _fetch_position_fuzzy
BookRead(p) ==
  /\ busy[p] = "filled"
  /\ current' = [current EXCEPT ![p] = rows[order[p].key]]
  /\ busy' = [busy EXCEPT ![p] = "booking"]
  /\ UNCHANGED <<team, account, rows, todo, snapshot, gone, cursor, view, order, crossed, booked, events>>

\* Mutant: a partial close deletes the row.
WrittenWhole(p) == IF order[p].kind = "open" THEN current[p] + order[p].qty ELSE 0

\* cur_size + filled_qty, or cur_size - filled_qty
Written(p) ==
  IF order[p].kind = "open" THEN current[p] + order[p].qty
  ELSE IF current[p] > order[p].qty THEN current[p] - order[p].qty ELSE 0

\* upsert_position or _delete_position, by key.
BookWrite(p) ==
  LET k == order[p].key
  IN /\ busy[p] = "booking"
     /\ rows' = [rows EXCEPT ![k] = Written(p)]
     /\ booked' = booked \cup {k}
     /\ busy' = [busy EXCEPT ![p] = "idle"] /\ order' = [order EXCEPT ![p] = NoOrder]
     /\ current' = [current EXCEPT ![p] = 0]
     /\ UNCHANGED <<team, account, todo, snapshot, cursor, view, crossed, events>>
     /\ Forget(IF rows[k] > 0 /\ Written(p) = 0 THEN {k} ELSE {})

SyncWork(p) == SyncAll(p) \/ SyncFetch(p) \/ SyncPass(p) \/ SyncApply(p)
OrderWork(p) == Refused(p) \/ Execute(p) \/ BookRead(p) \/ BookWrite(p)

BooksNext ==
  \/ Outside
  \/ \E p \in Procs : SyncWork(p) \/ OrderWork(p) \/ SyncOne(p) \/ SyncSkip(p) \/ Dispatch(p)

BooksSpec == BooksInit /\ [][BooksNext]_booksVars

\* The worker's thread goes on, and every interval it syncs.
BooksFairness == \A p \in Procs : WF_booksVars(SyncWork(p)) /\ WF_booksVars(OrderWork(p))

BooksFairSpec == BooksSpec /\ BooksFairness
-----------------------------------------------------------------------------
(* Properties *)

Exclusive(m) == \A s, t \in team : m \in Trades[s] \cap Trades[t] => s = t

\* The rows of a strategy that has a market for itself are exact as long as no
\* sync or booking crossed an unbooked fill there and nothing came from outside:
\* in that time a sync, whatever it has read, changes nothing. Of the clients whose
\* symbols the sync does not translate this is false: see HeldRowsStay.
BooksExact ==
  \A s \in team : Client[s] # "renamed" => \A m \in Trades[s] \ crossed :
    Exclusive(m) /\ (\A p \in Procs : m \notin Filling(p)) => rows[<<s, m>>] = account[m]

\* Refuted: "If exchange position is flat, delete local row", and only then. The rows of
\* a renamed client's strategy are deleted while the position is held.
HeldRowsStay ==
  [][\A p \in Procs : SyncApply(p) => \A m \in Markets :
       rows[<<cursor[p], m>>] > 0 /\ rows'[<<cursor[p], m>>] = 0 => m \in crossed]_booksVars

\* ... and a strategy holds only what its own orders filled: nothing in a market it
\* does not trade, whoever else trades it there.
OwnFillsOnly ==
  \A s \in team : \A m \in Markets \ crossed :
    (m \in Trades[s] => Exclusive(m)) /\ rows[<<s, m>>] > 0 => <<s, m>> \in booked

\* Why: what a worker knows holds until it has acted on it.
BooksShape ==
  \A p \in Procs :
    /\ todo[p] \subseteq team /\ \A k \in gone[p] : k[1] \in todo[p]
    /\ busy[p] = "fetched" => cursor[p] \in todo[p]
    /\ Client[cursor[p]] # "named" => view[p] = Flat
    /\ busy[p] \notin {"sync", "fetched"} => todo[p] = {}
    /\ busy[p] \in {"order", "filled", "booking"} => order[p] # NoOrder
    /\ order[p] # NoOrder => order[p].key[1] \in team /\ order[p].key[2] \in Trades[order[p].key[1]]
OwnFill(s, m) == rows[<<s, m>>] > 0 => <<s, m>> \in booked
Uncrossed(s, m) ==
  /\ (\A p \in Procs : m \notin Filling(p)) => rows[<<s, m>>] = account[m]
  /\ \A p \in Procs : m \in Filling(p) =>
       /\ m \notin OthersSyncing(p) \cup OthersFilling(p)
       /\ order[p].kind = "open" => account[m] = rows[<<s, m>>] + order[p].qty
       /\ order[p].kind = "close" => rows[<<s, m>>] = account[m] + order[p].qty
       /\ busy[p] = "booking" => current[p] = rows[<<s, m>>]
  /\ \A p \in Procs : s \in todo[p] =>
       /\ snapshot[p][<<s, m>>] = rows[<<s, m>>] /\ <<s, m>> \notin gone[p]
       /\ busy[p] = "fetched" /\ cursor[p] = s => view[p][m] = account[m]
NoRowElsewhere ==
  \A s \in team : \A m \in Markets \ Trades[s] :
    rows[<<s, m>>] = 0 /\ \A p \in Procs : snapshot[p][<<s, m>>] = 0
BooksInv ==
  /\ BooksTypeOK /\ BooksShape /\ NoRowElsewhere
  /\ \A s \in team : \A m \in Trades[s] \ crossed :
       Exclusive(m) => OwnFill(s, m) /\ (Client[s] # "renamed" => Uncrossed(s, m))

\* Flat on both sides, or apart by no more than a hundredth, a small position by
\* no more than a hundredth of a coin.
Near(local, exch) ==
  /\ local = 0 <=> exch = 0
  /\ 100 * local <= 100 * exch + One \/ 100 * local <= 100 * exch + local
  /\ 100 * exch <= 100 * local + One \/ 100 * exch <= 100 * local + local
AgreeOn(s) == \A m \in Trades[s] : Near(rows[<<s, m>>], account[m])
Agree == \A s \in team : Client[s] = "named" => AgreeOn(s)

\* What a sync has read of strategy s is still so, row by row.
Fresh(p, s) ==
  \A m \in Markets : snapshot[p][<<s, m>>] = rows[<<s, m>>] /\ <<s, m>> \notin gone[p]

\* The step behind Reconciles. A sync whose answer from the exchange still holds repairs
\* the rows it has read rightly and, however old its reading of them, never takes back
\* a repair another sync has made; where all is well it writes only what the account
\* says, into the rows of its strategy.
SyncRepairs ==
  [][\A p \in Procs : \A s \in team : SyncApply(p) /\ cursor[p] = s /\ view[p] = account =>
       /\ AgreeOn(s) \/ Fresh(p, s) => AgreeOn(s)'
       /\ AgreeOn(s) /\ Fresh(p, s) =>
            \A k \in Keys : rows'[k] # rows[k] => k[1] = s /\ rows'[k] = account[k[2]]]_booksVars

\* Whatever crossed, was lost or came from outside: once it stops, the sync
\* brings the rows of every strategy whose client's symbols it knows to its account
\* and leaves them there.
Reconciles == <>[]Agree
=============================================================================
