---------------------------- MODULE IndicatorMarket -----------------------------
(***************************************************************************)
(* CommunityService.purchase_indicator with the services it calls.  The     *)
(* purchase is one transaction on one connection, but the member's status   *)
(* and the balances of buyer and seller are read by BillingService on       *)
(* another connection of the pool, and what cannot be read counts as no     *)
(* membership and as a balance of 0.  The status is preceded by ALTER TABLE *)
(* qd_users, which waits for every transaction that has written a row of    *)
(* the table, and behind which all later statements on the table queue.     *)
(* The same transaction pays a lifetime member the monthly credits.         *)
(***************************************************************************)
EXTENDS ConnectionPool

CONSTANTS
  Users, Items,
  Owner, Price,  \* of an item, as published
  VipFree,       \* items that are free for members
  Vips,          \* members
  Lifetimes,     \* those of them with credits every month
  Allowances,    \* what may be due at once: credits_monthly times 1 to 6 periods
  Deposits,      \* user -> credits at the start
  Pollers,       \* threads of background workers, which share the pool
  NoThread,
  MaxPurchases, MaxMonths  \* bounds

ASSUME MarketAssumption ==
  /\ Owner \in [Items -> Users] /\ Price \in [Items -> Nat]
  /\ VipFree \subseteq Items /\ Vips \subseteq Users
  /\ Lifetimes \subseteq Vips /\ Allowances \subseteq Nat
  /\ Deposits \in [Users -> Nat] /\ MaxPurchases \in Nat /\ MaxMonths \in Nat
  /\ Pollers \subseteq Threads /\ NoThread \notin Threads

VARIABLES
  wallet,             \* qd_users.credits
  entries,            \* sum of a user's qd_credits_log entries
  bought,             \* qd_indicator_purchases
  due, months,        \* whose last grant is 30 days ago; months that have ended
  writer,             \* user -> thread with an uncommitted update of the row
  stage,              \* thread -> what purchase_indicator does next
  item, buyer, cost,  \* its arguments and effective_price
  mine, theirs,       \* the balances of buyer and seller it has read
  purchases,
  charged,            \* history: purchases committed of an item by a user
  mixed               \* history: a balance other than the one read was overwritten

trade == <<item, buyer>>
dues == <<due, months>>
books == <<wallet, entries, bought, dues, charged, mixed>>
marketVars == <<pool, books, writer, stage, trade, cost, mine, theirs, purchases>>

Seller(t) == Owner[item[t]]
Stages == {"idle", "poll", "first", "status", "alter", "vip", "mine", "readMine", "debit", "theirs",
           "readTheirs", "credit", "record", "end"}
SomeItem == CHOOSE i \in Items : TRUE
NoDeals == [i \in Items |-> [u \in Users |-> 0]]

MarketInit ==
  /\ PoolInit
  /\ wallet = Deposits /\ entries = [u \in Users |-> 0] /\ bought = {}
  /\ due = {} /\ months = 0
  /\ writer = [u \in Users |-> NoThread]
  /\ stage = [t \in Threads |-> "idle"]
  /\ item \in [Threads -> Items] /\ buyer \in [Threads -> Users]
  /\ \A t \in Pollers : item[t] = SomeItem /\ buyer[t] = Owner[SomeItem]  \* unused
  /\ cost = [t \in Threads |-> 0] /\ mine = cost /\ theirs = cost
  /\ purchases = 0 /\ charged = NoDeals /\ mixed = FALSE

-----------------------------------------------------------------------------
(* Helpers *)

To(t, s) == stage' = [stage EXCEPT ![t] = s]

\* The tables are locked by a writer, or by an ALTER TABLE that waits for one.
Written(t) == \E u \in Users : writer[u] \notin {NoThread, t}
Queued(t) == \E o \in Threads \ {t} : stage[o] = "alter" /\ Innermost(o)

\* Mutant: the connection goes back with its transaction open.
UnlockNever(t) == UNCHANGED writer

Unlock(t) == writer' = [u \in Users |-> IF writer[u] = t THEN NoThread ELSE writer[u]]

\* The outer connection answers.
Works(t) == Len(held[t]) > 0 /\ held[t][1]

-----------------------------------------------------------------------------
(* A purchase *)

\* The arguments are kept from the start, so that a thread is one request over again.
Request(t) ==
  /\ t \notin Pollers /\ stage[t] = "idle" /\ purchases < MaxPurchases /\ purchases' = purchases + 1
  /\ To(t, "first")
  /\ UNCHANGED <<pool, books, writer, trade, cost, mine, theirs>>

\* get_db_connection of purchase_indicator.
First(t) ==
  /\ stage[t] = "first"
  /\ \/ Take(t) /\ To(t, "status")
     \/ TimedOut /\ To(t, "idle")
  /\ UNCHANGED <<books, writer, trade, cost, mine, theirs, purchases>>

Reading == [status |-> "alter", mine |-> "readMine", theirs |-> "readTheirs"]

\* get_db_connection of BillingService.
Second(t) ==
  /\ stage[t] \in DOMAIN Reading /\ Take(t) /\ To(t, Reading[stage[t]])
  /\ UNCHANGED <<books, writer, trade, cost, mine, theirs, purchases>>

\* What follows once the status is known: effective_price, and the two refusals.
Priced(t, vip) ==
  /\ cost' = [cost EXCEPT ![t] = IF vip /\ item[t] \in VipFree THEN 0 ELSE Price[item[t]]]
  /\ To(t, IF Seller(t) = buyer[t] \/ <<item[t], buyer[t]>> \in bought THEN "end"
           ELSE IF cost'[t] > 0 THEN "mine" ELSE "record")
  /\ UNCHANGED <<books, writer, trade, mine, theirs, purchases>>

\* get_user_vip_status, up to its commit: the schema, and the monthly credits that
\* are due. The table is this transaction's alone.
PayAllowance(t) ==
  /\ stage[t] = "alter" /\ Innermost(t) /\ ~Written(t)
  /\ To(t, "vip")
  /\ IF buyer[t] \notin due THEN UNCHANGED <<wallet, entries, due>>
     ELSE /\ due' = due \ {buyer[t]}
          /\ \E n \in Allowances : /\ wallet' = [wallet EXCEPT ![buyer[t]] = @ + n]
                                  /\ entries' = [entries EXCEPT ![buyer[t]] = @ + n]
  /\ UNCHANGED <<pool, bought, months, charged, mixed, writer, trade, cost, mine, theirs, purchases>>

\* ... and the membership itself.
MemberStatus(t) ==
  /\ stage[t] = "vip" /\ Innermost(t) /\ ~Queued(t)
  /\ Priced(t, buyer[t] \in Vips) /\ Return(t)

Affordable(t, balance) == balance >= cost[t]

\* get_user_credits(buyer_id)
Balanced(t, balance) ==
  /\ mine' = [mine EXCEPT ![t] = balance]
  /\ To(t, IF Affordable(t, balance) THEN "debit" ELSE "end")
  /\ UNCHANGED <<books, writer, trade, cost, theirs, purchases>>
ReadMine(t) ==
  /\ stage[t] = "readMine" /\ Innermost(t) /\ ~Queued(t)
  /\ Balanced(t, wallet[buyer[t]]) /\ Return(t)

\* get_user_credits(seller_id)
Known(t, balance) ==
  /\ theirs' = [theirs EXCEPT ![t] = balance] /\ To(t, "credit")
  /\ UNCHANGED <<books, writer, trade, cost, mine, purchases>>
ReadTheirs(t) ==
  /\ stage[t] = "readTheirs" /\ Innermost(t) /\ ~Queued(t)
  /\ Known(t, wallet[Seller(t)]) /\ Return(t)

\* BillingService got no connection, or one that broke: no member, and no credits.
Unread(t) ==
  \/ stage[t] = "status" /\ TimedOut /\ Priced(t, FALSE)
  \/ stage[t] = "mine" /\ TimedOut /\ Balanced(t, 0)
  \/ stage[t] = "theirs" /\ TimedOut /\ Known(t, 0)
  \/ stage[t] \in {"alter", "vip"} /\ ~Innermost(t) /\ Priced(t, FALSE) /\ Return(t)
  \/ stage[t] = "readMine" /\ ~Innermost(t) /\ Balanced(t, 0) /\ Return(t)
  \/ stage[t] = "readTheirs" /\ ~Innermost(t) /\ Known(t, 0) /\ Return(t)

\* UPDATE qd_users of the buyer.
Debit(t) ==
  /\ stage[t] = "debit" /\ Works(t) /\ ~Queued(t)
  /\ writer[buyer[t]] = NoThread
  /\ writer' = [writer EXCEPT ![buyer[t]] = t] /\ To(t, "theirs")
  /\ UNCHANGED <<pool, books, trade, cost, mine, theirs, purchases>>

\* UPDATE qd_users of the seller. The table is this transaction's already.
Credit(t) ==
  /\ stage[t] = "credit" /\ Works(t) /\ writer[Seller(t)] = NoThread
  /\ writer' = [writer EXCEPT ![Seller(t)] = t] /\ To(t, "record")
  /\ UNCHANGED <<pool, books, trade, cost, mine, theirs, purchases>>

\* Mutant: a purchase is recorded twice.
UniqueNever(t) == TRUE

\* UNIQUE(indicator_id, buyer_id)
Unique(t) == <<item[t], buyer[t]>> \notin bought

\* Mutant: the seller gets the price without what was there.
SellerOnlyPrice(t) == cost[t]

SellerBalance(t) == theirs[t] + cost[t]

\* The purchase and the copy are inserted and everything is committed, or the
\* insert fails and everything is rolled back.
Record(t) ==
  /\ stage[t] = "record" /\ Works(t) /\ (cost[t] > 0 \/ ~Queued(t))
  /\ To(t, "end") /\ Unlock(t)
  /\ IF ~Unique(t) THEN UNCHANGED books
     ELSE /\ bought' = bought \cup {<<item[t], buyer[t]>>}
          /\ charged' = [charged EXCEPT ![item[t]][buyer[t]] = @ + 1]
          /\ IF cost[t] = 0 THEN UNCHANGED <<wallet, entries, mixed>>
             ELSE /\ wallet' = [wallet EXCEPT ![buyer[t]] = mine[t] - cost[t],
                                              ![Seller(t)] = SellerBalance(t)]
                  /\ entries' = [entries EXCEPT ![buyer[t]] = @ - cost[t], ![Seller(t)] = @ + cost[t]]
                  /\ mixed' = (mixed \/ mine[t] # wallet[buyer[t]] \/ theirs[t] # wallet[Seller(t)])
  /\ UNCHANGED <<pool, dues, trade, cost, mine, theirs, purchases>>

Forget(t) ==
  /\ To(t, "idle")
  /\ cost' = [cost EXCEPT ![t] = 0] /\ mine' = [mine EXCEPT ![t] = 0] /\ theirs' = [theirs EXCEPT ![t] = 0]
  /\ UNCHANGED <<books, trade, purchases>>

\* PostgreSQL breaks a circle of two transactions that wait for each other's row.
\* The error is an OperationalError, which closes the connection.
Circle(t) ==
  /\ stage[t] = "credit"
  /\ \E o \in Threads \ {t} : /\ writer[Seller(t)] = o /\ stage[o] = "credit"
                              /\ writer[Seller(o)] = t
Deadlocked(t) == Circle(t) /\ Works(t) /\ Unlock(t) /\ Close(t) /\ Forget(t)

\* A connection that is dead has rolled the purchase back.
Rollback(t) ==
  /\ stage[t] \in {"debit", "credit", "record"} /\ ~Works(t)
  /\ Unlock(t) /\ To(t, "end")
  /\ UNCHANGED <<pool, books, trade, cost, mine, theirs, purchases>>

\* The answer; the connection goes back.
Answer(t) == stage[t] = "end" /\ Return(t) /\ Forget(t) /\ UNCHANGED writer

-----------------------------------------------------------------------------
(* The others *)

\* A background worker takes a connection for a statement of its own.
Poll(t) ==
  /\ t \in Pollers /\ stage[t] = "idle" /\ Take(t) /\ To(t, "poll")
  /\ UNCHANGED <<books, writer, trade, cost, mine, theirs, purchases>>
Polled(t) ==
  /\ stage[t] = "poll" /\ Return(t) /\ To(t, "idle")
  /\ UNCHANGED <<books, writer, trade, cost, mine, theirs, purchases>>

\* 30 days have passed since the last grant.
MonthEnds(u) ==
  /\ u \in Lifetimes \ due /\ months < MaxMonths /\ months' = months + 1
  /\ due' = due \cup {u}
  /\ UNCHANGED <<pool, wallet, entries, bought, charged, mixed, writer, stage, trade, cost, mine, theirs,
                 purchases>>

DropStale ==
  /\ (\E t \in Threads : stage[t] \in {"first"} \cup DOMAIN Reading) /\ Discard
  /\ UNCHANGED <<books, writer, stage, trade, cost, mine, theirs, purchases>>

\* A restart of the database ends all transactions.
Restart ==
  /\ Outage /\ writer' = [u \in Users |-> NoThread]
  /\ UNCHANGED <<books, stage, trade, cost, mine, theirs, purchases>>

Purchase(t) ==
  \/ First(t) \/ Second(t) \/ PayAllowance(t) \/ MemberStatus(t) \/ ReadMine(t) \/ ReadTheirs(t)
  \/ Unread(t) \/ Debit(t) \/ Credit(t) \/ Record(t) \/ Deadlocked(t) \/ Rollback(t) \/ Answer(t)
MarketNext ==
  \/ \E t \in Threads : Request(t) \/ Poll(t) \/ Polled(t) \/ Purchase(t)
  \/ (\E u \in Users : MonthEnds(u)) \/ DropStale \/ Restart

\* The threads run, the database answers, and a wait for a connection has an end.
MarketFairness ==
  (\A t \in Threads : SF_marketVars(Purchase(t)) /\ WF_marketVars(Polled(t))) /\ WF_marketVars(DropStale)
MarketSpec == MarketInit /\ [][MarketNext]_marketVars
MarketFairSpec == MarketSpec /\ MarketFairness
-----------------------------------------------------------------------------
(* Properties *)

MarketTypeOK ==
  /\ PoolInv
  /\ wallet \in [Users -> Int] /\ entries \in [Users -> Int] /\ bought \subseteq Items \X Users
  /\ writer \in [Users -> Threads \cup {NoThread}] /\ stage \in [Threads -> Stages]
  /\ item \in [Threads -> Items] /\ buyer \in [Threads -> Users]
  /\ cost \in [Threads -> Nat] /\ mine \in [Threads -> Int] /\ theirs \in [Threads -> Int]
  /\ due \subseteq Lifetimes /\ months \in 0..MaxMonths
  /\ purchases \in 0..MaxPurchases /\ mixed \in BOOLEAN

\* How many connections a thread holds at a stage, and where it may have written.
Depth(s) == CASE s \in {"idle", "first"} -> 0 [] s \in {"alter", "vip", "readMine", "readTheirs"} -> 2 [] OTHER -> 1
Writing == {"theirs", "readTheirs", "credit", "record"}

\* Nothing leaks from a purchase, however it ends: a thread that has answered holds
\* no connection, an outer one is held while a purchase runs, and a row is locked
\* only by a transaction between its first update and its end.
NothingLeaks ==
  /\ MarketTypeOK
  /\ \A t \in Threads : Len(held[t]) = Depth(stage[t])
  /\ \A u \in Users : writer[u] # NoThread => stage[writer[u]] \in Writing

\* A buyer pays for an indicator once, whatever requests overlap.
PaidOnce ==
  /\ \A i \in Items, u \in Users : charged[i][u] <= 1 /\ (charged[i][u] = 1 <=> <<i, u>> \in bought)
NoOverdraft == \A u \in Users : wallet[u] >= 0

\* Every balance is explained by its log, and no credits appear or vanish, until a
\* balance is written that was read before another purchase or a monthly grant moved
\* it, or that could not be read.
BooksMatch == ~mixed => \A u \in Users : wallet[u] = Deposits[u] + entries[u]

\* What may be charged: the published price, or nothing where members are free. A
\* member whose status could not be read pays the price.
Charges(i, u) == {Price[i]} \cup (IF i \in VipFree /\ u \in Vips THEN {0} ELSE {})

\* Until a balance is overwritten that was not the one read, the purchases of all
\* threads are sales one after another, each in one step, and credits for lifetime
\* members between them: IndicatorSale.
Sale == INSTANCE IndicatorSale WITH
  Offers <- Items, People <- Users, SoldBy <- Owner,
  Fees <- [i \in Items |-> [u \in Users |-> Charges(i, u)]],
  Members <- Lifetimes, Gifts <- Allowances,
  balance <- wallet, owns <- bought, clean <- ~mixed
SaleSpec == Sale!Spec

\* "Returns: (success, message, data)": every purchase is answered. It is
\* refuted by two that cross; AnsweredUnlessCrossed below is what holds.
PurchaseAnswered == \A t \in Threads : stage[t] = "first" ~> stage[t] = "idle"

\* A purchase that has written its buyer's row reads the seller's balance on another
\* connection, behind an ALTER TABLE that waits for that very row.
Crossed == \E t, o \in Threads : stage[t] = "readTheirs" /\ stage[o] = "alter"

\* Every purchase is answered, also when connections run out, break or wait for one
\* another in a circle of rows, unless two purchases cross in this way.
AnsweredUnlessCrossed == \A t \in Threads : stage[t] = "first" ~> (stage[t] = "idle" \/ Crossed)
=============================================================================
