----------------------------- MODULE Credits_proofs -----------------------------
(***************************************************************************)
(* Theorems about qd_users.credits, for all users, requests, amounts and    *)
(* bounds.  CreditLedger: the balance is never negative, monthly credits    *)
(* are never granted twice, no purchase shortens a membership, and the log  *)
(* explains the balance until a balance is overwritten unread.              *)
(* IndicatorMarket: an indicator is paid for once, from credits that were   *)
(* there, the logs of buyers and sellers explain their balances, and no     *)
(* connection and no lock outlives the step of the purchase that needs it.  *)
(***************************************************************************)
EXTENDS CreditLedger, IndicatorMarket, FiniteSetTheorems, TLAPS

\* Rounding down: whole periods fit into the time they are counted in.
LEMMA WholePeriods ==
  ASSUME NEW t \in Nat, NEW p \in Nat \ {0}
  PROVE  t \div p \in Nat /\ (t \div p) * p <= t
OBVIOUS

\* The periods granted at once fit into the time since the last grant.
LEMMA DueFits ==
  ASSUME now \in Nat, last \in Nat, last <= now
  PROVE  DuePeriods \in Nat /\ DuePeriods * Period <= now - last
<1> DEFINE q == (now - last) \div Period
<1>1. q \in Nat /\ q * Period <= now - last
  BY WholePeriods, LedgerAssumption
<1>2. DuePeriods = IF q < CatchUp THEN q ELSE CatchUp
  BY DEF DuePeriods, AtMost
<1> HIDE DEF q
<1>3. CASE q < CatchUp
  BY <1>1, <1>2, <1>3
<1>4. CASE ~(q < CatchUp)
  <2>1. DuePeriods = CatchUp /\ CatchUp <= q
    BY <1>1, <1>2, <1>4, LedgerAssumption
  <2>2. CatchUp * Period <= q * Period
    BY <1>1, <2>1, LedgerAssumption
  <2>3. CatchUp * Period \in Nat /\ q * Period \in Nat
    BY <1>1, LedgerAssumption
  <2> QED BY <1>1, <2>1, <2>2, <2>3, LedgerAssumption
<1> QED BY <1>3, <1>4

LEMMA LedgerInit == Init => LedgerInv
<1> SUFFICES ASSUME Init PROVE LedgerInv
  OBVIOUS
<1>1. TypeOK
  <2>1. now \in 0..MaxTime /\ ops \in 0..MaxOps /\ credits \in Int /\ logged \in Int
        /\ since \in Nat \cup {Never} /\ granted \in Nat
    BY LedgerAssumption DEF Init
  <2>2. expires \in Nat \cup {Never} /\ last \in Nat \cup {Never}
    BY DEF Init
  <2>3. life \in BOOLEAN
    BY DEF Init
  <2>4. /\ pc \in [Requests -> {"idle", "consume", "add", "set"}]
        /\ arg \in [Requests -> Nat] /\ seen \in [Requests -> Int]
    BY DEF Init
  <2>5. torn \in BOOLEAN
    BY DEF Init
  <2> QED BY <2>1, <2>2, <2>3, <2>4, <2>5 DEF TypeOK
<1>2. NonNegative /\ SeenSane /\ LoggedUnlessTorn
  BY LedgerAssumption DEF Init, NonNegative, SeenSane, LoggedUnlessTorn, BalanceLogged
<1>3. GrantsSane
  BY DEF Init, GrantsSane, Never
<1> QED BY <1>1, <1>2, <1>3 DEF LedgerInv

\* Reading and writing balances.
LEMMA CreditsStep ==
  ASSUME LedgerInv, NEW r \in Requests,
         Read(r) \/ Consume(r) \/ AddCredits(r) \/ SetCredits(r) \/ Fail(r)
  PROVE  LedgerInv'
<1> USE LedgerAssumption DEF LedgerInv, TypeOK, NonNegative, SeenSane, GrantsSane, LoggedUnlessTorn, BalanceLogged, Never,
        account, member, history, Store
<1>1. CASE Read(r)
  <2>1. PICK k \in {"consume", "add", "set"}, a \in Nat, b \in {credits, 0} :
          /\ pc' = [pc EXCEPT ![r] = k] /\ arg' = [arg EXCEPT ![r] = a]
          /\ seen' = [seen EXCEPT ![r] = b]
    BY <1>1 DEF Read
  <2>2. ops' \in 0..MaxOps
    BY <1>1 DEF Read, Counted
  <2> QED BY <1>1, <2>1, <2>2 DEF Read
<1> DEFINE Aside == UNCHANGED <<now, member, arg, seen, ops, history>>
<1>0. ASSUME NEW new \in Nat, NEW amount \in Int, Store(r, new, amount), Aside,
             seen[r] = credits => new = credits + amount
      PROVE  LedgerInv'
  <2>1. torn' \in BOOLEAN
    BY <1>0
  <2>2. TypeOK'
    BY <1>0, <2>1
  <2>3. NonNegative' /\ SeenSane' /\ GrantsSane'
    BY <1>0
  <2>4. LoggedUnlessTorn'
    <3> SUFFICES ASSUME ~torn' PROVE credits' = Initial' + logged'
      BY DEF LoggedUnlessTorn, BalanceLogged
    <3>1. ~torn /\ seen[r] = credits
      BY <1>0
    <3> QED BY <1>0, <3>1
  <2> QED BY <2>2, <2>3, <2>4
<1>2. CASE Consume(r)
  <2>1. CASE Affords(r) /\ Store(r, seen[r] - arg[r], -arg[r])
    <3>1. seen[r] - arg[r] \in Nat /\ -arg[r] \in Int
      BY <2>1 DEF Affords
    <3> HIDE DEF Store
    <3> QED BY <1>0, <1>2, <2>1, <3>1 DEF Consume
  <2>2. CASE pc' = [pc EXCEPT ![r] = "idle"] /\ UNCHANGED <<account, torn>>
    BY <1>2, <2>2 DEF Consume
  <2> QED BY <1>2, <2>1, <2>2 DEF Consume
<1>3. CASE AddCredits(r)
  <2>1. seen[r] + arg[r] \in Nat /\ arg[r] \in Int
    OBVIOUS
  <2> HIDE DEF Store
  <2> QED BY <1>0, <1>3, <2>1 DEF AddCredits
<1>4. CASE SetCredits(r)
  <2>1. arg[r] \in Nat /\ arg[r] - seen[r] \in Int
    OBVIOUS
  <2> HIDE DEF Store
  <2> QED BY <1>0, <1>4, <2>1 DEF SetCredits, Adjustment
<1>5. CASE Fail(r) BY <1>5 DEF Fail
<1> QED BY <1>1, <1>2, <1>3, <1>4, <1>5

\* Buying, revoking and the passing of time.
LEMMA MemberStep ==
  ASSUME LedgerInv, (\E r \in Requests : Buy(r) \/ BuyLifetime(r) \/ SetVip(r)) \/ Tick
  PROVE  LedgerInv'
<1> USE LedgerAssumption DEF LedgerInv, TypeOK, NonNegative, SeenSane, GrantsSane, LoggedUnlessTorn, BalanceLogged, Never,
        account, member, history, locals, Counted
<1>1. CASE \E r \in Requests : Buy(r)
  <2>1. Base + Period \in Nat
    BY DEF Base
  <2>2. credits' = credits + Bonus /\ logged' = logged + Bonus /\ UNCHANGED torn
    BY <1>1 DEF Buy, Grant
  <2>3. ~life' /\ expires' \in Nat /\ ops' \in 0..MaxOps
        /\ UNCHANGED <<now, last, pc, arg, seen, since, granted>>
    BY <1>1, <2>1 DEF Buy
  <2>4. life' = FALSE
    BY <1>1 DEF Buy
  <2>5. TypeOK'
    <3>1. life' \in BOOLEAN
      BY <2>4
    <3> QED BY <2>2, <2>3, <3>1
  <2>6. NonNegative' /\ SeenSane' /\ LoggedUnlessTorn'
    BY <2>2, <2>3
  <2>7. GrantsSane'
    BY <2>3
  <2> QED BY <2>5, <2>6, <2>7
<1>2. CASE \E r \in Requests : BuyLifetime(r)
  BY <1>2 DEF BuyLifetime, Grant
<1>3. CASE \E r \in Requests : SetVip(r)
  BY <1>3 DEF SetVip
<1>4. CASE Tick
  BY <1>4 DEF Tick
<1> QED BY <1>1, <1>2, <1>3, <1>4

\* Granting the monthly credits that are due.
LEMMA StatusStep ==
  ASSUME LedgerInv, NEW r \in Requests, Status(r)
  PROVE  LedgerInv'
<1> USE DEF LedgerInv, TypeOK, NonNegative, SeenSane, GrantsSane, LoggedUnlessTorn, BalanceLogged, Never
<1>1. now \in Nat /\ last \in Nat /\ last <= now /\ since # -1
  BY DEF Status
<1> DEFINE d == DuePeriods
<1>2. d \in Nat /\ d * Period <= now - last
  BY <1>1, DueFits
<1>3. /\ credits' = credits + Monthly * d /\ logged' = logged + Monthly * d
      /\ granted' = granted + d /\ last' = now
      /\ UNCHANGED <<now, expires, life, pc, arg, seen, since, torn>>
      /\ ops' \in 0..MaxOps
  BY LedgerAssumption DEF Status, GrantMonthly, Grant, locals, Counted
<1> HIDE DEF d
<1>4. Monthly * d \in Nat
  BY <1>2, LedgerAssumption
<1>5. TypeOK' /\ NonNegative' /\ SeenSane'
  BY <1>1, <1>2, <1>3, <1>4
<1>10. LoggedUnlessTorn'
  <2> SUFFICES ASSUME ~torn' PROVE credits' = Initial' + logged'
    BY DEF LoggedUnlessTorn, BalanceLogged
  <2>1. ~torn
    BY DEF Status, GrantMonthly, Grant
  <2>2. credits = Initial + logged
    BY <2>1 DEF LoggedUnlessTorn, BalanceLogged
  <2> QED BY <1>3, <1>4, <2>2, LedgerAssumption
<1>6. (granted + d) * Period = granted * Period + d * Period
  BY <1>2, LedgerAssumption
<1>7. granted * Period \in Nat /\ d * Period \in Nat
  BY <1>2, LedgerAssumption
<1>8. granted' * Period' <= last' - since'
  BY <1>1, <1>2, <1>3, <1>6, <1>7
<1>9. GrantsSane'
  BY <1>1, <1>3, <1>8
<1> QED BY <1>5, <1>9, <1>10

LEMMA LedgerStep == LedgerInv /\ [Next]_vars => LedgerInv'
<1> SUFFICES ASSUME LedgerInv, [Next]_vars PROVE LedgerInv'
  OBVIOUS
<1>1. CASE UNCHANGED vars
  BY <1>1 DEF vars, account, member, locals, history, LedgerInv, TypeOK, NonNegative,
              SeenSane, GrantsSane, LoggedUnlessTorn, BalanceLogged
<1>2. CASE Next
  BY <1>2, CreditsStep, MemberStep, StatusStep DEF Next, Serve
<1> QED BY <1>1, <1>2

\* The ledger's invariant holds however requests interleave.
THEOREM LedgerSound == Spec => []LedgerInv
BY LedgerInit, LedgerStep, PTL DEF Spec

\* No interleaving of requests drives the balance below zero.
THEOREM BalanceNonNegative == Spec => []NonNegative
<1>1. LedgerInv => NonNegative BY DEF LedgerInv
<1> QED BY <1>1, LedgerSound, PTL

\* A lifetime member never gets more months of credits than have passed.
THEOREM GrantsNeverEarly == Spec => []GrantsBounded
<1>1. LedgerInv => GrantsBounded
  <2> SUFFICES ASSUME LedgerInv, since # Never PROVE granted * Period <= now - since
    BY DEF GrantsBounded
  <2>1. now \in Nat /\ last \in Nat /\ since \in Nat /\ granted \in Nat /\ last <= now
        /\ granted * Period <= last - since
    BY DEF LedgerInv, TypeOK, GrantsSane, Never
  <2>2. granted * Period \in Nat
    BY <2>1, LedgerAssumption
  <2> QED BY <2>1, <2>2
<1> QED BY <1>1, LedgerSound, PTL

\* A purchase adds to what is left of the membership.
THEOREM PurchasesExtend == Spec => PurchaseExtends
<1>1. LedgerInv /\ [Next]_vars
        => [\/ \E r \in Requests : SetVip(r)
            \/ expires' >= expires
            \/ life' /\ expires' = now + Forever]_vars
  <2> SUFFICES ASSUME LedgerInv, Next, ~\E r \in Requests : SetVip(r),
                      ~(life' /\ expires' = now + Forever)
               PROVE  expires' >= expires
    OBVIOUS
  <2> USE LedgerAssumption DEF LedgerInv, TypeOK, Never, member
  <2>1. CASE Tick
    BY <2>1 DEF Tick
  <2>2. CASE \E r \in Requests : Buy(r)
    BY <2>2 DEF Buy, Base
  <2>3. CASE \E r \in Requests : Status(r)
    BY <2>3 DEF Status
  <2>4. ~\E r \in Requests : BuyLifetime(r)
    BY DEF BuyLifetime
  <2>5. CASE \E r \in Requests : Read(r) \/ Consume(r) \/ AddCredits(r) \/ SetCredits(r) \/ Fail(r)
    BY <2>5 DEF Read, Consume, AddCredits, SetCredits, Fail
  <2> QED BY <2>1, <2>2, <2>3, <2>4, <2>5 DEF Next, Serve
<1> QED BY <1>1, LedgerSound, PTL DEF Spec, PurchaseExtends

\* The log explains the balance as long as no balance was overwritten unread.
THEOREM LogExplains == Spec => []LoggedUnlessTorn
<1>1. LedgerInv => LoggedUnlessTorn BY DEF LedgerInv
<1> QED BY <1>1, LedgerSound, PTL

-----------------------------------------------------------------------------
(* The indicator market *)

BooksTyped ==
  /\ wallet \in [Users -> Int] /\ entries \in [Users -> Int]
  /\ charged \in [Items -> [Users -> Nat]] /\ mixed \in BOOLEAN

ThreadsTyped ==
  /\ stage \in [Threads -> Stages] /\ item \in [Threads -> Items] /\ buyer \in [Threads -> Users]
  /\ cost \in [Threads -> Nat] /\ mine \in [Threads -> Int] /\ theirs \in [Threads -> Int]

Paying == {"mine", "readMine", "debit", "theirs", "readTheirs", "credit"}

\* What the checks passed so far promise of a purchase in stage s: its price, the
\* balances it has read, and that buyer and seller are two users.
Promise(s, price, own, other, two) ==
  /\ s \in Paying => price > 0
  /\ s \in Paying \cup {"record"} => two
  /\ s \in {"debit", "theirs", "readTheirs", "credit"} => own >= price
  /\ s = "record" /\ price > 0 => own >= price /\ other >= 0
  /\ s = "credit" => other >= 0

Checked ==
  \A t \in Threads : Promise(stage[t], cost[t], mine[t], theirs[t], Seller(t) # buyer[t])

MarketIInv == BooksTyped /\ ThreadsTyped /\ Checked /\ PaidOnce /\ NoOverdraft /\ BooksMatch

LEMMA MarketInitInv == MarketInit => MarketIInv
<1> SUFFICES ASSUME MarketInit PROVE MarketIInv
  OBVIOUS
<1>1. wallet \in [Users -> Int] /\ entries \in [Users -> Int]
  BY MarketAssumption DEF MarketInit
<1>2. charged \in [Items -> [Users -> Nat]] /\ mixed \in BOOLEAN
  BY DEF MarketInit, NoDeals
<1>3. ThreadsTyped
  BY DEF MarketInit, ThreadsTyped, Stages
<1>4. PaidOnce
  BY DEF MarketInit, PaidOnce, NoDeals
<1>5. Checked
  BY DEF MarketInit, Checked, Promise, Paying
<1>6. NoOverdraft /\ BooksMatch
  BY MarketAssumption DEF MarketInit, NoOverdraft, BooksMatch
<1> QED BY <1>1, <1>2, <1>3, <1>4, <1>5, <1>6 DEF MarketIInv, BooksTyped

\* One thread moves on and may learn its price and the balances.
LEMMA ThreadMoves ==
  ASSUME ThreadsTyped, Checked, NEW t \in Threads, NEW s \in Stages,
         NEW c \in Nat, NEW m \in Int, NEW h \in Int, To(t, s),
         cost' = [cost EXCEPT ![t] = c], mine' = [mine EXCEPT ![t] = m],
         theirs' = [theirs EXCEPT ![t] = h], UNCHANGED trade,
         Promise(s, c, m, h, Seller(t) # buyer[t])
  PROVE  ThreadsTyped' /\ Checked'
<1>1. ThreadsTyped'
  BY DEF ThreadsTyped, To, trade
<1>2. ASSUME NEW o \in Threads
      PROVE  Promise(stage[o], cost[o], mine[o], theirs[o], Seller(o) # buyer[o])'
  <2>1. UNCHANGED <<item, buyer>>
    BY DEF trade
  <2>2. CASE o = t
    <3>1. stage'[o] = s /\ cost'[o] = c /\ mine'[o] = m /\ theirs'[o] = h
      BY <2>2 DEF ThreadsTyped, To
    <3> QED BY <2>1, <2>2, <3>1 DEF Promise, Seller
  <2>3. CASE o # t
    <3>1. stage'[o] = stage[o] /\ cost'[o] = cost[o] /\ mine'[o] = mine[o] /\ theirs'[o] = theirs[o]
      BY <2>3 DEF ThreadsTyped, To
    <3>2. Promise(stage[o], cost[o], mine[o], theirs[o], Seller(o) # buyer[o])
      BY DEF Checked
    <3> QED BY <2>1, <3>1, <3>2 DEF Promise, Seller
  <2> QED BY <2>2, <2>3
<1> QED BY <1>1, <1>2 DEF Checked

\* ... without learning anything.
LEMMA ThreadGoesOn ==
  ASSUME ThreadsTyped, Checked, NEW t \in Threads, NEW s \in Stages, To(t, s),
         UNCHANGED <<cost, mine, theirs, trade>>,
         Promise(s, cost[t], mine[t], theirs[t], Seller(t) # buyer[t])
  PROVE  ThreadsTyped' /\ Checked'
<1>1. /\ cost[t] \in Nat /\ mine[t] \in Int /\ theirs[t] \in Int
      /\ cost' = [cost EXCEPT ![t] = cost[t]] /\ mine' = [mine EXCEPT ![t] = mine[t]]
      /\ theirs' = [theirs EXCEPT ![t] = theirs[t]]
  BY DEF ThreadsTyped
<1> QED BY <1>1, ThreadMoves

LEMMA BooksKept ==
  ASSUME BooksTyped, PaidOnce, NoOverdraft, BooksMatch, UNCHANGED books
  PROVE  BooksTyped' /\ PaidOnce' /\ NoOverdraft' /\ BooksMatch'
BY DEF books, BooksTyped, PaidOnce, NoOverdraft, BooksMatch

LEMMA PricedSafe ==
  ASSUME ThreadsTyped, Checked, NEW t \in Threads, NEW vip, Priced(t, vip)
  PROVE  ThreadsTyped' /\ Checked' /\ UNCHANGED books
<1> DEFINE c == IF vip /\ item[t] \in VipFree THEN 0 ELSE Price[item[t]]
           s == IF Seller(t) = buyer[t] \/ <<item[t], buyer[t]>> \in bought THEN "end"
                ELSE IF c > 0 THEN "mine" ELSE "record"
<1>1. c \in Nat /\ mine[t] \in Int /\ theirs[t] \in Int
  BY MarketAssumption DEF ThreadsTyped
<1>2. /\ cost' = [cost EXCEPT ![t] = c] /\ UNCHANGED <<books, trade, mine, theirs>>
      /\ mine' = [mine EXCEPT ![t] = mine[t]] /\ theirs' = [theirs EXCEPT ![t] = theirs[t]]
  BY DEF Priced, ThreadsTyped
<1>3. cost'[t] = c
  BY <1>2 DEF ThreadsTyped
<1>4. To(t, s)
  BY <1>3 DEF Priced
<1>5. s \in Stages /\ Promise(s, c, mine[t], theirs[t], Seller(t) # buyer[t])
  <2> HIDE DEF c
  <2> QED BY <1>1 DEF Promise, Paying, Stages
<1> HIDE DEF c, s
<1> QED BY <1>1, <1>2, <1>4, <1>5, ThreadMoves

LEMMA BalancedSafe ==
  ASSUME ThreadsTyped, Checked, NEW t \in Threads, stage[t] \in Paying,
         NEW balance \in Int, Balanced(t, balance)
  PROVE  ThreadsTyped' /\ Checked' /\ UNCHANGED books
<1> DEFINE s == IF Affordable(t, balance) THEN "debit" ELSE "end"
<1>1. /\ cost[t] \in Nat /\ theirs[t] \in Int
      /\ cost' = [cost EXCEPT ![t] = cost[t]] /\ theirs' = [theirs EXCEPT ![t] = theirs[t]]
      /\ mine' = [mine EXCEPT ![t] = balance] /\ UNCHANGED <<books, trade>> /\ To(t, s)
  BY DEF Balanced, ThreadsTyped
<1>2. s \in Stages /\ Promise(s, cost[t], balance, theirs[t], Seller(t) # buyer[t])
  BY DEF Checked, Promise, Paying, Affordable, Stages
<1> HIDE DEF s
<1> QED BY <1>1, <1>2, ThreadMoves

LEMMA KnownSafe ==
  ASSUME ThreadsTyped, Checked, NEW t \in Threads, stage[t] \in {"theirs", "readTheirs"},
         NEW balance \in Nat, Known(t, balance)
  PROVE  ThreadsTyped' /\ Checked' /\ UNCHANGED books
<1>1. /\ cost[t] \in Nat /\ mine[t] \in Int
      /\ cost' = [cost EXCEPT ![t] = cost[t]] /\ mine' = [mine EXCEPT ![t] = mine[t]]
      /\ theirs' = [theirs EXCEPT ![t] = balance] /\ UNCHANGED <<books, trade>> /\ To(t, "credit")
  BY DEF Known, ThreadsTyped
<1>2. "credit" \in Stages /\ Promise("credit", cost[t], mine[t], balance, Seller(t) # buyer[t])
  BY DEF Checked, Promise, Paying, Stages
<1>3. balance \in Int
  OBVIOUS
<1> QED BY <1>1, <1>2, <1>3, ThreadMoves

\* The commit of a purchase.
LEMMA RecordSafe ==
  ASSUME MarketIInv, NEW t \in Threads, Record(t)
  PROVE  MarketIInv'
<1>1. BooksTyped /\ ThreadsTyped /\ Checked /\ PaidOnce /\ NoOverdraft /\ BooksMatch
  BY DEF MarketIInv
<1> DEFINE i == item[t]
           b == buyer[t]
           o == Seller(t)
<1>2. /\ i \in Items /\ b \in Users /\ o \in Users
      /\ cost[t] \in Nat /\ mine[t] \in Int /\ theirs[t] \in Int
  BY <1>1, MarketAssumption DEF ThreadsTyped, Seller
<1>3. stage[t] = "record" /\ To(t, "end") /\ UNCHANGED <<trade, cost, mine, theirs>>
  BY DEF Record
<1>4. ThreadsTyped' /\ Checked'
  <2>1. "end" \in Stages /\ Promise("end", cost[t], mine[t], theirs[t], Seller(t) # buyer[t])
    BY DEF Promise, Paying, Stages
  <2> QED BY <1>1, <1>3, <2>1, ThreadGoesOn
<1>5. o # b /\ (cost[t] > 0 => mine[t] >= cost[t] /\ theirs[t] >= 0)
  BY <1>1, <1>3 DEF Checked, Promise
<1>6. CASE ~Unique(t)
  BY <1>1, <1>4, <1>6, BooksKept DEF Record, MarketIInv
<1>7. CASE Unique(t)
  <2>1. /\ bought' = bought \cup {<<i, b>>} /\ charged' = [charged EXCEPT ![i][b] = @ + 1]
        /\ <<i, b>> \notin bought
    BY <1>7 DEF Record, Unique
  <2>2. PaidOnce' /\ charged' \in [Items -> [Users -> Nat]]
    <3> HIDE DEF i, b
    <3>1. charged' \in [Items -> [Users -> Nat]]
      BY <1>1, <1>2, <2>1 DEF BooksTyped
    <3>2. ASSUME NEW k \in Items, NEW u \in Users
          PROVE  charged'[k][u] <= 1 /\ (charged'[k][u] = 1 <=> <<k, u>> \in bought')
      <4>1. CASE k = i /\ u = b
        <5>1. charged[k][u] # 1 /\ charged[k][u] <= 1 /\ charged[k][u] \in Nat
          BY <1>1, <2>1, <4>1 DEF PaidOnce, BooksTyped
        <5>2. charged'[k][u] = charged[k][u] + 1
          BY <1>1, <1>2, <2>1, <4>1 DEF BooksTyped
        <5>3. <<k, u>> \in bought'
          BY <2>1, <4>1
        <5> QED BY <5>1, <5>2, <5>3
      <4>2. CASE ~(k = i /\ u = b)
        <5>1. charged'[k][u] = charged[k][u] /\ (<<k, u>> \in bought' <=> <<k, u>> \in bought)
          BY <1>1, <1>2, <2>1, <4>2 DEF BooksTyped
        <5> QED BY <1>1, <5>1 DEF PaidOnce
      <4> QED BY <4>1, <4>2
    <3> QED BY <3>1, <3>2 DEF PaidOnce
  <2>3. CASE cost[t] = 0
    <3>1. UNCHANGED <<wallet, entries, mixed>>
      BY <1>7, <2>3 DEF Record
    <3> QED BY <1>1, <1>4, <2>2, <3>1 DEF MarketIInv, BooksTyped, NoOverdraft, BooksMatch
  <2>4. CASE cost[t] > 0
    <3>1. /\ wallet' = [wallet EXCEPT ![b] = mine[t] - cost[t], ![o] = theirs[t] + cost[t]]
          /\ entries' = [entries EXCEPT ![b] = @ - cost[t], ![o] = @ + cost[t]]
          /\ mixed' = (mixed \/ mine[t] # wallet[b] \/ theirs[t] # wallet[o])
      BY <1>2, <1>7, <2>4 DEF Record, SellerBalance
    <3> HIDE DEF b, o
    <3>2. wallet' \in [Users -> Int] /\ entries' \in [Users -> Int]
      BY <1>1, <1>2, <3>1 DEF BooksTyped
    <3>3. mixed' \in BOOLEAN
      BY <1>1, <3>1 DEF BooksTyped
    <3>4. NoOverdraft'
      BY <1>1, <1>2, <1>5, <2>4, <3>1 DEF BooksTyped, NoOverdraft
    <3>5. BooksMatch'
      <4> SUFFICES ASSUME ~mixed', NEW u \in Users PROVE wallet'[u] = Deposits[u] + entries'[u]
        BY DEF BooksMatch
      <4>1. ~mixed /\ mine[t] = wallet[b] /\ theirs[t] = wallet[o]
        BY <3>1
      <4>2. wallet[u] = Deposits[u] + entries[u] /\ Deposits[u] \in Int /\ entries[u] \in Int
        BY <1>1, <4>1, MarketAssumption DEF BooksMatch, BooksTyped
      <4> QED BY <1>1, <1>2, <1>5, <3>1, <4>1, <4>2 DEF BooksTyped
    <3> QED BY <1>4, <2>2, <3>2, <3>3, <3>4, <3>5 DEF MarketIInv, BooksTyped
  <2> QED BY <1>2, <2>3, <2>4
<1> QED BY <1>6, <1>7

\* The monthly credits of a member are new in the balance and in the log.
LEMMA AllowanceSafe ==
  ASSUME MarketIInv, NEW t \in Threads, PayAllowance(t)
  PROVE  MarketIInv'
<1>1. BooksTyped /\ ThreadsTyped /\ Checked /\ PaidOnce /\ NoOverdraft /\ BooksMatch
  BY DEF MarketIInv
<1>2. ThreadsTyped' /\ Checked'
  <2>1. "vip" \in Stages /\ Promise("vip", cost[t], mine[t], theirs[t], Seller(t) # buyer[t])
    BY DEF Promise, Paying, Stages
  <2>2. To(t, "vip") /\ UNCHANGED <<cost, mine, theirs, trade>>
    BY DEF PayAllowance
  <2> QED BY <1>1, <2>1, <2>2, ThreadGoesOn
<1>3. PaidOnce' /\ charged' \in [Items -> [Users -> Nat]] /\ mixed' = mixed /\ mixed' \in BOOLEAN
  BY <1>1 DEF PayAllowance, PaidOnce, BooksTyped
<1>4. CASE UNCHANGED <<wallet, entries>>
  BY <1>1, <1>2, <1>3, <1>4 DEF MarketIInv, BooksTyped, NoOverdraft, BooksMatch
<1>5. CASE \E n \in Allowances : /\ wallet' = [wallet EXCEPT ![buyer[t]] = @ + n]
                                /\ entries' = [entries EXCEPT ![buyer[t]] = @ + n]
  <2>1. PICK n \in Nat : /\ wallet' = [wallet EXCEPT ![buyer[t]] = @ + n]
                         /\ entries' = [entries EXCEPT ![buyer[t]] = @ + n]
    BY <1>5, MarketAssumption
  <2>2. buyer[t] \in Users /\ wallet \in [Users -> Int] /\ entries \in [Users -> Int]
    BY <1>1 DEF ThreadsTyped, BooksTyped
  <2>3. wallet' \in [Users -> Int] /\ entries' \in [Users -> Int]
    BY <2>1, <2>2
  <2>4. NoOverdraft'
    BY <1>1, <2>1, <2>2 DEF NoOverdraft
  <2>5. BooksMatch'
    <3> SUFFICES ASSUME ~mixed, NEW u \in Users PROVE wallet'[u] = Deposits[u] + entries'[u]
      BY <1>3 DEF BooksMatch
    <3>1. wallet[u] = Deposits[u] + entries[u] /\ Deposits[u] \in Int /\ entries[u] \in Int
      BY <1>1, <2>2, MarketAssumption DEF BooksMatch
    <3> QED BY <2>1, <2>2, <3>1
  <2> QED BY <1>2, <1>3, <2>3, <2>4, <2>5 DEF MarketIInv, BooksTyped
<1> QED BY <1>4, <1>5 DEF PayAllowance

LEMMA MonthSafe ==
  ASSUME MarketIInv, NEW u \in Users, MonthEnds(u)
  PROVE  MarketIInv'
BY DEF MonthEnds, MarketIInv, BooksTyped, ThreadsTyped, Checked, Promise, Seller, trade, PaidOnce,
       NoOverdraft, BooksMatch

LEMMA MarketNextInv == MarketIInv /\ [MarketNext]_marketVars => MarketIInv'
<1> SUFFICES ASSUME MarketIInv, [MarketNext]_marketVars PROVE MarketIInv'
  OBVIOUS
<1>0. BooksTyped /\ ThreadsTyped /\ Checked /\ PaidOnce /\ NoOverdraft /\ BooksMatch
  BY DEF MarketIInv
<1>a. SUFFICES ASSUME ~(\E t \in Threads : Record(t) \/ PayAllowance(t)), ~\E u \in Users : MonthEnds(u)
      PROVE  ThreadsTyped' /\ Checked' /\ UNCHANGED books
  BY <1>0, RecordSafe, AllowanceSafe, MonthSafe, BooksKept DEF MarketIInv
<1>1. ASSUME NEW t \in Threads, NEW s \in Stages \ (Paying \cup {"record"}),
             To(t, s), UNCHANGED <<books, trade, cost, mine, theirs>>
      PROVE  ThreadsTyped' /\ Checked' /\ UNCHANGED books
  <2>1. Promise(s, cost[t], mine[t], theirs[t], Seller(t) # buyer[t])
    BY <1>1 DEF Promise, Paying
  <2> QED BY <1>0, <1>1, <2>1, ThreadGoesOn
<1>2. ASSUME NEW t \in Threads, Request(t) \/ Poll(t) \/ Polled(t) \/ First(t) \/ Rollback(t)
      PROVE  ThreadsTyped' /\ Checked' /\ UNCHANGED books
  <2>1. PICK s \in {"first", "poll", "idle", "status", "end"} :
          To(t, s) /\ UNCHANGED <<books, trade, cost, mine, theirs>>
    BY <1>2 DEF Request, Poll, Polled, First, Rollback
  <2> QED BY <1>1, <2>1 DEF Stages, Paying
<1>3. ASSUME NEW t \in Threads, Second(t)
      PROVE  ThreadsTyped' /\ Checked' /\ UNCHANGED books
  <2>1. /\ stage[t] \in {"status", "mine", "theirs"} /\ To(t, Reading[stage[t]])
        /\ UNCHANGED <<books, trade, cost, mine, theirs>>
    BY <1>3 DEF Second, Reading
  <2>2. /\ stage[t] = "status" => Reading[stage[t]] = "alter"
        /\ stage[t] = "mine" => Reading[stage[t]] = "readMine"
        /\ stage[t] = "theirs" => Reading[stage[t]] = "readTheirs"
    BY DEF Reading
  <2>3. Reading[stage[t]] \in Stages
        /\ Promise(Reading[stage[t]], cost[t], mine[t], theirs[t], Seller(t) # buyer[t])
    BY <1>0, <2>1, <2>2 DEF Checked, Promise, Paying, Stages
  <2> QED BY <1>0, <2>1, <2>3, ThreadGoesOn
<1>4. ASSUME NEW t \in Threads, MemberStatus(t) \/ ReadMine(t) \/ ReadTheirs(t) \/ Unread(t)
      PROVE  ThreadsTyped' /\ Checked' /\ UNCHANGED books
  <2>1. wallet[buyer[t]] \in Int /\ wallet[Seller(t)] \in Nat
    BY <1>0, MarketAssumption DEF BooksTyped, ThreadsTyped, Seller, NoOverdraft
  <2>2. CASE MemberStatus(t)
    <3>1. Priced(t, buyer[t] \in Vips)
      BY <2>2 DEF MemberStatus
    <3> QED BY <1>0, <3>1, PricedSafe
  <2>3. CASE ReadMine(t)
    <3>1. stage[t] \in Paying /\ Balanced(t, wallet[buyer[t]])
      BY <2>3 DEF ReadMine, Paying
    <3> QED BY <1>0, <2>1, <3>1, BalancedSafe
  <2>4. CASE ReadTheirs(t)
    <3>1. stage[t] \in {"theirs", "readTheirs"} /\ Known(t, wallet[Seller(t)])
      BY <2>4 DEF ReadTheirs
    <3> QED BY <1>0, <2>1, <3>1, KnownSafe
  <2>5. CASE Unread(t)
    <3>1. \/ Priced(t, FALSE)
          \/ stage[t] \in {"mine", "readMine"} /\ Balanced(t, 0)
          \/ stage[t] \in {"theirs", "readTheirs"} /\ Known(t, 0)
      BY <2>5 DEF Unread
    <3>2. CASE Priced(t, FALSE)
      BY <1>0, <3>2, PricedSafe
    <3>3. CASE stage[t] \in {"mine", "readMine"} /\ Balanced(t, 0)
      <4>1. stage[t] \in Paying /\ 0 \in Int
        BY <3>3 DEF Paying
      <4> QED BY <1>0, <3>3, <4>1, BalancedSafe
    <3>4. CASE stage[t] \in {"theirs", "readTheirs"} /\ Known(t, 0)
      <4>1. 0 \in Nat
        OBVIOUS
      <4> QED BY <1>0, <3>4, <4>1, KnownSafe
    <3> QED BY <3>1, <3>2, <3>3, <3>4
  <2> QED BY <1>4, <2>2, <2>3, <2>4, <2>5
<1>5. ASSUME NEW t \in Threads, Debit(t) \/ Credit(t)
      PROVE  ThreadsTyped' /\ Checked' /\ UNCHANGED books
  <2>1. PICK s \in {"theirs", "record"} :
          /\ To(t, s) /\ UNCHANGED <<books, trade, cost, mine, theirs>>
          /\ s = "theirs" => stage[t] = "debit"
          /\ s = "record" => stage[t] = "credit"
    BY <1>5 DEF Debit, Credit
  <2>2. s \in Stages /\ Promise(s, cost[t], mine[t], theirs[t], Seller(t) # buyer[t])
    BY <1>0, <2>1 DEF Checked, Promise, Paying, Stages
  <2> QED BY <1>0, <2>1, <2>2, ThreadGoesOn
<1>6. ASSUME NEW t \in Threads, Answer(t) \/ Deadlocked(t)
      PROVE  ThreadsTyped' /\ Checked' /\ UNCHANGED books
  <2>1. "idle" \in Stages /\ Promise("idle", 0, 0, 0, Seller(t) # buyer[t])
    BY DEF Promise, Paying, Stages
  <2>2. /\ To(t, "idle") /\ UNCHANGED <<books, trade>>
        /\ cost' = [cost EXCEPT ![t] = 0] /\ mine' = [mine EXCEPT ![t] = 0]
        /\ theirs' = [theirs EXCEPT ![t] = 0]
    BY <1>6 DEF Answer, Deadlocked, Forget
  <2>3. 0 \in Nat /\ 0 \in Int
    OBVIOUS
  <2> QED BY <1>0, <2>1, <2>2, <2>3, ThreadMoves
<1>7. CASE DropStale \/ Restart \/ UNCHANGED marketVars
  <2>1. UNCHANGED <<books, stage, item, buyer, cost, mine, theirs>>
    BY <1>7 DEF DropStale, Restart, marketVars, trade
  <2> QED BY <1>0, <2>1 DEF ThreadsTyped, Checked, Promise, Seller
<1> QED BY <1>a, <1>2, <1>3, <1>4, <1>5, <1>6, <1>7 DEF MarketNext, Purchase

LEMMA MarketInvariance == MarketSpec => []MarketIInv
<1>1. MarketIInv /\ [MarketNext]_marketVars => MarketIInv'
  BY MarketNextInv
<1> QED BY MarketInitInv, <1>1, PTL DEF MarketSpec

\* However many requests overlap, a user pays for an indicator once, and only for
\* one that is then theirs.
THEOREM IndicatorPaidOnce == MarketSpec => []PaidOnce
<1>1. MarketIInv => PaidOnce
  BY DEF MarketIInv
<1> QED BY MarketInvariance, <1>1, PTL

\* Overlapping purchases, reads that fail and restarts never drive a balance
\* below zero.
THEOREM MarketOnCredit == MarketSpec => []NoOverdraft
<1>1. MarketIInv => NoOverdraft
  BY DEF MarketIInv
<1> QED BY MarketInvariance, <1>1, PTL

\* Until a balance is written that was not the one read, the log of every user
\* explains the balance and credits only change hands.
THEOREM MarketBalances == MarketSpec => []BooksMatch
<1>1. MarketIInv => BooksMatch
  BY DEF MarketIInv
<1> QED BY MarketInvariance, <1>1, PTL

-----------------------------------------------------------------------------
(* Purchases as sales *)

\* From the status on, a purchase carries a price that this buyer may be asked.
FairlyPriced ==
  \A t \in Threads : stage[t] \in Paying \cup {"record"} => cost[t] \in Charges(item[t], buyer[t])

\* A thread that goes on keeps its price, learns a fair one, or pays nothing any more.
LEMMA FairOn ==
  ASSUME ThreadsTyped, FairlyPriced, NEW t \in Threads, NEW s \in Stages, NEW c, To(t, s),
         cost' = [cost EXCEPT ![t] = c], UNCHANGED trade,
         s \in Paying \cup {"record"} => c \in Charges(item[t], buyer[t])
  PROVE  FairlyPriced'
<1> SUFFICES ASSUME NEW o \in Threads, stage'[o] \in Paying \cup {"record"}
             PROVE  cost'[o] \in Charges(item'[o], buyer'[o])
  BY DEF FairlyPriced, Charges
<1>1. item' = item /\ buyer' = buyer
  BY DEF trade
<1>2. CASE o = t
  BY <1>1, <1>2 DEF ThreadsTyped, To
<1>3. CASE o # t
  <2>1. stage'[o] = stage[o] /\ cost'[o] = cost[o]
    BY <1>3 DEF ThreadsTyped, To
  <2> QED BY <1>1, <2>1 DEF FairlyPriced
<1> QED BY <1>2, <1>3

\* ... without a new price.
LEMMA FairStill ==
  ASSUME ThreadsTyped, FairlyPriced, NEW t \in Threads, NEW s \in Stages, To(t, s),
         UNCHANGED <<cost, trade>>,
         s \in Paying \cup {"record"} => stage[t] \in Paying \cup {"record"}
  PROVE  FairlyPriced'
<1>1. cost' = [cost EXCEPT ![t] = cost[t]]
  BY DEF ThreadsTyped
<1> QED BY <1>1, FairOn DEF FairlyPriced

LEMMA FairPrice ==
  ASSUME ThreadsTyped, FairlyPriced, NEW t \in Threads, NEW vip \in BOOLEAN, Priced(t, vip),
         vip => buyer[t] \in Vips
  PROVE  FairlyPriced'
<1> DEFINE c == IF vip /\ item[t] \in VipFree THEN 0 ELSE Price[item[t]]
           s == IF Seller(t) = buyer[t] \/ <<item[t], buyer[t]>> \in bought THEN "end"
                ELSE IF c > 0 THEN "mine" ELSE "record"
<1>1. c \in Charges(item[t], buyer[t])
  BY DEF Charges
<1>2. cost' = [cost EXCEPT ![t] = c] /\ UNCHANGED trade
  BY DEF Priced
<1>3. cost'[t] = c
  BY <1>2 DEF ThreadsTyped
<1>4. To(t, s)
  BY <1>3 DEF Priced
<1>5. s \in Stages
  BY DEF Stages
<1> HIDE DEF c, s
<1> QED BY <1>1, <1>2, <1>4, <1>5, FairOn

LEMMA FairNext ==
  ASSUME ThreadsTyped, FairlyPriced, [MarketNext]_marketVars
  PROVE  FairlyPriced'
<1> USE DEF Stages, Paying
<1>1. ASSUME NEW t \in Threads, Request(t) \/ Poll(t) \/ Polled(t) \/ First(t) \/ Rollback(t) \/ Record(t)
      PROVE  FairlyPriced'
  <2>1. PICK s \in {"first", "poll", "idle", "status", "end"} : To(t, s) /\ UNCHANGED <<trade, cost>>
    BY <1>1 DEF Request, Poll, Polled, First, Rollback, Record
  <2> QED BY <2>1, FairStill
<1>p. ASSUME NEW t \in Threads, PayAllowance(t) PROVE FairlyPriced'
  <2>1. To(t, "vip") /\ UNCHANGED <<trade, cost>>
    BY <1>p DEF PayAllowance
  <2> QED BY <2>1, FairStill
<1>2. ASSUME NEW t \in Threads, Second(t) PROVE FairlyPriced'
  <2>1. PICK s \in {"alter", "readMine", "readTheirs"} :
          /\ To(t, s) /\ UNCHANGED <<trade, cost>>
          /\ s # "alter" => stage[t] \in {"mine", "theirs"}
    BY <1>2 DEF Second, Reading
  <2> QED BY <2>1, FairStill
<1>3. ASSUME NEW t \in Threads, Debit(t) \/ Credit(t) PROVE FairlyPriced'
  <2>1. PICK s \in {"theirs", "record"} :
          To(t, s) /\ UNCHANGED <<trade, cost>> /\ stage[t] \in {"debit", "credit"}
    BY <1>3 DEF Debit, Credit
  <2> QED BY <2>1, FairStill
<1>4. ASSUME NEW t \in Threads, NEW balance, Balanced(t, balance), stage[t] \in {"mine", "readMine"}
      PROVE  FairlyPriced'
  <2>1. PICK s \in {"debit", "end"} : To(t, s) /\ UNCHANGED <<trade, cost>>
    BY <1>4 DEF Balanced
  <2> QED BY <1>4, <2>1, FairStill
<1>5. ASSUME NEW t \in Threads, NEW balance, Known(t, balance), stage[t] \in {"theirs", "readTheirs"}
      PROVE  FairlyPriced'
  <2>1. To(t, "credit") /\ UNCHANGED <<trade, cost>>
    BY <1>5 DEF Known
  <2> QED BY <1>5, <2>1, FairStill
<1>6. ASSUME NEW t \in Threads, MemberStatus(t) \/ ReadMine(t) \/ ReadTheirs(t) PROVE FairlyPriced'
  <2>1. CASE MemberStatus(t)
    <3>1. Priced(t, buyer[t] \in Vips) /\ (buyer[t] \in Vips) \in BOOLEAN
      BY <2>1 DEF MemberStatus
    <3> QED BY <3>1, FairPrice
  <2>2. CASE ReadMine(t)
    BY <1>4, <2>2 DEF ReadMine
  <2>3. CASE ReadTheirs(t)
    BY <1>5, <2>3 DEF ReadTheirs
  <2> QED BY <1>6, <2>1, <2>2, <2>3
<1>7. ASSUME NEW t \in Threads, Unread(t) PROVE FairlyPriced'
  <2>1. \/ Priced(t, FALSE)
        \/ stage[t] \in {"mine", "readMine"} /\ Balanced(t, 0)
        \/ stage[t] \in {"theirs", "readTheirs"} /\ Known(t, 0)
    BY <1>7 DEF Unread
  <2> QED BY <1>4, <1>5, <2>1, FairPrice
<1>8. ASSUME NEW t \in Threads, Answer(t) \/ Deadlocked(t) PROVE FairlyPriced'
  <2>1. To(t, "idle") /\ cost' = [cost EXCEPT ![t] = 0] /\ UNCHANGED trade
    BY <1>8 DEF Answer, Deadlocked, Forget
  <2> QED BY <2>1, FairOn
<1>9. CASE (\E u \in Users : MonthEnds(u)) \/ DropStale \/ Restart \/ UNCHANGED marketVars
  BY <1>9 DEF MonthEnds, DropStale, Restart, marketVars, trade, FairlyPriced, Charges
<1> QED BY <1>1, <1>p, <1>2, <1>3, <1>6, <1>7, <1>8, <1>9 DEF MarketNext, Purchase

\* The commit of a purchase is a sale.
LEMMA RecordSells ==
  ASSUME MarketIInv, FairlyPriced, NEW t \in Threads, Record(t)
  PROVE  [Sale!Next]_(Sale!vars)
<1> DEFINE i == item[t]
           b == buyer[t]
           o == Owner[i]
<1>1. /\ i \in Items /\ b \in Users /\ o \in Users /\ o = Seller(t)
      /\ cost[t] \in Nat /\ mine[t] \in Int /\ theirs[t] \in Int
      /\ wallet \in [Users -> Int] /\ mixed \in BOOLEAN
  BY MarketAssumption DEF MarketIInv, ThreadsTyped, BooksTyped, Seller
<1>2. /\ b # o /\ cost[t] \in Charges(i, b)
      /\ cost[t] > 0 => mine[t] >= cost[t] /\ theirs[t] >= 0
  BY DEF MarketIInv, Checked, Promise, FairlyPriced, Record, Seller
<1>3. CASE ~Unique(t)
  BY <1>3 DEF Record, books, Sale!vars
<1>4. CASE Unique(t)
  <2>1. Sale!HandOver(i, b)
    BY <1>2, <1>4 DEF Record, Unique, Sale!HandOver
  <2>2. CASE cost[t] = 0
    <3>1. wallet' = wallet /\ mixed' = mixed
      BY <1>4, <2>2 DEF Record
    <3> HIDE DEF i, b, o
    <3>2. wallet[b] >= 0
      BY <1>1 DEF MarketIInv, NoOverdraft
    <3>3. wallet' = [wallet EXCEPT ![b] = @ - 0, ![o] = @ + 0]
      BY <1>1, <3>1
    <3>4. cost[t] <= wallet[b] /\ wallet' = [wallet EXCEPT ![b] = @ - cost[t], ![o] = @ + cost[t]]
      BY <2>2, <3>2, <3>3
    <3>5. Sale!Sell(i, b, cost[t])
      BY <2>1, <3>1, <3>4 DEF Sale!Sell, o
    <3> QED BY <1>1, <1>2, <3>5 DEF Sale!Next
  <2>3. CASE cost[t] > 0
    <3>1. /\ wallet' = [wallet EXCEPT ![b] = mine[t] - cost[t], ![o] = theirs[t] + cost[t]]
          /\ mixed' = (mixed \/ mine[t] # wallet[b] \/ theirs[t] # wallet[o])
      BY <1>1, <1>4, <2>3 DEF Record, SellerBalance
    <3>2. CASE mine[t] = wallet[b] /\ theirs[t] = wallet[o]
      <4>1. mixed' = mixed
        BY <1>1, <3>1, <3>2
      <4>2. wallet' = [wallet EXCEPT ![b] = @ - cost[t], ![o] = @ + cost[t]] /\ cost[t] <= wallet[b]
        <5> HIDE DEF i, b, o
        <5> QED BY <1>1, <1>2, <2>3, <3>1, <3>2
      <4>3. Sale!Sell(i, b, cost[t])
        BY <2>1, <4>1, <4>2 DEF Sale!Sell
      <4> QED BY <1>1, <1>2, <4>3 DEF Sale!Next
    <3>3. CASE ~(mine[t] = wallet[b] /\ theirs[t] = wallet[o])
      <4>1. (~mixed') = FALSE
        BY <3>1, <3>3
      <4>2. /\ \A q \in Users : wallet'[q] >= 0
            /\ \A q \in Users \ {b, o} : wallet'[q] = wallet[q]
        <5> HIDE DEF i, b, o
        <5> QED BY <1>1, <1>2, <2>3, <3>1 DEF MarketIInv, NoOverdraft
      <4>3. Sale!Overwrite(i, b)
        BY <2>1, <4>1, <4>2 DEF Sale!Overwrite
      <4> QED BY <1>1, <4>3 DEF Sale!Next
    <3> QED BY <3>2, <3>3
  <2> QED BY <1>1, <2>2, <2>3
<1> QED BY <1>3, <1>4

\* The monthly credits are given between them.
LEMMA AllowanceGives ==
  ASSUME ThreadsTyped, due \subseteq Lifetimes, NEW t \in Threads, PayAllowance(t)
  PROVE  [Sale!Next]_(Sale!vars)
<1>1. UNCHANGED <<bought, mixed>>
  BY DEF PayAllowance
<1>2. CASE buyer[t] \notin due
  BY <1>1, <1>2 DEF PayAllowance, Sale!vars
<1>3. CASE buyer[t] \in due
  <2>1. PICK n \in Allowances : wallet' = [wallet EXCEPT ![buyer[t]] = @ + n]
    BY <1>3 DEF PayAllowance
  <2>2. Sale!Give(buyer[t], n)
    BY <1>1, <2>1 DEF Sale!Give
  <2> QED BY <1>3, <2>2 DEF Sale!Next
<1> QED BY <1>2, <1>3

\* Nothing else touches the books.
LEMMA OthersLeaveBooks ==
  ASSUME [MarketNext]_marketVars, ~\E t \in Threads : Record(t) \/ PayAllowance(t)
  PROVE  UNCHANGED <<wallet, bought, mixed>>
BY DEF MarketNext, Purchase, Request, Poll, Polled, First, Second, MemberStatus, ReadMine, ReadTheirs,
       Unread, Priced, Balanced, Known, Debit, Credit, Deadlocked, Rollback, Answer, Forget, MonthEnds,
       DropStale, Restart, marketVars, books

\* Only lifetime members have credits due, and months are counted up to their bound.
DuesTyped == due \subseteq Lifetimes /\ months \in 0..MaxMonths

LEMMA DuesNext == DuesTyped /\ [MarketNext]_marketVars => DuesTyped'
<1> SUFFICES ASSUME DuesTyped, [MarketNext]_marketVars PROVE DuesTyped'
  OBVIOUS
<1>1. ASSUME NEW u \in Users, MonthEnds(u) PROVE DuesTyped'
  BY <1>1, MarketAssumption DEF MonthEnds, DuesTyped
<1>2. ASSUME NEW t \in Threads, PayAllowance(t) PROVE DuesTyped'
  BY <1>2 DEF PayAllowance, DuesTyped
<1>3. CASE UNCHANGED dues
  BY <1>3 DEF dues, DuesTyped
<1>4. ASSUME NEW t \in Threads, Record(t) PROVE UNCHANGED dues
  BY <1>4 DEF Record
<1>5. CASE /\ ~\E t \in Threads : Record(t) \/ PayAllowance(t)
           /\ ~\E u \in Users : MonthEnds(u)
  <2>1. UNCHANGED dues
    BY <1>5
    DEF MarketNext, Purchase, Request, Poll, Polled, First, Second, MemberStatus, ReadMine, ReadTheirs,
        Unread, Priced, Balanced, Known, Debit, Credit, Deadlocked, Rollback, Answer, Forget, DropStale,
        Restart, marketVars, books
  <2> QED BY <1>3, <2>1
<1> QED BY <1>1, <1>2, <1>3, <1>4, <1>5

LEMMA DuesInvariance == MarketSpec => []DuesTyped
<1>1. MarketInit => DuesTyped
  BY MarketAssumption DEF MarketInit, DuesTyped
<1> QED BY <1>1, DuesNext, PTL DEF MarketSpec

\* However requests, failing reads, locks and restarts interleave, purchases are sales in
\* some order, until a balance is overwritten that was not the one read.
THEOREM PurchasesAreSales == MarketSpec => SaleSpec
<1>1. MarketInit => Sale!Init
  BY MarketAssumption DEF MarketInit, Sale!Init
<1>2. MarketInit => FairlyPriced
  BY DEF MarketInit, FairlyPriced, Paying
<1>3. MarketIInv /\ FairlyPriced /\ [MarketNext]_marketVars => FairlyPriced'
  BY FairNext DEF MarketIInv
<1>4. MarketIInv /\ FairlyPriced /\ DuesTyped /\ [MarketNext]_marketVars => [Sale!Next]_(Sale!vars)
  BY RecordSells, AllowanceGives, OthersLeaveBooks DEF MarketIInv, DuesTyped, Sale!vars
<1> QED BY MarketInvariance, DuesInvariance, <1>1, <1>2, <1>3, <1>4, PTL DEF MarketSpec, SaleSpec, Sale!Spec

-----------------------------------------------------------------------------
(* The pool of connections, and what a purchase holds of it *)

Spaced == InUse + ready + stale <= MaxConn /\ ready + stale <= MinConn

\* With the idle connections the pool never has more than it may open: only an
\* empty pool opens one.
PoolIInv ==
  /\ ready \in Nat /\ stale \in Nat /\ held \in [Threads -> Seq(BOOLEAN)] /\ outages \in 0..MaxOutages
  /\ IsFiniteSet(InHand) /\ Spaced

LEMMA PoolIInvSuffices == PoolIInv => PoolInv /\ InUse \in Nat
<1> SUFFICES ASSUME PoolIInv PROVE PoolInv /\ InUse \in Nat
  OBVIOUS
<1>1. InUse \in Nat
  BY FS_CardinalityType DEF PoolIInv, InUse
<1> QED BY <1>1, PoolAssumption DEF PoolIInv, PoolInv, Spaced

LEMMA PoolInitInv == PoolInit => PoolIInv
<1> SUFFICES ASSUME PoolInit PROVE PoolIInv
  OBVIOUS
<1>1. InHand = {}
  BY DEF PoolInit, InHand
<1>2. IsFiniteSet(InHand) /\ InUse = 0
  BY <1>1, FS_EmptySet DEF InUse
<1>3. held \in [Threads -> Seq(BOOLEAN)]
  BY DEF PoolInit
<1> QED BY <1>2, <1>3, PoolAssumption DEF PoolInit, PoolIInv, Spaced

\* A connection more in a thread's hands is one more in use.
LEMMA TakeKeeps ==
  ASSUME PoolIInv, NEW t \in Threads, Take(t)
  PROVE  PoolIInv'
<1> DEFINE n == Len(held[t])
           x == <<t, n + 1>>
<1>1. held[t] \in Seq(BOOLEAN) /\ n \in Nat /\ DOMAIN held[t] = 1..n
  BY DEF PoolIInv
<1>2. /\ held' \in [Threads -> Seq(BOOLEAN)] /\ DOMAIN (held'[t]) = 1..(n + 1)
      /\ \A o \in Threads \ {t} : held'[o] = held[o]
  BY <1>1 DEF Take, PoolIInv
<1>3. InHand' = InHand \cup {x} /\ x \notin InHand
  BY <1>1, <1>2 DEF InHand
<1>4. IsFiniteSet(InHand') /\ InUse' = InUse + 1 /\ InUse \in Nat
  BY <1>3, FS_AddElement, FS_CardinalityType DEF PoolIInv, InUse
<1>5. ready' \in Nat /\ stale' = stale /\ outages' = outages /\ Spaced'
  BY <1>4, PoolAssumption DEF Take, PoolIInv, Spaced
<1> QED BY <1>2, <1>4, <1>5 DEF PoolIInv

\* ... and one that goes back is one less, and at most one more idle.
LEMMA ReturnKeeps ==
  ASSUME PoolIInv, NEW t \in Threads, Len(held[t]) > 0, Return(t) \/ Close(t)
  PROVE  PoolIInv'
<1> DEFINE n == Len(held[t])
           x == <<t, n>>
<1>1. held[t] \in Seq(BOOLEAN) /\ n \in Nat \ {0} /\ DOMAIN held[t] = 1..n
  BY DEF PoolIInv
<1>2. Back(held[t]) \in Seq(BOOLEAN) /\ DOMAIN Back(held[t]) = 1..(n - 1)
  BY <1>1 DEF Back
<1>3. /\ held' \in [Threads -> Seq(BOOLEAN)] /\ DOMAIN (held'[t]) = 1..(n - 1)
      /\ \A o \in Threads \ {t} : held'[o] = held[o]
  BY <1>2 DEF Return, Close, PoolIInv
<1>4. InHand' = InHand \ {x} /\ x \in InHand
  BY <1>1, <1>3 DEF InHand
<1>5. IsFiniteSet(InHand') /\ InUse' = InUse - 1 /\ InUse \in Nat
  BY <1>4, FS_RemoveElement, FS_CardinalityType DEF PoolIInv, InUse
<1>6. ready \in Nat /\ stale \in Nat /\ Spaced
  BY DEF PoolIInv
<1>7. /\ ready' = ready \/ (Innermost(t) /\ Kept /\ ready' = ready + 1)
      /\ stale' = stale \/ (~Innermost(t) /\ Kept /\ stale' = stale + 1)
      /\ outages' = outages
  BY <1>6 DEF Return, Close
<1>8. /\ ready' \in Nat /\ stale' \in Nat
      /\ ready' + stale' = ready + stale \/ (Kept /\ ready' + stale' = ready + stale + 1)
  BY <1>6, <1>7
<1>9. Spaced'
  <2>1. PICK u \in Nat, i \in Nat, s \in Nat, j \in Nat, z \in Nat :
          u = InUse /\ i = ready /\ s = stale /\ j = ready' /\ z = stale'
    BY <1>5, <1>6, <1>8
  <2>2. u + i + s <= MaxConn /\ i + s <= MinConn /\ (Kept => i + s < MinConn)
    BY <1>6, <2>1 DEF Spaced, Kept
  <2>3. j + z = i + s \/ (Kept /\ j + z = i + s + 1)
    BY <1>8, <2>1
  <2>4. u - 1 + j + z <= MaxConn /\ j + z <= MinConn
    BY <2>2, <2>3, PoolAssumption
  <2> QED BY <1>5, <2>1, <2>4 DEF Spaced
<1> QED BY <1>3, <1>5, <1>7, <1>8, <1>9 DEF PoolIInv

\* Discarding and breaking connections moves none.
LEMMA RestKeeps ==
  ASSUME PoolIInv, Discard \/ Outage \/ UNCHANGED pool
  PROVE  PoolIInv' /\ \A t \in Threads : Len(held'[t]) = Len(held[t])
<1>1. /\ held' \in [Threads -> Seq(BOOLEAN)]
      /\ \A t \in Threads : DOMAIN held'[t] = DOMAIN held[t] /\ Len(held'[t]) = Len(held[t])
  <2>1. CASE Discard \/ UNCHANGED pool
    BY <2>1 DEF Discard, pool, PoolIInv
  <2>2. CASE Outage
    <3>1. ASSUME NEW t \in Threads
          PROVE  /\ held'[t] \in Seq(BOOLEAN)
                 /\ DOMAIN held'[t] = DOMAIN held[t] /\ Len(held'[t]) = Len(held[t])
      <4>1. held[t] \in Seq(BOOLEAN) /\ held'[t] = [i \in DOMAIN held[t] |-> FALSE]
        BY <2>2 DEF Outage, PoolIInv
      <4>2. DOMAIN held[t] = 1..Len(held[t]) /\ Len(held[t]) \in Nat
        BY <4>1
      <4>3. held'[t] \in [1..Len(held[t]) -> BOOLEAN]
        BY <4>1, <4>2
      <4> QED BY <4>1, <4>2, <4>3
    <3>2. held' = [t \in Threads |-> held'[t]]
      BY <2>2 DEF Outage
    <3> QED BY <3>1, <3>2
  <2> QED BY <2>1, <2>2
<1>2. InHand' = InHand
  BY <1>1 DEF InHand
<1>3. InUse' = InUse /\ InUse \in Nat
  BY <1>2, PoolIInvSuffices DEF InUse
<1>4. ready' \in Nat /\ stale' \in Nat /\ outages' \in 0..MaxOutages /\ Spaced'
  BY <1>3, PoolAssumption DEF Discard, Outage, pool, PoolIInv, Spaced
<1> QED BY <1>1, <1>2, <1>4 DEF PoolIInv

Nested == \A t \in Threads : Len(held[t]) = Depth(stage[t])
Locked == \A u \in Users : writer[u] # NoThread => stage[writer[u]] \in Writing

LeakIInv ==
  /\ PoolIInv /\ Nested /\ Locked
  /\ writer \in [Users -> Threads \cup {NoThread}] /\ bought \subseteq Items \X Users
  /\ purchases \in 0..MaxPurchases

\* A thread takes a connection where its next stage needs one more, and gives one
\* back where it needs one less.
LEMMA HoldsMore ==
  ASSUME PoolIInv, Nested, ThreadsTyped, NEW t \in Threads, NEW s \in Stages, To(t, s),
         Take(t), Depth(s) = Depth(stage[t]) + 1
  PROVE  PoolIInv' /\ Nested'
<1>1. ASSUME NEW o \in Threads PROVE Len(held'[o]) = Depth(stage'[o])
  <2>1. Len(held[o]) = Depth(stage[o]) /\ held[o] \in Seq(BOOLEAN)
    BY DEF Nested, PoolIInv
  <2>2. CASE o = t
    <3>1. held'[o] = Append(held[o], TRUE) /\ stage'[o] = s
      BY <2>2 DEF Take, To, PoolIInv, ThreadsTyped
    <3> QED BY <2>1, <2>2, <3>1
  <2>3. CASE o # t
    <3>1. held'[o] = held[o] /\ stage'[o] = stage[o]
      BY <2>3 DEF Take, To, PoolIInv, ThreadsTyped
    <3> QED BY <2>1, <3>1
  <2> QED BY <2>2, <2>3
<1> QED BY <1>1, TakeKeeps DEF Nested

LEMMA HoldsLess ==
  ASSUME PoolIInv, Nested, ThreadsTyped, NEW t \in Threads, NEW s \in Stages, To(t, s),
         Return(t) \/ Close(t), Depth(stage[t]) \in Nat \ {0}, Depth(s) = Depth(stage[t]) - 1
  PROVE  PoolIInv' /\ Nested'
<1>1. ASSUME NEW o \in Threads PROVE Len(held'[o]) = Depth(stage'[o])
  <2>1. Len(held[o]) = Depth(stage[o]) /\ held[o] \in Seq(BOOLEAN)
    BY DEF Nested, PoolIInv
  <2>2. CASE o = t
    <3>1. held'[o] = SubSeq(held[o], 1, Len(held[o]) - 1) /\ stage'[o] = s
      BY <2>2 DEF Return, Close, Back, To, PoolIInv, ThreadsTyped
    <3>2. Len(SubSeq(held[o], 1, Len(held[o]) - 1)) = Len(held[o]) - 1
      BY <2>1, <2>2
    <3> QED BY <2>1, <2>2, <3>1, <3>2
  <2>3. CASE o # t
    <3>1. held'[o] = held[o] /\ stage'[o] = stage[o]
      BY <2>3 DEF Return, Close, To, PoolIInv, ThreadsTyped
    <3> QED BY <2>1, <3>1
  <2> QED BY <2>2, <2>3
<1>2. Len(held[t]) > 0
  BY DEF Nested
<1> QED BY <1>1, <1>2, ReturnKeeps DEF Nested

LEMMA HoldsOn ==
  ASSUME PoolIInv, Nested, ThreadsTyped, NEW t \in Threads, NEW s \in Stages, To(t, s),
         UNCHANGED pool, Depth(s) = Depth(stage[t])
  PROVE  PoolIInv' /\ Nested'
<1>1. PoolIInv' /\ \A o \in Threads : Len(held'[o]) = Len(held[o])
  BY RestKeeps
<1>2. \A o \in Threads : Depth(stage'[o]) = Depth(stage[o])
  BY DEF To, ThreadsTyped
<1> QED BY <1>1, <1>2 DEF Nested

\* A lock begins at a stage that writes, is kept while the thread goes on writing,
\* and is given back otherwise.
LEMMA LocksKept ==
  ASSUME Locked, ThreadsTyped, writer \in [Users -> Threads \cup {NoThread}],
         NEW t \in Threads, NEW s \in Stages, To(t, s),
         \/ UNCHANGED writer /\ (stage[t] \in Writing => s \in Writing)
         \/ s \in Writing /\ \E u \in Users : writer' = [writer EXCEPT ![u] = t]
         \/ Unlock(t)
  PROVE  Locked' /\ writer' \in [Users -> Threads \cup {NoThread}]
<1>1. \A o \in Threads : stage'[o] = IF o = t THEN s ELSE stage[o]
  BY DEF To, ThreadsTyped
<1>2. NoThread \notin Threads
  BY MarketAssumption
<1>3. CASE UNCHANGED writer /\ (stage[t] \in Writing => s \in Writing)
  <2>1. ASSUME NEW u \in Users, writer'[u] # NoThread PROVE stage'[writer'[u]] \in Writing
    <3>1. writer[u] \in Threads /\ stage[writer[u]] \in Writing
      BY <1>3, <2>1 DEF Locked
    <3> QED BY <1>1, <1>3, <3>1
  <2> QED BY <1>3, <2>1 DEF Locked
<1>4. ASSUME s \in Writing, NEW v \in Users, writer' = [writer EXCEPT ![v] = t]
      PROVE  Locked' /\ writer' \in [Users -> Threads \cup {NoThread}]
  <2>1. ASSUME NEW u \in Users, writer'[u] # NoThread PROVE stage'[writer'[u]] \in Writing
    <3>1. CASE u = v
      BY <1>1, <1>4, <3>1
    <3>2. CASE u # v
      <4>1. writer'[u] = writer[u] /\ writer[u] \in Threads /\ stage[writer[u]] \in Writing
        BY <1>4, <2>1, <3>2 DEF Locked
      <4> QED BY <1>1, <1>4, <4>1
    <3> QED BY <3>1, <3>2
  <2> QED BY <1>4, <2>1 DEF Locked
<1>5. CASE Unlock(t)
  <2>1. ASSUME NEW u \in Users, writer'[u] # NoThread PROVE stage'[writer'[u]] \in Writing
    <3>1. writer'[u] = writer[u] /\ writer[u] # t /\ writer[u] \in Threads /\ stage[writer[u]] \in Writing
      BY <1>5, <2>1 DEF Unlock, Locked
    <3> QED BY <1>1, <3>1
  <2> QED BY <1>5, <2>1 DEF Unlock, Locked
<1> QED BY <1>3, <1>4, <1>5

LEMMA LeakInit == MarketInit => LeakIInv
<1> SUFFICES ASSUME MarketInit PROVE LeakIInv
  OBVIOUS
<1>1. PoolIInv
  BY PoolInitInv DEF MarketInit
<1>2. Nested
  BY DEF MarketInit, PoolInit, Nested, Depth
<1>3. Locked /\ writer \in [Users -> Threads \cup {NoThread}]
  BY DEF MarketInit, Locked
<1>4. bought \subseteq Items \X Users /\ purchases \in 0..MaxPurchases
  BY MarketAssumption DEF MarketInit
<1> QED BY <1>1, <1>2, <1>3, <1>4 DEF LeakIInv

\* What a thread does at once: one connection more or less, or none, one lock begun,
\* or all given back.
Nests(t, s) ==
  \/ Take(t) /\ Depth(s) = Depth(stage[t]) + 1
  \/ (Return(t) \/ Close(t)) /\ Depth(stage[t]) \in Nat \ {0} /\ Depth(s) = Depth(stage[t]) - 1
  \/ UNCHANGED pool /\ Depth(s) = Depth(stage[t])
Locks(t, s) ==
  \/ UNCHANGED writer /\ (stage[t] \in Writing => s \in Writing)
  \/ s \in Writing /\ \E u \in Users : writer' = [writer EXCEPT ![u] = t]
  \/ Unlock(t)

LEMMA ThreadLeaksNothing ==
  ASSUME ThreadsTyped, LeakIInv, NEW t \in Threads, NEW s \in Stages, To(t, s),
         Nests(t, s), Locks(t, s),
         bought' \subseteq Items \X Users, purchases' \in 0..MaxPurchases
  PROVE  LeakIInv'
<1>1. PoolIInv' /\ Nested'
  BY HoldsMore, HoldsLess, HoldsOn DEF LeakIInv, Nests
<1>2. Locked' /\ writer' \in [Users -> Threads \cup {NoThread}]
  BY LocksKept DEF LeakIInv, Locks
<1> QED BY <1>1, <1>2 DEF LeakIInv

LEMMA LeakNext == MarketIInv /\ LeakIInv /\ [MarketNext]_marketVars => LeakIInv'
<1> SUFFICES ASSUME MarketIInv, LeakIInv, [MarketNext]_marketVars PROVE LeakIInv'
  OBVIOUS
<1>0. ThreadsTyped /\ bought \subseteq Items \X Users /\ purchases \in 0..MaxPurchases
  BY DEF MarketIInv, LeakIInv
<1>1. ASSUME NEW t \in Threads, NEW s \in Stages, To(t, s), Nests(t, s), Locks(t, s),
             UNCHANGED <<books, purchases>>
      PROVE  LeakIInv'
  <2>1. bought' \subseteq Items \X Users /\ purchases' \in 0..MaxPurchases
    BY <1>0, <1>1 DEF books
  <2> QED BY <1>0, <1>1, <2>1, ThreadLeaksNothing
<1>2. ASSUME NEW t \in Threads, Request(t) PROVE LeakIInv'
  <2>1. /\ stage[t] = "idle" /\ To(t, "first") /\ UNCHANGED <<pool, writer, bought>>
        /\ purchases < MaxPurchases /\ purchases' = purchases + 1
    BY <1>2 DEF Request, books
  <2>2. "first" \in Stages /\ Nests(t, "first") /\ Locks(t, "first")
    BY <2>1 DEF Stages, Nests, Locks, Depth, Writing
  <2>3. bought' \subseteq Items \X Users /\ purchases' \in 0..MaxPurchases
    BY <1>0, <2>1, MarketAssumption
  <2> QED BY <1>0, <2>1, <2>2, <2>3, ThreadLeaksNothing
<1>3. ASSUME NEW t \in Threads, Record(t) PROVE LeakIInv'
  <2>1. /\ stage[t] = "record" /\ To(t, "end") /\ Unlock(t) /\ UNCHANGED <<pool, purchases>>
        /\ bought' = bought \/ bought' = bought \cup {<<item[t], buyer[t]>>}
    BY <1>3 DEF Record, books
  <2>2. "end" \in Stages /\ Nests(t, "end") /\ Locks(t, "end")
    BY <2>1 DEF Stages, Nests, Locks, Depth
  <2>3. bought' \subseteq Items \X Users /\ purchases' \in 0..MaxPurchases
    BY <1>0, <2>1 DEF ThreadsTyped
  <2> QED BY <1>0, <2>1, <2>2, <2>3, ThreadLeaksNothing
<1>4. ASSUME NEW t \in Threads, Poll(t) \/ Polled(t) \/ First(t) PROVE LeakIInv'
  <2>1. PICK s \in {"poll", "idle", "status"} :
          /\ To(t, s) /\ UNCHANGED <<books, writer, purchases>>
          /\ \/ s = "poll" /\ stage[t] = "idle" /\ Take(t)
             \/ s = "idle" /\ stage[t] = "poll" /\ Return(t)
             \/ s = "status" /\ stage[t] = "first" /\ Take(t)
             \/ s = "idle" /\ stage[t] = "first" /\ UNCHANGED pool
    BY <1>4 DEF Poll, Polled, First, TimedOut
  <2>2. s \in Stages /\ Nests(t, s) /\ Locks(t, s)
    BY <2>1 DEF Stages, Nests, Locks, Depth, Writing
  <2> QED BY <1>1, <2>1, <2>2
<1>a. ASSUME NEW t \in Threads, Answer(t) \/ Deadlocked(t) PROVE LeakIInv'
  <2>1. /\ To(t, "idle") /\ UNCHANGED <<books, purchases>>
        /\ \/ stage[t] = "end" /\ Return(t) /\ UNCHANGED writer
           \/ stage[t] = "credit" /\ Close(t) /\ Unlock(t)
    BY <1>a DEF Answer, Deadlocked, Circle, Forget
  <2>2. "idle" \in Stages /\ Nests(t, "idle") /\ Locks(t, "idle")
    BY <2>1 DEF Stages, Nests, Locks, Depth, Writing
  <2> QED BY <1>1, <2>1, <2>2
<1>b. ASSUME NEW t \in Threads, PayAllowance(t) PROVE LeakIInv'
  <2>1. stage[t] = "alter" /\ To(t, "vip") /\ UNCHANGED <<pool, writer, bought, purchases>>
    BY <1>b DEF PayAllowance
  <2>2. "vip" \in Stages /\ Nests(t, "vip") /\ Locks(t, "vip")
    BY <2>1 DEF Stages, Nests, Locks, Depth, Writing
  <2>3. bought' \subseteq Items \X Users /\ purchases' \in 0..MaxPurchases
    BY <1>0, <2>1
  <2> QED BY <1>0, <2>1, <2>2, <2>3, ThreadLeaksNothing
<1>5. ASSUME NEW t \in Threads, Second(t) PROVE LeakIInv'
  <2>1. /\ stage[t] \in {"status", "mine", "theirs"} /\ To(t, Reading[stage[t]]) /\ Take(t)
        /\ UNCHANGED <<books, writer, purchases>>
    BY <1>5 DEF Second, Reading
  <2>2. /\ stage[t] = "status" => Reading[stage[t]] = "alter"
        /\ stage[t] = "mine" => Reading[stage[t]] = "readMine"
        /\ stage[t] = "theirs" => Reading[stage[t]] = "readTheirs"
    BY DEF Reading
  <2>3. /\ Reading[stage[t]] \in Stages
        /\ Nests(t, Reading[stage[t]]) /\ Locks(t, Reading[stage[t]])
    BY <2>1, <2>2 DEF Stages, Nests, Locks, Depth, Writing
  <2> QED BY <1>1, <2>1, <2>3
<1>6. ASSUME NEW t \in Threads, MemberStatus(t) \/ ReadMine(t) \/ ReadTheirs(t) \/ Unread(t)
      PROVE  LeakIInv'
  <2>1. PICK s \in {"end", "mine", "record", "debit", "credit"} :
          /\ To(t, s) /\ UNCHANGED <<books, writer, purchases>>
          /\ stage[t] \in {"theirs", "readTheirs"} => s = "credit"
    <3>1. CASE stage[t] \in {"status", "alter", "vip"} /\ \E vip : Priced(t, vip)
      BY <3>1 DEF Priced
    <3>2. CASE stage[t] \in {"mine", "readMine"} /\ \E balance : Balanced(t, balance)
      BY <3>2 DEF Balanced
    <3>3. CASE stage[t] \in {"theirs", "readTheirs"} /\ \E balance : Known(t, balance)
      BY <3>3 DEF Known
    <3> QED BY <1>6, <3>1, <3>2, <3>3 DEF MemberStatus, ReadMine, ReadTheirs, Unread
  <2>2. \/ stage[t] \in {"status", "mine", "theirs"} /\ UNCHANGED pool
        \/ stage[t] \in {"alter", "vip", "readMine", "readTheirs"} /\ Return(t)
    BY <1>6 DEF MemberStatus, ReadMine, ReadTheirs, Unread, TimedOut
  <2>3. s \in Stages /\ Nests(t, s) /\ Locks(t, s)
    BY <2>1, <2>2 DEF Stages, Nests, Locks, Depth, Writing
  <2> QED BY <1>1, <2>1, <2>3
<1>7. ASSUME NEW t \in Threads, Debit(t) \/ Credit(t) \/ Rollback(t) PROVE LeakIInv'
  <2>1. PICK s \in {"theirs", "record", "end"} :
          /\ To(t, s) /\ UNCHANGED <<pool, books, purchases>>
          /\ stage[t] \in {"debit", "credit", "record"}
          /\ \/ s \in {"theirs", "record"} /\ \E u \in {buyer[t], Seller(t)} : writer' = [writer EXCEPT ![u] = t]
             \/ s = "end" /\ Unlock(t)
    BY <1>7 DEF Debit, Credit, Rollback
  <2>2. buyer[t] \in Users /\ Seller(t) \in Users
    BY <1>0, MarketAssumption DEF ThreadsTyped, Seller
  <2>3. s \in Stages /\ Nests(t, s) /\ Locks(t, s)
    BY <2>1, <2>2 DEF Stages, Nests, Locks, Depth, Writing
  <2> QED BY <1>1, <2>1, <2>3
<1>8. CASE (\E u \in Users : MonthEnds(u)) \/ DropStale \/ Restart \/ UNCHANGED marketVars
  <2>1. /\ Discard \/ Outage \/ UNCHANGED pool
        /\ UNCHANGED <<bought, stage, purchases>>
        /\ UNCHANGED writer \/ writer' = [u \in Users |-> NoThread]
    BY <1>8 DEF MonthEnds, DropStale, Restart, marketVars, books
  <2>2. PoolIInv' /\ Nested'
    BY <2>1, RestKeeps DEF LeakIInv, Nested
  <2> QED BY <2>1, <2>2 DEF LeakIInv, Locked
<1> QED BY <1>2, <1>3, <1>4, <1>a, <1>b, <1>5, <1>6, <1>7, <1>8 DEF MarketNext, Purchase

\* However a purchase ends, refused, rolled back, answered or cut off by a restart,
\* it leaves no connection taken and no row locked, and the pool's bounds hold.
THEOREM PurchaseLeaksNothing == MarketSpec => []NothingLeaks
<1>1. MarketIInv /\ LeakIInv /\ [MarketNext]_marketVars => LeakIInv'
  BY LeakNext
<1>2. MarketIInv /\ LeakIInv /\ DuesTyped => NothingLeaks
  <2> SUFFICES ASSUME MarketIInv, LeakIInv, DuesTyped PROVE NothingLeaks
    OBVIOUS
  <2>1. PoolInv
    BY PoolIInvSuffices DEF LeakIInv
  <2>2. MarketTypeOK
    BY <2>1 DEF MarketIInv, LeakIInv, DuesTyped, BooksTyped, ThreadsTyped, MarketTypeOK
  <2> QED BY <2>2 DEF LeakIInv, Nested, Locked, NothingLeaks
<1> QED BY MarketInvariance, DuesInvariance, LeakInit, <1>1, <1>2, PTL DEF MarketSpec

=============================================================================
