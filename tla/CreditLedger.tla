----------------------------- MODULE CreditLedger -----------------------------
(***************************************************************************)
(* The account of one user in BillingService: credits and their log, the    *)
(* membership and its monthly credits. check_and_consume, add_credits and   *)
(* set_credits read the balance in one transaction and write an absolute    *)
(* one in the next. purchase_membership and get_user_vip_status start with  *)
(* ALTER TABLE qd_users, which holds the table to themselves until commit:  *)
(* each is one step.                                                        *)
(***************************************************************************)
EXTENDS Integers

CONSTANTS
  Requests,    \* concurrent requests, background services included
  Kinds,       \* operations in play, a subset of AllKinds
  Initial,     \* credits at the start
  Amounts,     \* costs of features and amounts of top-ups and refunds
  Bonus,       \* credits of a monthly or yearly plan
  Monthly,     \* credits of a lifetime member per period
  Period,      \* a membership period (30 days)
  CatchUp,     \* at most so many periods are granted at once (6)
  Forever,     \* duration of a lifetime membership
  Faultless,   \* no read of a balance fails
  MaxTime, MaxOps  \* bounds

AllKinds == {"consume", "add", "set", "buy", "lifetime", "status", "vip"}

ASSUME LedgerAssumption ==
  /\ Kinds \subseteq AllKinds
  /\ Initial \in Nat /\ Amounts \subseteq Nat \ {0} /\ Bonus \in Nat /\ Monthly \in Nat \ {0}
  /\ Period \in Nat \ {0} /\ CatchUp \in Nat /\ Forever \in Nat
  /\ Faultless \in BOOLEAN /\ MaxTime \in Nat /\ MaxOps \in Nat

VARIABLES
  now,
  credits, logged,     \* qd_users.credits, and the sum of qd_credits_log.amount
  expires, life, last, \* vip_expires_at, vip_is_lifetime, vip_monthly_credits_last_grant
  pc, arg, seen,       \* a request: its operation, its amount, the balance it read
  ops,
  since, granted,      \* history: last lifetime purchase; periods granted after it
  torn                 \* history: a balance other than the one read was overwritten

account == <<credits, logged>>
member == <<expires, life, last>>
locals == <<pc, arg, seen>>
history == <<since, granted>>
vars == <<now, account, torn, member, locals, ops, history>>

Never == -1
AtMost(a, b) == IF a < b THEN a ELSE b

TypeOK ==
  /\ now \in 0..MaxTime
  /\ credits \in Int /\ logged \in Int
  /\ expires \in Nat \cup {Never} /\ life \in BOOLEAN /\ last \in Nat \cup {Never}
  /\ pc \in [Requests -> {"idle", "consume", "add", "set"}]
  /\ arg \in [Requests -> Nat] /\ seen \in [Requests -> Int]
  /\ ops \in 0..MaxOps
  /\ since \in Nat \cup {Never} /\ granted \in Nat /\ torn \in BOOLEAN

Init ==
  /\ now = 0
  /\ credits = Initial /\ logged = 0
  /\ expires = Never /\ life = FALSE /\ last = Never
  /\ pc = [r \in Requests |-> "idle"] /\ arg = [r \in Requests |-> 0]
  /\ seen = [r \in Requests |-> 0]
  /\ ops = 0
  /\ since = Never /\ granted = 0 /\ torn = FALSE

-----------------------------------------------------------------------------
(* Credits *)

Counted == ops < MaxOps /\ ops' = ops + 1

\* get_user_credits, in its own connection, answers 0 when it fails.
\* set_credits may set 0 as well.
Read(r) ==
  /\ pc[r] = "idle" /\ Counted
  /\ \E k \in Kinds \cap {"consume", "add", "set"} :
       /\ \E a \in Amounts \cup (IF k = "set" THEN {0} ELSE {}) : arg' = [arg EXCEPT ![r] = a]
       /\ pc' = [pc EXCEPT ![r] = k]
  /\ \E b \in {credits} \cup (IF Faultless THEN {} ELSE {0}) : seen' = [seen EXCEPT ![r] = b]
  /\ UNCHANGED <<now, account, torn, member, history>>

\* UPDATE qd_users SET credits = new, with its log entry, in one transaction.
Store(r, new, amount) ==
  /\ credits' = new /\ logged' = logged + amount
  /\ torn' = (torn \/ seen[r] # credits)
  /\ pc' = [pc EXCEPT ![r] = "idle"]

\* Mutant: the balance is not compared with the cost.
AffordsAlways(r) == TRUE

Affords(r) == seen[r] >= arg[r]

\* check_and_consume: refused when the balance read does not cover the cost.
Consume(r) ==
  /\ pc[r] = "consume"
  /\ \/ Affords(r) /\ Store(r, seen[r] - arg[r], -arg[r])
     \/ ~Affords(r) /\ pc' = [pc EXCEPT ![r] = "idle"] /\ UNCHANGED <<account, torn>>
  /\ UNCHANGED <<now, member, arg, seen, ops, history>>

AddCredits(r) ==
  /\ pc[r] = "add"
  /\ Store(r, seen[r] + arg[r], arg[r])
  /\ UNCHANGED <<now, member, arg, seen, ops, history>>

\* Mutant: the log gets the new balance instead of the difference.
AdjustmentWhole(r) == arg[r]

Adjustment(r) == arg[r] - seen[r]

SetCredits(r) ==
  /\ pc[r] = "set"
  /\ Store(r, arg[r], Adjustment(r))
  /\ UNCHANGED <<now, member, arg, seen, ops, history>>

\* A request dies, or its transaction is rolled back.
Fail(r) ==
  /\ pc[r] # "idle" /\ pc' = [pc EXCEPT ![r] = "idle"]
  /\ UNCHANGED <<now, account, torn, member, arg, seen, ops, history>>

-----------------------------------------------------------------------------
(* Membership *)

\* _add_credits_in_tx
Grant(n) == credits' = credits + n /\ logged' = logged + n /\ UNCHANGED torn

\* Mutant: the time still paid for is dropped.
BaseNow == now

\* The plan is added to what is left of the membership.
Base == IF expires > now THEN expires ELSE now

\* purchase_membership of a monthly or yearly plan.
Buy(r) ==
  /\ "buy" \in Kinds /\ pc[r] = "idle" /\ Counted
  /\ expires' = Base + Period /\ life' = FALSE
  /\ Grant(Bonus)
  /\ UNCHANGED <<now, last, locals, history>>

\* purchase_membership of the lifetime plan: the first month at once.
BuyLifetime(r) ==
  /\ "lifetime" \in Kinds /\ pc[r] = "idle" /\ Counted
  /\ expires' = now + Forever /\ life' = TRUE /\ last' = now
  /\ Grant(Monthly)
  /\ since' = now /\ granted' = 0
  /\ UNCHANGED <<now, locals>>

DuePeriods == AtMost((now - last) \div Period, CatchUp)

\* Mutant: the time of the grant is not moved on.
GrantMonthlyAgain ==
  /\ Grant(Monthly * DuePeriods)
  /\ granted' = granted + DuePeriods
  /\ UNCHANGED last

GrantMonthly ==
  /\ Grant(Monthly * DuePeriods)
  /\ granted' = granted + DuePeriods
  /\ last' = now

\* get_user_vip_status: the monthly credits of a lifetime member that are due,
\* unless the membership has an end and that has passed.
\* (The branch for a missing last grant is dead: the purchase that makes a member
\* a lifetime one sets it.)
Status(r) ==
  /\ "status" \in Kinds /\ pc[r] = "idle" /\ Counted
  /\ life /\ (expires = Never \/ expires > now) /\ DuePeriods > 0
  /\ GrantMonthly
  /\ UNCHANGED <<now, expires, life, locals, since>>

\* set_vip: an administrator grants or revokes a membership.
SetVip(r) ==
  /\ "vip" \in Kinds /\ pc[r] = "idle" /\ Counted
  /\ expires' \in {Never, now + Period}
  /\ UNCHANGED <<now, account, torn, life, last, locals, history>>

Tick == now < MaxTime /\ now' = now + 1 /\ UNCHANGED <<account, torn, member, locals, ops, history>>

-----------------------------------------------------------------------------
Serve(r) == \/ Read(r) \/ Consume(r) \/ AddCredits(r) \/ SetCredits(r) \/ Fail(r)
            \/ Buy(r) \/ BuyLifetime(r) \/ Status(r) \/ SetVip(r)
Next == (\E r \in Requests : Serve(r)) \/ Tick
Spec == Init /\ [][Next]_vars
-----------------------------------------------------------------------------
(* Properties *)

\* Credits are never negative, also when concurrent requests write balances
\* computed from stale ones.
NonNegative == credits >= 0

\* The log explains the balance: amount is the change ("变动金额"), balance_after
\* the balance after it ("变动后余额") (init.sql:46-47). Not for good: a lost
\* update refutes it; LoggedUnlessTorn below is what holds.
BalanceLogged == credits = Initial + logged

\* Lifetime credits are granted once per period: never more periods than have
\* passed since the lifetime purchase.
GrantsBounded == since # Never => granted * Period <= now - since

\* A purchase never shortens a membership (a new lifetime counts as long enough):
\* only an administrator does.
PurchaseExtends ==
  [][\/ \E r \in Requests : SetVip(r)
     \/ expires' >= expires
     \/ life' /\ expires' = now + Forever]_vars

\* The log explains the balance for as long as every request stores over the
\* balance it read, whatever is bought, granted, refused or rolled back.
LoggedUnlessTorn == ~torn => BalanceLogged

\* The inductive invariant.
SeenSane == \A r \in Requests : seen[r] >= 0
GrantsSane == /\ life => last # Never /\ since # Never
              /\ since # Never => 0 <= since /\ since <= last /\ last <= now
              /\ since # Never => granted * Period <= last - since
              /\ since = Never => granted = 0 /\ last = Never /\ ~life
LedgerInv == TypeOK /\ NonNegative /\ SeenSane /\ GrantsSane /\ LoggedUnlessTorn
=============================================================================
