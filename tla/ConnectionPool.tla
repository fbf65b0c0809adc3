----------------------------- MODULE ConnectionPool -----------------------------
(***************************************************************************)
(* The pool of database connections (db_postgres.py over psycopg2's         *)
(* ThreadedConnectionPool): a thread that finds every connection in use     *)
(* waits, at most DB_POOL_ACQUIRE_TIMEOUT seconds, and a connection that    *)
(* does not answer SELECT 1 is discarded.  Threads nest connections: a      *)
(* service called inside a transaction takes another one.                   *)
(*                                                                         *)
(* The operators are steps of the modules that extend this one.             *)
(***************************************************************************)
EXTENDS Integers, Sequences, FiniteSets

CONSTANTS
  Threads,
  MinConn, MaxConn,  \* DB_POOL_MIN, DB_POOL_MAX
  MaxOutages         \* bound: restarts of the database

ASSUME PoolAssumption == MinConn \in Nat /\ MaxConn \in Nat \ {0} /\ MinConn <= MaxConn /\ MaxOutages \in Nat

VARIABLES
  ready, stale,  \* idle connections, and idle ones whose socket is dead
  held,          \* thread -> the connections it holds, innermost last: alive or not
  outages

pool == <<ready, stale, held, outages>>

PoolInit ==
  /\ ready = MinConn /\ stale = 0 /\ outages = 0
  /\ held = [t \in Threads |-> <<>>]

InHand == UNION {{t} \X DOMAIN held[t] : t \in Threads}
InUse == Cardinality(InHand)
Exhausted == ready + stale = 0 /\ InUse = MaxConn

\* getconn, with the health check: an idle connection, or a new one.
Take(t) ==
  /\ ready > 0 \/ (ready + stale = 0 /\ InUse < MaxConn)
  /\ ready' = (IF ready > 0 THEN ready - 1 ELSE 0)
  /\ held' = [held EXCEPT ![t] = Append(@, TRUE)]
  /\ UNCHANGED <<stale, outages>>

\* A dead connection is dropped; the thread goes on waiting.
Discard ==
  /\ stale > 0 /\ stale' = stale - 1
  /\ UNCHANGED <<ready, held, outages>>

\* The wait is over: PoolError.
TimedOut == Exhausted /\ UNCHANGED pool

\* Mutant: only what was not broken is given back.
BackAlive(s) == IF s[Len(s)] THEN SubSeq(s, 1, Len(s) - 1) ELSE s

\* The innermost connection goes back.
Back(s) == SubSeq(s, 1, Len(s) - 1)
Innermost(t) == held[t][Len(held[t])]
Kept == ready + stale < MinConn

\* putconn(close=True), after an error of the connection.
Close(t) == held' = [held EXCEPT ![t] = Back(@)] /\ UNCHANGED <<ready, stale, outages>>

\* putconn: rolled back and kept, or closed when broken or when enough are idle.
\* Who has not noticed that it is broken may keep it in the pool.
Return(t) ==
  /\ held' = [held EXCEPT ![t] = Back(@)]
  /\ ready' = ready + (IF Innermost(t) /\ Kept THEN 1 ELSE 0)
  /\ stale' \in {stale} \cup (IF ~Innermost(t) /\ Kept THEN {stale + 1} ELSE {})
  /\ UNCHANGED outages

\* The database restarts: every connection is dead.
Outage ==
  /\ outages < MaxOutages /\ outages' = outages + 1
  /\ stale' = stale + ready /\ ready' = 0
  /\ held' = [t \in Threads |-> [i \in DOMAIN held[t] |-> FALSE]]

\* No more connections than the pool may open, and no more idle than it keeps.
PoolInv ==
  /\ ready \in Nat /\ stale \in Nat /\ held \in [Threads -> Seq(BOOLEAN)] /\ outages \in 0..MaxOutages
  /\ InUse <= MaxConn /\ ready + stale <= MinConn
=============================================================================
