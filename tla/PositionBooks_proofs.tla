-------------------------- MODULE PositionBooks_proofs --------------------------
(***************************************************************************)
(* For any strategies, markets, workers and quantities: while nothing      *)
(* crossed an unbooked fill and nothing came from outside, a sync changes  *)
(* nothing, and the rows of a strategy that has a market for itself are    *)
(* the position on the exchange.                                           *)
(***************************************************************************)
EXTENDS PositionBooks, TLAPS

LEMMA BooksInitially == BooksInit => BooksInv
<1> SUFFICES ASSUME BooksInit PROVE BooksInv
  OBVIOUS
<1>1. Nobody \in Strategies
  BY BooksAssumption DEF Nobody
<1>2. BooksTypeOK
  BY <1>1, BooksAssumption DEF BooksInit, BooksTypeOK, NoRows, Flat, NoOrder, OrderOf
<1>3. BooksShape
  BY <1>1 DEF BooksInit, BooksShape, Flat
<1>5. NoRowElsewhere
  BY BooksAssumption DEF BooksInit, NoRowElsewhere, NoRows, Keys
<1>4. \A s \in team : \A m \in Trades[s] : Uncrossed(s, m) /\ OwnFill(s, m)
  <2> SUFFICES ASSUME NEW s \in team, NEW m \in Trades[s] PROVE Uncrossed(s, m) /\ OwnFill(s, m)
    OBVIOUS
  <2>1. s \in Strategies /\ m \in Markets
    BY BooksAssumption DEF BooksInit
  <2> QED BY <2>1 DEF BooksInit, Uncrossed, OwnFill, NoRows, Flat, Filling, Keys
<1> QED BY <1>2, <1>3, <1>4, <1>5 DEF BooksInv

-----------------------------------------------------------------------------
(* Types and shape *)

LEMMA BooksTyped ==
  ASSUME BooksInv, BooksNext
  PROVE  BooksTypeOK'
<1> USE BooksAssumption
<1>0. Nobody \in Strategies /\ team \subseteq Strategies
  BY DEF Nobody, BooksInv, BooksTypeOK
<1>1. CASE Outside
  BY <1>1 DEF Outside, Event, BooksInv, BooksTypeOK
<1>2. ASSUME NEW p \in Procs, NEW scope \in SUBSET Strategies, NEW next \in OrderOf \cup {NoOrder},
             SyncRead(p, scope, next),
             UNCHANGED <<team, account, rows, gone, cursor, view, current, booked>>, events' \in Nat
      PROVE  BooksTypeOK'
  <2>1. snapshot' \in [Procs -> [Keys -> Nat]]
    BY <1>2 DEF SyncRead, BooksInv, BooksTypeOK
  <2> QED BY <1>2, <2>1 DEF SyncRead, BooksInv, BooksTypeOK, OthersFilling
<1>3. ASSUME NEW p \in Procs, SyncAll(p) PROVE BooksTypeOK'
  <2>1. events' \in Nat /\ NoOrder \in OrderOf \cup {NoOrder}
    BY <1>3 DEF SyncAll, BooksInv, BooksTypeOK
  <2> QED BY <1>0, <1>2, <1>3, <2>1 DEF SyncAll
<1>4. ASSUME NEW p \in Procs, SyncOne(p) PROVE BooksTypeOK'
  <2>1. events' \in Nat /\ NoOrder \in OrderOf \cup {NoOrder}
    BY <1>4 DEF SyncOne, Event, BooksInv, BooksTypeOK
  <2> QED BY <1>0, <1>2, <1>4, <2>1 DEF SyncOne
<1>5. ASSUME NEW p \in Procs, Dispatch(p) PROVE BooksTypeOK'
  <2>1. PICK s \in team, kind \in {"open", "close"} :
          \E m \in Trades[s] : SyncRead(p, {s}, [kind |-> kind, key |-> <<s, m>>, qty |-> 0])
    BY <1>5 DEF Dispatch
  <2>2. PICK m \in Trades[s] : SyncRead(p, {s}, [kind |-> kind, key |-> <<s, m>>, qty |-> 0])
    BY <2>1
  <2>3. [kind |-> kind, key |-> <<s, m>>, qty |-> 0] \in OrderOf
    BY <1>0 DEF OrderOf, Keys
  <2>4. events' \in Nat /\ {s} \in SUBSET Strategies
    BY <1>0, <1>5 DEF Dispatch, Event, BooksInv, BooksTypeOK
  <2> QED BY <1>2, <1>5, <2>2, <2>3, <2>4 DEF Dispatch
<1>6. ASSUME NEW p \in Procs, SyncFetch(p) PROVE BooksTypeOK'
  <2>1. \A s \in todo[p] : AnswerFor(s) \in [Markets -> Nat]
    BY DEF AnswerFor, Flat, BooksInv, BooksTypeOK
  <2> QED BY <1>6, <2>1 DEF SyncFetch, BooksInv, BooksTypeOK
<1>7. ASSUME NEW p \in Procs, NEW s \in Strategies, NEW dead \in SUBSET Keys, Leave(p, s), Forget(dead),
             rows' \in [Keys -> Nat], UNCHANGED <<team, account, order, current, crossed, booked>>,
             events' \in Nat
      PROVE  BooksTypeOK'
  <2>1. /\ todo' \in [Procs -> SUBSET Strategies] /\ view' \in [Procs -> [Markets -> Nat]]
        /\ cursor' \in [Procs -> Strategies]
    BY <1>0, <1>7 DEF Leave, Flat, BooksInv, BooksTypeOK
  <2>2. busy' \in [Procs -> {"idle", "sync", "fetched", "order", "filled", "booking"}]
    BY <1>7 DEF Leave, BooksInv, BooksTypeOK
  <2>3. snapshot' \in [Procs -> [Keys -> Nat]]
    BY <1>7 DEF Leave, BooksInv, BooksTypeOK
  <2>4. gone' \in [Procs -> SUBSET Keys]
    BY <1>7 DEF Forget, BooksInv, BooksTypeOK
  <2> QED BY <1>7, <2>1, <2>2, <2>3, <2>4 DEF BooksInv, BooksTypeOK
<1>8. ASSUME NEW p \in Procs, SyncSkip(p) PROVE BooksTypeOK'
  <2>1. PICK s \in todo[p] : Leave(p, s)
    BY <1>8 DEF SyncSkip
  <2>2. s \in Strategies /\ events' \in Nat /\ rows' \in [Keys -> Nat]
    BY <1>8 DEF SyncSkip, Event, BooksInv, BooksTypeOK
  <2> QED BY <1>7, <1>8, <2>1, <2>2 DEF SyncSkip
<1>14. ASSUME NEW p \in Procs, SyncPass(p) PROVE BooksTypeOK'
  <2>1. PICK s \in todo[p] : Leave(p, s)
    BY <1>14 DEF SyncPass
  <2>2. s \in Strategies /\ events' \in Nat /\ rows' \in [Keys -> Nat]
    BY <1>14 DEF SyncPass, BooksInv, BooksTypeOK
  <2> QED BY <1>7, <1>14, <2>1, <2>2 DEF SyncPass
<1>9. ASSUME NEW p \in Procs, SyncApply(p) PROVE BooksTypeOK'
  <2>0. PICK repriced \in SUBSET Markets :
          rows' = rows \/ rows' = [k \in Keys |-> Reconciled(p, cursor[p], repriced, k)]
    BY <1>9 DEF SyncApply
  <2>1. \A k \in Keys : Reconciled(p, cursor[p], repriced, k) \in Nat
    <3>1. view[p] \in [Markets -> Nat] /\ \A k \in Keys : rows[k] \in Nat /\ k[2] \in Markets
      BY <1>9 DEF Keys, BooksInv, BooksTypeOK
    <3> QED BY <3>1 DEF Reconciled
  <2>2. rows' \in [Keys -> Nat]
    BY <2>0, <2>1 DEF BooksInv, BooksTypeOK
  <2>3. /\ cursor[p] \in Strategies /\ events' \in Nat /\ Leave(p, cursor[p])
        /\ Forget({k \in Keys : rows[k] > 0 /\ rows'[k] = 0})
        /\ UNCHANGED <<team, account, order, current, crossed, booked>>
    BY <1>9 DEF SyncApply, BooksInv, BooksTypeOK
  <2> QED BY <1>7, <2>2, <2>3
<1>10. ASSUME NEW p \in Procs, Refused(p) PROVE BooksTypeOK'
  BY <1>10 DEF Refused, BooksInv, BooksTypeOK
<1>11. ASSUME NEW p \in Procs, Execute(p) PROVE BooksTypeOK'
  <2>1. PICK q \in Lots :
          /\ order[p].kind = "close" => q <= account[order[p].key[2]]
          /\ account' = [account EXCEPT ![order[p].key[2]] = IF order[p].kind = "open" THEN @ + q ELSE @ - q]
          /\ order' = [order EXCEPT ![p].qty = q]
          /\ crossed' \subseteq crossed \cup {order[p].key[2]}
    BY <1>11 DEF Execute
  <2>2. q \in Nat /\ order[p] \in OrderOf
    BY <1>11 DEF Execute, BooksInv, BooksShape, BooksTypeOK
  <2>3. order'[p] \in OrderOf /\ order[p].key \in Keys /\ order[p].key[2] \in Markets
    BY <2>1, <2>2 DEF OrderOf, Keys, BooksInv, BooksTypeOK
  <2>4. account' \in [Markets -> Nat]
    BY <2>1, <2>2, <2>3 DEF BooksInv, BooksTypeOK, OrderOf
  <2> QED BY <1>11, <2>1, <2>3, <2>4 DEF Execute, BooksInv, BooksTypeOK
<1>12. ASSUME NEW p \in Procs, BookRead(p) PROVE BooksTypeOK'
  <2>1. order[p].key \in Keys
    BY <1>12 DEF BookRead, BooksInv, BooksShape, BooksTypeOK, OrderOf
  <2> QED BY <1>12, <2>1 DEF BookRead, BooksInv, BooksTypeOK
<1>13. ASSUME NEW p \in Procs, BookWrite(p) PROVE BooksTypeOK'
  <2>1. order[p] \in OrderOf /\ order[p].key \in Keys /\ current[p] \in Nat
    BY <1>13 DEF BookWrite, BooksInv, BooksShape, BooksTypeOK, OrderOf
  <2>2. Written(p) \in Nat
    BY <2>1 DEF Written, OrderOf
  <2>3. gone' \in [Procs -> SUBSET Keys]
    BY <1>13, <2>1 DEF BookWrite, Forget, BooksInv, BooksTypeOK
  <2> QED BY <1>13, <2>1, <2>2, <2>3 DEF BookWrite, BooksInv, BooksTypeOK
<1> QED BY <1>1, <1>3, <1>4, <1>5, <1>6, <1>8, <1>9, <1>10, <1>11, <1>12, <1>13, <1>14
        DEF BooksNext, SyncWork, OrderWork

LEMMA BooksShaped ==
  ASSUME BooksInv, BooksNext
  PROVE  BooksShape'
<1> USE DEF BooksInv, BooksTypeOK, BooksShape
<1>1. CASE Outside
  BY <1>1 DEF Outside
<1>2. ASSUME NEW p \in Procs, NEW scope \in SUBSET team, NEW next, busy[p] = "idle",
             next # NoOrder => next.key[1] \in team /\ next.key[2] \in Trades[next.key[1]],
             SyncRead(p, scope, next),
             UNCHANGED <<team, account, rows, gone, cursor, view, current, booked>>
      PROVE  BooksShape'
  BY <1>2 DEF SyncRead
<1>3. ASSUME NEW p \in Procs, SyncAll(p) PROVE BooksShape'
  BY <1>2, <1>3 DEF SyncAll
<1>4. ASSUME NEW p \in Procs, SyncOne(p) PROVE BooksShape'
  <2>1. PICK s \in team : SyncRead(p, {s}, NoOrder)
    BY <1>4 DEF SyncOne
  <2>2. {s} \in SUBSET team
    OBVIOUS
  <2>3. busy[p] = "idle" /\ UNCHANGED <<team, account, rows, gone, cursor, view, current, booked>>
    BY <1>4 DEF SyncOne
  <2> QED BY <1>2, <2>1, <2>2, <2>3
<1>5. ASSUME NEW p \in Procs, Dispatch(p) PROVE BooksShape'
  <2>1. PICK s \in team, kind \in {"open", "close"} :
          \E m \in Trades[s] : SyncRead(p, {s}, [kind |-> kind, key |-> <<s, m>>, qty |-> 0])
    BY <1>5 DEF Dispatch
  <2>2. PICK m \in Trades[s] : SyncRead(p, {s}, [kind |-> kind, key |-> <<s, m>>, qty |-> 0])
    BY <2>1
  <2>3. {s} \in SUBSET team
    OBVIOUS
  <2> DEFINE next == [kind |-> kind, key |-> <<s, m>>, qty |-> 0]
  <2>4. next.key[1] \in team /\ next.key[2] \in Trades[next.key[1]]
    OBVIOUS
  <2> HIDE DEF next
  <2>5. busy[p] = "idle" /\ UNCHANGED <<team, account, rows, gone, cursor, view, current, booked>>
    BY <1>5 DEF Dispatch
  <2>6. SyncRead(p, {s}, next)
    BY <2>2 DEF next
  <2> QED BY <1>2, <2>3, <2>4, <2>5, <2>6
<1>6. ASSUME NEW p \in Procs, SyncFetch(p) PROVE BooksShape'
  BY <1>6 DEF SyncFetch, AnswerFor
<1>7. ASSUME NEW p \in Procs, NEW s, NEW dead, Leave(p, s), Forget(dead),
             busy[p] \in {"sync", "fetched"}, UNCHANGED <<team, order>>
      PROVE  BooksShape'
  BY <1>7 DEF Leave, Forget
<1>8. ASSUME NEW p \in Procs, SyncSkip(p) PROVE BooksShape'
  BY <1>7, <1>8 DEF SyncSkip
<1>14. ASSUME NEW p \in Procs, SyncPass(p) PROVE BooksShape'
  BY <1>7, <1>14 DEF SyncPass
<1>9. ASSUME NEW p \in Procs, SyncApply(p) PROVE BooksShape'
  BY <1>7, <1>9 DEF SyncApply
<1>10. ASSUME NEW p \in Procs, Refused(p) PROVE BooksShape'
  BY <1>10 DEF Refused
<1>11. ASSUME NEW p \in Procs, Execute(p) PROVE BooksShape'
  <2>1. PICK q \in Lots : order' = [order EXCEPT ![p].qty = q] /\ busy' = [busy EXCEPT ![p] = "filled"]
    BY <1>11 DEF Execute
  <2>2. /\ busy[p] = "order" /\ order[p] \in OrderOf /\ order[p] # NoOrder
        /\ UNCHANGED <<team, todo, gone, cursor, view>>
    BY <1>11 DEF Execute, OrderOf, NoOrder
  <2>3. /\ order'[p].key = order[p].key /\ order'[p].kind = order[p].kind
        /\ busy'[p] = "filled"
    BY <2>1, <2>2 DEF OrderOf
  <2>4. order'[p] # NoOrder
    BY <2>2, <2>3 DEF OrderOf, NoOrder
  <2>5. \A r \in Procs \ {p} : order'[r] = order[r] /\ busy'[r] = busy[r]
    BY <2>1
  <2>6. ASSUME NEW r \in Procs, r # p
        PROVE  /\ busy'[r] \in {"order", "filled", "booking"} => order'[r] # NoOrder
               /\ order'[r] # NoOrder => order'[r].key[1] \in team /\ order'[r].key[2] \in Trades[order'[r].key[1]]
    BY <2>5, <2>6
  <2>7. order'[p].key[1] \in team /\ order'[p].key[2] \in Trades[order'[p].key[1]] /\ todo[p] = {}
    BY <2>2, <2>3
  <2> QED BY <2>2, <2>3, <2>4, <2>5, <2>6, <2>7
<1>12. ASSUME NEW p \in Procs, BookRead(p) PROVE BooksShape'
  BY <1>12 DEF BookRead
<1>13. ASSUME NEW p \in Procs, BookWrite(p) PROVE BooksShape'
  BY <1>13 DEF BookWrite, Forget
<1> QED BY <1>1, <1>3, <1>4, <1>5, <1>6, <1>8, <1>9, <1>10, <1>11, <1>12, <1>13, <1>14
        DEF BooksNext, SyncWork, OrderWork

-----------------------------------------------------------------------------
(* Markets a strategy does not trade *)

LEMMA NoRowElsewhereKept ==
  ASSUME BooksInv, BooksNext
  PROVE  NoRowElsewhere'
<1>0. team' = team
  BY DEF BooksNext, Outside, SyncWork, OrderWork, SyncAll, SyncOne, SyncFetch, SyncPass, SyncSkip, SyncApply,
         Dispatch, Refused, Execute, BookRead, BookWrite
<1> SUFFICES ASSUME NEW s \in team, NEW m \in Markets \ Trades[s]
             PROVE  rows'[<<s, m>>] = 0 /\ \A p \in Procs : snapshot'[p][<<s, m>>] = 0
  BY <1>0 DEF NoRowElsewhere
<1> DEFINE k == <<s, m>>
<1>1. /\ k \in Keys /\ rows[k] = 0 /\ \A p \in Procs : snapshot[p][k] = 0
      /\ BooksTypeOK /\ BooksShape
  BY BooksAssumption DEF BooksInv, BooksTypeOK, NoRowElsewhere, Keys
<1> SUFFICES rows'[k] = 0 /\ \A p \in Procs : snapshot'[p][k] = 0
  OBVIOUS
<1>2. ASSUME UNCHANGED <<rows, snapshot>> PROVE rows'[k] = 0 /\ \A p \in Procs : snapshot'[p][k] = 0
  BY <1>1, <1>2
<1>3. ASSUME NEW p \in Procs, NEW scope, NEW next, SyncRead(p, scope, next)
      PROVE  \A q \in Procs : snapshot'[q][k] = 0
  BY <1>1, <1>3 DEF SyncRead, BooksTypeOK
<1>4. ASSUME NEW p \in Procs, NEW t, Leave(p, t) PROVE \A q \in Procs : snapshot'[q][k] = 0
  BY <1>1, <1>4 DEF Leave, BooksTypeOK
<1>5. ASSUME NEW p \in Procs, SyncAll(p) \/ SyncOne(p) \/ Dispatch(p)
      PROVE  rows'[k] = 0 /\ \A q \in Procs : snapshot'[q][k] = 0
  BY <1>1, <1>3, <1>5 DEF SyncAll, SyncOne, Dispatch
<1>6. ASSUME NEW p \in Procs, SyncApply(p)
      PROVE  rows'[k] = 0 /\ \A q \in Procs : snapshot'[q][k] = 0
  <2>1. PICK repriced \in SUBSET {n \in Markets : snapshot[p][<<cursor[p], n>>] > 0 /\ view[p][n] > 0} :
          Leave(p, cursor[p]) /\ (rows' = rows \/ rows'[k] = Reconciled(p, cursor[p], repriced, k))
    BY <1>1, <1>6 DEF SyncApply
  <2>2. Reconciled(p, cursor[p], repriced, k) = rows[k]
    <3>1. snapshot[p][<<s, m>>] = 0 /\ m \notin Trades[s]
      BY <1>1
    <3>2. m \notin Deletes(p, s) \cup Updates(p, s, repriced) \cup Inserts(p, s)
      BY <3>1 DEF Deletes, Updates, Inserts
    <3> QED BY <3>2 DEF Reconciled
  <2> QED BY <1>1, <1>4, <2>1, <2>2
<1>7. ASSUME NEW p \in Procs, BookWrite(p)
      PROVE  rows'[k] = 0 /\ \A q \in Procs : snapshot'[q][k] = 0
  <2>1. order[p].key # k
    BY <1>7 DEF BookWrite, BooksInv, BooksShape
  <2> QED BY <1>1, <1>7, <2>1 DEF BookWrite, BooksTypeOK
<1>8. ASSUME NEW p \in Procs, SyncSkip(p) \/ SyncPass(p)
      PROVE  rows'[k] = 0 /\ \A q \in Procs : snapshot'[q][k] = 0
  BY <1>1, <1>4, <1>8 DEF SyncSkip, SyncPass
<1> HIDE DEF k
<1> QED BY <1>2, <1>5, <1>6, <1>7, <1>8
        DEF BooksNext, SyncWork, OrderWork, Outside, SyncFetch, Refused, Execute, BookRead

-----------------------------------------------------------------------------
(* A market one strategy has for itself, uncrossed before and after the step *)

\* The sync takes in nothing there that the strategy did not book, even under the
\* exchange's own symbols.
LEMMA OwnFillKept ==
  ASSUME BooksInv, BooksNext, NEW s \in team', NEW m \in Trades[s] \ crossed', Exclusive(m)'
  PROVE  OwnFill(s, m)'
<1> DEFINE k == <<s, m>>
<1>0. /\ team' = team /\ s \in Strategies /\ m \in Markets /\ k \in Keys
      /\ OwnFill(s, m) /\ (Client[s] # "renamed" => Uncrossed(s, m))
      /\ (k \in booked => k \in booked')
  <2>1. team' = team /\ booked \subseteq booked'
    BY DEF BooksNext, Outside, SyncWork, OrderWork, SyncAll, SyncOne, SyncFetch, SyncPass, SyncSkip,
           SyncApply, Dispatch, Refused, Execute, BookRead, BookWrite
  <2>2. crossed \subseteq crossed'
    BY DEF BooksNext, Outside, SyncWork, OrderWork, SyncAll, SyncOne, SyncFetch, SyncPass, SyncSkip,
           SyncApply, Dispatch, Refused, Execute, BookRead, BookWrite, SyncRead
  <2>3. s \in Strategies /\ m \in Markets
    BY <2>1, BooksAssumption DEF BooksInv, BooksTypeOK
  <2> QED BY <2>1, <2>2, <2>3 DEF BooksInv, Exclusive, Keys
<1> HIDE DEF k
<1>1. ASSUME rows'[k] = rows[k] \/ rows'[k] = 0 \/ k \in booked' PROVE OwnFill(s, m)'
  BY <1>0, <1>1 DEF OwnFill, k
<1>2. ASSUME NEW p \in Procs, SyncApply(p) PROVE OwnFill(s, m)'
  <2>1. PICK repriced \in SUBSET Markets :
          rows' = rows \/ rows'[k] = Reconciled(p, cursor[p], repriced, k)
    BY <1>0, <1>2 DEF SyncApply
  <2>2. CASE cursor[p] # s
    BY <1>1, <2>1, <2>2 DEF Reconciled, k
  <2>3. CASE cursor[p] = s /\ Client[s] = "renamed"
    <3>1. view[p][m] = 0
      BY <1>0, <2>3 DEF BooksInv, BooksShape, Flat
    <3>2. m \notin Updates(p, s, repriced) /\ m \notin Inserts(p, s)
      BY <3>1 DEF Updates, Inserts
    <3> QED BY <1>1, <2>1, <2>3, <3>2 DEF Reconciled, k
  <2>4. CASE cursor[p] = s /\ Client[s] # "renamed"
    <3>1. s \in todo[p] /\ m \in Syncing(p) /\ busy[p] = "fetched"
      BY <1>0, <1>2, <2>4 DEF SyncApply, BooksInv, BooksShape, Syncing
    <3>2. \A q \in Procs : m \notin Filling(q)
      BY <1>0, <2>4, <3>1 DEF Uncrossed, OthersSyncing, Filling
    <3>3. snapshot[p][k] = rows[k] /\ view[p][m] = rows[k]
      BY <1>0, <2>4, <3>1, <3>2 DEF Uncrossed, k
    <3>4. rows[k] \in Nat /\ snapshot[p][k] \in Nat /\ view[p][m] \in Nat
      BY <1>0 DEF BooksInv, BooksTypeOK
    <3>5. m \notin Inserts(p, s)
      BY <3>3, <3>4 DEF Inserts, k
    <3>6. Reconciled(p, s, repriced, k) \in {0, rows[k]}
      BY <3>3, <3>5 DEF Reconciled, k
    <3> QED BY <1>1, <2>1, <2>4, <3>6
  <2> QED BY <2>2, <2>3, <2>4
<1>3. ASSUME NEW p \in Procs, BookWrite(p) PROVE OwnFill(s, m)'
  BY <1>0, <1>1, <1>3 DEF BookWrite, BooksInv, BooksTypeOK
<1>4. ASSUME UNCHANGED rows PROVE OwnFill(s, m)'
  BY <1>1, <1>4
<1> QED BY <1>2, <1>3, <1>4
        DEF BooksNext, SyncWork, OrderWork, Outside, SyncAll, SyncOne, SyncFetch, SyncPass, SyncSkip,
            Dispatch, Refused, Execute, BookRead

LEMMA UncrossedKept ==
  ASSUME BooksInv, BooksNext, NEW s \in team', NEW m \in Trades[s] \ crossed', Exclusive(m)',
         Client[s] # "renamed"
  PROVE  Uncrossed(s, m)'
<1> DEFINE k == <<s, m>>
<1>0. /\ team' = team /\ s \in Strategies /\ m \in Markets /\ k \in Keys
      /\ crossed \subseteq crossed' /\ Exclusive(m) /\ Uncrossed(s, m)
  <2>1. team' = team
    BY DEF BooksNext, Outside, SyncWork, OrderWork, SyncAll, SyncOne, SyncFetch, SyncPass, SyncSkip, SyncApply,
           Dispatch, Refused, Execute, BookRead, BookWrite
  <2>2. crossed \subseteq crossed'
    BY DEF BooksNext, Outside, SyncWork, OrderWork, SyncAll, SyncOne, SyncFetch, SyncPass, SyncSkip, SyncApply,
           Dispatch, Refused, Execute, BookRead, BookWrite, SyncRead
  <2>3. s \in Strategies /\ m \in Markets
    BY <2>1, BooksAssumption DEF BooksInv, BooksTypeOK
  <2> QED BY <2>1, <2>2, <2>3 DEF BooksInv, Exclusive, Keys
<1> HIDE DEF k
<1>a. /\ BooksTypeOK /\ BooksShape
      /\ \A p \in Procs : m \in Filling(p) => order[p].key = k /\ order[p] \in OrderOf
  <2>1. SUFFICES ASSUME NEW p \in Procs, m \in Filling(p)
                 PROVE  order[p].key = k /\ order[p] \in OrderOf
    BY DEF BooksInv
  <2>2. /\ order[p] \in OrderOf /\ order[p].key[2] = m
        /\ order[p].key[1] \in team /\ m \in Trades[order[p].key[1]]
    BY <2>1 DEF Filling, BooksInv, BooksTypeOK, BooksShape
  <2>3. order[p].key[1] = s
    BY <1>0, <2>2 DEF Exclusive
  <2> QED BY <2>2, <2>3 DEF OrderOf, Keys, k
<1> USE <1>0, <1>a DEF Uncrossed, k
<1>1. CASE Outside
  BY <1>1 DEF Outside, Filling, OthersFilling, OthersSyncing, Syncing, BooksTypeOK
<1>2. ASSUME NEW p \in Procs, NEW scope, NEW next, busy[p] = "idle",
             SyncRead(p, scope, next),
             UNCHANGED <<team, account, rows, gone, cursor, view, current, booked>>
      PROVE  Uncrossed(s, m)'
  <2>1. \A q \in Procs : Filling(q)' = Filling(q)
    BY <1>2 DEF SyncRead, Filling, BooksTypeOK
  <2>2. \A q \in Procs : m \in Filling(q) => q # p
    BY <1>2 DEF Filling
  <2>3. \A q \in Procs \ {p} : /\ busy'[q] = busy[q] /\ order'[q] = order[q] /\ todo'[q] = todo[q]
                               /\ snapshot'[q] = snapshot[q]
    BY <1>2 DEF SyncRead, BooksTypeOK
  <2>4. todo'[p] = scope /\ busy'[p] = "sync" /\ (s \in scope => snapshot'[p][k] = rows[k])
    BY <1>2 DEF SyncRead, BooksTypeOK
  <2>5. k \notin gone[p]
    BY <1>2 DEF BooksShape
  <2>6. s \in scope => m \notin OthersFilling(p)
    BY <1>2 DEF SyncRead
  <2>7. \A t \in scope : m \in Trades[t] => m \notin OthersFilling(p)
    BY <1>2 DEF SyncRead
  <2>8. \A q \in Procs : m \in Filling(q) => m \notin (OthersSyncing(q) \cup OthersFilling(q))'
    BY <1>2, <2>1, <2>2, <2>3, <2>4, <2>7 DEF OthersSyncing, OthersFilling, Syncing
  <2>9. \A q \in Procs : s \in todo'[q] =>
          /\ snapshot'[q][k] = rows'[k] /\ k \notin gone'[q]
          /\ busy'[q] = "fetched" /\ cursor'[q] = s => view'[q][m] = account'[m]
    BY <1>2, <2>3, <2>4, <2>5
  <2> QED BY <1>2, <2>1, <2>2, <2>3, <2>8, <2>9
<1>3. ASSUME NEW p \in Procs, SyncAll(p) \/ SyncOne(p) \/ Dispatch(p) PROVE Uncrossed(s, m)'
  BY <1>2, <1>3 DEF SyncAll, SyncOne, Dispatch
<1>4. ASSUME NEW p \in Procs, SyncFetch(p) PROVE Uncrossed(s, m)'
  <2>1. \A q \in Procs : Filling(q)' = Filling(q) /\ Syncing(q)' = Syncing(q)
    BY <1>4 DEF SyncFetch, Filling, Syncing, BooksTypeOK
  <2>2. \A q \in Procs : /\ OthersFilling(q)' = OthersFilling(q)
                         /\ OthersSyncing(q)' = OthersSyncing(q)
    BY <2>1 DEF OthersFilling, OthersSyncing
  <2>3. \A q \in Procs : busy'[q] = "fetched" /\ cursor'[q] = s =>
          \/ busy[q] = "fetched" /\ cursor[q] = s /\ view'[q] = view[q]
          \/ view'[q] = account
    <3>1. PICK t \in todo[p] : /\ Client[t] # "skipped" /\ cursor' = [cursor EXCEPT ![p] = t]
                               /\ view' = [view EXCEPT ![p] = AnswerFor(t)]
                               /\ busy' = [busy EXCEPT ![p] = "fetched"]
      BY <1>4 DEF SyncFetch
    <3>2. Client[s] = "named" \/ Client[s] = "skipped"
      BY BooksAssumption
    <3>3. t = s => view'[p] = account
      BY <3>1, <3>2 DEF BooksTypeOK, AnswerFor
    <3> QED BY <3>1, <3>3 DEF BooksTypeOK
  <2>4. \A q \in Procs : m \in Filling(q) => busy'[q] = busy[q]
    BY <1>4 DEF SyncFetch, Filling
  <2> QED BY <1>4, <2>1, <2>2, <2>3, <2>4 DEF SyncFetch
<1>5. ASSUME NEW p \in Procs, NEW t, NEW dead, Leave(p, t), Forget(dead), k \notin dead, rows'[k] = rows[k],
             busy[p] \in {"sync", "fetched"}, UNCHANGED <<account, order, current, booked>>
      PROVE  Uncrossed(s, m)'
  <2>1. \A q \in Procs : Filling(q)' = Filling(q) /\ Syncing(q)' \subseteq Syncing(q)
    BY <1>5 DEF Leave, Filling, Syncing, BooksTypeOK
  <2>2. \A q \in Procs : k \in gone'[q] => k \in gone[q]
    BY <1>5 DEF Forget
  <2>3. \A q \in Procs : s \in todo'[q] => s \in todo[q] /\ snapshot'[q][k] = snapshot[q][k]
    BY <1>5 DEF Leave, BooksTypeOK
  <2>4. \A q \in Procs : busy'[q] = "fetched" =>
          busy[q] = "fetched" /\ view'[q] = view[q] /\ cursor'[q] = cursor[q]
    BY <1>5 DEF Leave, BooksTypeOK
  <2>5. \A q \in Procs : m \in Filling(q) => busy'[q] = busy[q]
    BY <1>5 DEF Leave, Filling, BooksTypeOK
  <2> QED BY <1>5, <2>1, <2>2, <2>3, <2>4, <2>5 DEF OthersFilling, OthersSyncing
<1>6. ASSUME NEW p \in Procs, SyncSkip(p) \/ SyncPass(p) PROVE Uncrossed(s, m)'
  BY <1>5, <1>6 DEF SyncSkip, SyncPass
<1>7. ASSUME NEW p \in Procs, SyncApply(p) PROVE Uncrossed(s, m)'
  <2>0. PICK repriced \in SUBSET Markets :
          rows' = rows \/ rows' = [l \in Keys |-> Reconciled(p, cursor[p], repriced, l)]
    BY <1>7 DEF SyncApply
  <2>1. Reconciled(p, cursor[p], repriced, k) = rows[k]
    <3>1. CASE cursor[p] # s
      BY <3>1 DEF Reconciled
    <3>2. CASE cursor[p] = s
      <4>1. s \in todo[p] /\ m \in Syncing(p)
        BY <1>7, <3>2 DEF SyncApply, BooksShape, Syncing
      <4>2. \A q \in Procs : m \notin Filling(q)
        BY <1>7, <4>1 DEF SyncApply, OthersSyncing, Filling
      <4>3. snapshot[p][k] = rows[k] /\ view[p][m] = rows[k]
        BY <1>7, <3>2, <4>1, <4>2 DEF SyncApply
      <4>4. rows[k] \in Nat /\ view[p][m] \in Nat /\ snapshot[p][k] \in Nat
        BY DEF BooksTypeOK
      <4>5. m \notin Deletes(p, s) /\ m \notin Inserts(p, s)
        BY <4>3, <4>4 DEF Deletes, Inserts
      <4> QED BY <3>2, <4>3, <4>5 DEF Reconciled
    <3> QED BY <3>1, <3>2
  <2>2. rows'[k] = rows[k]
    BY <2>0, <2>1
  <2>3. /\ Leave(p, cursor[p]) /\ Forget({l \in Keys : rows[l] > 0 /\ rows'[l] = 0})
        /\ UNCHANGED <<account, order, current, booked>> /\ busy[p] = "fetched"
    BY <1>7 DEF SyncApply
  <2>4. k \notin {l \in Keys : rows[l] > 0 /\ rows'[l] = 0}
    BY <2>2 DEF BooksTypeOK
  <2> QED BY <1>5, <2>2, <2>3, <2>4
<1>8. ASSUME NEW p \in Procs, Refused(p) PROVE Uncrossed(s, m)'
  <2>1. \A q \in Procs : Filling(q)' = Filling(q) /\ Syncing(q)' = Syncing(q)
    BY <1>8 DEF Refused, Filling, Syncing, BooksTypeOK
  <2>2. \A q \in Procs : /\ OthersFilling(q)' = OthersFilling(q)
                         /\ OthersSyncing(q)' = OthersSyncing(q)
    BY <2>1 DEF OthersFilling, OthersSyncing
  <2>3. \A q \in Procs : m \in Filling(q) => busy'[q] = busy[q] /\ order'[q] = order[q]
    BY <1>8 DEF Refused, Filling
  <2>4. \A q \in Procs : busy'[q] = "fetched" => busy[q] = "fetched"
    BY <1>8 DEF Refused
  <2> QED BY <1>8, <2>1, <2>2, <2>3, <2>4 DEF Refused
<1>9. ASSUME NEW p \in Procs, Execute(p) PROVE Uncrossed(s, m)'
  <2> DEFINE n == order[p].key[2]
  <2>1. PICK q \in Lots :
          /\ order[p].kind = "close" => q <= account[n]
          /\ account' = [account EXCEPT ![n] = IF order[p].kind = "open" THEN @ + q ELSE @ - q]
          /\ order' = [order EXCEPT ![p].qty = q]
          /\ busy' = [busy EXCEPT ![p] = "filled"]
          /\ crossed' = crossed \cup ({n} \cap (OthersSyncing(p) \cup OthersFilling(p)))
    BY <1>9 DEF Execute
  <2>2. /\ order[p] \in OrderOf /\ order[p].key \in Keys /\ q \in Nat /\ n \in Markets
        /\ order[p].key[1] \in team /\ n \in Trades[order[p].key[1]] /\ todo[p] = {}
    <3>1. busy[p] = "order" /\ order[p] \in OrderOf /\ q \in Nat
      BY <1>9, BooksAssumption DEF Execute, BooksTypeOK, BooksShape
    <3>2. order[p].key \in Keys /\ n \in Markets
      BY <3>1 DEF OrderOf, Keys
    <3> QED BY <3>1, <3>2 DEF BooksShape
  <2>3. /\ UNCHANGED <<rows, todo, snapshot, gone, cursor, view, current, booked>> /\ busy[p] = "order"
    BY <1>9 DEF Execute
  <2>4. /\ \A r \in Procs \ {p} : order'[r] = order[r] /\ busy'[r] = busy[r]
        /\ order'[p].key = order[p].key /\ order'[p].kind = order[p].kind /\ order'[p].qty = q
        /\ busy'[p] = "filled"
    BY <2>1, <2>2 DEF BooksTypeOK, OrderOf
  <2>5. \A r \in Procs \ {p} : Filling(r)' = Filling(r)
    BY <2>4 DEF Filling
  <2>6. \A r \in Procs : Syncing(r)' = Syncing(r)
    BY <2>3 DEF Syncing
  <2>7. Filling(p) = {} /\ Filling(p)' = {n} /\ Syncing(p) = {}
    BY <2>2, <2>3, <2>4 DEF Filling, Syncing
  <2>8. CASE n # m
    <3>1. account'[m] = account[m]
      BY <2>1, <2>2, <2>8 DEF BooksTypeOK
    <3> HIDE DEF n
    <3>2. \A r \in Procs : m \in Filling(r)' => /\ m \in Filling(r) /\ r # p
                                            /\ m \notin (OthersSyncing(r) \cup OthersFilling(r))'
      BY <2>5, <2>6, <2>7, <2>8 DEF OthersSyncing, OthersFilling
    <3>3. \A r \in Procs : m \in Filling(r) => m \in Filling(r)'
      BY <2>5, <2>7
    <3> QED BY <2>3, <2>4, <3>1, <3>2, <3>3
  <2>9. CASE n = m
    <3>1. m \notin OthersSyncing(p) /\ m \notin OthersFilling(p)
      BY <2>1, <2>9
    <3>2. \A r \in Procs : m \notin Filling(r)
      BY <2>7, <3>1 DEF OthersFilling
    <3>3. rows[k] = account[m] /\ account[m] \in Nat
      BY <3>2 DEF BooksTypeOK
    <3>4. /\ order'[p].kind = "open" => account'[m] = rows'[k] + order'[p].qty
          /\ order'[p].kind = "close" => rows'[k] = account'[m] + order'[p].qty
      BY <2>1, <2>2, <2>3, <2>4, <2>9, <3>3 DEF BooksTypeOK, OrderOf
    <3>5. \A r \in Procs : m \in Filling(r)' => r = p
      BY <2>5, <3>2
    <3>6. m \notin (OthersSyncing(p) \cup OthersFilling(p))'
      BY <2>5, <2>6, <3>1 DEF OthersSyncing, OthersFilling
    <3>7. \A r \in Procs : s \notin todo[r]
      BY <2>2, <3>1 DEF OthersSyncing, Syncing
    <3>8. m \in Filling(p)'
      BY <2>7, <2>9
    <3> HIDE DEF n
    <3> QED BY <2>3, <2>4, <3>4, <3>5, <3>6, <3>7, <3>8
  <2> QED BY <2>8, <2>9
<1>10. ASSUME NEW p \in Procs, BookRead(p) PROVE Uncrossed(s, m)'
  <2>1. \A q \in Procs : Filling(q)' = Filling(q) /\ Syncing(q)' = Syncing(q)
    BY <1>10 DEF BookRead, Filling, Syncing, BooksTypeOK
  <2>2. m \in Filling(p) => current'[p] = rows[k]
    BY <1>10 DEF BookRead, BooksTypeOK
  <2>3. \A q \in Procs : /\ OthersFilling(q)' = OthersFilling(q)
                         /\ OthersSyncing(q)' = OthersSyncing(q)
    BY <2>1 DEF OthersFilling, OthersSyncing
  <2>4. \A q \in Procs \ {p} : busy'[q] = busy[q] /\ current'[q] = current[q]
    BY <1>10 DEF BookRead
  <2>5. busy'[p] = "booking"
    BY <1>10 DEF BookRead, BooksTypeOK
  <2>6. UNCHANGED <<account, rows, todo, snapshot, gone, cursor, view, order, booked>>
    BY <1>10 DEF BookRead
  <2> QED BY <2>1, <2>2, <2>3, <2>4, <2>5, <2>6
<1>11. ASSUME NEW p \in Procs, BookWrite(p) PROVE Uncrossed(s, m)'
  <2>1. /\ \A q \in Procs : Filling(q)' = IF q = p THEN {} ELSE Filling(q)
        /\ \A q \in Procs : Syncing(q)' = Syncing(q)
    BY <1>11 DEF BookWrite, Filling, Syncing, BooksTypeOK
  <2>2. /\ \A q \in Procs \ {p} : order'[q] = order[q] /\ busy'[q] = busy[q] /\ current'[q] = current[q]
        /\ busy'[p] = "idle"
    BY <1>11 DEF BookWrite, BooksTypeOK
  <2>3. order[p] \in OrderOf /\ order[p].key \in Keys /\ todo[p] = {}
    <3>1. busy[p] = "booking" /\ order[p] \in OrderOf
      BY <1>11 DEF BookWrite, BooksTypeOK, BooksShape
    <3> QED BY <3>1 DEF OrderOf, BooksShape
  <2>4. UNCHANGED <<account, todo, snapshot, cursor, view>>
    BY <1>11 DEF BookWrite
  <2>5. CASE m \notin Filling(p)
    <3>1. order[p].key # k
      BY <1>11, <2>5 DEF BookWrite, Filling
    <3>2. rows'[k] = rows[k] /\ (k \in booked => k \in booked')
      BY <1>11, <3>1 DEF BookWrite, BooksTypeOK
    <3>3. \A q \in Procs : k \in gone'[q] => k \in gone[q]
      BY <1>11, <3>1 DEF BookWrite, Forget
    <3>4. \A q \in Procs : m \in Filling(q) => m \notin (OthersSyncing(q) \cup OthersFilling(q))'
      BY <2>1 DEF OthersFilling, OthersSyncing
    <3>5. \A q \in Procs : m \in Filling(q)' <=> m \in Filling(q)
      BY <2>1, <2>5
    <3>6. \A q \in Procs : busy'[q] = "fetched" => busy[q] = "fetched"
      BY <2>2
    <3>7. \A q \in Procs : m \in Filling(q) => q # p
      BY <2>5
    <3> QED BY <2>2, <2>4, <3>2, <3>3, <3>4, <3>5, <3>6, <3>7
  <2>6. CASE m \in Filling(p)
    <3>1. order[p].key = k /\ current[p] = rows[k]
      BY <1>11, <2>6 DEF BookWrite
    <3>2. \A q \in Procs \ {p} : m \notin Filling(q) /\ m \notin Syncing(q)
      BY <2>6 DEF OthersFilling, OthersSyncing
    <3>3. \A q \in Procs : s \notin todo[q]
      BY <2>3, <3>2 DEF Syncing
    <3>4. rows'[k] = account[m] /\ k \in booked'
      <4>1. /\ order[p].kind = "open" => account[m] = rows[k] + order[p].qty
            /\ order[p].kind = "close" => rows[k] = account[m] + order[p].qty
        BY <2>6
      <4>2. /\ account[m] \in Nat /\ rows[k] \in Nat /\ order[p].qty \in Nat
            /\ order[p].kind \in {"open", "close"}
        BY <2>3 DEF BooksTypeOK, OrderOf
      <4>3. Written(p) = account[m]
        BY <3>1, <4>1, <4>2 DEF Written
      <4> QED BY <1>11, <3>1, <4>3 DEF BookWrite, BooksTypeOK
    <3>5. \A q \in Procs : m \notin Filling(q)'
      BY <2>1, <3>2
    <3> QED BY <2>4, <3>3, <3>4, <3>5
  <2> QED BY <2>5, <2>6
<1> QED BY <1>1, <1>3, <1>4, <1>6, <1>7, <1>8, <1>9, <1>10, <1>11
        DEF BooksNext, SyncWork, OrderWork

-----------------------------------------------------------------------------

LEMMA BooksStep == BooksInv /\ [BooksNext]_booksVars => BooksInv'
<1> SUFFICES ASSUME BooksInv, [BooksNext]_booksVars PROVE BooksInv'
  OBVIOUS
<1>1. CASE BooksNext
  BY <1>1, BooksTyped, BooksShaped, NoRowElsewhereKept, OwnFillKept, UncrossedKept DEF BooksInv
<1>2. CASE UNCHANGED booksVars
  <2>1. BooksTypeOK' /\ BooksShape' /\ NoRowElsewhere'
    BY <1>2 DEF booksVars, BooksInv, BooksTypeOK, BooksShape, NoRowElsewhere
  <2>2. ASSUME NEW s \in team', NEW m \in Trades[s] \ crossed', Exclusive(m)'
        PROVE  OwnFill(s, m)' /\ (Client[s] # "renamed" => Uncrossed(s, m)')
    <3>1. Exclusive(m) /\ OwnFill(s, m) /\ (Client[s] # "renamed" => Uncrossed(s, m))
      BY <1>2, <2>2 DEF booksVars, BooksInv, Exclusive
    <3> QED BY <1>2, <3>1 DEF booksVars, OwnFill, Uncrossed, Filling, Syncing, OthersFilling, OthersSyncing
  <2> QED BY <2>1, <2>2 DEF BooksInv
<1> QED BY <1>1, <1>2

\* The inductive invariant of bookings and syncs.
THEOREM BooksSound == BooksSpec => []BooksInv
BY BooksInitially, BooksStep, PTL DEF BooksSpec

\* The rows of a strategy that has its market for itself are exact until a sync or
\* booking crosses an unbooked fill or something comes from outside, unless the sync
\* looks for its symbols under other names.
THEOREM RowsExact == BooksSpec => []BooksExact
<1>1. BooksInv => BooksExact
  BY DEF BooksInv, BooksExact, Uncrossed
<1> QED BY <1>1, BooksSound, PTL

\* ... and come from its own fills.
THEOREM RowsOwn == BooksSpec => []OwnFillsOnly
<1>1. BooksInv => OwnFillsOnly
  BY BooksAssumption DEF BooksInv, BooksTypeOK, OwnFillsOnly, NoRowElsewhere, OwnFill
<1> QED BY <1>1, BooksSound, PTL

-----------------------------------------------------------------------------
(* What a single sync does *)

\* The tolerance of the correction is the distance at which two sizes count as near.
LEMMA NearOrCorrected ==
  ASSUME NEW local \in Nat \ {0}, NEW exch \in Nat \ {0}
  PROVE  Near(local, exch) <=> ~Diverged(local, exch)
BY BooksAssumption DEF Near, Diverged

LEMMA NearItself == ASSUME NEW n \in Nat PROVE Near(n, n)
BY BooksAssumption DEF Near

LEMMA SyncRepairsStep ==
  ASSUME BooksInv, NEW p \in Procs, NEW s \in team, SyncApply(p), cursor[p] = s, view[p] = account
  PROVE  /\ AgreeOn(s) \/ Fresh(p, s) => AgreeOn(s)'
         /\ AgreeOn(s) /\ Fresh(p, s) =>
              \A k \in Keys : rows'[k] # rows[k] => k[1] = s /\ rows'[k] = account[k[2]]
<1> DEFINE clash == \E m \in Inserts(p, s) : rows[<<s, m>>] > 0
<1>1. /\ s \in Strategies /\ Trades[s] \subseteq Markets /\ account \in [Markets -> Nat]
      /\ rows \in [Keys -> Nat] /\ snapshot[p] \in [Keys -> Nat]
  BY BooksAssumption DEF BooksInv, BooksTypeOK
<1>2. PICK repriced \in SUBSET Markets :
        /\ account' = account
        /\ rows' = IF clash THEN rows ELSE [k \in Keys |-> Reconciled(p, s, repriced, k)]
  BY DEF SyncApply
<1>3. ASSUME NEW m \in Markets
      PROVE  /\ <<s, m>> \in Keys /\ account[m] \in Nat
             /\ rows[<<s, m>>] \in Nat /\ snapshot[p][<<s, m>>] \in Nat
  BY <1>1, <1>3 DEF Keys
<1>4. ASSUME NEW m \in Markets
      PROVE  \/ rows'[<<s, m>>] = rows[<<s, m>>]
             \/ rows'[<<s, m>>] = account[m]
  BY <1>2, <1>3 DEF Reconciled, Deletes
<1>5. ASSUME AgreeOn(s) PROVE AgreeOn(s)'
  BY <1>1, <1>2, <1>3, <1>4, <1>5, NearItself DEF AgreeOn
<1>6. ASSUME Fresh(p, s) PROVE ~clash
  <2> SUFFICES ASSUME NEW m \in Inserts(p, s) PROVE ~(rows[<<s, m>>] > 0)
    BY DEF clash
  <2>1. m \in Markets /\ snapshot[p][<<s, m>>] = 0
    BY <1>1 DEF Inserts
  <2> QED BY <1>6, <2>1 DEF Fresh
<1>7. ASSUME Fresh(p, s) PROVE AgreeOn(s)'
  <2> SUFFICES ASSUME NEW m \in Trades[s] PROVE Near(rows'[<<s, m>>], account[m])
    BY <1>2 DEF AgreeOn
  <2>1. m \in Markets /\ <<s, m>> \notin gone[p] /\ snapshot[p][<<s, m>>] = rows[<<s, m>>]
    BY <1>1, <1>7 DEF Fresh
  <2>2. rows'[<<s, m>>] = Reconciled(p, s, repriced, <<s, m>>)
    BY <1>2, <1>3, <1>6, <1>7, <2>1
  <2>3. CASE rows[<<s, m>>] = 0
    <3>1. rows'[<<s, m>>] = account[m]
      BY <1>3, <2>1, <2>2, <2>3 DEF Reconciled, Deletes, Updates, Inserts
    <3> QED BY <1>3, <2>1, <3>1, NearItself
  <2>4. CASE rows[<<s, m>>] # 0 /\ account[m] = 0
    <3>1. rows'[<<s, m>>] = account[m]
      BY <1>3, <2>1, <2>2, <2>4 DEF Reconciled, Deletes
    <3> QED BY <1>3, <2>1, <3>1, NearItself
  <2>5. CASE rows[<<s, m>>] # 0 /\ account[m] # 0
    <3>1. IF Diverged(rows[<<s, m>>], account[m]) \/ m \in repriced
          THEN rows'[<<s, m>>] = account[m] ELSE rows'[<<s, m>>] = rows[<<s, m>>]
      BY <1>3, <2>1, <2>2, <2>5 DEF Reconciled, Deletes, Updates, Inserts
    <3> QED BY <1>3, <2>1, <2>5, <3>1, NearItself, NearOrCorrected
  <2> QED BY <2>3, <2>4, <2>5
<1>8. ASSUME NEW k \in Keys, rows'[k] # rows[k] PROVE k[1] = s /\ rows'[k] = account[k[2]]
  <2>1. k[1] = s
    BY <1>1, <1>2, <1>8 DEF Reconciled
  <2>2. k[2] \in Markets /\ k = <<s, k[2]>>
    BY <2>1 DEF Keys
  <2> QED BY <1>4, <1>8, <2>1, <2>2
<1> QED BY <1>5, <1>7, <1>8

\* The step behind Reconciles: a sync that asked the exchange in time repairs what it read
\* rightly, undoes no repair of another sync, and writes what the account says.
THEOREM SyncsRepair == BooksSpec => SyncRepairs
<1>1. BooksInv /\ [BooksNext]_booksVars =>
        [\A p \in Procs : \A s \in team : SyncApply(p) /\ cursor[p] = s /\ view[p] = account =>
           /\ AgreeOn(s) \/ Fresh(p, s) => AgreeOn(s)'
           /\ AgreeOn(s) /\ Fresh(p, s) =>
                \A k \in Keys : rows'[k] # rows[k] => k[1] = s /\ rows'[k] = account[k[2]]]_booksVars
  BY SyncRepairsStep
<1> QED BY <1>1, BooksSound, PTL DEF BooksSpec, SyncRepairs
=============================================================================
