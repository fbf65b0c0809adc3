------------------------- MODULE SignalEngine_proofs --------------------------
(***************************************************************************)
(* EngineInv is inductive.  With it: rows follow what is held, one         *)
(* direction at a time, and the limit.  Orders and fills appear through    *)
(* two facts about amounts; each action is looked at once.                 *)
(***************************************************************************)
EXTENDS SignalEngine, TLAPS

\* The initial states satisfy the invariant.
LEMMA EngineInitially == EngineInit => EngineInv
<1> SUFFICES ASSUME EngineInit PROVE EngineInv
  OBVIOUS
<1>1. EngineTypeOK
  <2>1. /\ None \in [Sides -> Nat] /\ 0 \in 0..MaxFaults
        /\ orders \in [Slots -> OrderOf \cup {NoOrder}]
    BY EngineAssumption DEF EngineInit, None
  <2>2. Anywhere \in Prices
    BY DEF EngineInit, Anywhere
  <2> QED BY <2>1, <2>2 DEF EngineInit, EngineTypeOK
<1>2. held["long"] = 0 /\ held["short"] = 0 /\ rows = held
  BY DEF EngineInit, None, Sides
<1>3. RowsFollow /\ OneDirection /\ WithinLimit
  <2>1. Worth[entered] \in Nat \ {0} /\ Lot[entered] \in Nat \ {0}
    BY <1>1, EngineAssumption DEF EngineTypeOK
  <2>2. Value(held, entered) = 0 /\ Lot[entered] * Worth[entered] \in Nat
    BY <1>2, <2>1 DEF Value
  <2> QED BY <1>2, <2>2, EngineAssumption DEF RowsFollow, OneDirection, WithinLimit
<1>4. Cautious
  BY DEF EngineInit, Cautious, Entering
<1> QED BY <1>1, <1>3, <1>4 DEF EngineInv

\* A side's size after an order is a natural number; the other side keeps its own.
LEMMA HoldSize ==
  ASSUME NEW o \in OrderOf, NEW sizes \in [Sides -> Nat]
  PROVE  Hold(o, sizes) \in [Sides -> Nat]
BY DEF Hold, OrderOf, Sides

\* The orders a signal may become are orders, of its side, entries of Lot.
LEMMA Ordered ==
  ASSUME EngineInv, NEW s \in Signal, NEW positions \in {rows, None}, NEW at \in Prices,
         MayRun(s, positions, at), NEW o \in Sizes(s, positions, at)
  PROVE  /\ o \in OrderOf /\ o.side = s.side
         /\ o.act \in {"open", "add"} <=> s.act \in {"open", "add"}
         /\ o.act \in {"open", "add"} => o.amount = Lot[at]
<1>1. positions \in [Sides -> Nat] /\ Lot[at] \in Nat \ {0} /\ Part \in Nat \ {0}
  BY EngineAssumption DEF EngineInv, EngineTypeOK, None
<1>2. s.act \notin {"open", "add"} => positions[s.side] \in Nat \ {0}
  BY <1>1 DEF MayRun, States, Allowed, Signal, Sides
<1>3. s.act \in Acts /\ s.side \in Sides
  BY DEF Signal
<1>4. CASE s.act \in {"open", "add"}
  BY <1>1, <1>3, <1>4 DEF Sizes, OrderOf, Acts
<1>5. CASE s.act = "reduce"
  BY <1>1, <1>2, <1>3, <1>5 DEF Sizes, OrderOf, Acts
<1>6. CASE s.act = "close"
  BY <1>1, <1>2, <1>3, <1>6 DEF Sizes, OrderOf, Acts
<1> QED BY <1>3, <1>4, <1>5, <1>6 DEF Acts

\* An entry decided on what is held runs along it, or from flat, below the limit.
LEMMA EntersAlong ==
  ASSUME EngineInv, ~hasty, NEW s \in Signal, NEW at, s.act \in {"open", "add"}, MayRun(s, held, at)
  PROVE  /\ \A d \in Sides \ {s.side} : held[d] = 0
         /\ UnderLimit(held, at)
BY EngineAssumption
   DEF EngineInv, EngineTypeOK, OneDirection, MayRun, States, Allowed, Sides, Signal

-----------------------------------------------------------------------------
(* What Filled does to what is held *)

LEMMA WorthSum ==
  ASSUME NEW a \in Nat, NEW b \in Nat, NEW c, NEW w \in Nat, c = a + b
  PROVE  c * w = a * w + b * w
OBVIOUS

LEMMA WorthMore ==
  ASSUME NEW a \in Nat, NEW b \in Nat, NEW w \in Nat, a <= b
  PROVE  a * w <= b * w
<1>1. PICK c \in Nat : b = a + c
  <2>1. b - a \in Nat /\ b = a + (b - a)
    OBVIOUS
  <2> QED BY <2>1
<1>2. b * w = a * w + c * w /\ c * w \in Nat /\ a * w \in Nat
  BY <1>1
<1> QED BY <1>2

LEMMA FilledExit ==
  ASSUME EngineTypeOK, NEW o \in OrderOf, o.act \notin {"open", "add"}
  PROVE  /\ Filled(o) \in [Sides -> Nat] /\ \A d \in Sides : Filled(o)[d] <= held[d]
         /\ \A at \in Prices : Value(Filled(o), at) <= Value(held, at)
<1>1. o.side \in Sides /\ o.amount \in Nat /\ held \in [Sides -> Nat]
  BY DEF EngineTypeOK, OrderOf
<1>2. /\ Filled(o) \in [Sides -> Nat]
      /\ Filled(o)["long"] <= held["long"] /\ Filled(o)["short"] <= held["short"]
  BY <1>1 DEF Filled, Sides
<1>3. Filled(o)["long"] + Filled(o)["short"] <= held["long"] + held["short"]
  BY <1>1, <1>2 DEF Sides
<1>4. ASSUME NEW at \in Prices PROVE Value(Filled(o), at) <= Value(held, at)
  <2>1. Worth[at] \in Nat
    BY EngineAssumption
  <2>2. /\ Filled(o)["long"] + Filled(o)["short"] \in Nat
        /\ held["long"] + held["short"] \in Nat
    BY <1>1, <1>2 DEF Sides
  <2> QED BY <1>3, <2>1, <2>2, WorthMore DEF Value
<1> QED BY <1>1, <1>2, <1>4 DEF Sides

LEMMA FilledEntry ==
  ASSUME EngineTypeOK, NEW o \in OrderOf, o.act \in {"open", "add"}
  PROVE  /\ Filled(o) \in [Sides -> Nat] /\ \A d \in Sides \ {o.side} : Filled(o)[d] = held[d]
         /\ \A at \in Prices : Value(Filled(o), at) = Value(held, at) + o.amount * Worth[at]
<1>1. o.side \in Sides /\ o.amount \in Nat /\ held \in [Sides -> Nat]
  BY DEF EngineTypeOK, OrderOf
<1>2. Filled(o) = [held EXCEPT ![o.side] = @ + o.amount]
  BY DEF Filled
<1>3. Filled(o)["long"] + Filled(o)["short"] = (held["long"] + held["short"]) + o.amount
  BY <1>1, <1>2 DEF Sides
<1>4. ASSUME NEW at \in Prices PROVE Value(Filled(o), at) = Value(held, at) + o.amount * Worth[at]
  <2> DEFINE w == Worth[at]
             before == held["long"] + held["short"]
             after == Filled(o)["long"] + Filled(o)["short"]
  <2>1. w \in Nat /\ before \in Nat /\ after = before + o.amount
    BY <1>1, <1>3, EngineAssumption DEF Sides
  <2>2. Value(Filled(o), at) = after * w /\ Value(held, at) = before * w
    BY Zenon DEF Value
  <2> HIDE DEF w, before, after
  <2>3. after * w = before * w + o.amount * w
    BY <1>1, <2>1, WorthSum
  <2>4. w = Worth[at]
    BY DEF w
  <2> QED BY <2>2, <2>3, <2>4
<1>5. Filled(o) \in [Sides -> Nat] /\ \A d \in Sides \ {o.side} : Filled(o)[d] = held[d]
  BY <1>1, <1>2
<1> QED BY <1>4, <1>5

\* The entry part of the invariant survives when nothing grows and no entry is added.
LEMMA NothingEntered ==
  ASSUME EngineInv, hasty' = hasty, entered' = entered, held' \in [Sides -> Nat],
         \A d \in Sides : held'[d] <= held[d], Value(held', entered) <= Value(held, entered),
         \A o \in Slots : orders'[o] # NoOrder /\ orders'[o].act \in {"open", "add"} => orders'[o] = orders[o]
  PROVE  (Cautious /\ OneDirection /\ WithinLimit)'
<1>1. /\ held \in [Sides -> Nat] /\ Worth[entered] \in Nat /\ Lot[entered] \in Nat
      /\ Value(held, entered) \in Nat /\ Value(held', entered) \in Nat
      /\ Lot[entered] * Worth[entered] \in Nat /\ MaxPosition \in Nat
  BY EngineAssumption DEF EngineInv, EngineTypeOK, Value, Sides
<1>2. OneDirection' /\ WithinLimit'
  <2>1. Value(held, entered)' = Value(held', entered)
    BY DEF Value
  <2>2. OneDirection'
    BY <1>1 DEF EngineInv, OneDirection, Sides
  <2>3. \A a \in Nat, b \in Nat, c \in Nat : a <= b /\ b < c => a < c
    OBVIOUS
  <2>4. WithinLimit'
    BY <1>1, <2>1, <2>3 DEF EngineInv, WithinLimit
  <2> QED BY <2>2, <2>4
<1>3. \A o \in Slots : Entering(o)' => Entering(o) /\ orders'[o] = orders[o]
  BY DEF Entering
<1>4. \A d \in Sides : held[d] = 0 => held'[d] = 0
  BY <1>1
<1>5. UnderLimit(held, entered) => UnderLimit(held', entered)
  BY <1>1 DEF UnderLimit
<1>6. Cautious'
  BY <1>1, <1>3, <1>4, <1>5 DEF EngineInv, Cautious
<1> QED BY <1>2, <1>6

-----------------------------------------------------------------------------
LEMMA EngineStep == EngineInv /\ [EngineNext]_engineVars => EngineInv'
<1> SUFFICES ASSUME EngineInv, [EngineNext]_engineVars PROVE EngineInv'
  OBVIOUS
<1>0. /\ EngineTypeOK /\ RowsFollow /\ Cautious /\ OneDirection /\ WithinLimit
      /\ held \in [Sides -> Nat] /\ rows \in [Sides -> Nat] /\ None \in [Sides -> Nat]
      /\ None = [d \in Sides |-> 0] /\ faults \in 0..MaxFaults /\ MaxFaults \in Nat
  BY EngineAssumption DEF EngineInv, EngineTypeOK, None
<1>1. ASSUME UNCHANGED <<held, orders, hasty, entered>> PROVE (Cautious /\ OneDirection /\ WithinLimit)'
  BY <1>0, <1>1 DEF Cautious, OneDirection, WithinLimit, Entering, UnderLimit, Value
<1>2. ASSUME NEW positions, Positions(positions)
      PROVE  positions \in [Sides -> Nat] /\ faults' \in 0..MaxFaults
  BY <1>0, <1>2 DEF Positions, Fine, Fault
<1>3. ASSUME NEW ds, WriteBack(ds), UNCHANGED held
      PROVE  /\ RowsFollow' /\ rows' \in [Sides -> Nat] /\ torn' \subseteq Sides
             /\ read' \in [Sides -> Nat]
  BY <1>0, <1>3 DEF WriteBack, RowsFollow, EngineTypeOK
<1>4. CASE Tick
  <2>1. pending' \subseteq Signal
    BY <1>0, <1>4, EngineAssumption DEF Tick, EngineTypeOK
  <2>2. EngineTypeOK' /\ RowsFollow'
    BY <1>0, <1>2, <1>4, <2>1 DEF Tick, EngineTypeOK, RowsFollow
  <2> QED BY <1>1, <1>4, <2>2 DEF Tick, EngineInv
<1>5. CASE MarkHighest
  <2>1. EngineTypeOK' /\ RowsFollow'
    BY <1>0, <1>3, <1>5 DEF MarkHighest, EngineTypeOK, RowsFollow
  <2> QED BY <1>1, <1>5, <2>1 DEF MarkHighest, EngineInv
<1>6. CASE Trigger
  <2>1. EngineTypeOK' /\ RowsFollow'
    BY <1>0, <1>2, <1>6 DEF Trigger, EngineTypeOK, RowsFollow
  <2> QED BY <1>1, <1>6, <2>1 DEF Trigger, EngineInv
<1>7. \A positions : \A d \in States(positions) : d # "flat" => Exit(d) \in Signal
  BY DEF States, Exit, Signal, Acts, Sides
<1>8. CASE TakeProfit
  <2>1. PICK d \in States(read) :
          /\ WriteBack({d})
          /\ triggered' = triggered \cup
               (IF d # "flat" /\ price = (IF d = "long" THEN "high" ELSE "low") THEN {Exit(d)} ELSE {})
    BY <1>8 DEF TakeProfit
  <2>2. EngineTypeOK' /\ RowsFollow'
    BY <1>0, <1>3, <1>7, <1>8, <2>1 DEF TakeProfit, EngineTypeOK
  <2> QED BY <1>1, <1>8, <2>2 DEF TakeProfit, EngineInv
<1>9. CASE StopLoss
  <2>1. PICK positions \in {rows, None} :
          /\ Positions(positions)
          /\ \E d \in States(positions) :
               triggered' = triggered \cup (IF Beyond(d) THEN {Exit(d)} ELSE {})
    BY <1>9 DEF StopLoss
  <2>2. PICK d \in States(positions) :
          triggered' = triggered \cup (IF Beyond(d) THEN {Exit(d)} ELSE {})
    BY <2>1
  <2>3. triggered' \subseteq Signal
    BY <1>0, <1>7, <2>2 DEF Beyond, EngineTypeOK
  <2>4. faults' \in 0..MaxFaults
    BY <1>2, <2>1
  <2>5. EngineTypeOK' /\ RowsFollow'
    BY <1>0, <1>9, <2>3, <2>4 DEF StopLoss, EngineTypeOK, RowsFollow
  <2> QED BY <1>1, <1>9, <2>5 DEF StopLoss, EngineInv
<1>10. CASE Choose
  <2>1. PICK positions \in {rows, None} : Positions(positions)
    BY <1>10 DEF Choose
  <2>2. /\ step' \in {"idle", "execute"} /\ batch' \subseteq triggered
        /\ seen' \subseteq seen \cup triggered
    BY <1>10 DEF Choose, First
  <2>3. batch' \subseteq Signal /\ seen' \subseteq Signal /\ step' \in {"idle", "execute"}
    BY <1>0, <2>2 DEF EngineTypeOK
  <2>4. faults' \in 0..MaxFaults
    BY <1>2, <2>1
  <2>5. EngineTypeOK' /\ RowsFollow'
    BY <1>0, <1>10, <2>3, <2>4 DEF Choose, EngineTypeOK, RowsFollow
  <2> QED BY <1>1, <1>10, <2>5 DEF Choose, EngineInv
<1>11. CASE Execute
  <2>1. PICK s \in First(batch), positions \in {rows, None}, lost \in Losses, at \in Prices :
          /\ IF positions = rows /\ lost = "none" THEN Fine ELSE Fault
          /\ batch' = batch \ {s} /\ step' = IF batch' = {} THEN "idle" ELSE "execute"
          /\ LET entry == s.act \in {"open", "add"} IN
             \/ /\ MayRun(s, positions, at) /\ (entry => ~AtBound(s, at))
                /\ \E o \in Sizes(s, positions, at) :
                     IF setup.mode = "live" THEN Enqueue(o, lost) ELSE Book(o, positions, lost)
                /\ hasty' = (hasty \/ (entry /\ (InFlight \/ positions # held)))
                /\ entered' = IF hasty' THEN Anywhere ELSE IF entry THEN at ELSE entered
             \/ /\ MayRun(s, positions, at) => s.act = "open" \/ (entry /\ AtBound(s, at))
                /\ lost = "none"
                /\ UNCHANGED <<rows, held, orders, torn, hasty, entered>>
    BY <1>11 DEF Execute
  <2>2. /\ s \in Signal /\ batch' \subseteq Signal /\ faults' \in 0..MaxFaults
        /\ step' \in {"idle", "execute"}
        /\ UNCHANGED <<setup, price, pending, triggered, read, seen>>
    BY <1>0, <1>11, <2>1 DEF Execute, First, EngineTypeOK, Fine, Fault
  <2>3. CASE UNCHANGED <<rows, held, orders, torn, hasty, entered>>
    <3>1. EngineTypeOK' /\ RowsFollow'
      BY <1>0, <2>2, <2>3 DEF EngineTypeOK, RowsFollow
    <3> QED BY <1>1, <2>3, <3>1 DEF EngineInv
  <2>a. Anywhere \in Prices
    BY DEF Anywhere
  <2>4. ASSUME NEW o \in Sizes(s, positions, at), MayRun(s, positions, at),
               hasty' = (hasty \/ (s.act \in {"open", "add"} /\ (InFlight \/ positions # held))),
               entered' = IF hasty' THEN Anywhere ELSE IF s.act \in {"open", "add"} THEN at ELSE entered,
               setup.mode = "live", Enqueue(o, lost)
        PROVE  EngineInv'
    <3>1. /\ o \in OrderOf /\ o.side = s.side /\ (o.act \in {"open", "add"} <=> s.act \in {"open", "add"})
          /\ o.act \in {"open", "add"} => o.amount = Lot[at]
      BY <2>2, <2>4, Ordered
    <3>2. hasty' \in BOOLEAN /\ entered' \in Prices /\ UNCHANGED <<rows, held, torn>>
      BY <1>0, <2>4, <2>a DEF EngineTypeOK, Enqueue
    <3>3. EngineTypeOK' /\ RowsFollow'
      BY <1>0, <2>2, <2>4, <3>1, <3>2 DEF Enqueue, EngineTypeOK, RowsFollow
    <3>4. CASE hasty'
      BY <3>3, <3>4 DEF EngineInv, Cautious, OneDirection, WithinLimit
    <3>5. CASE s.act \notin {"open", "add"} /\ ~hasty'
      <4>1. hasty' = hasty /\ entered' = entered
        BY <1>0, <2>4, <3>5 DEF EngineTypeOK
      <4>2. ASSUME NEW p \in Slots, orders'[p] # NoOrder, orders'[p].act \in {"open", "add"}
            PROVE  orders'[p] = orders[p]
        BY <1>0, <2>4, <3>1, <3>5, <4>2 DEF Enqueue, EngineTypeOK
      <4>3. Value(held', entered) <= Value(held, entered) /\ \A d \in Sides : held'[d] <= held[d]
        BY <1>0, <3>2, EngineAssumption DEF Value, EngineTypeOK, Sides
      <4> QED BY <1>0, <3>2, <3>3, <4>1, <4>2, <4>3, NothingEntered DEF EngineInv
    <3>6. CASE s.act \in {"open", "add"} /\ ~hasty'
      <4>1. ~hasty /\ ~InFlight /\ positions = held /\ entered' = at
        BY <2>4, <3>6
      <4>2. (\A d \in Sides \ {s.side} : held[d] = 0) /\ UnderLimit(held, at)
        BY <2>2, <2>4, <3>6, <4>1, EntersAlong
      <4>3. OneDirection'
        BY <1>0, <3>2, <4>1 DEF OneDirection
      <4>4. UnderLimit(held, entered)'
        BY <3>2, <4>1, <4>2 DEF UnderLimit, Value
      <4>5. WithinLimit'
        <5>1. /\ Value(held', entered') \in Nat /\ Lot[entered'] * Worth[entered'] \in Nat
              /\ MaxPosition \in Nat
          BY <1>0, <3>2, EngineAssumption DEF Value, Sides
        <5>2. \A a \in Nat, b \in Nat, c \in Nat : a < b => a < b + c
          OBVIOUS
        <5> QED BY <4>4, <5>1, <5>2 DEF WithinLimit, UnderLimit
      <4>6. ASSUME NEW slot \in Slots, orders' = [orders EXCEPT ![slot] = o] PROVE Cautious'
        <5>1. \A p \in Slots : p # slot => orders'[p] = NoOrder
          BY <1>0, <4>1, <4>6 DEF InFlight, EngineTypeOK
        <5>2. orders'[slot] = o
          BY <1>0, <4>6 DEF EngineTypeOK
        <5>3. \A p \in Slots : Entering(p)' => p = slot
          BY <5>1 DEF Entering
        <5> QED BY <3>1, <3>2, <3>6, <4>1, <4>2, <4>4, <5>2, <5>3 DEF Cautious
      <4>7. UNCHANGED orders => Cautious'
        BY <4>1 DEF Cautious, Entering, InFlight
      <4> QED BY <2>4, <3>3, <4>3, <4>5, <4>6, <4>7 DEF EngineInv, Enqueue
    <3> QED BY <3>4, <3>5, <3>6
  <2>5. ASSUME NEW o \in Sizes(s, positions, at), MayRun(s, positions, at),
               hasty' = (hasty \/ (s.act \in {"open", "add"} /\ (InFlight \/ positions # held))),
               entered' = IF hasty' THEN Anywhere ELSE IF s.act \in {"open", "add"} THEN at ELSE entered,
               Book(o, positions, lost)
        PROVE  EngineInv'
    <3>1. /\ o \in OrderOf /\ o.side = s.side /\ (o.act \in {"open", "add"} <=> s.act \in {"open", "add"})
          /\ o.act \in {"open", "add"} => o.amount = Lot[at]
      BY <2>2, <2>5, Ordered
    <3>2. /\ positions \in [Sides -> Nat] /\ Hold(o, positions) \in [Sides -> Nat]
          /\ Filled(o) \in [Sides -> Nat] /\ o.side \in Sides
      BY <1>0, <3>1, HoldSize, FilledExit, FilledEntry DEF OrderOf
    <3>3. /\ rows' \in [Sides -> Nat] /\ held' \in [Sides -> Nat] /\ torn' \subseteq Sides
          /\ hasty' \in BOOLEAN /\ entered' \in Prices /\ UNCHANGED orders
      BY <1>0, <2>5, <2>a, <3>1, <3>2 DEF Book, EngineTypeOK
    <3>4. RowsFollow'
      <4>1. ASSUME NEW d \in Sides \ {o.side} PROVE rows'[d] = rows[d] /\ held'[d] = held[d]
        BY <1>0, <2>5, <3>2 DEF Book, Filled
      <4>2. ASSUME o.side \notin torn' PROVE rows'[o.side] = held'[o.side]
        <5>1. lost = "none" /\ positions[o.side] = rows[o.side] /\ o.side \notin torn
          BY <2>5, <4>2 DEF Book
        <5>2. rows[o.side] = held[o.side]
          BY <1>0, <3>2, <5>1 DEF RowsFollow
        <5>3. rows'[o.side] = Hold(o, positions)[o.side] /\ held'[o.side] = Filled(o)[o.side]
          BY <1>0, <2>5, <3>2, <5>1 DEF Book
        <5> QED BY <1>0, <3>2, <5>1, <5>2, <5>3 DEF Hold, Filled
      <4>3. torn \subseteq torn'
        BY <2>5 DEF Book
      <4> QED BY <1>0, <4>1, <4>2, <4>3 DEF RowsFollow
    <3>5. EngineTypeOK'
      BY <1>0, <2>2, <3>3 DEF EngineTypeOK
    <3>6. CASE o.act \notin {"open", "add"} /\ ~hasty'
      <4>1. hasty' = hasty /\ entered' = entered
        BY <1>0, <2>5, <3>1, <3>6 DEF EngineTypeOK
      <4>2. held' = held \/ held' = Filled(o)
        BY <2>5 DEF Book
      <4>3. Value(held, entered) \in Nat /\ entered \in Prices
        BY <1>0, EngineAssumption DEF Value, Sides, EngineTypeOK
      <4>4. (\A d \in Sides : held'[d] <= held[d]) /\ Value(held', entered) <= Value(held, entered)
        BY <1>0, <3>1, <3>6, <4>2, <4>3, FilledExit
      <4> QED BY <3>3, <3>4, <3>5, <4>1, <4>4, NothingEntered DEF EngineInv
    <3>7. CASE o.act \in {"open", "add"} /\ ~hasty'
      <4>1. ~hasty /\ ~InFlight /\ positions = held /\ entered' = at
        BY <2>5, <3>1, <3>7
      <4>2. (\A d \in Sides \ {s.side} : held[d] = 0) /\ UnderLimit(held, at)
        BY <2>2, <2>5, <3>1, <3>7, <4>1, EntersAlong
      <4>3. Cautious'
        BY <3>3, <4>1 DEF Cautious, Entering, InFlight
      <4>4. /\ \A d \in Sides \ {s.side} : held'[d] = 0
            /\ \/ Value(held', at) = Value(held, at)
               \/ Value(held', at) = Value(held, at) + Lot[at] * Worth[at]
        BY <1>0, <2>5, <3>1, <3>7, <4>2, FilledEntry DEF Book
      <4>5. OneDirection'
        BY <3>1, <4>4 DEF OneDirection, Sides, OrderOf
      <4>6. /\ Value(held, at) \in Nat /\ Lot[at] * Worth[at] \in Nat \ {0} /\ MaxPosition \in Nat
            /\ Value(held, entered)' = Value(held', at)
        BY <1>0, <4>1, EngineAssumption DEF Value, Sides
      <4>7. WithinLimit'
        BY <4>1, <4>2, <4>4, <4>6 DEF WithinLimit, UnderLimit
      <4> QED BY <3>4, <3>5, <4>3, <4>5, <4>7 DEF EngineInv
    <3>8. CASE hasty'
      BY <3>4, <3>5, <3>8 DEF EngineInv, Cautious, OneDirection, WithinLimit
    <3> QED BY <3>6, <3>7, <3>8
  <2> QED BY <2>1, <2>3, <2>4, <2>5
<1>12. CASE Sync
  <2>1. EngineTypeOK' /\ RowsFollow'
    BY <1>0, <1>12 DEF Sync, EngineTypeOK, RowsFollow
  <2> QED BY <1>1, <1>12, <2>1 DEF Sync, EngineInv
<1>13. ASSUME NEW slot \in Slots, Settle(slot) PROVE EngineInv'
  <2> DEFINE o == orders[slot]
  <2>1. /\ o \in OrderOf /\ o # NoOrder /\ orders' = [orders EXCEPT ![slot] = NoOrder] /\ hasty' = hasty
        /\ UNCHANGED <<setup, price, step, pending, triggered, read, batch, seen, entered>>
        /\ faults' \in 0..MaxFaults
    BY <1>0, <1>13 DEF Settle, EngineTypeOK, Fine, Fault
  <2>2. Hold(o, held) \in [Sides -> Nat] /\ Filled(o) \in [Sides -> Nat] /\ Filled(o) = Hold(o, held)
    BY <1>0, <2>1, HoldSize DEF Filled, Hold
  <2>3. /\ rows' \in [Sides -> Nat] /\ held' \in {held, Filled(o)} /\ torn' \subseteq Sides
        /\ RowsFollow'
    <3>1. CASE held' = Filled(o) /\ rows' = Hold(o, held) /\ torn' = {}
      BY <1>0, <2>2, <3>1 DEF RowsFollow
    <3>2. CASE held' = Filled(o) /\ rows' = held /\ torn' = {o.side}
      BY <1>0, <2>1, <2>2, <3>2 DEF RowsFollow, Filled, OrderOf
    <3>3. CASE rows' = held /\ torn' = {} /\ UNCHANGED held
      BY <1>0, <3>3 DEF RowsFollow
    <3> QED BY <1>13, <3>1, <3>2, <3>3 DEF Settle
  <2>4. EngineTypeOK'
    BY <1>0, <2>1, <2>2, <2>3 DEF EngineTypeOK
  <2>5. \A p \in Slots : orders'[p] # NoOrder => p # slot /\ orders'[p] = orders[p]
    BY <1>0, <2>1 DEF EngineTypeOK
  <2>6. CASE held' = held \/ o.act \notin {"open", "add"}
    <3>1. /\ held' \in [Sides -> Nat] /\ (\A d \in Sides : held'[d] <= held[d])
          /\ Value(held', entered) <= Value(held, entered)
      <4>1. held' = held \/ (held' = Filled(o) /\ o.act \notin {"open", "add"})
        BY <2>3, <2>6
      <4>2. entered \in Prices /\ Value(held, entered) \in Nat
        BY <1>0, EngineAssumption DEF EngineTypeOK, Value, Sides
      <4> QED BY <1>0, <2>1, <4>1, <4>2, FilledExit
    <3> QED BY <2>1, <2>3, <2>4, <2>5, <3>1, NothingEntered DEF EngineInv
  <2>7. CASE held' = Filled(o) /\ o.act \in {"open", "add"} /\ ~hasty
    <3>1. /\ Entering(slot) /\ \A p \in Slots : Entering(p) => p = slot
          /\ \A d \in Sides \ {o.side} : held[d] = 0
          /\ o.amount = Lot[entered] /\ UnderLimit(held, entered) /\ entered \in Prices
      BY <1>0, <1>13, <2>1, <2>7 DEF Cautious, Entering, EngineTypeOK
    <3>2. Cautious'
      BY <2>5, <3>1 DEF Cautious, Entering
    <3>3. /\ \A d \in Sides \ {o.side} : held'[d] = 0
          /\ Value(held', entered) = Value(held, entered) + Lot[entered] * Worth[entered]
      BY <1>0, <2>1, <2>7, <3>1, FilledEntry
    <3>4. OneDirection'
      BY <2>1, <3>3 DEF OneDirection, Sides, OrderOf
    <3>5. /\ Value(held, entered) \in Nat /\ Lot[entered] * Worth[entered] \in Nat \ {0} /\ MaxPosition \in Nat
          /\ Value(held, entered)' = Value(held', entered)
      <4>1. Worth[entered] \in Nat \ {0} /\ Lot[entered] \in Nat \ {0} /\ MaxPosition \in Nat
        BY <3>1, EngineAssumption
      <4>2. held["long"] + held["short"] \in Nat
        BY <1>0 DEF Sides
      <4>3. Value(held, entered)' = Value(held', entered)
        BY <2>1 DEF Value
      <4> QED BY <4>1, <4>2, <4>3 DEF Value
    <3>6. WithinLimit'
      BY <2>1, <3>1, <3>3, <3>5 DEF WithinLimit, UnderLimit
    <3> QED BY <2>3, <2>4, <3>2, <3>4, <3>6 DEF EngineInv
  <2>8. CASE hasty
    BY <2>1, <2>3, <2>4, <2>8 DEF EngineInv, Cautious, OneDirection, WithinLimit
  <2> QED BY <2>3, <2>6, <2>7, <2>8
<1>14. CASE NextCandle
  <2>1. EngineTypeOK' /\ RowsFollow'
    BY <1>0, <1>14 DEF NextCandle, EngineTypeOK, RowsFollow
  <2> QED BY <1>1, <1>14, <2>1 DEF NextCandle, EngineInv
<1>15. CASE Restart
  <2>1. EngineTypeOK' /\ RowsFollow'
    BY <1>0, <1>15 DEF Restart, EngineTypeOK, RowsFollow, Fault
  <2> QED BY <1>1, <1>15, <2>1 DEF Restart, EngineInv
<1>16. CASE UNCHANGED engineVars
  <2>1. EngineTypeOK' /\ RowsFollow'
    BY <1>0, <1>16 DEF engineVars, EngineTypeOK, RowsFollow
  <2> QED BY <1>1, <1>16, <2>1 DEF engineVars, EngineInv
<1> QED BY <1>4, <1>5, <1>6, <1>8, <1>9, <1>10, <1>11, <1>12, <1>13, <1>14, <1>15, <1>16
        DEF EngineNext, Loop, Worker

-----------------------------------------------------------------------------
\* What every reachable state satisfies, for any strategies, amounts and limits.
THEOREM EngineSound == EngineSpec => []EngineInv
BY EngineInitially, EngineStep, PTL DEF EngineSpec

\* One direction, and the limit, unless a strategy entered in haste.
THEOREM GuardsHold == EngineSpec => []EntriesGuarded
<1>1. EngineInv => EntriesGuarded
  BY DEF EngineInv, EntriesGuarded
<1> QED BY <1>1, EngineSound, PTL

-----------------------------------------------------------------------------
(* The exit wins *)

LEMMA AloneState ==
  ASSUME NEW d \in Sides, Alone(d)
  PROVE  States(rows) = {d} /\ d # "flat" /\ rows # None /\ Allowed(d, Exit(d))
<1>1. {e \in Sides : rows[e] > 0} = {d} /\ d # "flat"
  BY DEF Alone, Sides
<1>2. rows # None
  <2>1. None[d] = 0 /\ rows[d] # 0
    BY <1>1 DEF None, Alone
  <2> QED BY <2>1
<1> QED BY <1>1, <1>2 DEF States, Allowed, Exit

\* Among signals that fit a position, its close comes first.
LEMMA CloseFirst ==
  ASSUME NEW d \in Sides, NEW S \in SUBSET Signal, Exit(d) \in S, \A s \in S : Allowed(d, s)
  PROVE  Exit(d) \in First(S)
<1>1. \A s \in S : s.side = d
  BY DEF Allowed, Sides
<1>2. \A s \in S : s.act = "close" => s = Exit(d)
  BY <1>1 DEF Signal, Exit
<1>3. \A s \in S : Priority(Exit(d)) <= Priority(s)
  BY DEF Priority, Exit
<1> QED BY <1>2, <1>3 DEF First, Exit

LEMMA ExitChosen ==
  ASSUME EngineInv, NEW d \in Sides, Alone(d), Fine, Choose, Exit(d) \in triggered \ seen
  PROVE  Exit(d) \in batch'
<1>1. PICK positions \in {rows, None} :
        /\ Positions(positions)
        /\ \E state \in States(positions) :
             LET allowed == IF setup.bot THEN triggered ELSE {s \in triggered : Allowed(state, s)}
                 candidates == IF state = "flat" /\ setup.direction # "both"
                               THEN {s \in allowed : s.act = "open" /\ s.side = setup.direction}
                               ELSE allowed
             IN batch' = IF setup.bot THEN candidates ELSE First(candidates \ seen)
  BY DEF Choose
<1>2. positions = rows
  BY <1>1 DEF Positions, Fault, Fine, EngineInv, EngineTypeOK
<1>3. batch' = IF setup.bot THEN triggered ELSE First({s \in triggered : Allowed(d, s)} \ seen)
  BY <1>1, <1>2, AloneState
<1>4. Exit(d) \in {s \in triggered : Allowed(d, s)} \ seen
  BY AloneState
<1>5. {s \in triggered : Allowed(d, s)} \ seen \subseteq Signal
  BY DEF EngineInv, EngineTypeOK
<1> QED BY <1>3, <1>4, <1>5, CloseFirst

LEMMA ExitExecuted ==
  ASSUME EngineInv, NEW d \in Sides, Alone(d), Fine, Execute, Exit(d) \in batch \ batch'
  PROVE  IF setup.mode = "signal" THEN rows'[d] < rows[d] /\ (setup.bot \/ rows'[d] = 0)
         ELSE \E slot \in Slots :
                /\ orders[slot] = NoOrder /\ orders'[slot] # NoOrder
                /\ ~Entering(slot)' /\ orders'[slot].side = d
                /\ setup.bot \/ orders'[slot].amount = rows[d]
<1> DEFINE s == Exit(d)
<1>0. s.act = "close" /\ s.side = d /\ rows[d] \in Nat \ {0} /\ Part \in Nat \ {0}
  BY EngineAssumption DEF Exit, Alone, EngineInv, EngineTypeOK
<1>1. PICK t \in First(batch), positions \in {rows, None}, lost \in Losses, at \in Prices :
        /\ IF positions = rows /\ lost = "none" THEN Fine ELSE Fault
        /\ batch' = batch \ {t}
        /\ LET entry == t.act \in {"open", "add"} IN
           \/ /\ MayRun(t, positions, at) /\ (entry => ~AtBound(t, at))
              /\ \E o \in Sizes(t, positions, at) :
                   IF setup.mode = "live" THEN Enqueue(o, lost) ELSE Book(o, positions, lost)
           \/ MayRun(t, positions, at) => t.act = "open" \/ (entry /\ AtBound(t, at))
  BY DEF Execute
<1>2. positions = rows /\ lost = "none" /\ t = s
  BY <1>1 DEF Fault, Fine, EngineInv, EngineTypeOK
<1>3. MayRun(s, rows, at)
  BY <1>0, AloneState DEF MayRun
<1>4. PICK o \in Sizes(s, rows, at) : IF setup.mode = "live" THEN Enqueue(o, lost) ELSE Book(o, rows, lost)
  BY <1>0, <1>1, <1>2, <1>3
<1>5. /\ o.act \in {"reduce", "close"} /\ o.side = d /\ o.amount \in Nat \ {0}
      /\ setup.bot \/ o.amount = rows[d]
  BY <1>0, <1>4 DEF Sizes
<1>6. CASE setup.mode = "signal"
  <2>1. rows' = [rows EXCEPT ![o.side] = Hold(o, rows)[o.side]]
    BY <1>2, <1>4, <1>6 DEF Book
  <2>2. rows'[d] = IF rows[d] > o.amount THEN rows[d] - o.amount ELSE 0
    BY <1>5, <2>1 DEF Hold, EngineInv, EngineTypeOK
  <2> QED BY <1>0, <1>5, <1>6, <2>2
<1>7. CASE setup.mode # "signal"
  <2>1. setup.mode = "live"
    BY <1>7, EngineAssumption DEF EngineInv, EngineTypeOK
  <2>2. PICK slot \in Slots : orders[slot] = NoOrder /\ orders' = [orders EXCEPT ![slot] = o]
    BY <1>2, <1>4, <2>1 DEF Enqueue
  <2>3. orders'[slot] = o /\ o # NoOrder
    BY <1>5, <2>2 DEF EngineInv, EngineTypeOK, NoOrder
  <2>4. ~Entering(slot)'
    BY <1>5, <2>3 DEF Entering
  <2> QED BY <1>5, <1>7, <2>2, <2>3, <2>4
<1> QED BY <1>6, <1>7

\* A stop loss or profit is not displaced by what else a tick has triggered.
THEOREM ExitsPrevail == EngineSpec => ExitsWin
<1>1. EngineInv /\ [EngineNext]_engineVars =>
        [\A d \in Sides : Alone(d) /\ Fine =>
           /\ Choose /\ Exit(d) \in triggered \ seen => Exit(d) \in batch'
           /\ Execute /\ Exit(d) \in batch \ batch' =>
                IF setup.mode = "signal" THEN rows'[d] < rows[d] /\ (setup.bot \/ rows'[d] = 0)
                ELSE \E slot \in Slots :
                       /\ orders[slot] = NoOrder /\ orders'[slot] # NoOrder
                       /\ ~Entering(slot)' /\ orders'[slot].side = d
                       /\ setup.bot \/ orders'[slot].amount = rows[d]]_engineVars
  BY ExitChosen, ExitExecuted
<1> QED BY <1>1, EngineSound, PTL DEF EngineSpec, ExitsWin
=============================================================================
