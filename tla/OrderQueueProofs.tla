-------------------------- MODULE OrderQueueProofs --------------------------
(***************************************************************************)
(* Machine-checked proofs about OrderQueue, for any players, units, sites   *)
(* and rooms: the records of a batch stay in the room that act_reserve     *)
(* makes, however many orders a client queues before the next frame, the   *)
(* sites a batch chooses are clear of the builds it should know of, those  *)
(* remembered are kept, every order reaches its unit, once and in order,   *)
(* and so the queue implements the orders of UnitOrders.                   *)
(***************************************************************************)
EXTENDS OrderQueue, SequenceTheorems, WellFoundedInduction, TLAPS

Records == Marks \cup Orders

\* A batch is one player's.
BatchInv ==
  /\ batch.on \in BOOLEAN
  /\ batch.on =>
       /\ batch.player \in Players
       /\ batch = [on |-> TRUE, player |-> batch.player, scanned |-> batch.scanned,
                  pending |-> batch.pending, from |-> batch.from]

\* A queue that was ever used has room for one action at least: twice its
\* capacity is then enough for the next one.
RoomInv ==
  /\ queue \in [Players -> Seq(Records)]
  /\ capacity \in [Players -> {0} \cup {c \in Nat : c >= ActRecords}]
  /\ prev \in [Players -> Units \cup {NoUnit}]
  /\ given \in [Players -> Nat]
  /\ BatchInv
  /\ WithinRoom

(* What a command asks is a deed, and no build; what is bought is made.     *)
LEMMA CommandsAreDeeds ==
  /\ "produce" \in Deeds /\ "produce" \in Production /\ "produce" \notin Sites
  /\ \A what \in Commands : what \in Deeds /\ what \notin Sites
BY ConstantsAssumption DEF ConstantsAssumption, Deeds, Tasks, Production

(* What act_reserve leaves has room for the longest action.                *)
LEMMA ReserveMakesRoom ==
  ASSUME RoomInv, NEW p \in Players
  PROVE  /\ Reserve(p) \in {0} \cup {c \in Nat : c >= ActRecords}
         /\ Len(queue[p]) + LongestAction <= Reserve(p)
<1>1. Len(queue[p]) \in Nat /\ Len(queue[p]) <= capacity[p]
  BY DEF RoomInv, WithinRoom
<1>2. capacity[p] \in Nat /\ (capacity[p] = 0 \/ capacity[p] >= ActRecords)
  BY DEF RoomInv
<1>3. ActRecords \in Nat /\ ActRecords >= 9
  BY ConstantsAssumption, RoomAssumption DEF LongestAction
<1>4. CASE capacity[p] - Len(queue[p]) >= ActRecords
  <2>1. Reserve(p) = capacity[p]
    BY <1>4 DEF Reserve
  <2> QED BY <2>1, <1>1, <1>2, <1>3, <1>4 DEF LongestAction
<1>5. CASE ~(capacity[p] - Len(queue[p]) >= ActRecords) /\ capacity[p] = 0
  <2>1. Reserve(p) = ActRecords
    BY <1>5 DEF Reserve
  <2> QED BY <2>1, <1>1, <1>3, <1>5 DEF LongestAction
<1>6. CASE ~(capacity[p] - Len(queue[p]) >= ActRecords) /\ capacity[p] # 0
  <2>1. Reserve(p) = 2 * capacity[p]
    BY <1>6 DEF Reserve
  <2> QED BY <2>1, <1>1, <1>2, <1>3, <1>6 DEF LongestAction
<1> QED BY <1>4, <1>5, <1>6

(* Records joined to records.                                              *)
LEMMA Joined ==
  ASSUME NEW s \in Seq(Records), NEW t \in Seq(Records)
  PROVE  s \o t \in Seq(Records) /\ Len(s \o t) = Len(s) + Len(t)
OBVIOUS

(* A selection makes at most four records.                                 *)
LEMMA SelectingIsShort ==
  ASSUME NEW before \in Units \cup {NoUnit}, NEW u \in Units
  PROVE  Selecting(before, u) \in Seq(Records) /\ Len(Selecting(before, u)) <= 4
<1> DEFINE marks == <<Mark("select", u), Mark("presub", u), Mark("subgroup", u)>>
<1>1. marks \in Seq(Records) /\ Len(marks) = 3
  BY DEF Mark, Marks, Records
<1>2. CASE before = NoUnit
  <2>1. Selecting(before, u) = <<>> \o marks
    BY <1>2 DEF Selecting
  <2> HIDE DEF marks
  <2> QED BY <2>1, <1>1
<1>3. CASE before # NoUnit
  <2>1. <<Mark("deselect", before)>> \in Seq(Records) /\ Len(<<Mark("deselect", before)>>) = 1
    BY <1>3 DEF Mark, Marks, Records
  <2>2. Selecting(before, u) = <<Mark("deselect", before)>> \o marks
    BY <1>3 DEF Selecting
  <2> DEFINE one == <<Mark("deselect", before)>>
  <2>3. /\ one \in Seq(Records) /\ Len(one) = 1
        /\ marks \in Seq(Records) /\ Len(marks) = 3
        /\ Selecting(before, u) = one \o marks
    BY <2>1, <2>2, <1>1
  <2> HIDE DEF one, marks
  <2>4. one \o marks \in Seq(Records) /\ Len(one \o marks) = Len(one) + Len(marks)
    BY <2>3, Joined
  <2> QED BY <2>3, <2>4
<1> QED BY <1>2, <1>3

(* An order is one record.                                                 *)
LEMMA OrderIsOne ==
  ASSUME RoomInv, NEW p \in Players, NEW u \in Units, NEW what \in Deeds,
         NEW queued \in BOOLEAN, NEW auto \in BOOLEAN
  PROVE  Order(p, u, what, queued, auto) \in Seq(Records) /\ Len(Order(p, u, what, queued, auto)) = 1
<1>1. given[p] + 1 \in Nat BY DEF RoomInv
<1> QED BY <1>1 DEF Order, Orders, Records

(* Enqueuing no more than the longest action keeps the queue in its room.  *)
LEMMA EnqueueKeeps ==
  ASSUME RoomInv, NEW p \in Players, NEW records \in Seq(Records), Len(records) <= LongestAction,
         NEW last \in Units, NEW n \in {0, 1}, Enqueue(p, records, last, n),
         BatchInv'
  PROVE  RoomInv'
<1> USE DEF Enqueue
<1>1. queue[p] \o records \in Seq(Records) /\ Len(queue[p] \o records) = Len(queue[p]) + Len(records)
  BY DEF RoomInv
<1>2. Len(queue[p]) \in Nat /\ Len(records) \in Nat
  BY DEF RoomInv
<1>3. queue' \in [Players -> Seq(Records)]
  BY <1>1 DEF RoomInv
<1>4. capacity' \in [Players -> {0} \cup {c \in Nat : c >= ActRecords}]
  BY ReserveMakesRoom DEF RoomInv
<1>5. prev' \in [Players -> Units \cup {NoUnit}]
  BY DEF RoomInv
<1>6. given' \in [Players -> Nat]
  BY DEF RoomInv
<1>7. WithinRoom'
  <2> SUFFICES ASSUME NEW q \in Players PROVE Len(queue'[q]) <= capacity'[q]
    BY DEF WithinRoom
  <2>1. CASE q = p
    <3>1. queue'[q] = queue[p] \o records /\ capacity'[q] = Reserve(p)
      BY <2>1 DEF RoomInv
    <3>2. Reserve(p) \in Nat /\ Len(queue[p]) + LongestAction <= Reserve(p)
      BY ReserveMakesRoom
    <3> QED BY <3>1, <3>2, <1>1, <1>2 DEF LongestAction
  <2>2. CASE q # p
    <3>1. queue'[q] = queue[q] /\ capacity'[q] = capacity[q]
      BY <2>2 DEF RoomInv
    <3> QED BY <3>1 DEF RoomInv, WithinRoom
  <2> QED BY <2>1, <2>2
<1> QED BY <1>3, <1>4, <1>5, <1>6, <1>7 DEF RoomInv

(* The records of the kinds of action, and how many.                        *)
LEMMA CommandIsShort ==
  ASSUME RoomInv, NEW p \in Players, NEW u \in Units, NEW what \in Deeds,
         NEW queued \in BOOLEAN, NEW auto \in BOOLEAN
  PROVE  LET records == Selecting(prev[p], u) \o Order(p, u, what, queued, auto) IN
         records \in Seq(Records) /\ Len(records) <= 5
<1>1. prev[p] \in Units \cup {NoUnit}
  BY DEF RoomInv
<1>2. Selecting(prev[p], u) \in Seq(Records) /\ Len(Selecting(prev[p], u)) <= 4
  BY <1>1, SelectingIsShort
<1>3. Order(p, u, what, queued, auto) \in Seq(Records) /\ Len(Order(p, u, what, queued, auto)) = 1
  BY OrderIsOne
<1> DEFINE first == Selecting(prev[p], u)
           second == Order(p, u, what, queued, auto)
<1>4. /\ first \in Seq(Records) /\ Len(first) <= 4
      /\ second \in Seq(Records) /\ Len(second) = 1
  BY <1>2, <1>3
<1> HIDE DEF first, second
<1>5. first \o second \in Seq(Records) /\ Len(first \o second) = Len(first) + Len(second)
  BY <1>4, Joined
<1>6. Len(first) \in Nat
  BY <1>4
<1>7. first \o second \in Seq(Records) /\ Len(first \o second) <= 5
  BY <1>4, <1>5, <1>6
<1> QED BY <1>7 DEF first, second

LEMMA BuyIsLongest ==
  ASSUME RoomInv, NEW p \in Players, NEW u \in Units, NEW shop \in Units
  PROVE  LET records == Selecting(prev[p], u) \o Selecting(u, shop) \o Order(p, shop, "produce", FALSE, FALSE) IN
         records \in Seq(Records) /\ Len(records) <= LongestAction
<1> DEFINE first == Selecting(prev[p], u)
           second == Selecting(u, shop)
           third == Order(p, shop, "produce", FALSE, FALSE)
<1>1. first \in Seq(Records) /\ Len(first) <= 4
  BY SelectingIsShort DEF RoomInv
<1>2. second \in Seq(Records) /\ Len(second) <= 4
  BY SelectingIsShort
<1>3. third \in Seq(Records) /\ Len(third) = 1
  BY OrderIsOne, CommandsAreDeeds
<1> HIDE DEF first, second, third
<1>4. first \o second \in Seq(Records) /\ Len(first \o second) = Len(first) + Len(second)
  BY <1>1, <1>2, Joined
<1>5. /\ (first \o second) \o third \in Seq(Records)
      /\ Len((first \o second) \o third) = Len(first \o second) + Len(third)
  BY <1>3, <1>4, Joined
<1>6. Len(first) \in Nat /\ Len(second) \in Nat
  BY <1>1, <1>2
<1>7. (first \o second) \o third \in Seq(Records) /\ Len((first \o second) \o third) <= LongestAction
  BY <1>1, <1>2, <1>3, <1>4, <1>5, <1>6 DEF LongestAction
<1> QED BY <1>7 DEF first, second, third

(* Steps that make room and no records, or neither.                         *)
LEMMA RoomOnlyGrows ==
  ASSUME RoomInv, NEW p \in Players, capacity' = [capacity EXCEPT ![p] = Reserve(p)],
         UNCHANGED <<queue, prev, given>>, BatchInv'
  PROVE  RoomInv'
<1>1. capacity' \in [Players -> {0} \cup {c \in Nat : c >= ActRecords}]
  BY ReserveMakesRoom DEF RoomInv
<1>2. WithinRoom'
  <2> SUFFICES ASSUME NEW q \in Players PROVE Len(queue[q]) <= capacity'[q]
    BY DEF WithinRoom
  <2>1. CASE q = p
    <3>1. capacity'[q] = Reserve(p) /\ Reserve(p) \in Nat /\ Len(queue[p]) + LongestAction <= Reserve(p)
      BY <2>1, ReserveMakesRoom DEF RoomInv
    <3>2. Len(queue[p]) \in Nat
      BY DEF RoomInv
    <3> QED BY <2>1, <3>1, <3>2 DEF LongestAction
  <2>2. CASE q # p
    BY <2>2 DEF RoomInv, WithinRoom
  <2> QED BY <2>1, <2>2
<1> QED BY <1>1, <1>2 DEF RoomInv

LEMMA RoomUntouched ==
  ASSUME RoomInv, UNCHANGED <<queue, capacity, prev, given>>,
         BatchInv'
  PROVE  RoomInv'
BY DEF RoomInv, WithinRoom

(* Every kind of action keeps the queue in its room.                        *)
LEMMA ItemKeeps == ASSUME RoomInv, Item PROVE RoomInv'
<1>2. batch.on => batch.player \in Players
  BY DEF RoomInv, BatchInv
<1>3. PICK u \in Units, queued \in BOOLEAN :
        \/ Refuse(u, queued) \/ RefuseLate(u, queued) \/ NoSite(u, queued)
        \/ \E what \in Commands : Command(u, what, queued)
        \/ ~queued /\ (Select(u) \/ \E shop \in Units : Buy(u, shop))
        \/ \E s \in Sites, auto \in BOOLEAN : Build(u, s, queued, auto)
  BY DEF Item, Action
<1>4. CASE Refuse(u, queued)
  <2>1. UNCHANGED <<queue, capacity, prev, given, batch>>
    BY <1>4 DEF Refuse, actOnly, game
  <2>2. BatchInv'
    BY <2>1 DEF RoomInv, BatchInv
  <2> QED BY <2>1, <2>2, RoomUntouched
<1>5. CASE RefuseLate(u, queued)
  <2>1. /\ batch.player \in Players /\ UNCHANGED <<queue, prev, given, batch>>
        /\ capacity' = [capacity EXCEPT ![batch.player] = Reserve(batch.player)]
    BY <1>2, <1>5 DEF RefuseLate, actOnly, game
  <2>2. BatchInv'
    BY <2>1 DEF RoomInv, BatchInv
  <2> QED BY <2>1, <2>2, RoomOnlyGrows
<1>6. ASSUME batch.on, NEW pending, batch' = [batch EXCEPT !.scanned = TRUE, !.pending = pending]
      PROVE  BatchInv'
  <2>1. batch' = [on |-> TRUE, player |-> batch.player, scanned |-> TRUE,
                  pending |-> pending, from |-> batch.from]
    BY <1>6 DEF RoomInv, BatchInv
  <2> QED BY <2>1, <1>2, <1>6 DEF BatchInv
<1>7. CASE NoSite(u, queued)
  <2>1. /\ batch.on /\ UNCHANGED <<queue, prev, given>>
        /\ batch' = [batch EXCEPT !.scanned = TRUE, !.pending = Scanned(Forgotten(u, queued))]
        /\ capacity' = [capacity EXCEPT ![batch.player] = Reserve(batch.player)]
    BY <1>7 DEF NoSite, actOnly, game
  <2>2. BatchInv'
    BY <2>1, <1>6
  <2> QED BY <2>1, <2>2, <1>2, RoomOnlyGrows
<1>8. ASSUME NEW what \in Commands, Command(u, what, queued) PROVE RoomInv'
  <2> DEFINE p == batch.player
             records == Selecting(prev[p], u) \o Order(p, u, what, queued, FALSE)
  <2>1. batch.on /\ Enqueue(p, records, u, 1) /\ UNCHANGED batch
    BY <1>8 DEF Command, actOnly, game
  <2>2. p \in Players
    BY <2>1, <1>2
  <2>3. records \in Seq(Records) /\ Len(records) <= 5
    BY <2>2, CommandIsShort, CommandsAreDeeds
  <2>4. BatchInv'
    BY <2>1 DEF RoomInv, BatchInv
  <2> HIDE DEF records, p
  <2>5. Len(records) <= LongestAction
    BY <2>3 DEF LongestAction
  <2> QED BY <2>1, <2>2, <2>3, <2>4, <2>5, EnqueueKeeps
<1>9. CASE Select(u)
  <2> DEFINE p == batch.player
             records == Selecting(prev[p], u)
  <2>1. batch.on /\ Enqueue(p, records, u, 0) /\ UNCHANGED batch
    BY <1>9 DEF Select, actOnly, game
  <2>2. p \in Players
    BY <2>1, <1>2
  <2>3. records \in Seq(Records) /\ Len(records) <= 4
    BY <2>2, SelectingIsShort DEF RoomInv
  <2>4. BatchInv'
    BY <2>1 DEF RoomInv, BatchInv
  <2> HIDE DEF records, p
  <2>5. Len(records) <= LongestAction
    BY <2>3 DEF LongestAction
  <2> QED BY <2>1, <2>2, <2>3, <2>4, <2>5, EnqueueKeeps
<1>10. ASSUME NEW shop \in Units, Buy(u, shop) PROVE RoomInv'
  <2> DEFINE p == batch.player
             records == Selecting(prev[p], u) \o Selecting(u, shop) \o Order(p, shop, "produce", FALSE, FALSE)
  <2>1. batch.on /\ Enqueue(p, records, shop, 1) /\ UNCHANGED batch
    BY <1>10 DEF Buy, actOnly, game
  <2>2. p \in Players
    BY <2>1, <1>2
  <2>3. records \in Seq(Records) /\ Len(records) <= LongestAction
    BY <2>2, BuyIsLongest
  <2>4. BatchInv'
    BY <2>1 DEF RoomInv, BatchInv
  <2> HIDE DEF records, p
  <2> QED BY <2>1, <2>2, <2>3, <2>4, EnqueueKeeps
<1>11. ASSUME NEW s \in Sites, NEW auto \in BOOLEAN, Build(u, s, queued, auto) PROVE RoomInv'
  <2> DEFINE p == batch.player
             records == Selecting(prev[p], u) \o Order(p, u, s, queued, auto)
             pending == Scanned(Forgotten(u, queued)) \cup {[worker |-> u, site |-> s]}
  <2>1. /\ batch.on /\ Enqueue(p, records, u, 1)
        /\ batch' = [batch EXCEPT !.scanned = TRUE, !.pending = pending]
    BY <1>11 DEF Build, actOnly, game
  <2>2. p \in Players
    BY <2>1, <1>2
  <2>3. records \in Seq(Records) /\ Len(records) <= 5
    BY <2>2, CommandIsShort DEF Deeds
  <2>4. BatchInv'
    BY <2>1, <1>6
  <2> HIDE DEF records, p
  <2>5. Len(records) <= LongestAction
    BY <2>3 DEF LongestAction
  <2> QED BY <2>1, <2>2, <2>3, <2>4, <2>5, EnqueueKeeps
<1> QED BY <1>3, <1>4, <1>5, <1>7, <1>8, <1>9, <1>10, <1>11

(* The inductive invariant: any step of the specification keeps it.         *)
THEOREM Invariance == Spec => []RoomInv
<1>1. Init => RoomInv
  BY DEF Init, RoomInv, BatchInv, NoBatch, WithinRoom
<1>2. RoomInv /\ [Next]_vars => RoomInv'
  <2> SUFFICES ASSUME RoomInv, [Next]_vars PROVE RoomInv'
    OBVIOUS
  <2>1. CASE Item
    BY <2>1, ItemKeeps
  <2>2. CASE Tick
    <3>1. UNCHANGED <<queue, capacity, prev, given, batch>>
      BY <2>2 DEF Tick, hook
    <3> QED BY <3>1, RoomUntouched DEF RoomInv, BatchInv
  <2>3. CASE Flush
    <3>1. /\ queue' = [p \in Players |-> <<>>]
          /\ UNCHANGED <<capacity, prev, given, batch>>
      BY <2>3 DEF Flush
    <3>2. queue' \in [Players -> Seq(Records)]
      BY <3>1
    <3>3. \A p \in Players : Len(queue'[p]) = 0 /\ capacity[p] \in Nat
      BY <3>1 DEF RoomInv
    <3>4. WithinRoom'
      BY <3>1, <3>3 DEF WithinRoom
    <3>5. BatchInv'
      BY <3>1 DEF RoomInv, BatchInv
    <3> QED BY <3>1, <3>2, <3>4, <3>5 DEF RoomInv
  <2>4. CASE Restart \/ Create
    <3>1. Clear /\ UNCHANGED batch /\ given' \in {given, [p \in Players |-> 0]}
      BY <2>4 DEF Restart, Create, game
    <3>2. \A p \in Players : queue'[p] = <<>> /\ capacity'[p] = 0
      BY <3>1 DEF Clear
    <3>3. WithinRoom'
      BY <3>2 DEF WithinRoom
    <3>4. queue' \in [Players -> Seq(Records)] /\ capacity' \in [Players -> {0} \cup {c \in Nat : c >= ActRecords}]
      BY <3>1 DEF Clear
    <3>5. prev' \in [Players -> Units \cup {NoUnit}] /\ given' \in [Players -> Nat]
      BY <3>1 DEF Clear, RoomInv
    <3>6. BatchInv'
      BY <3>1 DEF RoomInv, BatchInv
    <3> QED BY <3>3, <3>4, <3>5, <3>6 DEF RoomInv
  <2>5. CASE End
    <3>1. batch' = NoBatch /\ UNCHANGED <<queue, capacity, prev, given>>
      BY <2>5 DEF End, game
    <3>2. BatchInv'
      BY <3>1 DEF BatchInv, NoBatch
    <3> QED BY <3>1, <3>2, RoomUntouched DEF RoomInv
  <2>6. ASSUME NEW p \in Players, Begin(p) PROVE RoomInv'
    <3>1. /\ batch' = [on |-> TRUE, player |-> p, scanned |-> FALSE, pending |-> {}, from |-> Len(queue[p])]
          /\ UNCHANGED <<queue, capacity, prev, given>>
      BY <2>6 DEF Begin, game
    <3>2. BatchInv'
      BY <3>1 DEF BatchInv
    <3> QED BY <3>1, <3>2, RoomUntouched DEF RoomInv
  <2>7. ASSUME NEW u \in Units, Ends(u) \/ Dies(u) PROVE RoomInv'
    <3>1. UNCHANGED <<queue, capacity, prev, given, batch>>
      BY <2>7 DEF Ends, Dies, hook
    <3> QED BY <3>1, RoomUntouched DEF RoomInv, BatchInv
  <2>8. CASE UNCHANGED vars
    <3>1. UNCHANGED <<queue, capacity, prev, given, batch>>
      BY <2>8 DEF vars, hook, game
    <3> QED BY <3>1, RoomUntouched DEF RoomInv, BatchInv
  <2> QED BY <2>1, <2>2, <2>3, <2>4, <2>5, <2>6, <2>7, <2>8 DEF Next
<1> QED BY <1>1, <1>2, PTL DEF Spec

(* The records never outgrow the room made for them, however many orders   *)
(* are queued before a frame (act_reserve, act_enqueue).                    *)
THEOREM RecordsFit == Spec => []WithinRoom
<1>1. RoomInv => WithinRoom
  BY DEF RoomInv
<1> QED BY <1>1, Invariance, PTL
-----------------------------------------------------------------------------
(* The sites of a batch.                                                    *)

\* A batch that has scanned knows of every build under way, and of every site
\* it has ordered itself since it began.
ScanInv ==
  batch.on =>
    /\ batch.from \in Nat
    /\ batch.scanned => Current(batch.player) \subseteq batch.pending
    /\ \A i \in batch.from + 1 .. Len(queue[batch.player]) :
         LET r == queue[batch.player][i] IN
         r.kind = "order" /\ r.what \in Sites =>
           batch.scanned /\ [worker |-> r.unit, site |-> r.what] \in batch.pending

\* Records that order no build.
Plain(records) ==
  \A i \in 1..Len(records) : records[i].kind = "order" => records[i].what \notin Sites /\ ~records[i].auto

\* Records of which one alone is an order, the last.
EndsIn(records, order) ==
  /\ Len(records) >= 1 /\ records[Len(records)] = order
  /\ \A i \in 1..Len(records) : records[i].kind = "order" => records[i] = order

Adds(records) == queue' = [queue EXCEPT ![batch.player] = @ \o records]

(* Marks joined to marks.                                                   *)
LEMMA MarksJoin ==
  ASSUME NEW s \in Seq(Records), NEW t \in Seq(Records),
         \A i \in 1..Len(s) : s[i].kind # "order", \A i \in 1..Len(t) : t[i].kind # "order"
  PROVE  \A i \in 1..Len(s \o t) : (s \o t)[i].kind # "order"
<1>1. Len(s \o t) = Len(s) + Len(t) /\ Len(s) \in Nat /\ Len(t) \in Nat
  OBVIOUS
<1>2. \A i \in 1..Len(s) + Len(t) : (s \o t)[i] = IF i <= Len(s) THEN s[i] ELSE t[i - Len(s)]
  OBVIOUS
<1>3. SUFFICES ASSUME NEW i \in 1..Len(s) + Len(t) PROVE (s \o t)[i].kind # "order"
  BY <1>1
<1>4. CASE i <= Len(s)
  BY <1>1, <1>2, <1>4
<1>5. CASE ~(i <= Len(s))
  <2>1. i - Len(s) \in 1..Len(t)
    BY <1>1, <1>5
  <2>2. QED
    BY <1>2, <1>5, <2>1
<1>6. QED
  BY <1>4, <1>5

(* A selection is of marks.                                                 *)
LEMMA SelectingMarks ==
  ASSUME NEW before \in Units \cup {NoUnit}, NEW u \in Units
  PROVE  \A i \in 1..Len(Selecting(before, u)) : Selecting(before, u)[i].kind # "order"
<1> DEFINE marks == <<Mark("select", u), Mark("presub", u), Mark("subgroup", u)>>
<1>1. CASE before = NoUnit
  <2>1. Selecting(before, u) = <<>> \o marks
    BY <1>1 DEF Selecting
  <2>2. <<>> \o marks = marks
    <3>1. marks \in Seq(Records)
      BY DEF Mark, Marks, Records
    <3> HIDE DEF marks
    <3>2. QED
      BY <3>1
  <2>3. QED
    BY <2>1, <2>2 DEF Mark
<1>2. CASE before # NoUnit
  <2>1. Selecting(before, u) = <<Mark("deselect", before)>> \o marks
    BY <1>2 DEF Selecting
  <2> DEFINE one == <<Mark("deselect", before)>>
  <2>2. one \in Seq(Records) /\ marks \in Seq(Records)
    BY <1>2 DEF Mark, Marks, Records
  <2>3. /\ \A i \in 1..Len(one) : one[i].kind # "order"
        /\ \A i \in 1..Len(marks) : marks[i].kind # "order"
    BY DEF Mark
  <2> HIDE DEF one, marks
  <2>4. \A i \in 1..Len(one \o marks) : (one \o marks)[i].kind # "order"
    BY <2>2, <2>3, MarksJoin
  <2>5. QED
    BY <2>1, <2>4 DEF one
<1>3. QED
  BY <1>1, <1>2

(* Marks, and then an order.                                                *)
LEMMA MarksThenOrder ==
  ASSUME NEW s \in Seq(Records), NEW o \in Records,
         \A i \in 1..Len(s) : s[i].kind # "order"
  PROVE  EndsIn(s \o <<o>>, o)
<1>1. Len(s \o <<o>>) = Len(s) + 1 /\ Len(s) \in Nat
  OBVIOUS
<1>2. \A i \in 1..Len(s) + 1 : (s \o <<o>>)[i] = IF i <= Len(s) THEN s[i] ELSE o
  OBVIOUS
<1>3. QED
  BY <1>1, <1>2 DEF EndsIn

(* The order of a command or a build is the last of its records.            *)
LEMMA CommandEnds ==
  ASSUME RoomInv, NEW p \in Players, NEW u \in Units, NEW what \in Deeds,
         NEW queued \in BOOLEAN, NEW auto \in BOOLEAN
  PROVE  EndsIn(Selecting(prev[p], u) \o Order(p, u, what, queued, auto),
                Order(p, u, what, queued, auto)[1])
<1> DEFINE s == Selecting(prev[p], u)
           o == Order(p, u, what, queued, auto)[1]
<1>1. s \in Seq(Records)
  BY SelectingIsShort DEF RoomInv
<1>2. Order(p, u, what, queued, auto) = <<o>> /\ o \in Records
  <2>1. given[p] + 1 \in Nat
    BY DEF RoomInv
  <2>2. QED
    BY <2>1 DEF Order, Orders, Records
<1>3. \A i \in 1..Len(s) : s[i].kind # "order"
  BY SelectingMarks DEF RoomInv
<1> HIDE DEF s, o
<1>4. EndsIn(s \o <<o>>, o)
  BY <1>1, <1>2, <1>3, MarksThenOrder
<1>5. QED
  BY <1>2, <1>4 DEF s

(* So is the order of a purchase, after two selections.                     *)
LEMMA BuyEnds ==
  ASSUME RoomInv, NEW p \in Players, NEW u \in Units, NEW shop \in Units
  PROVE  EndsIn(Selecting(prev[p], u) \o Selecting(u, shop) \o Order(p, shop, "produce", FALSE, FALSE),
                Order(p, shop, "produce", FALSE, FALSE)[1])
<1> DEFINE s == Selecting(prev[p], u)
           t == Selecting(u, shop)
           o == Order(p, shop, "produce", FALSE, FALSE)[1]
<1>1. s \in Seq(Records) /\ t \in Seq(Records)
  BY SelectingIsShort DEF RoomInv
<1>2. Order(p, shop, "produce", FALSE, FALSE) = <<o>> /\ o \in Records
  <2>1. given[p] + 1 \in Nat
    BY DEF RoomInv
  <2>2. QED
    BY <2>1, CommandsAreDeeds DEF Order, Orders, Records
<1>3. /\ \A i \in 1..Len(s) : s[i].kind # "order"
      /\ \A i \in 1..Len(t) : t[i].kind # "order"
  BY SelectingMarks DEF RoomInv
<1> HIDE DEF s, t, o
<1>4. s \o t \in Seq(Records)
  BY <1>1
<1>5. \A i \in 1..Len(s \o t) : (s \o t)[i].kind # "order"
  BY <1>1, <1>3, MarksJoin
<1>6. EndsIn((s \o t) \o <<o>>, o)
  BY <1>2, <1>4, <1>5, MarksThenOrder
<1>7. QED
  <2>1. Selecting(prev[p], u) \o Selecting(u, shop) \o Order(p, shop, "produce", FALSE, FALSE)
          = (s \o t) \o <<o>>
    BY <1>2 DEF s, t
  <2>2. QED
    BY <1>6, <2>1 DEF o

(* What scanning finds, or found before: all builds under way.              *)
LEMMA ScannedCovers ==
  ASSUME ScanInv, batch.on, NEW remembered
  PROVE  /\ Current(batch.player) \subseteq Scanned(remembered)
         /\ batch.scanned => Scanned(remembered) = batch.pending
BY DEF ScanInv, Scanned

(* An action of a batch adds no record, records that order no build, or     *)
(* those of a build; the units are left alone.                              *)
LEMMA ItemMakes ==
  ASSUME RoomInv, Item
  PROVE  /\ batch.on /\ batch.player \in Players /\ UNCHANGED <<alive, plan>>
         /\ \/ queue' = queue /\ batch' = batch
            \/ /\ queue' = queue
               /\ \E remembered :
                    batch' = [batch EXCEPT !.scanned = TRUE, !.pending = Scanned(remembered)]
            \/ /\ batch' = batch
               /\ \E records \in Seq(Records) : Plain(records) /\ Adds(records)
            \/ \E u \in Units, s \in Sites, queued \in BOOLEAN, auto \in BOOLEAN : Build(u, s, queued, auto)
<1>1. batch.on => batch.player \in Players
  BY DEF RoomInv, BatchInv
<1>2. PICK u \in Units, queued \in BOOLEAN :
        \/ Refuse(u, queued) \/ RefuseLate(u, queued) \/ NoSite(u, queued)
        \/ \E what \in Commands : Command(u, what, queued)
        \/ ~queued /\ (Select(u) \/ \E shop \in Units : Buy(u, shop))
        \/ \E s \in Sites, auto \in BOOLEAN : Build(u, s, queued, auto)
  BY DEF Item, Action
<1>3. CASE Refuse(u, queued) \/ RefuseLate(u, queued)
  BY <1>1, <1>3 DEF Refuse, RefuseLate, actOnly, game
<1>4. CASE NoSite(u, queued)
  BY <1>1, <1>4 DEF NoSite, actOnly, game
<1>5. ASSUME NEW what \in Commands, Command(u, what, queued)
      PROVE  /\ batch.on /\ UNCHANGED <<alive, plan, batch>>
             /\ \E records \in Seq(Records) : Plain(records) /\ Adds(records)
  <2> DEFINE p == batch.player
             records == Selecting(prev[p], u) \o Order(p, u, what, queued, FALSE)
  <2>1. batch.on /\ UNCHANGED <<alive, plan, batch>> /\ Adds(records)
    BY <1>5 DEF Command, Enqueue, Adds, actOnly, game
  <2>2. p \in Players /\ what \in Deeds /\ what \notin Sites
    BY <1>1, <2>1, CommandsAreDeeds
  <2>3. records \in Seq(Records)
    BY <2>2, CommandIsShort
  <2>4. EndsIn(records, Order(p, u, what, queued, FALSE)[1])
    BY <2>2, CommandEnds
  <2>5. Plain(records)
    BY <2>2, <2>4 DEF EndsIn, Plain, Order
  <2>6. QED
    BY <2>1, <2>3, <2>5
<1>6. ASSUME Select(u)
      PROVE  /\ batch.on /\ UNCHANGED <<alive, plan, batch>>
             /\ \E records \in Seq(Records) : Plain(records) /\ Adds(records)
  <2> DEFINE p == batch.player
             records == Selecting(prev[p], u)
  <2>1. batch.on /\ UNCHANGED <<alive, plan, batch>> /\ Adds(records)
    BY <1>6 DEF Select, Enqueue, Adds, actOnly, game
  <2>2. records \in Seq(Records)
    BY <1>1, <2>1, SelectingIsShort DEF RoomInv
  <2>3. Plain(records)
    BY <1>1, <2>1, SelectingMarks DEF Plain, RoomInv
  <2>4. QED
    BY <2>1, <2>2, <2>3
<1>7. ASSUME NEW shop \in Units, Buy(u, shop)
      PROVE  /\ batch.on /\ UNCHANGED <<alive, plan, batch>>
             /\ \E records \in Seq(Records) : Plain(records) /\ Adds(records)
  <2> DEFINE p == batch.player
             records == Selecting(prev[p], u) \o Selecting(u, shop) \o Order(p, shop, "produce", FALSE, FALSE)
  <2>1. batch.on /\ UNCHANGED <<alive, plan, batch>> /\ Adds(records)
    BY <1>7 DEF Buy, Enqueue, Adds, actOnly, game
  <2>2. p \in Players /\ "produce" \notin Sites
    BY <1>1, <2>1, CommandsAreDeeds
  <2>3. records \in Seq(Records)
    BY <2>2, BuyIsLongest
  <2>4. EndsIn(records, Order(p, shop, "produce", FALSE, FALSE)[1])
    BY <2>2, BuyEnds
  <2>5. Plain(records)
    BY <2>2, <2>4 DEF EndsIn, Plain, Order
  <2>6. QED
    BY <2>1, <2>3, <2>5
<1>8. ASSUME NEW s \in Sites, NEW auto \in BOOLEAN, Build(u, s, queued, auto)
      PROVE  batch.on /\ UNCHANGED <<alive, plan>>
  BY <1>8 DEF Build, actOnly, game
<1>9. QED
  BY <1>1, <1>2, <1>3, <1>4, <1>5, <1>6, <1>7, <1>8

(* What a build adds, and what the batch then knows.                        *)
LEMMA BuildMakes ==
  ASSUME RoomInv, NEW u \in Units, NEW s \in Sites, NEW queued \in BOOLEAN, NEW auto \in BOOLEAN,
         Build(u, s, queued, auto)
  PROVE  /\ batch.on /\ batch.player \in Players /\ batch'.on /\ batch'.scanned
         /\ batch'.player = batch.player /\ batch'.from = batch.from
         /\ batch'.pending = Scanned(Forgotten(u, queued)) \cup {[worker |-> u, site |-> s]}
         /\ auto => Free(s, Scanned(Forgotten(u, queued)), u, queued)
         /\ \E records \in Seq(Records), order \in Orders :
              /\ EndsIn(records, order) /\ Adds(records)
              /\ order.unit = u /\ order.what = s /\ order.queued = queued /\ order.auto = auto
<1> DEFINE p == batch.player
           records == Selecting(prev[p], u) \o Order(p, u, s, queued, auto)
           order == Order(p, u, s, queued, auto)[1]
           pending == Scanned(Forgotten(u, queued)) \cup {[worker |-> u, site |-> s]}
<1>1. /\ batch.on /\ Adds(records)
      /\ batch' = [batch EXCEPT !.scanned = TRUE, !.pending = pending]
      /\ auto => Free(s, Scanned(Forgotten(u, queued)), u, queued)
  BY DEF Build, Enqueue, Adds
<1>2. p \in Players
  BY <1>1 DEF RoomInv, BatchInv
<1>3. batch' = [on |-> TRUE, player |-> p, scanned |-> TRUE, pending |-> pending, from |-> batch.from]
  BY <1>1 DEF RoomInv, BatchInv
<1>4. records \in Seq(Records) /\ EndsIn(records, order)
  BY <1>2, CommandIsShort, CommandEnds DEF Deeds
<1>5. /\ order \in Orders
      /\ order.unit = u /\ order.what = s /\ order.queued = queued /\ order.auto = auto
  <2>1. given[p] + 1 \in Nat
    BY <1>2 DEF RoomInv
  <2>2. QED
    BY <2>1 DEF Order, Orders, Deeds
<1>6. QED
  BY <1>1, <1>2, <1>3, <1>4, <1>5

(* Where the records of a longer queue come from.                           *)
LEMMA LongerQueue ==
  ASSUME RoomInv, batch.player \in Players, NEW records \in Seq(Records), Adds(records)
  PROVE  /\ \A q \in Players \ {batch.player} : queue'[q] = queue[q]
         /\ Len(queue'[batch.player]) = Len(queue[batch.player]) + Len(records)
         /\ Len(queue[batch.player]) \in Nat /\ Len(records) \in Nat
         /\ \A i \in 1..Len(queue'[batch.player]) :
              queue'[batch.player][i] =
                IF i <= Len(queue[batch.player]) THEN queue[batch.player][i]
                ELSE records[i - Len(queue[batch.player])]
<1> DEFINE s == queue[batch.player]
<1>1. /\ \A q \in Players \ {batch.player} : queue'[q] = queue[q]
      /\ queue'[batch.player] = s \o records /\ s \in Seq(Records)
  BY DEF Adds, RoomInv
<1> HIDE DEF s
<1>2. Len(s \o records) = Len(s) + Len(records) /\ Len(s) \in Nat /\ Len(records) \in Nat
  BY <1>1
<1>3. \A i \in 1..Len(s) + Len(records) :
        (s \o records)[i] = IF i <= Len(s) THEN s[i] ELSE records[i - Len(s)]
  BY <1>1
<1>4. QED
  BY <1>1, <1>2, <1>3 DEF s

(* While the units are left alone, the builds under way are the same.       *)
LEMMA CurrentKeptInMind ==
  ASSUME UNCHANGED <<alive, plan>>, batch'.player = batch.player
  PROVE  Current(batch.player)' = Current(batch.player)
BY DEF Current

(* A batch goes on knowing of every build and of every site it ordered.     *)
LEMMA ItemScans == ASSUME RoomInv, ScanInv, Item PROVE ScanInv'
<1> DEFINE p == batch.player
           Known(r) == r.kind = "order" /\ r.what \in Sites =>
                         batch.scanned /\ [worker |-> r.unit, site |-> r.what] \in batch.pending
           KnownNext(r) == r.kind = "order" /\ r.what \in Sites =>
                         batch'.scanned /\ [worker |-> r.unit, site |-> r.what] \in batch'.pending
<1>1. batch.on /\ p \in Players /\ UNCHANGED <<alive, plan>>
  BY ItemMakes
<1>2. /\ batch.from \in Nat /\ (batch.scanned => Current(p) \subseteq batch.pending)
      /\ \A i \in batch.from + 1 .. Len(queue[p]) : Known(queue[p][i])
  BY <1>1 DEF ScanInv
<1>3. ASSUME batch'.player = p, batch'.from = batch.from,
             batch'.scanned => Current(p) \subseteq batch'.pending,
             \A i \in batch.from + 1 .. Len(queue'[p]) : KnownNext(queue'[p][i])
      PROVE  ScanInv'
  <2>1. Current(batch.player)' = Current(batch.player)
    BY <1>1, <1>3, CurrentKeptInMind
  <2>2. QED
    BY <1>2, <1>3, <2>1 DEF ScanInv
<1>4. CASE queue' = queue /\ batch' = batch
  BY <1>2, <1>3, <1>4
<1>5. ASSUME queue' = queue, NEW remembered,
             batch' = [batch EXCEPT !.scanned = TRUE, !.pending = Scanned(remembered)]
      PROVE  ScanInv'
  <2>1. batch' = [on |-> TRUE, player |-> p, scanned |-> TRUE,
                  pending |-> Scanned(remembered), from |-> batch.from]
    BY <1>1, <1>5 DEF RoomInv, BatchInv
  <2>2. Current(p) \subseteq Scanned(remembered) /\ (batch.scanned => Scanned(remembered) = batch.pending)
    BY <1>1, ScannedCovers
  <2>3. \A i \in batch.from + 1 .. Len(queue[p]) : KnownNext(queue[p][i])
    BY <1>2, <2>1, <2>2
  <2>4. QED
    BY <1>3, <1>5, <2>1, <2>2, <2>3
<1>6. ASSUME batch' = batch, NEW records \in Seq(Records), Plain(records), Adds(records)
      PROVE  ScanInv'
  <2>1. /\ Len(queue'[p]) = Len(queue[p]) + Len(records)
        /\ Len(queue[p]) \in Nat /\ Len(records) \in Nat
        /\ \A i \in 1..Len(queue'[p]) :
             queue'[p][i] = IF i <= Len(queue[p]) THEN queue[p][i] ELSE records[i - Len(queue[p])]
    BY <1>1, <1>6, LongerQueue
  <2>2. ASSUME NEW i \in batch.from + 1 .. Len(queue'[p])
        PROVE  KnownNext(queue'[p][i])
    <3>1. i \in 1..Len(queue'[p])
      BY <1>2, <2>1
    <3>2. CASE i <= Len(queue[p])
      <4>1. i \in batch.from + 1 .. Len(queue[p]) /\ queue'[p][i] = queue[p][i]
        BY <1>2, <2>1, <3>1, <3>2
      <4>2. QED
        BY <1>2, <1>6, <4>1
    <3>3. CASE ~(i <= Len(queue[p]))
      <4>1. i - Len(queue[p]) \in 1..Len(records) /\ queue'[p][i] = records[i - Len(queue[p])]
        BY <2>1, <3>1, <3>3
      <4>2. QED
        BY <1>6, <4>1 DEF Plain
    <3>4. QED
      BY <3>2, <3>3
  <2>3. QED
    BY <1>2, <1>3, <1>6, <2>2
<1>7. ASSUME NEW u \in Units, NEW s \in Sites, NEW queued \in BOOLEAN, NEW auto \in BOOLEAN,
             Build(u, s, queued, auto)
      PROVE  ScanInv'
  <2> DEFINE scanned == Scanned(Forgotten(u, queued))
  <2>1. /\ batch'.player = p /\ batch'.from = batch.from /\ batch'.scanned
        /\ batch'.pending = scanned \cup {[worker |-> u, site |-> s]}
    BY <1>7, BuildMakes
  <2>2. PICK records \in Seq(Records), order \in Orders :
          EndsIn(records, order) /\ Adds(records) /\ order.unit = u /\ order.what = s
    BY <1>7, BuildMakes
  <2>3. Current(p) \subseteq scanned /\ (batch.scanned => scanned = batch.pending)
    BY <1>1, ScannedCovers
  <2>4. /\ Len(queue'[p]) = Len(queue[p]) + Len(records)
        /\ Len(queue[p]) \in Nat /\ Len(records) \in Nat
        /\ \A i \in 1..Len(queue'[p]) :
             queue'[p][i] = IF i <= Len(queue[p]) THEN queue[p][i] ELSE records[i - Len(queue[p])]
    BY <1>1, <2>2, LongerQueue
  <2> HIDE DEF scanned
  <2>5. ASSUME NEW i \in batch.from + 1 .. Len(queue'[p])
        PROVE  KnownNext(queue'[p][i])
    <3>1. i \in 1..Len(queue'[p])
      BY <1>2, <2>4
    <3>2. CASE i <= Len(queue[p])
      <4>1. i \in batch.from + 1 .. Len(queue[p]) /\ queue'[p][i] = queue[p][i]
        BY <1>2, <2>4, <3>1, <3>2
      <4>2. Known(queue[p][i])
        BY <1>2, <4>1
      <4>3. QED
        BY <2>1, <2>3, <4>1, <4>2
    <3>3. CASE ~(i <= Len(queue[p]))
      <4>1. i - Len(queue[p]) \in 1..Len(records) /\ queue'[p][i] = records[i - Len(queue[p])]
        BY <2>4, <3>1, <3>3
      <4>2. queue'[p][i].kind = "order" => queue'[p][i].unit = u /\ queue'[p][i].what = s
        BY <2>2, <4>1 DEF EndsIn
      <4>3. QED
        BY <2>1, <4>2
    <3>4. QED
      BY <3>2, <3>3
  <2>6. QED
    BY <1>3, <2>1, <2>3, <2>5
<1>8. QED
  BY <1>4, <1>5, <1>6, <1>7, ItemMakes

(* The invariant of the sites, with that of the room.                       *)
THEOREM SitesAreKnown == Spec => []ScanInv
<1>1. Init => ScanInv
  BY DEF Init, NoBatch, ScanInv
<1>2. RoomInv /\ ScanInv /\ [Next]_vars => ScanInv'
  <2> SUFFICES ASSUME RoomInv, ScanInv, [Next]_vars PROVE ScanInv'
    OBVIOUS
  <2>1. CASE Item
    BY <2>1, ItemScans
  <2>2. CASE Tick \/ Flush \/ Restart \/ Create \/ \E u \in Units : Ends(u) \/ Dies(u)
    <3>1. ~batch.on /\ batch' = batch
      BY <2>2 DEF Tick, Flush, Restart, Create, Ends, Dies, hook
    <3>2. QED
      BY <3>1 DEF ScanInv
  <2>3. CASE End
    BY <2>3 DEF End, NoBatch, ScanInv
  <2>4. ASSUME NEW p \in Players, Begin(p) PROVE ScanInv'
    <3>1. /\ batch' = [on |-> TRUE, player |-> p, scanned |-> FALSE, pending |-> {}, from |-> Len(queue[p])]
          /\ queue' = queue
      BY <2>4 DEF Begin
    <3>2. Len(queue[p]) \in Nat
      BY DEF RoomInv
    <3>3. QED
      BY <3>1, <3>2 DEF ScanInv
  <2>5. CASE UNCHANGED vars
    <3>1. queue' = queue /\ batch' = batch /\ alive' = alive /\ plan' = plan
      BY <2>5 DEF vars, hook, game
    <3>2. batch'.player = batch.player
      BY <3>1
    <3>3. Current(batch.player)' = Current(batch.player)
      BY <3>1, <3>2, CurrentKeptInMind
    <3>4. QED
      BY <3>1, <3>3 DEF ScanInv
  <2>6. QED
    BY <2>1, <2>2, <2>3, <2>4, <2>5 DEF Next
<1>3. QED
  BY <1>1, <1>2, Invariance, PTL DEF Spec

(* A queue grows by an action of a batch, at its end.                       *)
LEMMA GrownByItem ==
  ASSUME RoomInv, [Next]_vars, NEW p \in Players, Len(queue'[p]) > Len(queue[p])
  PROVE  Item /\ batch.on /\ batch.player \in Players
<1>1. Len(queue[p]) \in Nat
  BY DEF RoomInv
<1>2. Item
  <2>1. CASE Flush \/ Restart \/ Create
    <3>1. queue'[p] = <<>>
      BY <2>1 DEF Flush, Restart, Create, Clear
    <3>2. QED
      BY <1>1, <3>1
  <2>2. CASE UNCHANGED queue
    BY <1>1, <2>2
  <2>3. QED
    BY <2>1, <2>2 DEF Next, Tick, Begin, End, Ends, Dies, vars, hook
<1>3. QED
  BY <1>2, ItemMakes

LEMMA LastAdded ==
  ASSUME RoomInv, batch.player \in Players, NEW p \in Players, Len(queue'[p]) > Len(queue[p]),
         NEW records \in Seq(Records), Adds(records)
  PROVE  /\ p = batch.player /\ Len(records) \in Nat /\ Len(records) >= 1
         /\ Last(queue'[p]) = records[Len(records)]
<1>1. Len(queue[p]) \in Nat
  BY DEF RoomInv
<1>2. /\ \A q \in Players \ {batch.player} : queue'[q] = queue[q]
      /\ Len(queue'[batch.player]) = Len(queue[batch.player]) + Len(records)
      /\ Len(queue[batch.player]) \in Nat /\ Len(records) \in Nat
      /\ \A i \in 1..Len(queue'[batch.player]) :
           queue'[batch.player][i] =
             IF i <= Len(queue[batch.player]) THEN queue[batch.player][i]
             ELSE records[i - Len(queue[batch.player])]
  BY LongerQueue
<1>3. p = batch.player
  BY <1>1, <1>2
<1>4. Len(queue'[p]) = Len(queue[p]) + Len(records) /\ Len(records) \in Nat /\ Len(records) >= 1
  BY <1>1, <1>2, <1>3
<1>5. \A i \in 1..Len(queue'[p]) :
        queue'[p][i] = IF i <= Len(queue[p]) THEN queue[p][i] ELSE records[i - Len(queue[p])]
  BY <1>2, <1>3
<1>6. queue'[p][Len(queue[p]) + Len(records)] = records[Len(records)]
  <2>1. Len(queue[p]) + Len(records) \in 1..Len(queue'[p])
    BY <1>1, <1>4
  <2>2. ~(Len(queue[p]) + Len(records) <= Len(queue[p]))
    BY <1>1, <1>4
  <2>3. Len(queue[p]) + Len(records) - Len(queue[p]) = Len(records)
    BY <1>1, <1>4
  <2>4. QED
    BY <1>5, <2>1, <2>2, <2>3
<1>7. QED
  BY <1>3, <1>4, <1>6 DEF Last

(* The order of a build is the last record of a queue that ends with the     *)
(* order of one.                                                            *)
LEMMA BuildAdded ==
  ASSUME RoomInv, [Next]_vars, NEW p \in Players, Len(queue'[p]) > Len(queue[p]),
         Last(queue'[p]).kind = "order", Last(queue'[p]).what \in Sites \/ Last(queue'[p]).auto
  PROVE  /\ batch.on /\ p = batch.player
         /\ \E u \in Units, s \in Sites, queued \in BOOLEAN, auto \in BOOLEAN :
              /\ Build(u, s, queued, auto)
              /\ Last(queue'[p]).unit = u /\ Last(queue'[p]).what = s
              /\ Last(queue'[p]).queued = queued /\ Last(queue'[p]).auto = auto
<1>1. Len(queue[p]) \in Nat
  BY DEF RoomInv
<1>2. Item /\ batch.on /\ batch.player \in Players
  BY GrownByItem
<1>3. PICK u \in Units, s \in Sites, queued \in BOOLEAN, auto \in BOOLEAN : Build(u, s, queued, auto)
  <2>1. CASE queue' = queue
    BY <1>1, <2>1
  <2>2. ASSUME NEW records \in Seq(Records), Plain(records), Adds(records)
        PROVE  FALSE
    <3>1. Len(records) \in Nat /\ Len(records) >= 1 /\ Last(queue'[p]) = records[Len(records)]
      BY <1>2, <2>2, LastAdded
    <3>2. QED
      BY <2>2, <3>1 DEF Plain
  <2>3. QED
    BY <1>2, <2>1, <2>2, ItemMakes
<1>4. PICK records \in Seq(Records), order \in Orders :
        /\ EndsIn(records, order) /\ Adds(records)
        /\ order.unit = u /\ order.what = s /\ order.queued = queued /\ order.auto = auto
  BY <1>3, BuildMakes
<1>5. p = batch.player /\ Last(queue'[p]) = order
  BY <1>2, <1>4, LastAdded DEF EndsIn
<1>6. QED
  BY <1>2, <1>3, <1>4, <1>5

(* A build whose place the search chose overlaps no build of the player      *)
(* under way and none ordered before it in its batch, but the one it         *)
(* replaces: for any players, units and sites, and any batch.                *)
THEOREM BuildsStayApart == Spec => SitesApart
<1> DEFINE Apart(p) ==
      Len(queue'[p]) > Len(queue[p]) /\ Last(queue'[p]).kind = "order" =>
        LET o == Last(queue'[p]) IN
        o.auto =>
          /\ \A v \in alive : Owner[v] = p /\ Building(v) /\ (v # o.unit \/ o.queued) =>
               ~Overlaps(Head(plan[v]).what, o.what)
          /\ \A i \in batch.from + 1 .. Len(queue[p]) :
               LET r == queue[p][i] IN
               r.kind = "order" /\ r.what \in Sites /\ (r.unit # o.unit \/ o.queued) =>
                 ~Overlaps(r.what, o.what)
<1>1. RoomInv /\ ScanInv /\ [Next]_vars => \A p \in Players : Apart(p)
  <2> SUFFICES ASSUME RoomInv, ScanInv, [Next]_vars, NEW p \in Players,
                      Len(queue'[p]) > Len(queue[p]), Last(queue'[p]).kind = "order", Last(queue'[p]).auto
               PROVE  Apart(p)
    OBVIOUS
  <2>1. batch.on /\ p = batch.player
    BY BuildAdded
  <2>2. PICK u \in Units, s \in Sites, queued \in BOOLEAN, auto \in BOOLEAN :
          /\ Build(u, s, queued, auto)
          /\ Last(queue'[p]).unit = u /\ Last(queue'[p]).what = s
          /\ Last(queue'[p]).queued = queued /\ Last(queue'[p]).auto = auto
    BY BuildAdded
  <2> DEFINE scanned == Scanned(Forgotten(u, queued))
  <2>3. Free(s, scanned, u, queued)
    BY <2>2, BuildMakes
  <2>4. Current(p) \subseteq scanned /\ (batch.scanned => scanned = batch.pending)
    BY <2>1, ScannedCovers
  <2> HIDE DEF scanned
  <2>5. ASSUME NEW q \in scanned, q.worker # u \/ queued
         PROVE  ~Overlaps(q.site, s)
    BY <2>3, <2>5 DEF Free, Overlaps
  <2>6. ASSUME NEW v \in alive, Owner[v] = p, Building(v), v # u \/ queued
         PROVE  ~Overlaps(Head(plan[v]).what, s)
    <3>1. [worker |-> v, site |-> Head(plan[v]).what] \in Current(p)
      BY <2>6 DEF Current, Building
    <3>2. QED
      BY <2>4, <2>5, <2>6, <3>1
  <2>7. ASSUME NEW i \in batch.from + 1 .. Len(queue[p]), queue[p][i].kind = "order",
                queue[p][i].what \in Sites, queue[p][i].unit # u \/ queued
         PROVE  ~Overlaps(queue[p][i].what, s)
    <3>1. batch.scanned /\ [worker |-> queue[p][i].unit, site |-> queue[p][i].what] \in batch.pending
      BY <2>1, <2>7 DEF ScanInv
    <3>2. QED
      BY <2>4, <2>5, <2>7, <3>1
  <2>8. QED
    BY <2>1, <2>2, <2>6, <2>7
<1>2. RoomInv /\ ScanInv /\ [Next]_vars => [\A p \in Players : Apart(p)]_vars
  BY <1>1
<1>3. Spec => [][\A p \in Players : Apart(p)]_vars
  BY <1>2, Invariance, SitesAreKnown, PTL DEF Spec
<1>4. QED
  BY <1>3 DEF SitesApart
-----------------------------------------------------------------------------
(* What a recursion over a sequence computes, step by step.                  *)

(* A set of numbers that is not empty has a least.                          *)
LEMMA LeastNat ==
  ASSUME NEW T, T \subseteq Nat, T # {}
  PROVE  \E x \in T : \A y \in T : ~(y < x)
<1> DEFINE R == OpToRel(<, Nat)
<1>1. IsWellFoundedOn(R, Nat)
  BY NatLessThanWellFounded
<1>2. \A y, x \in Nat : <<y, x>> \in R <=> y < x
  BY DEF OpToRel
<1> HIDE DEF R
<1>3. \E x \in T : \A y \in T : ~(<<y, x>> \in R)
  BY <1>1, WFMin
<1>4. QED
  BY <1>2, <1>3

(* Counting up from zero: what zero has, and each number has from the one    *)
(* before it, all have.                                                     *)
LEMMA CountingUp ==
  ASSUME NEW L \in Nat, NEW Z, 0 \in Z, \A n \in 1 .. L : n - 1 \in Z => n \in Z
  PROVE  \A n \in 0 .. L : n \in Z
<1> DEFINE T == {n \in 0 .. L : n \notin Z}
<1>1. SUFFICES ASSUME T # {} PROVE FALSE
  OBVIOUS
<1>2. T \subseteq Nat
  OBVIOUS
<1>3. PICK n \in T : \A m \in T : ~(m < n)
  <2> HIDE DEF T
  <2>1. QED
    BY <1>1, <1>2, LeastNat
<1>4. n \in 1 .. L /\ n - 1 \notin T
  BY <1>3
<1>5. n - 1 \in Z
  BY <1>4
<1>6. QED
  BY <1>3, <1>4, <1>5

(* Growing a sequence from the empty one, likewise.                         *)
LEMMA GrowingUp ==
  ASSUME NEW Elem, NEW Z, <<>> \in Z,
         \A s \in Seq(Elem) : \A r \in Elem : s \in Z => Append(s, r) \in Z
  PROVE  \A s \in Seq(Elem) : s \in Z
<1> SUFFICES ASSUME NEW s \in Seq(Elem) PROVE s \in Z
  OBVIOUS
<1> DEFINE L == Len(s)
           First(n) == SubSeq(s, 1, n)
           Y == {n \in 0 .. L : First(n) \in Z}
<1>1. L \in Nat
  OBVIOUS
<1>2. First(0) = <<>> /\ First(L) = s
  OBVIOUS
<1>3. ASSUME NEW n \in 1 .. L
      PROVE  First(n - 1) \in Seq(Elem) /\ s[n] \in Elem /\ First(n) = Append(First(n - 1), s[n])
  <2>1. First(n - 1) \in Seq(Elem) /\ s[n] \in Elem
    OBVIOUS
  <2> DEFINE t == First(n - 1)
             r == s[n]
  <2>2. First(n) = t \o <<r>>
    BY <1>1, SubSeqRecursiveSecond
  <2>3. t \in Seq(Elem) /\ r \in Elem
    BY <2>1
  <2> HIDE DEF t, r
  <2>4. t \o <<r>> = Append(t, r)
    BY <2>3, AppendIsConcat
  <2>5. QED
    BY <2>1, <2>2, <2>4 DEF t, r
<1> HIDE DEF L, First
<1>4. ASSUME NEW n \in 1 .. L, n - 1 \in Y PROVE n \in Y
  <2>1. First(n) \in Z
    BY <1>3, <1>4
  <2>2. QED
    BY <1>1, <2>1
<1>5. 0 \in Y
  BY <1>1, <1>2
<1> HIDE DEF Y
<1>6. \A n \in 0 .. L : n \in Y
  BY <1>1, <1>4, <1>5, CountingUp
<1>7. QED
  BY <1>1, <1>2, <1>6 DEF Y

\* f is the run of step over s from base; what such a run ends with.
Runs(f, step, base, s) ==
  f = [n \in 0 .. Len(s) |-> IF n = 0 THEN base ELSE step[<<f[n - 1], s[n]>>]]

\* c goes as that run does, while it is in State.
Follows(c, State, step, base, s) ==
  c[0] = base /\ \A n \in 1 .. Len(s) : c[n - 1] \in State => c[n] = step[<<c[n - 1], s[n]>>]

Outcome(step, base, s) == (CHOOSE f : Runs(f, step, base, s))[Len(s)]

LEMMA RunExists ==
  ASSUME NEW State, NEW Elem, NEW base \in State, NEW step \in [State \X Elem -> State],
         NEW s \in Seq(Elem)
  PROVE  \E f \in [0 .. Len(s) -> State] : Runs(f, step, base, s)
<1> DEFINE Z == {t \in Seq(Elem) : \E f \in [0 .. Len(t) -> State] : Runs(f, step, base, t)}
<1>1. <<>> \in Z
  <2> DEFINE f == [n \in 0 .. 0 |-> base]
  <2>1. f \in [0 .. 0 -> State] /\ Runs(f, step, base, <<>>)
    BY DEF Runs
  <2>2. QED
    BY <2>1
<1>2. ASSUME NEW t \in Seq(Elem), NEW r \in Elem, t \in Z PROVE Append(t, r) \in Z
  <2> DEFINE L == Len(t)
             u == Append(t, r)
  <2>1. PICK f \in [0 .. L -> State] : Runs(f, step, base, t)
    BY <1>2
  <2>2. L \in Nat /\ u \in Seq(Elem) /\ Len(u) = L + 1 /\ u[L + 1] = r /\ \A n \in 1 .. L : u[n] = t[n]
    OBVIOUS
  <2>3. f[0] = base /\ \A n \in 1 .. L : f[n] = step[<<f[n - 1], t[n]>>]
    <3>1. \A n \in 0 .. L : f[n] = IF n = 0 THEN base ELSE step[<<f[n - 1], t[n]>>]
      BY <2>1 DEF Runs
    <3>2. 0 \in 0 .. L /\ \A n \in 1 .. L : n \in 0 .. L /\ n # 0
      BY <2>2
    <3> HIDE DEF L
    <3>3. QED
      BY <3>1, <3>2
  <2>4. step[<<f[L], r>>] \in State
    BY <2>1, <2>2
  <2> DEFINE g == [n \in 0 .. L + 1 |-> IF n = L + 1 THEN step[<<f[L], r>>] ELSE f[n]]
  <2>5. g \in [0 .. L + 1 -> State]
    BY <2>1, <2>2, <2>4
  <2>6. \A n \in 0 .. L + 1 : g[n] = IF n = L + 1 THEN step[<<f[L], r>>] ELSE f[n]
    OBVIOUS
  <2> HIDE DEF L, u, g
  <2>7. ASSUME NEW n \in 0 .. L + 1
        PROVE  g[n] = IF n = 0 THEN base ELSE step[<<g[n - 1], u[n]>>]
    <3>1. CASE n = 0
      <4>1. 0 \in 0 .. L + 1 /\ 0 # L + 1
        BY <2>2
      <4>2. QED
        BY <2>3, <2>6, <3>1, <4>1
    <3>2. CASE n = L + 1
      <4>1. n - 1 = L /\ L \in 0 .. L + 1 /\ L # L + 1 /\ n # 0
        BY <2>2, <3>2
      <4>2. g[n - 1] = f[L] /\ u[n] = r /\ g[n] = step[<<f[L], r>>]
        BY <2>2, <2>6, <3>2, <4>1
      <4>3. QED
        BY <4>1, <4>2
    <3>3. CASE n \in 1 .. L
      <4>1. n - 1 \in 0 .. L + 1 /\ n - 1 # L + 1 /\ n # L + 1 /\ n # 0
        BY <2>2, <3>3
      <4>2. g[n - 1] = f[n - 1] /\ g[n] = f[n]
        BY <2>6, <4>1
      <4>3. u[n] = t[n]
        BY <2>2, <3>3
      <4>4. QED
        BY <2>3, <3>3, <4>1, <4>2, <4>3
    <3>4. QED
      BY <2>2, <3>1, <3>2, <3>3
  <2>8. g = [n \in 0 .. L + 1 |-> g[n]]
    BY <2>5
  <2>9. Runs(g, step, base, u)
    BY <2>2, <2>7, <2>8 DEF Runs
  <2>10. QED
    BY <2>2, <2>5, <2>9 DEF u
<1> HIDE DEF Z
<1>3. s \in Z
  BY <1>1, <1>2, GrowingUp
<1>4. QED
  BY <1>3 DEF Z

(* Whatever goes step by step as the run does ends as it does.              *)
LEMMA SameOutcome ==
  ASSUME NEW State, NEW Elem, NEW base \in State, NEW step \in [State \X Elem -> State],
         NEW s \in Seq(Elem), NEW c, Follows(c, State, step, base, s)
  PROVE  c[Len(s)] = Outcome(step, base, s) /\ c[Len(s)] \in State
<1> DEFINE L == Len(s)
           k == CHOOSE f : Runs(f, step, base, s)
<1>1. PICK g \in [0 .. L -> State] : Runs(g, step, base, s)
  BY RunExists
<1>2. Runs(k, step, base, s)
  BY <1>1
<1>3. L \in Nat
  OBVIOUS
<1> HIDE DEF k, L
<1>4. /\ g[0] = base /\ \A n \in 1 .. L : g[n] = step[<<g[n - 1], s[n]>>]
      /\ k[0] = base /\ \A n \in 1 .. L : k[n] = step[<<k[n - 1], s[n]>>]
  <2>1. /\ g = [n \in 0 .. L |-> IF n = 0 THEN base ELSE step[<<g[n - 1], s[n]>>]]
        /\ k = [n \in 0 .. L |-> IF n = 0 THEN base ELSE step[<<k[n - 1], s[n]>>]]
    BY <1>1, <1>2 DEF Runs, L
  <2>2. 0 \in 0 .. L /\ \A n \in 1 .. L : n \in 0 .. L /\ n # 0
    BY <1>3
  <2>3. g[0] = base /\ \A n \in 1 .. L : g[n] = step[<<g[n - 1], s[n]>>]
    BY <2>1, <2>2
  <2>4. k[0] = base /\ \A n \in 1 .. L : k[n] = step[<<k[n - 1], s[n]>>]
    BY <2>1, <2>2
  <2>5. QED
    BY <2>3, <2>4
<1> DEFINE Z == {n \in 0 .. L : c[n] = g[n] /\ k[n] = g[n]}
<1>5. 0 \in Z
  BY <1>3, <1>4 DEF Follows
<1>6. ASSUME NEW n \in 1 .. L, n - 1 \in Z PROVE n \in Z
  <2>1. c[n - 1] = g[n - 1] /\ k[n - 1] = g[n - 1] /\ g[n - 1] \in State
    BY <1>1, <1>3, <1>6
  <2>2. c[n] = g[n] /\ k[n] = g[n]
    BY <1>4, <2>1 DEF Follows, L
  <2>3. QED
    BY <1>3, <2>2
<1> HIDE DEF Z
<1>7. \A n \in 0 .. L : n \in Z
  BY <1>3, <1>5, <1>6, CountingUp
<1>8. c[L] = k[L] /\ c[L] \in State
  BY <1>1, <1>3, <1>7 DEF Z
<1>9. QED
  BY <1>8 DEF Outcome, k, L

(* Runs grow with their sequences.                                          *)
Grows(State, Elem, step, base) ==
  /\ Outcome(step, base, <<>>) = base
  /\ \A s \in Seq(Elem) :
       /\ Outcome(step, base, s) \in State
       /\ \A r \in Elem : Outcome(step, base, Append(s, r)) = step[<<Outcome(step, base, s), r>>]

LEMMA OutcomeGrows ==
  ASSUME NEW State, NEW Elem, NEW base \in State, NEW step \in [State \X Elem -> State]
  PROVE  Grows(State, Elem, step, base)
<1>1. Outcome(step, base, <<>>) = base
  <2> DEFINE c == [n \in 0 .. 0 |-> base]
             e == <<>>
  <2>1. c[0] = base /\ e \in Seq(Elem) /\ Len(e) = 0
    OBVIOUS
  <2> HIDE DEF c, e
  <2>2. Follows(c, State, step, base, e)
    BY <2>1 DEF Follows
  <2>3. e \in Seq(Elem)
    BY <2>1
  <2>4. c[Len(e)] = Outcome(step, base, e) /\ c[Len(e)] \in State
    BY <2>2, <2>3, SameOutcome
  <2>5. Outcome(step, base, e) = base
    BY <2>1, <2>4
  <2>6. QED
    BY <2>5 DEF e
<1>2. ASSUME NEW s \in Seq(Elem), NEW r \in Elem
      PROVE  /\ Outcome(step, base, s) \in State
             /\ Outcome(step, base, Append(s, r)) = step[<<Outcome(step, base, s), r>>]
  <2> DEFINE L == Len(s)
             t == Append(s, r)
  <2>1. L \in Nat /\ t \in Seq(Elem) /\ Len(t) = L + 1 /\ t[L + 1] = r /\ \A n \in 1 .. L : t[n] = s[n]
    OBVIOUS
  <2>2. PICK c \in [0 .. Len(t) -> State] : Runs(c, step, base, t)
    BY <2>1, RunExists
  <2> HIDE DEF t
  <2>3. c[0] = base /\ \A n \in 1 .. L + 1 : c[n] = step[<<c[n - 1], t[n]>>]
    <3>1. c = [n \in 0 .. L + 1 |-> IF n = 0 THEN base ELSE step[<<c[n - 1], t[n]>>]]
      BY <2>1, <2>2 DEF Runs
    <3>2. 0 \in 0 .. L + 1 /\ \A n \in 1 .. L + 1 : n \in 0 .. L + 1 /\ n # 0
      BY <2>1
    <3>3. QED
      BY <3>1, <3>2
  <2>4. \A n \in 1 .. L : c[n] = step[<<c[n - 1], s[n]>>]
    BY <2>1, <2>3
  <2>5. c[L] = Outcome(step, base, s) /\ c[L] \in State
    <3> HIDE DEF L
    <3>1. Follows(c, State, step, base, s)
      BY <2>3, <2>4 DEF Follows, L
    <3>2. c[Len(s)] = Outcome(step, base, s) /\ c[Len(s)] \in State
      BY <3>1, SameOutcome
    <3>3. QED
      BY <3>2 DEF L
  <2>6. c[Len(t)] = Outcome(step, base, t) /\ c[Len(t)] \in State
    <3>1. Follows(c, State, step, base, t)
      BY <2>1, <2>3 DEF Follows
    <3>2. t \in Seq(Elem)
      BY <2>1
    <3>3. QED
      BY <3>1, <3>2, SameOutcome
  <2>7. c[L + 1] = step[<<c[L], r>>]
    BY <2>1, <2>3
  <2>8. QED
    BY <2>1, <2>5, <2>6, <2>7 DEF t
<1>3. ASSUME NEW s \in Seq(Elem) PROVE Outcome(step, base, s) \in State
  <2>1. PICK c \in [0 .. Len(s) -> State] : Runs(c, step, base, s)
    BY RunExists
  <2>2. Len(s) \in Nat
    OBVIOUS
  <2>3. Follows(c, State, step, base, s)
    <3>1. c = [n \in 0 .. Len(s) |-> IF n = 0 THEN base ELSE step[<<c[n - 1], s[n]>>]]
      BY <2>1 DEF Runs
    <3>2. 0 \in 0 .. Len(s) /\ \A n \in 1 .. Len(s) : n \in 0 .. Len(s) /\ n # 0
      BY <2>2
    <3>3. QED
      BY <3>1, <3>2 DEF Follows
  <2>4. c[Len(s)] = Outcome(step, base, s) /\ c[Len(s)] \in State
    BY <2>3, SameOutcome
  <2>5. QED
    BY <2>4
<1>4. QED
  BY <1>1, <1>2, <1>3 DEF Grows
-----------------------------------------------------------------------------
(* What a queue does to the game.                                           *)

\* What a unit is at; what the game's part of a record's effect is on.
Things == [what : Sites \cup Tasks, at : 0 .. MaxTime]
States == [sel : SUBSET Units, plan : [Units -> Seq(Things)], heard : Nat]

GameInv ==
  /\ alive \subseteq Units /\ sel \in [Players -> SUBSET Units]
  /\ plan \in [Units -> Seq(Things)] /\ time \in 0 .. MaxTime /\ heard \in [Players -> Nat]

Before(p) == [sel |-> sel[p], plan |-> plan, heard |-> heard[p]]
Effect(p) == [x \in States \X Records |-> Apply(p, x[1], x[2])]

(* A record's effect, and that of an order apart.                           *)
LEMMA ApplyIsTyped ==
  ASSUME alive \subseteq Units, time \in 0 .. MaxTime,
         NEW p \in Players, NEW s \in States, NEW r \in Records
  PROVE  Apply(p, s, r) \in States
<1>1. s = [sel |-> s.sel, plan |-> s.plan, heard |-> s.heard]
      /\ s.sel \in SUBSET Units /\ s.plan \in [Units -> Seq(Things)] /\ s.heard \in Nat
  BY DEF States
<1>2. CASE r.kind = "deselect"
  <2>1. Apply(p, s, r) = [s EXCEPT !.sel = @ \ {r.unit}]
    BY <1>2 DEF Apply
  <2>2. QED
    BY <1>1, <2>1 DEF States
<1>3. CASE r.kind = "select"
  <2>1. Apply(p, s, r) = [s EXCEPT !.sel = @ \cup ({r.unit} \cap alive)]
    BY <1>3 DEF Apply
  <2>2. QED
    BY <1>1, <2>1 DEF States
<1>4. CASE r.kind = "order"
  <2> DEFINE next == [u \in Units |-> IF u \in s.sel /\ Owner[u] = p THEN Obey(s.plan[u], r) ELSE s.plan[u]]
             count == IF r.n = s.heard + 1 THEN r.n ELSE s.heard
  <2>1. Apply(p, s, r) = [s EXCEPT !.plan = next, !.heard = count]
    BY <1>4 DEF Apply
  <2>2. r \in Orders
    BY <1>4 DEF Records, Marks
  <2>3. r.what \in Deeds /\ r.n \in Nat
    BY <2>2 DEF Orders
  <2>4. ASSUME NEW todo \in Seq(Things) PROVE Obey(todo, r) \in Seq(Things)
    <3>1. CASE r.what \in Production
      BY <3>1 DEF Obey
    <3>2. CASE r.what \notin Production
      <4> DEFINE new == [what |-> r.what, at |-> time]
      <4>1. new \in Things
        BY <2>3, <3>2 DEF Deeds, Things
      <4>2. Obey(todo, r) = IF r.queued THEN Append(todo, new) ELSE <<new>>
        BY <3>2 DEF Obey
      <4> HIDE DEF new
      <4>3. Append(todo, new) \in Seq(Things) /\ <<new>> \in Seq(Things)
        BY <4>1
      <4>4. QED
        BY <4>2, <4>3
    <3>3. QED
      BY <3>1, <3>2
  <2>5. next \in [Units -> Seq(Things)]
    BY <1>1, <2>4
  <2>6. count \in Nat
    BY <1>1, <2>3
  <2> HIDE DEF next, count
  <2>7. [s EXCEPT !.plan = next, !.heard = count] \in States
    BY <2>5, <2>6 DEF States
  <2>8. QED
    BY <2>1, <2>7
<1>5. CASE r.kind \notin {"deselect", "select", "order"}
  BY <1>5 DEF Apply
<1>6. QED
  BY <1>2, <1>3, <1>4, <1>5

(* The effect of a queue grows with it.                                     *)
AppliedByRecord ==
  \A p \in Players :
    /\ Applied(p, <<>>) = Before(p)
    /\ \A q \in Seq(Records) :
         /\ Applied(p, q) \in States
         /\ \A r \in Records : Applied(p, Append(q, r)) = Apply(p, Applied(p, q), r)

LEMMA AppliedGrows == GameInv => AppliedByRecord
<1> SUFFICES ASSUME GameInv, NEW p \in Players
             PROVE  /\ Applied(p, <<>>) = Before(p)
                    /\ \A q \in Seq(Records) :
                         /\ Applied(p, q) \in States
                         /\ \A r \in Records : Applied(p, Append(q, r)) = Apply(p, Applied(p, q), r)
  BY DEF AppliedByRecord
<1>1. Before(p) \in States
  BY DEF Before, States, GameInv
<1>2. \A s \in States : \A r \in Records : Apply(p, s, r) \in States
  BY ApplyIsTyped DEF GameInv
<1>3. Effect(p) \in [States \X Records -> States]
      /\ \A s \in States : \A r \in Records : Effect(p)[<<s, r>>] = Apply(p, s, r)
  BY <1>2 DEF Effect
<1>4. ASSUME NEW q \in Seq(Records)
      PROVE  Applied(p, q) = Outcome(Effect(p), Before(p), q)
  <2> DEFINE D(f) == f = [n \in 0 .. Len(q) |-> IF n = 0 THEN Before(p) ELSE Apply(p, f[n - 1], q[n])]
             after == CHOOSE f : D(f)
  <2>1. Applied(p, q) = after[Len(q)]
    BY DEF Applied, Before
  <2>2. Len(q) \in Nat /\ \A n \in 1 .. Len(q) : q[n] \in Records
    OBVIOUS
  <2>3. PICK f \in [0 .. Len(q) -> States] : Runs(f, Effect(p), Before(p), q)
    BY <1>1, <1>3, RunExists
  <2>4. ASSUME NEW n \in 0 .. Len(q)
        PROVE  f[n] = IF n = 0 THEN Before(p) ELSE Apply(p, f[n - 1], q[n])
    <3>1. f[n] = IF n = 0 THEN Before(p) ELSE Effect(p)[<<f[n - 1], q[n]>>]
      BY <2>3 DEF Runs
    <3>2. CASE n # 0
      <4>1. n \in 1 .. Len(q) /\ n - 1 \in 0 .. Len(q)
        BY <2>2, <3>2
      <4>2. QED
        BY <1>3, <2>2, <3>1, <4>1
    <3>3. QED
      BY <3>1, <3>2
  <2>5. D(f)
    <3>1. f = [n \in 0 .. Len(q) |-> f[n]]
      OBVIOUS
    <3>2. QED
      BY <2>4, <3>1
  <2>6. D(after)
    <3> HIDE DEF D
    <3>1. QED
      BY <2>5
  <2> HIDE DEF after
  <2>7. after[0] = Before(p) /\ \A n \in 1 .. Len(q) : after[n] = Apply(p, after[n - 1], q[n])
    <3>1. 0 \in 0 .. Len(q) /\ \A n \in 1 .. Len(q) : n \in 0 .. Len(q) /\ n # 0
      BY <2>2
    <3>2. QED
      BY <2>6, <3>1
  <2>8. Follows(after, States, Effect(p), Before(p), q)
    BY <1>3, <2>2, <2>7 DEF Follows
  <2>9. after[Len(q)] = Outcome(Effect(p), Before(p), q) /\ after[Len(q)] \in States
    <3> HIDE DEF D
    <3>1. QED
      BY <1>1, <1>3, <2>8, SameOutcome
  <2>10. QED
    BY <2>1, <2>9
<1> DEFINE step == Effect(p)
           base == Before(p)
           Made(q) == Outcome(step, base, q)
<1>5. /\ Made(<<>>) = base
      /\ \A q \in Seq(Records) :
           /\ Made(q) \in States
           /\ \A r \in Records : Made(Append(q, r)) = step[<<Made(q), r>>]
  <2>1. base \in States /\ step \in [States \X Records -> States]
    BY <1>1, <1>3
  <2> HIDE DEF step, base
  <2>2. Grows(States, Records, step, base)
    BY <2>1, OutcomeGrows
  <2>3. QED
    BY <2>2 DEF Grows
<1>6. <<>> \in Seq(Records) /\ \A q \in Seq(Records) : \A r \in Records : Append(q, r) \in Seq(Records)
  OBVIOUS
<1>7. \A q \in Seq(Records) : Applied(p, q) = Made(q)
  BY <1>4
<1>8. \A s \in States : \A r \in Records : step[<<s, r>>] = Apply(p, s, r)
  BY <1>3
<1> HIDE DEF Made, step
<1>9. Applied(p, <<>>) = base
  BY <1>5, <1>6, <1>7
<1>10. ASSUME NEW q \in Seq(Records), NEW r \in Records
       PROVE  Applied(p, Append(q, r)) = Apply(p, Applied(p, q), r)
  <2>1. Append(q, r) \in Seq(Records) /\ Made(q) \in States
    BY <1>5, <1>6
  <2>2. Applied(p, Append(q, r)) = step[<<Made(q), r>>]
    BY <1>5, <1>7, <2>1
  <2>3. QED
    BY <1>7, <1>8, <2>1, <2>2
<1>11. QED
  BY <1>5, <1>7, <1>9, <1>10
(* What the kinds of record do to the selection and to the count.           *)
AppliedByKind ==
  \A p \in Players : \A s \in States : \A r \in Records :
    LET t == Apply(p, s, r) IN
    /\ r.kind = "deselect" => t.sel = s.sel \ {r.unit} /\ t.heard = s.heard
    /\ r.kind = "select" => t.sel = s.sel \cup ({r.unit} \cap alive) /\ t.heard = s.heard
    /\ r.kind = "order" => t.sel = s.sel /\ t.heard = IF r.n = s.heard + 1 THEN r.n ELSE s.heard
    /\ r.kind \in {"presub", "subgroup"} => t = s

LEMMA ApplyEffects == AppliedByKind
<1> SUFFICES ASSUME NEW p \in Players, NEW s \in States, NEW r \in Records
             PROVE  LET t == Apply(p, s, r) IN
                    /\ r.kind = "deselect" => t.sel = s.sel \ {r.unit} /\ t.heard = s.heard
                    /\ r.kind = "select" => t.sel = s.sel \cup ({r.unit} \cap alive) /\ t.heard = s.heard
                    /\ r.kind = "order" => t.sel = s.sel /\ t.heard = IF r.n = s.heard + 1 THEN r.n ELSE s.heard
                    /\ r.kind \in {"presub", "subgroup"} => t = s
  BY DEF AppliedByKind
<1>1. CASE r.kind = "deselect"
  BY <1>1 DEF Apply, States
<1>2. CASE r.kind = "select"
  BY <1>2 DEF Apply, States
<1>3. CASE r.kind = "order"
  BY <1>3 DEF Apply, States
<1>4. CASE r.kind \in {"presub", "subgroup"}
  BY <1>4 DEF Apply
<1>5. QED
  BY <1>1, <1>2, <1>3, <1>4 DEF Records, Marks, Orders

(* Records have a size, and the longest goes into a packet.                 *)
LEMMA BytesOfRecords == \A r \in Records : Bytes(r) \in 1 .. LongestRecord
<1> SUFFICES ASSUME NEW r \in Records PROVE Bytes(r) \in 1 .. LongestRecord
  OBVIOUS
<1>1. QED
  BY DEF Bytes, LongestRecord

(* The size of records grows with them.                                     *)
LEMMA SizeGrows ==
  /\ Size(<<>>) = 0
  /\ \A q \in Seq(Records) :
       Size(q) \in Nat /\ \A r \in Records : Size(Append(q, r)) = Size(q) + Bytes(r)
<1> DEFINE step == [x \in Nat \X Records |-> x[1] + Bytes(x[2])]
           Made(q) == Outcome(step, 0, q)
<1>1. \A r \in Records : Bytes(r) \in Nat
  BY BytesOfRecords DEF LongestRecord
<1>2. step \in [Nat \X Records -> Nat]
      /\ \A n \in Nat : \A r \in Records : step[<<n, r>>] = n + Bytes(r)
  BY <1>1
<1> HIDE DEF step
<1>3. ASSUME NEW q \in Seq(Records) PROVE Size(q) = Made(q)
  <2> DEFINE D(f) == f = [n \in 0 .. Len(q) |-> IF n = 0 THEN 0 ELSE f[n - 1] + Bytes(q[n])]
             size == CHOOSE f : D(f)
  <2>1. Size(q) = size[Len(q)]
    BY DEF Size
  <2>2. Len(q) \in Nat /\ \A n \in 1 .. Len(q) : q[n] \in Records
    OBVIOUS
  <2>3. PICK f \in [0 .. Len(q) -> Nat] : Runs(f, step, 0, q)
    BY <1>2, RunExists
  <2>4. ASSUME NEW n \in 0 .. Len(q)
        PROVE  f[n] = IF n = 0 THEN 0 ELSE f[n - 1] + Bytes(q[n])
    <3>1. f[n] = IF n = 0 THEN 0 ELSE step[<<f[n - 1], q[n]>>]
      BY <2>3 DEF Runs
    <3>2. CASE n # 0
      <4>1. n \in 1 .. Len(q) /\ n - 1 \in 0 .. Len(q)
        BY <2>2, <3>2
      <4>2. QED
        BY <1>2, <2>2, <3>1, <4>1
    <3>3. QED
      BY <3>1, <3>2
  <2>5. D(f)
    <3>1. f = [n \in 0 .. Len(q) |-> f[n]]
      OBVIOUS
    <3>2. QED
      BY <2>4, <3>1
  <2>6. D(size)
    <3> HIDE DEF D
    <3>1. QED
      BY <2>5
  <2> HIDE DEF size
  <2>7. size[0] = 0 /\ \A n \in 1 .. Len(q) : size[n] = size[n - 1] + Bytes(q[n])
    <3>1. 0 \in 0 .. Len(q) /\ \A n \in 1 .. Len(q) : n \in 0 .. Len(q) /\ n # 0
      BY <2>2
    <3>2. QED
      BY <2>6, <3>1
  <2>8. Follows(size, Nat, step, 0, q)
    BY <1>2, <2>2, <2>7 DEF Follows
  <2>9. size[Len(q)] = Made(q) /\ size[Len(q)] \in Nat
    <3> HIDE DEF D
    <3>1. QED
      BY <1>2, <2>8, SameOutcome
  <2>10. QED
    BY <2>1, <2>9
<1>4. Grows(Nat, Records, step, 0)
  BY <1>2, OutcomeGrows
<1>5. /\ Made(<<>>) = 0
      /\ \A q \in Seq(Records) :
           Made(q) \in Nat /\ \A r \in Records : Made(Append(q, r)) = step[<<Made(q), r>>]
  BY <1>4 DEF Grows
<1>6. <<>> \in Seq(Records) /\ \A q \in Seq(Records) : \A r \in Records : Append(q, r) \in Seq(Records)
  OBVIOUS
<1> HIDE DEF Made
<1>7. ASSUME NEW q \in Seq(Records), NEW r \in Records
      PROVE  Size(q) \in Nat /\ Size(Append(q, r)) = Size(q) + Bytes(r)
  <2>1. Append(q, r) \in Seq(Records) /\ Made(q) \in Nat
    BY <1>5, <1>6
  <2>2. Size(Append(q, r)) = step[<<Made(q), r>>]
    BY <1>3, <1>5, <2>1
  <2>3. QED
    BY <1>2, <1>3, <2>1, <2>2
<1>8. QED
  BY <1>3, <1>5, <1>6, <1>7

\* Packets: one at least, the last being filled.
PacketLists == {packets \in Seq(Seq(Records)) : Len(packets) >= 1}

(* A packet list and the one it grew from.                                  *)
LEMMA FrontAndLast ==
  ASSUME NEW packets \in PacketLists
  PROVE  /\ Front(packets) \in Seq(Seq(Records)) /\ Last(packets) \in Seq(Records)
         /\ packets = Append(Front(packets), Last(packets))
<1>1. packets \in Seq(Seq(Records)) /\ Len(packets) \in Nat /\ Len(packets) >= 1
  BY DEF PacketLists
<1>2. SubSeq(packets, 1, Len(packets) - 1) \in Seq(Seq(Records)) /\ packets[Len(packets)] \in Seq(Records)
  BY <1>1
<1>3. packets = Append(SubSeq(packets, 1, Len(packets) - 1), packets[Len(packets)])
  BY <1>1
<1>4. QED
  BY <1>2, <1>3 DEF Front, Last

LEMMA PackedIsTyped ==
  \A packets \in PacketLists : \A r \in Records : Packed(packets, r) \in PacketLists
<1> SUFFICES ASSUME NEW packets \in PacketLists, NEW r \in Records
             PROVE  Packed(packets, r) \in PacketLists
  OBVIOUS
<1>1. packets \in Seq(Seq(Records)) /\ Front(packets) \in Seq(Seq(Records)) /\ Last(packets) \in Seq(Records)
  BY FrontAndLast DEF PacketLists
<1> DEFINE first == Front(packets)
           more == Append(Last(packets), r)
           one == <<r>>
<1>2. first \in Seq(Seq(Records)) /\ more \in Seq(Records) /\ one \in Seq(Records)
  BY <1>1
<1>3. Put(packets, r) = first \o <<more>>
  BY DEF Put
<1>4. Packed(packets, r) = IF Fits(Last(packets), r) THEN first \o <<more>> ELSE Append(packets, one)
  BY <1>3 DEF Packed
<1> HIDE DEF first, more, one
<1>5. first \o <<more>> \in PacketLists
  BY <1>2 DEF PacketLists
<1>6. Append(packets, one) \in PacketLists
  BY <1>1, <1>2 DEF PacketLists
<1>7. QED
  BY <1>4, <1>5, <1>6

(* The packets of a queue grow with it.                                     *)
LEMMA PacketsGrow ==
  /\ Packets(<<>>) = <<<<>>>>
  /\ \A q \in Seq(Records) :
       Packets(q) \in PacketLists /\ \A r \in Records : Packets(Append(q, r)) = Packed(Packets(q), r)
<1> DEFINE step == [x \in PacketLists \X Records |-> Packed(x[1], x[2])]
           base == <<<<>>>>
           Made(q) == Outcome(step, base, q)
<1>1. base \in PacketLists
  <2>1. <<>> \in Seq(Records)
    OBVIOUS
  <2>2. QED
    BY <2>1 DEF PacketLists
<1>2. step \in [PacketLists \X Records -> PacketLists]
      /\ \A n \in PacketLists : \A r \in Records : step[<<n, r>>] = Packed(n, r)
  BY PackedIsTyped
<1>3. ASSUME NEW q \in Seq(Records) PROVE Packets(q) = Made(q)
  <2> DEFINE D(f) == f = [n \in 0 .. Len(q) |-> IF n = 0 THEN base ELSE Packed(f[n - 1], q[n])]
             split == CHOOSE f : D(f)
  <2>1. Packets(q) = split[Len(q)]
    BY DEF Packets
  <2> HIDE DEF step, base
  <2>2. Len(q) \in Nat /\ \A n \in 1 .. Len(q) : q[n] \in Records
    OBVIOUS
  <2>3. PICK f \in [0 .. Len(q) -> PacketLists] : Runs(f, step, base, q)
    BY <1>1, <1>2, RunExists
  <2>4. ASSUME NEW n \in 0 .. Len(q)
        PROVE  f[n] = IF n = 0 THEN base ELSE Packed(f[n - 1], q[n])
    <3>1. f[n] = IF n = 0 THEN base ELSE step[<<f[n - 1], q[n]>>]
      BY <2>3 DEF Runs
    <3>2. CASE n # 0
      <4>1. n \in 1 .. Len(q) /\ n - 1 \in 0 .. Len(q)
        BY <2>2, <3>2
      <4>2. QED
        BY <1>2, <2>2, <3>1, <4>1
    <3>3. QED
      BY <3>1, <3>2
  <2>5. D(f)
    <3>1. f = [n \in 0 .. Len(q) |-> f[n]]
      OBVIOUS
    <3>2. QED
      BY <2>4, <3>1
  <2>6. D(split)
    <3> HIDE DEF D
    <3>1. QED
      BY <2>5
  <2> HIDE DEF split
  <2>7. split[0] = base /\ \A n \in 1 .. Len(q) : split[n] = Packed(split[n - 1], q[n])
    <3>1. 0 \in 0 .. Len(q) /\ \A n \in 1 .. Len(q) : n \in 0 .. Len(q) /\ n # 0
      BY <2>2
    <3>2. QED
      BY <2>6, <3>1
  <2>8. Follows(split, PacketLists, step, base, q)
    BY <1>2, <2>2, <2>7 DEF Follows
  <2>9. split[Len(q)] = Made(q) /\ split[Len(q)] \in PacketLists
    <3> HIDE DEF D
    <3>1. QED
      BY <1>1, <1>2, <2>8, SameOutcome
  <2>10. QED
    BY <2>1, <2>9
<1>4. Grows(PacketLists, Records, step, base)
  <2> HIDE DEF step, base
  <2>1. QED
    BY <1>1, <1>2, OutcomeGrows
<1>5. /\ Made(<<>>) = base
      /\ \A q \in Seq(Records) :
           Made(q) \in PacketLists /\ \A r \in Records : Made(Append(q, r)) = step[<<Made(q), r>>]
  BY <1>4 DEF Grows
<1>6. <<>> \in Seq(Records) /\ \A q \in Seq(Records) : \A r \in Records : Append(q, r) \in Seq(Records)
  OBVIOUS
<1> HIDE DEF Made, step
<1>7. ASSUME NEW q \in Seq(Records), NEW r \in Records
      PROVE  Packets(q) \in PacketLists /\ Packets(Append(q, r)) = Packed(Packets(q), r)
  <2>1. Append(q, r) \in Seq(Records) /\ Made(q) \in PacketLists
    BY <1>5, <1>6
  <2>2. Packets(Append(q, r)) = step[<<Made(q), r>>]
    BY <1>3, <1>5, <2>1
  <2>3. QED
    BY <1>2, <1>3, <2>1, <2>2
<1>8. Packets(<<>>) = base
  BY <1>3, <1>5, <1>6
<1>9. \A q \in Seq(Records) : Packets(q) \in PacketLists
  BY <1>3, <1>5
<1>10. QED
  BY <1>7, <1>8, <1>9

(* What the packets hold, joined, grows with them.                          *)
LEMMA FlattenGrows ==
  /\ FlattenSeq(<<>>) = <<>>
  /\ \A ps \in Seq(Seq(Records)) :
       /\ FlattenSeq(ps) \in Seq(Records)
       /\ \A packet \in Seq(Records) : FlattenSeq(Append(ps, packet)) = FlattenSeq(ps) \o packet
<1> DEFINE Lists == Seq(Records)
           step == [x \in Lists \X Lists |-> x[1] \o x[2]]
           base == <<>>
           Made(ps) == Outcome(step, base, ps)
<1>1. base \in Lists /\ (\A s \in Lists : base \o s = s) /\ (\A s, t \in Lists : s \o t \in Lists)
  OBVIOUS
<1> HIDE DEF Lists, base
<1>2. step \in [Lists \X Lists -> Lists]
      /\ \A s \in Lists : \A t \in Lists : step[<<s, t>>] = s \o t
  BY <1>1
<1>3. Grows(Lists, Lists, step, base)
  <2> HIDE DEF step
  <2>1. QED
    BY <1>1, <1>2, OutcomeGrows
<1>4. /\ Made(<<>>) = base
      /\ \A ps \in Seq(Lists) :
           Made(ps) \in Lists /\ \A t \in Lists : Made(Append(ps, t)) = step[<<Made(ps), t>>]
  BY <1>3 DEF Grows
<1> HIDE DEF step
<1>5. FlattenSeq(<<>>) = base
  BY DEF FlattenSeq, base
<1>6. ASSUME NEW ps \in Seq(Lists) PROVE FlattenSeq(ps) = Made(ps)
  <2>1. CASE Len(ps) = 0
    <3>1. ps = <<>>
      BY <2>1
    <3>2. QED
      BY <1>4, <1>5, <3>1
  <2>2. CASE Len(ps) # 0
    <3> DEFINE D(f) == f = [i \in 1 .. Len(ps) |-> IF i = 1 THEN ps[i] ELSE f[i - 1] \o ps[i]]
               flatten == CHOOSE f : D(f)
    <3>1. FlattenSeq(ps) = flatten[Len(ps)]
      BY <2>2 DEF FlattenSeq
    <3>2. Len(ps) \in Nat /\ Len(ps) >= 1 /\ \A n \in 1 .. Len(ps) : ps[n] \in Lists
      BY <2>2
    <3>3. PICK f \in [0 .. Len(ps) -> Lists] : Runs(f, step, base, ps)
      BY <1>1, <1>2, RunExists
    <3>4. f[0] = base /\ \A n \in 1 .. Len(ps) : f[n] = f[n - 1] \o ps[n]
      <4>1. \A n \in 0 .. Len(ps) : f[n] = IF n = 0 THEN base ELSE step[<<f[n - 1], ps[n]>>]
        BY <3>3 DEF Runs
      <4>2. 0 \in 0 .. Len(ps)
        BY <3>2
      <4>3. ASSUME NEW n \in 1 .. Len(ps) PROVE f[n] = f[n - 1] \o ps[n]
        <5>1. n \in 0 .. Len(ps) /\ n # 0 /\ n - 1 \in 0 .. Len(ps)
          BY <3>2
        <5>2. QED
          BY <1>2, <3>2, <4>1, <5>1
      <4>4. QED
        BY <4>1, <4>2, <4>3
    <3> DEFINE g == [i \in 1 .. Len(ps) |-> f[i]]
    <3>5. ASSUME NEW i \in 1 .. Len(ps)
          PROVE  g[i] = IF i = 1 THEN ps[i] ELSE g[i - 1] \o ps[i]
      <4>1. CASE i = 1
        <5>1. 1 \in 1 .. Len(ps) /\ 1 - 1 = 0
          BY <3>2
        <5>2. f[1] = base \o ps[1] /\ ps[1] \in Lists
          BY <3>2, <3>4, <5>1
        <5>3. f[1] = ps[1] /\ g[1] = f[1]
          BY <1>1, <5>1, <5>2
        <5>4. QED
          BY <4>1, <5>3
      <4>2. CASE i # 1
        <5>1. i - 1 \in 1 .. Len(ps)
          BY <3>2, <4>2
        <5>2. QED
          BY <3>4, <4>2, <5>1
      <4>3. QED
        BY <4>1, <4>2
    <3>6. D(g)
      <4>1. g = [i \in 1 .. Len(ps) |-> g[i]]
        OBVIOUS
      <4> HIDE DEF g
      <4>2. QED
        BY <3>5, <4>1
    <3>7. D(flatten)
      <4> HIDE DEF D, g
      <4>1. QED
        BY <3>6
    <3> HIDE DEF flatten
    <3>8. \A n \in 1 .. Len(ps) : flatten[n] = IF n = 1 THEN ps[n] ELSE flatten[n - 1] \o ps[n]
      BY <3>7
    <3> DEFINE c == [n \in 0 .. Len(ps) |-> IF n = 0 THEN base ELSE flatten[n]]
    <3>9. c[0] = base /\ \A n \in 1 .. Len(ps) : c[n] = flatten[n]
      <4>1. 0 \in 0 .. Len(ps) /\ \A n \in 1 .. Len(ps) : n \in 0 .. Len(ps) /\ n # 0
        BY <3>2
      <4>2. QED
        BY <4>1
    <3> HIDE DEF c, D, g
    <3>10. ASSUME NEW n \in 1 .. Len(ps), c[n - 1] \in Lists
           PROVE  c[n] = step[<<c[n - 1], ps[n]>>]
      <4>1. c[n] = c[n - 1] \o ps[n]
        <5>1. CASE n = 1
          <6>1. 1 \in 1 .. Len(ps) /\ n - 1 = 0
            BY <3>2, <5>1
          <6>2. c[n] = ps[n] /\ c[n - 1] = base /\ ps[n] \in Lists
            BY <3>2, <3>8, <3>9, <5>1, <6>1
          <6>3. QED
            BY <1>1, <6>2
        <5>2. CASE n # 1
          <6>1. n - 1 \in 1 .. Len(ps)
            BY <3>2, <5>2
          <6>2. QED
            BY <3>8, <3>9, <5>2, <6>1
        <5>3. QED
          BY <5>1, <5>2
      <4>2. QED
        BY <1>2, <3>2, <3>10, <4>1
    <3>11. Follows(c, Lists, step, base, ps)
      BY <3>9, <3>10 DEF Follows
    <3>12. c[Len(ps)] = Made(ps) /\ c[Len(ps)] \in Lists
      BY <1>1, <1>2, <3>11, SameOutcome
    <3>13. QED
      BY <3>1, <3>2, <3>9, <3>12
  <2>3. QED
    BY <2>1, <2>2
<1>7. \A ps \in Seq(Lists) : \A t \in Lists : Append(ps, t) \in Seq(Lists)
  OBVIOUS
<1> HIDE DEF Made
<1>8. ASSUME NEW ps \in Seq(Lists), NEW t \in Lists
      PROVE  FlattenSeq(Append(ps, t)) = FlattenSeq(ps) \o t
  <2>1. Append(ps, t) \in Seq(Lists) /\ Made(ps) \in Lists
    BY <1>4, <1>7
  <2>2. FlattenSeq(Append(ps, t)) = step[<<Made(ps), t>>]
    BY <1>4, <1>6, <2>1
  <2>3. QED
    BY <1>2, <1>6, <2>1, <2>2
<1>9. \A ps \in Seq(Lists) : FlattenSeq(ps) \in Lists
  BY <1>4, <1>6
<1>10. QED
  BY <1>5, <1>8, <1>9 DEF Lists, base

(* A flush splits a queue and loses nothing: the packets, joined, are the    *)
(* queue, and each is within the buffer (act_flush).                        *)
LEMMA PacketsHold ==
  \A q \in Seq(Records) :
    /\ FlattenSeq(Packets(q)) = q
    /\ \A i \in 1 .. Len(Packets(q)) : Size(Packets(q)[i]) <= PacketBytes
<1> DEFINE Small(ps) == \A i \in 1 .. Len(ps) : Size(ps[i]) <= PacketBytes
           Holds(q) == FlattenSeq(Packets(q)) = q /\ Small(Packets(q))
           Z == {q \in Seq(Records) : Holds(q)}
<1>1. PacketBytes \in Nat /\ PacketBytes >= LongestRecord /\ LongestRecord \in Nat
  BY ConstantsAssumption, PacketAssumption DEF LongestRecord
<1>2. <<>> \in Seq(Records) /\ <<>> \in Seq(Seq(Records))
  OBVIOUS
<1>3. <<>> \in Z
  <2>1. FlattenSeq(Append(<<>>, <<>>)) = <<>> \o <<>>
    BY <1>2, FlattenGrows
  <2>2. Append(<<>>, <<>>) = <<<<>>>> /\ <<>> \o <<>> = <<>>
    OBVIOUS
  <2>3. FlattenSeq(Packets(<<>>)) = <<>>
    BY <2>1, <2>2, PacketsGrow
  <2> DEFINE one == <<<<>>>>
  <2>4. Len(one) = 1 /\ one[1] = <<>>
    OBVIOUS
  <2>5. Packets(<<>>) = one
    BY PacketsGrow
  <2> HIDE DEF one
  <2>6. Small(one)
    BY <1>1, <2>4, SizeGrows
  <2>7. QED
    BY <1>2, <2>3, <2>5, <2>6
<1>4. ASSUME NEW q \in Seq(Records), NEW r \in Records, q \in Z PROVE Append(q, r) \in Z
  <2> DEFINE ps == Packets(q)
             first == Front(ps)
             last == Last(ps)
  <2>1. ps \in PacketLists /\ Packets(Append(q, r)) = Packed(ps, r)
    BY PacketsGrow
  <2>2. FlattenSeq(ps) = q /\ Small(ps)
    BY <1>4
  <2>3. /\ ps \in Seq(Seq(Records)) /\ Len(ps) \in Nat /\ Len(ps) >= 1
        /\ first \in Seq(Seq(Records)) /\ last \in Seq(Records) /\ ps = Append(first, last)
    BY <2>1, FrontAndLast DEF PacketLists
  <2>4. Packed(ps, r) = IF Fits(last, r) THEN first \o <<Append(last, r)>> ELSE Append(ps, <<r>>)
    BY DEF Packed, Put
  <2>5. Append(q, r) \in Seq(Records) /\ Bytes(r) \in Nat /\ Bytes(r) <= LongestRecord
    BY BytesOfRecords, <1>1
  <2> HIDE DEF ps, first, last
  <2>6. /\ \A i \in 1 .. Len(first) : first[i] = ps[i] /\ i \in 1 .. Len(ps)
        /\ Len(first) \in Nat
    BY <2>3
  <2>7. CASE Fits(last, r)
    <3> DEFINE more == Append(last, r)
    <3>1. more \in Seq(Records) /\ Size(more) <= PacketBytes
      <4>1. Size(more) = Size(last) + Bytes(r)
        BY <2>3, SizeGrows
      <4>2. more \in Seq(Records)
        BY <2>3
      <4>3. QED
        BY <2>7, <4>1, <4>2 DEF Fits
    <3> HIDE DEF more
    <3>2. Packed(ps, r) = Append(first, more)
      <4>1. first \o <<more>> = Append(first, more)
        BY <2>3, <3>1
      <4>2. QED
        BY <2>4, <2>7, <4>1 DEF more
    <3>3. FlattenSeq(Append(first, more)) = FlattenSeq(first) \o more
          /\ FlattenSeq(Append(first, last)) = FlattenSeq(first) \o last
          /\ FlattenSeq(first) \in Seq(Records)
      BY <2>3, <3>1, FlattenGrows
    <3>4. \A s, t \in Seq(Records) : s \o Append(t, r) = Append(s \o t, r)
      OBVIOUS
    <3>5. FlattenSeq(Append(first, more)) = Append(q, r)
      BY <2>2, <2>3, <3>3, <3>4 DEF more
    <3>6. Small(Append(first, more))
      <4> DEFINE new == Append(first, more)
      <4>1. Len(new) = Len(first) + 1 /\ new[Len(first) + 1] = more
            /\ \A i \in 1 .. Len(first) : new[i] = first[i]
        BY <2>3, <3>1
      <4> HIDE DEF new
      <4>2. ASSUME NEW i \in 1 .. Len(new) PROVE Size(new[i]) <= PacketBytes
        <5>1. i \in 1 .. Len(first) \/ i = Len(first) + 1
          BY <2>6, <4>1
        <5>2. QED
          BY <2>2, <2>6, <3>1, <4>1, <5>1
      <4>3. QED
        BY <4>2 DEF new
    <3>7. QED
      BY <2>1, <2>5, <3>2, <3>5, <3>6
  <2>8. CASE ~Fits(last, r)
    <3> DEFINE one == <<r>>
    <3>1. one \in Seq(Records) /\ Size(one) <= PacketBytes
      <4>1. one = Append(<<>>, r)
        OBVIOUS
      <4>2. Size(one) = 0 + Bytes(r)
        BY <1>2, <4>1, SizeGrows
      <4>3. one \in Seq(Records)
        OBVIOUS
      <4>4. QED
        BY <1>1, <2>5, <4>2, <4>3
    <3>2. \A s \in Seq(Records) : s \o one = Append(s, r)
      OBVIOUS
    <3>3. Packed(ps, r) = Append(ps, one)
      BY <2>4, <2>8
    <3> HIDE DEF one
    <3>4. FlattenSeq(Append(ps, one)) = Append(q, r)
      BY <2>2, <2>3, <3>1, <3>2, FlattenGrows
    <3>5. Small(Append(ps, one))
      <4> DEFINE new == Append(ps, one)
      <4>1. Len(new) = Len(ps) + 1 /\ new[Len(ps) + 1] = one
            /\ \A i \in 1 .. Len(ps) : new[i] = ps[i]
        BY <2>3, <3>1
      <4> HIDE DEF new
      <4>2. ASSUME NEW i \in 1 .. Len(new) PROVE Size(new[i]) <= PacketBytes
        <5>1. i \in 1 .. Len(ps) \/ i = Len(ps) + 1
          BY <2>3, <4>1
        <5>2. QED
          BY <2>2, <3>1, <4>1, <5>1
      <4>3. QED
        BY <4>2 DEF new
    <3>6. QED
      BY <2>1, <2>5, <3>3, <3>4, <3>5
  <2>9. QED
    BY <2>7, <2>8
<1> HIDE DEF Z
<1>5. \A q \in Seq(Records) : q \in Z
  BY <1>3, <1>4, GrowingUp
<1>6. QED
  BY <1>5 DEF Z

\* The orders of q go to their units; the selection, and the orders heard, after it.
Right(p, q) ==
  \A i \in 1 .. Len(q) :
    q[i].kind = "order" => Applied(p, SubSeq(q, 1, i - 1)).sel = {q[i].unit} \cap alive
Leaves(p, q, last, n) == Applied(p, q).sel = {last} \cap alive /\ Applied(p, q).heard = n
Sound(p, q, last, n) == q \in Seq(Records) /\ Right(p, q) /\ Leaves(p, q, last, n)

OrderInv ==
  /\ GameInv
  /\ inGame \in BOOLEAN
  /\ ~inGame => ~batch.on /\ \A p \in Players : queue[p] = <<>> /\ prev[p] = NoUnit
  /\ \A p \in Players : Sound(p, queue[p], prev[p], given[p])

(* A record more: an order goes to what is selected then.                   *)
LEMMA RightGrows ==
  ASSUME NEW p \in Players, NEW q \in Seq(Records), NEW r \in Records, Right(p, q),
         r.kind = "order" => Applied(p, q).sel = {r.unit} \cap alive
  PROVE  Right(p, Append(q, r))
<1> DEFINE t == Append(q, r)
<1>1. /\ Len(q) \in Nat /\ Len(t) = Len(q) + 1 /\ t[Len(q) + 1] = r /\ SubSeq(t, 1, Len(q)) = q
      /\ \A i \in 1 .. Len(q) : t[i] = q[i] /\ SubSeq(t, 1, i - 1) = SubSeq(q, 1, i - 1)
  OBVIOUS
<1> HIDE DEF t
<1>2. ASSUME NEW i \in 1 .. Len(t), t[i].kind = "order"
      PROVE  Applied(p, SubSeq(t, 1, i - 1)).sel = {t[i].unit} \cap alive
  <2>1. CASE i \in 1 .. Len(q)
    BY <1>1, <1>2, <2>1 DEF Right
  <2>2. CASE i = Len(q) + 1
    <3>1. i - 1 = Len(q) /\ t[i] = r
      BY <1>1, <2>2
    <3>2. QED
      BY <1>1, <1>2, <3>1
  <2>3. QED
    BY <1>1, <2>1, <2>2
<1>3. QED
  BY <1>2 DEF Right, t

(* A mark more, by its kind.                                                *)
LEMMA MarkMore ==
  ASSUME GameInv, NEW p \in Players, NEW q \in Seq(Records), Right(p, q),
         NEW kind \in {"deselect", "select", "presub", "subgroup"}, NEW u \in Units
  PROVE  LET t == Append(q, Mark(kind, u)) IN
         /\ t \in Seq(Records) /\ Right(p, t) /\ Applied(p, t).heard = Applied(p, q).heard
         /\ kind = "deselect" => Applied(p, t).sel = Applied(p, q).sel \ {u}
         /\ kind = "select" => Applied(p, t).sel = Applied(p, q).sel \cup ({u} \cap alive)
         /\ kind \in {"presub", "subgroup"} => Applied(p, t).sel = Applied(p, q).sel
<1> DEFINE r == Mark(kind, u)
<1>1. r \in Records /\ r.kind = kind /\ r.unit = u
  BY DEF Mark, Marks, Records
<1> HIDE DEF r
<1>2. Append(q, r) \in Seq(Records)
  BY <1>1
<1>3. Applied(p, q) \in States /\ Applied(p, Append(q, r)) = Apply(p, Applied(p, q), r)
  BY <1>1, AppliedGrows DEF AppliedByRecord
<1>4. Right(p, Append(q, r))
  BY <1>1, RightGrows
<1>5. QED
  BY <1>1, <1>2, <1>3, <1>4, ApplyEffects DEF r, AppliedByKind

(* select_unit leaves the unit selected, and nothing else, and gives nobody  *)
(* an order.                                                                *)
LEMMA SelectingSelects ==
  ASSUME GameInv, NEW p \in Players, NEW q, NEW before \in Units \cup {NoUnit}, NEW n,
         Sound(p, q, before, n), NEW u \in Units
  PROVE  Sound(p, q \o Selecting(before, u), u, n)
<1>1. q \in Seq(Records) /\ Right(p, q) /\ Applied(p, q).sel = {before} \cap alive /\ Applied(p, q).heard = n
  BY DEF Sound, Leaves
<1>2. ASSUME NEW s \in Seq(Records), Right(p, s), Applied(p, s).sel = {}, Applied(p, s).heard = n
      PROVE  Sound(p, s \o <<Mark("select", u), Mark("presub", u), Mark("subgroup", u)>>, u, n)
  <2> DEFINE a == Append(s, Mark("select", u))
             b == Append(a, Mark("presub", u))
             c == Append(b, Mark("subgroup", u))
  <2>1. a \in Seq(Records) /\ Right(p, a) /\ Applied(p, a).sel = {u} \cap alive /\ Applied(p, a).heard = n
    BY <1>2, MarkMore
  <2> HIDE DEF a
  <2>2. b \in Seq(Records) /\ Right(p, b) /\ Applied(p, b).sel = {u} \cap alive /\ Applied(p, b).heard = n
    BY <2>1, MarkMore
  <2> HIDE DEF b
  <2>3. c \in Seq(Records) /\ Right(p, c) /\ Applied(p, c).sel = {u} \cap alive /\ Applied(p, c).heard = n
    BY <2>2, MarkMore
  <2>4. \A x, y, z \in Records : Append(Append(Append(s, x), y), z) = s \o <<x, y, z>>
    OBVIOUS
  <2>5. Mark("select", u) \in Records /\ Mark("presub", u) \in Records /\ Mark("subgroup", u) \in Records
    BY DEF Mark, Marks, Records
  <2>6. c = s \o <<Mark("select", u), Mark("presub", u), Mark("subgroup", u)>>
    BY <2>4, <2>5 DEF a, b
  <2> HIDE DEF c
  <2>7. QED
    BY <2>3, <2>6 DEF Sound, Leaves
<1> DEFINE marks == <<Mark("select", u), Mark("presub", u), Mark("subgroup", u)>>
<1>3. marks \in Seq(Records)
  BY DEF Mark, Marks, Records
<1>4. CASE before = NoUnit
  <2>1. {before} \cap alive = {}
    BY <1>4, ConstantsAssumption DEF ConstantsAssumption, GameInv
  <2>2. Sound(p, q \o marks, u, n)
    BY <1>1, <1>2, <2>1
  <2>3. Selecting(before, u) = <<>> \o marks
    BY <1>4 DEF Selecting
  <2> HIDE DEF marks
  <2>4. <<>> \o marks = marks
    BY <1>3
  <2>5. QED
    BY <2>2, <2>3, <2>4
<1>5. CASE before # NoUnit
  <2> DEFINE one == Mark("deselect", before)
  <2>1. before \in Units
    BY <1>5
  <2>2. Append(q, one) \in Seq(Records) /\ Right(p, Append(q, one)) /\ Applied(p, Append(q, one)).heard = n
        /\ Applied(p, Append(q, one)).sel = {}
    BY <1>1, <2>1, MarkMore
  <2>3. Sound(p, Append(q, one) \o marks, u, n)
    BY <1>2, <2>2
  <2>4. Selecting(before, u) = <<one>> \o marks
    BY <1>5 DEF Selecting
  <2>5. one \in Records
    BY <2>1 DEF Mark, Marks, Records
  <2> HIDE DEF marks, one
  <2>6. q \o (<<one>> \o marks) = Append(q, one) \o marks
    BY <1>1, <1>3, <2>5
  <2>7. QED
    BY <2>3, <2>4, <2>6
<1>6. QED
  BY <1>4, <1>5

(* An order goes to the unit selected, and is the next to be heard.         *)
LEMMA OrderGoes ==
  ASSUME GameInv, RoomInv, NEW p \in Players, NEW q, NEW u \in Units, Sound(p, q, u, given[p]),
         NEW what \in Deeds, NEW queued \in BOOLEAN, NEW auto \in BOOLEAN
  PROVE  Sound(p, q \o Order(p, u, what, queued, auto), u, given[p] + 1)
<1> DEFINE r == Order(p, u, what, queued, auto)[1]
<1>1. Order(p, u, what, queued, auto) = <<r>>
      /\ r \in Records /\ r.kind = "order" /\ r.unit = u /\ r.n = given[p] + 1
  <2>1. given[p] + 1 \in Nat
    BY DEF RoomInv
  <2>2. QED
    BY <2>1 DEF Order, Orders, Records
<1> HIDE DEF r
<1>2. q \in Seq(Records) /\ Right(p, q) /\ Applied(p, q).sel = {u} \cap alive /\ Applied(p, q).heard = given[p]
  BY DEF Sound, Leaves
<1>3. Applied(p, q) \in States /\ Applied(p, Append(q, r)) = Apply(p, Applied(p, q), r)
  BY <1>1, <1>2, AppliedGrows DEF AppliedByRecord
<1>4. Applied(p, Append(q, r)).sel = {u} \cap alive /\ Applied(p, Append(q, r)).heard = given[p] + 1
  BY <1>1, <1>2, <1>3, ApplyEffects DEF AppliedByKind
<1>5. Right(p, Append(q, r))
  BY <1>1, <1>2, RightGrows
<1>6. Append(q, r) \in Seq(Records) /\ q \o <<r>> = Append(q, r)
  BY <1>1, <1>2
<1>7. QED
  BY <1>1, <1>4, <1>5, <1>6 DEF Sound, Leaves

(* With units D dead (or none), and whatever has become of their plans, the  *)
(* records of a queue do as they did but for D.                             *)
LEMMA AppliedWithout ==
  ASSUME GameInv, GameInv', NEW D, alive' = alive \ D, NEW p \in Players,
         sel'[p] = sel[p] \ D, heard'[p] = heard[p]
  PROVE  \A q \in Seq(Records) :
           Applied(p, q)'.sel = Applied(p, q).sel \ D /\ Applied(p, q)'.heard = Applied(p, q).heard
<1> DEFINE Z == {q \in Seq(Records) :
                   Applied(p, q)'.sel = Applied(p, q).sel \ D /\ Applied(p, q)'.heard = Applied(p, q).heard}
<1>1. AppliedByRecord /\ AppliedByRecord'
  <2>1. (GameInv => AppliedByRecord)'
    BY AppliedGrows, PTL
  <2>2. QED
    BY <2>1, AppliedGrows
<1>2. AppliedByKind /\ AppliedByKind'
  <2>1. AppliedByKind'
    BY ApplyEffects, PTL
  <2>2. QED
    BY <2>1, ApplyEffects
<1>3. <<>> \in Z
  <2>1. Applied(p, <<>>) = Before(p) /\ Applied(p, <<>>)' = Before(p)'
    BY <1>1 DEF AppliedByRecord
  <2>2. <<>> \in Seq(Records)
    OBVIOUS
  <2>3. QED
    BY <2>1, <2>2 DEF Before
<1>4. ASSUME NEW q \in Seq(Records), NEW r \in Records, q \in Z PROVE Append(q, r) \in Z
  <2> DEFINE s == Applied(p, q)
             t == Applied(p, q)'
             s2 == Applied(p, Append(q, r))
             t2 == Applied(p, Append(q, r))'
  <2>1. s \in States /\ s2 = Apply(p, s, r) /\ t \in States /\ t2 = Apply(p, s, r)'
    BY <1>1 DEF AppliedByRecord
  <2>2. t.sel = s.sel \ D /\ t.heard = s.heard
    BY <1>4
  <2>3. /\ r.kind = "deselect" => s2.sel = s.sel \ {r.unit} /\ s2.heard = s.heard
        /\ r.kind = "select" => s2.sel = s.sel \cup ({r.unit} \cap alive) /\ s2.heard = s.heard
        /\ r.kind = "order" => s2.sel = s.sel /\ s2.heard = IF r.n = s.heard + 1 THEN r.n ELSE s.heard
        /\ r.kind \in {"presub", "subgroup"} => s2 = s
    BY <1>2, <2>1 DEF AppliedByKind
  <2>4. /\ r.kind = "deselect" => t2.sel = t.sel \ {r.unit} /\ t2.heard = t.heard
        /\ r.kind = "select" => t2.sel = t.sel \cup ({r.unit} \cap alive') /\ t2.heard = t.heard
        /\ r.kind = "order" => t2.sel = t.sel /\ t2.heard = IF r.n = t.heard + 1 THEN r.n ELSE t.heard
        /\ r.kind \in {"presub", "subgroup"} => t2 = t
    BY <1>2, <2>1 DEF AppliedByKind
  <2>5. r.kind \in {"deselect", "select", "order", "presub", "subgroup"}
    BY DEF Records, Marks, Orders
  <2>6. Append(q, r) \in Seq(Records)
    OBVIOUS
  <2> HIDE DEF s, t, s2, t2
  <2>7. t2.sel = s2.sel \ D /\ t2.heard = s2.heard
    BY <2>2, <2>3, <2>4, <2>5
  <2>8. QED
    BY <2>6, <2>7 DEF s2, t2
<1> HIDE DEF Z
<1>5. \A q \in Seq(Records) : q \in Z
  BY <1>3, <1>4, GrowingUp
<1>6. QED
  BY <1>5 DEF Z

(* A sound queue is sound without the dead.                                 *)
LEMMA SoundWithout ==
  ASSUME GameInv, GameInv', NEW D, alive' = alive \ D, NEW p \in Players,
         sel'[p] = sel[p] \ D, heard'[p] = heard[p],
         NEW q, NEW last, NEW n, Sound(p, q, last, n)
  PROVE  Sound(p, q, last, n)'
<1>1. q \in Seq(Records) /\ Right(p, q) /\ Leaves(p, q, last, n)
  BY DEF Sound
<1>2. \A s \in Seq(Records) :
        Applied(p, s)'.sel = Applied(p, s).sel \ D /\ Applied(p, s)'.heard = Applied(p, s).heard
  BY AppliedWithout
<1>3. \A i \in 1 .. Len(q) : SubSeq(q, 1, i - 1) \in Seq(Records)
  BY <1>1
<1>4. Right(p, q)'
  <2> SUFFICES ASSUME NEW i \in 1 .. Len(q), q[i].kind = "order"
               PROVE  Applied(p, SubSeq(q, 1, i - 1))'.sel = {q[i].unit} \cap alive'
    BY DEF Right
  <2> DEFINE s == SubSeq(q, 1, i - 1)
  <2>1. s \in Seq(Records) /\ Applied(p, s).sel = {q[i].unit} \cap alive
    BY <1>1, <1>3 DEF Right
  <2> HIDE DEF s
  <2>2. Applied(p, s)'.sel = Applied(p, s).sel \ D
    BY <1>2, <2>1
  <2>3. QED
    BY <2>1, <2>2 DEF s
<1>5. Leaves(p, q, last, n)'
  BY <1>1, <1>2 DEF Leaves
<1>6. QED
  BY <1>1, <1>4, <1>5 DEF Sound

(* With nothing queued all is as the game has it.                           *)
EmptyQueuesSound ==
  \A p \in Players : \A last : \A n :
    sel[p] = {last} \cap alive /\ heard[p] = n => Sound(p, <<>>, last, n)

LEMMA EmptyIsSound == GameInv => EmptyQueuesSound
<1> SUFFICES ASSUME GameInv, NEW p \in Players, NEW last, NEW n, sel[p] = {last} \cap alive, heard[p] = n
             PROVE  Sound(p, <<>>, last, n)
  BY DEF EmptyQueuesSound
<1>1. Applied(p, <<>>).sel = sel[p] /\ Applied(p, <<>>).heard = heard[p]
  BY AppliedGrows DEF AppliedByRecord, Before
<1>2. <<>> \in Seq(Records) /\ Len(<<>>) = 0
  OBVIOUS
<1>3. Right(p, <<>>)
  BY <1>2 DEF Right
<1>4. QED
  BY <1>1, <1>2, <1>3 DEF Sound, Leaves

LEMMA JoinedOnce ==
  \A s, t, o \in Seq(Records) : (s \o t) \o o = s \o (t \o o) /\ t \o o \in Seq(Records)
OBVIOUS

(* An action of a batch leaves a queue that is sound.                       *)
LEMMA ItemSound ==
  ASSUME RoomInv, OrderInv, Item
  PROVE  /\ batch.on /\ UNCHANGED <<inGame, game>>
         /\ \A p \in Players : Sound(p, queue'[p], prev'[p], given'[p])
<1>1. batch.on => batch.player \in Players
  BY DEF RoomInv, BatchInv
<1>2. PICK u \in Units, queued \in BOOLEAN :
        \/ Refuse(u, queued) \/ RefuseLate(u, queued) \/ NoSite(u, queued)
        \/ \E what \in Commands : Command(u, what, queued)
        \/ ~queued /\ (Select(u) \/ \E shop \in Units : Buy(u, shop))
        \/ \E s \in Sites, auto \in BOOLEAN : Build(u, s, queued, auto)
  BY DEF Item, Action
<1>3. batch.on /\ UNCHANGED <<inGame, game>>
  BY <1>2 DEF Refuse, RefuseLate, NoSite, Command, Select, Buy, Build, actOnly
<1> DEFINE p == batch.player
<1>4. p \in Players /\ Sound(p, queue[p], prev[p], given[p]) /\ prev[p] \in Units \cup {NoUnit}
      /\ queue[p] \in Seq(Records) /\ given[p] \in Nat /\ GameInv
  BY <1>1, <1>3 DEF OrderInv, RoomInv
<1>5. ASSUME NEW records \in Seq(Records), NEW last, NEW orders \in Nat, Enqueue(p, records, last, orders),
             Sound(p, queue[p] \o records, last, given[p] + orders)
      PROVE  \A k \in Players : Sound(k, queue'[k], prev'[k], given'[k])
  <2> SUFFICES ASSUME NEW k \in Players PROVE Sound(k, queue'[k], prev'[k], given'[k])
    OBVIOUS
  <2>1. CASE k = p
    <3>1. queue'[k] = queue[p] \o records /\ prev'[k] = last /\ given'[k] = given[p] + orders
      BY <1>4, <1>5, <2>1 DEF Enqueue, RoomInv
    <3>2. QED
      BY <1>5, <2>1, <3>1
  <2>2. CASE k # p
    <3>1. queue'[k] = queue[k] /\ prev'[k] = prev[k] /\ given'[k] = given[k]
      BY <1>5, <2>2 DEF Enqueue, RoomInv
    <3>2. QED
      BY <3>1 DEF OrderInv
  <2>3. QED
    BY <2>1, <2>2
<1>6. Sound(p, queue[p] \o Selecting(prev[p], u), u, given[p])
  BY <1>4, SelectingSelects
<1>7. Selecting(prev[p], u) \in Seq(Records)
  BY <1>4, SelectingIsShort
<1>8. ASSUME NEW what \in Deeds, NEW auto \in BOOLEAN,
             Enqueue(p, Selecting(prev[p], u) \o Order(p, u, what, queued, auto), u, 1)
      PROVE  \A k \in Players : Sound(k, queue'[k], prev'[k], given'[k])
  <2> DEFINE s == Selecting(prev[p], u)
             o == Order(p, u, what, queued, auto)
  <2>1. Sound(p, (queue[p] \o s) \o o, u, given[p] + 1)
    BY <1>4, <1>6, OrderGoes
  <2>2. s \in Seq(Records) /\ o \in Seq(Records)
    BY <1>4, <1>7, OrderIsOne
  <2> HIDE DEF s, o
  <2>3. (queue[p] \o s) \o o = queue[p] \o (s \o o) /\ s \o o \in Seq(Records)
    BY <1>4, <2>2, JoinedOnce
  <2>4. Sound(p, queue[p] \o (s \o o), u, given[p] + 1)
    BY <2>1, <2>3
  <2>5. Enqueue(p, s \o o, u, 1)
    BY <1>8 DEF s, o
  <2> HIDE DEF p
  <2>6. QED
    BY <1>5, <2>3, <2>4, <2>5
<1>9. CASE Refuse(u, queued) \/ RefuseLate(u, queued) \/ NoSite(u, queued)
  <2>1. UNCHANGED <<queue, prev, given>>
    BY <1>9 DEF Refuse, RefuseLate, NoSite
  <2>2. QED
    BY <1>3, <2>1 DEF OrderInv
<1>10. ASSUME NEW what \in Commands, Command(u, what, queued)
       PROVE  \A k \in Players : Sound(k, queue'[k], prev'[k], given'[k])
  <2>1. what \in Deeds /\ Enqueue(p, Selecting(prev[p], u) \o Order(p, u, what, queued, FALSE), u, 1)
    BY <1>10, CommandsAreDeeds DEF Command
  <2>2. QED
    BY <1>8, <2>1
<1>11. CASE Select(u)
  <2>1. Enqueue(p, Selecting(prev[p], u), u, 0)
    BY <1>11 DEF Select
  <2>2. given[p] + 0 = given[p]
    BY <1>4
  <2>3. Sound(p, queue[p] \o Selecting(prev[p], u), u, given[p] + 0)
    BY <1>6, <2>2
  <2>4. 0 \in Nat
    OBVIOUS
  <2> HIDE DEF p
  <2>5. \A k \in Players : Sound(k, queue'[k], prev'[k], given'[k])
    BY <1>5, <1>7, <2>1, <2>3, <2>4
  <2>6. QED
    BY <1>3, <2>5
<1>12. ASSUME NEW shop \in Units, Buy(u, shop)
       PROVE  \A k \in Players : Sound(k, queue'[k], prev'[k], given'[k])
  <2> DEFINE s == Selecting(prev[p], u)
             t == Selecting(u, shop)
             o == Order(p, shop, "produce", FALSE, FALSE)
  <2>1. Enqueue(p, s \o t \o o, shop, 1)
    BY <1>12 DEF Buy
  <2>2. Sound(p, (queue[p] \o s) \o t, shop, given[p])
    BY <1>4, <1>6, SelectingSelects
  <2>3. Sound(p, ((queue[p] \o s) \o t) \o o, shop, given[p] + 1)
    BY <1>4, <2>2, OrderGoes, CommandsAreDeeds
  <2>4. s \in Seq(Records) /\ t \in Seq(Records) /\ o \in Seq(Records)
    BY <1>4, <1>7, SelectingIsShort, OrderIsOne, CommandsAreDeeds
  <2> HIDE DEF s, t, o
  <2>5. ((queue[p] \o s) \o t) \o o = queue[p] \o (s \o t \o o) /\ s \o t \o o \in Seq(Records)
    <3>1. s \o t \in Seq(Records) /\ (queue[p] \o s) \o t = queue[p] \o (s \o t)
      BY <1>4, <2>4, JoinedOnce
    <3>2. (queue[p] \o (s \o t)) \o o = queue[p] \o ((s \o t) \o o) /\ (s \o t) \o o \in Seq(Records)
      BY <1>4, <2>4, <3>1, JoinedOnce
    <3>3. QED
      BY <3>1, <3>2
  <2>6. Sound(p, queue[p] \o (s \o t \o o), shop, given[p] + 1)
    BY <2>3, <2>5
  <2> HIDE DEF p
  <2>7. QED
    BY <1>5, <2>1, <2>5, <2>6
<1>13. ASSUME NEW s \in Sites, NEW auto \in BOOLEAN, Build(u, s, queued, auto)
       PROVE  \A k \in Players : Sound(k, queue'[k], prev'[k], given'[k])
  <2>1. s \in Deeds /\ Enqueue(p, Selecting(prev[p], u) \o Order(p, u, s, queued, auto), u, 1)
    BY <1>13 DEF Build, Deeds
  <2>2. QED
    BY <1>8, <2>1
<1>14. QED
  BY <1>2, <1>3, <1>9, <1>10, <1>11, <1>12, <1>13

(* With the units alive, selections and counts left as they are, so are the *)
(* queues.                                                                  *)
LEMMA OrderUntouched ==
  ASSUME OrderInv, UNCHANGED <<alive, sel, heard, queue, prev, given, inGame>>, batch'.on => inGame,
         plan' \in [Units -> Seq(Things)], time' \in 0 .. MaxTime
  PROVE  OrderInv'
<1>1. GameInv /\ GameInv'
  BY DEF OrderInv, GameInv
<1>2. ASSUME NEW p \in Players PROVE Sound(p, queue[p], prev[p], given[p])'
  <2> DEFINE q == queue[p]
             last == prev[p]
             n == given[p]
             D == {}
  <2>1. Sound(p, q, last, n) /\ alive' = alive \ D /\ sel'[p] = sel[p] \ D /\ heard'[p] = heard[p]
    BY DEF OrderInv
  <2>2. q' = q /\ last' = last /\ n' = n
    OBVIOUS
  <2>3. \A s, l, m : Sound(p, s, l, m) => Sound(p, s, l, m)'
    <3> HIDE DEF D, q, last, n
    <3>1. QED
      BY <1>1, <2>1, SoundWithout
  <2>4. Sound(p, q, last, n)'
    BY <2>1, <2>2, <2>3
  <2>5. QED
    BY <2>4
<1>3. QED
  BY <1>1, <1>2 DEF OrderInv

(* Queues that have been emptied, with the selection that they left.         *)
LEMMA OrderEmptied ==
  ASSUME GameInv', inGame' \in BOOLEAN, ~inGame' => ~batch'.on /\ \A p \in Players : prev'[p] = NoUnit,
         \A p \in Players : queue'[p] = <<>> /\ sel'[p] = {prev'[p]} \cap alive' /\ heard'[p] = given'[p]
  PROVE  OrderInv'
<1>1. (\A p \in Players : \A last : \A n :
         sel[p] = {last} \cap alive /\ heard[p] = n => Sound(p, <<>>, last, n))'
  <2>1. (GameInv => EmptyQueuesSound)'
    BY EmptyIsSound, PTL
  <2>2. QED
    BY <2>1 DEF EmptyQueuesSound
<1>2. QED
  BY <1>1 DEF OrderInv

(* Steps of the game, and resets, leave the queues sound.                   *)
LEMMA FlushSound == ASSUME RoomInv, OrderInv, Flush PROVE OrderInv'
<1>1. ASSUME NEW p \in Players
      PROVE  /\ FlattenSeq(Packets(queue[p])) = queue[p]
             /\ Applied(p, queue[p]) \in States
             /\ Applied(p, queue[p]).sel = {prev[p]} \cap alive
             /\ Applied(p, queue[p]).heard = given[p]
  <2>1. queue[p] \in Seq(Records)
    BY DEF RoomInv
  <2>2. QED
    BY <2>1, PacketsHold, AppliedGrows DEF OrderInv, Sound, Leaves, AppliedByRecord
<1> DEFINE after == [p \in Players |-> Applied(p, FlattenSeq(Packets(queue[p])))]
<1>2. /\ sel' = [p \in Players |-> after[p].sel]
      /\ heard' = [p \in Players |-> after[p].heard]
      /\ plan' = [u \in Units |-> IF Owner[u] \in Players THEN after[Owner[u]].plan[u] ELSE plan[u]]
      /\ queue' = [p \in Players |-> <<>>]
      /\ UNCHANGED <<prev, given, inGame, alive, time, batch>> /\ ~batch.on
  BY DEF Flush
<1>3. \A p \in Players : after[p] = Applied(p, queue[p])
  BY <1>1
<1> HIDE DEF after
<1>4. \A p \in Players : /\ after[p] \in States /\ after[p].sel = {prev[p]} \cap alive
                         /\ after[p].heard = given[p] /\ given[p] \in Nat
  BY <1>1, <1>3 DEF RoomInv
<1>5. plan' \in [Units -> Seq(Things)]
  BY <1>2, <1>4 DEF OrderInv, GameInv, States
<1>6. sel' \in [Players -> SUBSET Units] /\ heard' \in [Players -> Nat]
  BY <1>2, <1>4 DEF OrderInv, GameInv
<1>7. GameInv'
  BY <1>2, <1>5, <1>6 DEF OrderInv, GameInv
<1>8. \A p \in Players : queue'[p] = <<>> /\ sel'[p] = {prev'[p]} \cap alive' /\ heard'[p] = given'[p]
  BY <1>2, <1>4
<1>9. QED
  BY <1>2, <1>7, <1>8, OrderEmptied DEF OrderInv

(* A death leaves the queues sound, though they may name the dead.          *)
LEMMA DiesSound == ASSUME OrderInv, NEW u \in Units, Dies(u) PROVE OrderInv'
<1> DEFINE D == {u}
<1>1. /\ alive' = alive \ D /\ plan' = [plan EXCEPT ![u] = <<>>]
      /\ sel' = [p \in Players |-> sel[p] \ D]
      /\ UNCHANGED <<queue, prev, given, inGame, batch, time, heard>>
  BY DEF Dies, hook
<1> HIDE DEF D
<1>2. GameInv /\ GameInv'
  <2>1. <<>> \in Seq(Things)
    OBVIOUS
  <2>2. QED
    BY <1>1, <2>1 DEF OrderInv, GameInv
<1>3. ASSUME NEW p \in Players PROVE Sound(p, queue[p], prev[p], given[p])'
  <2>1. sel'[p] = sel[p] \ D /\ heard'[p] = heard[p] /\ Sound(p, queue[p], prev[p], given[p])
    BY <1>1 DEF OrderInv
  <2>2. \A s, l, m : Sound(p, s, l, m) => Sound(p, s, l, m)'
    BY <1>1, <1>2, <2>1, SoundWithout
  <2>3. QED
    BY <1>1, <2>1, <2>2
<1>4. QED
  BY <1>1, <1>2, <1>3 DEF OrderInv

(* A reset leaves them empty, with nobody selected.                         *)
LEMMA ResetSound == ASSUME OrderInv, Restart \/ Create PROVE OrderInv'
<1>1. Clear /\ inGame' \in BOOLEAN /\ UNCHANGED batch /\ ~batch.on
  BY DEF Restart, Create
<1>2. \A p \in Players : queue'[p] = <<>> /\ prev'[p] = NoUnit
  BY <1>1 DEF Clear
<1>3. CASE Restart
  <2>1. /\ time' = 0 /\ alive' = Units /\ sel' = [p \in Players |-> {}] /\ plan' = [u \in Units |-> <<>>]
        /\ given' = [p \in Players |-> 0] /\ heard' = [p \in Players |-> 0]
    BY <1>3 DEF Restart
  <2>2. GameInv'
    BY <2>1, ConstantsAssumption DEF GameInv, ConstantsAssumption
  <2>3. {NoUnit} \cap alive' = {}
    BY <2>1, ConstantsAssumption DEF ConstantsAssumption
  <2>4. \A p \in Players : sel'[p] = {} /\ heard'[p] = given'[p]
    BY <2>1
  <2>5. QED
    BY <1>1, <1>2, <2>2, <2>3, <2>4, OrderEmptied
<1>4. CASE Create
  <2>1. UNCHANGED game /\ given' = given /\ ~inGame
    BY <1>4 DEF Create
  <2>2. GameInv /\ GameInv'
    BY <2>1 DEF OrderInv, GameInv, game
  <2>3. ASSUME NEW p \in Players PROVE sel'[p] = {prev'[p]} \cap alive' /\ heard'[p] = given'[p]
    <3>1. queue[p] = <<>> /\ prev[p] = NoUnit /\ Sound(p, queue[p], prev[p], given[p])
      BY <2>1 DEF OrderInv
    <3>2. Applied(p, <<>>).sel = sel[p] /\ Applied(p, <<>>).heard = heard[p]
      BY <2>2, AppliedGrows DEF AppliedByRecord, Before
    <3>3. sel[p] = {NoUnit} \cap alive /\ heard[p] = given[p]
      BY <3>1, <3>2 DEF Sound, Leaves
    <3>4. QED
      BY <1>2, <2>1, <3>3 DEF game
  <2>4. QED
    BY <1>1, <1>2, <2>2, <2>3, OrderEmptied
<1>5. QED
  BY <1>3, <1>4

(* What is selected after a queue, and heard, at every step.                 *)
THEOREM QueuesAreSound == Spec => []OrderInv
<1>1. Init => OrderInv
  <2> SUFFICES ASSUME Init PROVE OrderInv
    OBVIOUS
  <2>1. /\ GameInv /\ inGame = FALSE /\ ~batch.on
        /\ \A p \in Players : queue[p] = <<>> /\ prev[p] = NoUnit /\ sel[p] = {} /\ heard[p] = 0 /\ given[p] = 0
    <3>1. <<>> \in Seq(Things) /\ 0 \in 0 .. MaxTime
      BY ConstantsAssumption DEF ConstantsAssumption
    <3>2. QED
      BY <3>1 DEF Init, GameInv, NoBatch
  <2>2. {NoUnit} \cap alive = {}
    BY ConstantsAssumption DEF Init, ConstantsAssumption
  <2>3. QED
    BY <2>1, <2>2, EmptyIsSound DEF OrderInv, EmptyQueuesSound
<1>2. RoomInv /\ OrderInv /\ [Next]_vars => OrderInv'
  <2> SUFFICES ASSUME RoomInv, OrderInv, [Next]_vars PROVE OrderInv'
    OBVIOUS
  <2>1. CASE Item
    <3>1. /\ batch.on /\ UNCHANGED <<inGame, game>>
          /\ \A p \in Players : Sound(p, queue'[p], prev'[p], given'[p])
      BY <2>1, ItemSound
    <3>2. inGame = TRUE
      BY <3>1 DEF OrderInv
    <3>3. GameInv /\ GameInv'
      BY <3>1 DEF OrderInv, GameInv, game
    <3>4. ASSUME NEW p \in Players PROVE Sound(p, queue[p], prev[p], given[p])'
      <4> DEFINE D == {}
      <4>1. alive' = alive \ D /\ sel'[p] = sel[p] \ D /\ heard'[p] = heard[p]
        BY <3>1 DEF game
      <4> HIDE DEF D
      <4>2. \A s, l, m : Sound(p, s, l, m) => Sound(p, s, l, m)'
        BY <3>3, <4>1, SoundWithout
      <4>3. QED
        BY <3>1, <4>2
    <3>5. QED
      BY <3>1, <3>2, <3>3, <3>4 DEF OrderInv
  <2>2. CASE Flush
    BY <2>2, FlushSound
  <2>3. CASE Restart \/ Create
    BY <2>3, ResetSound
  <2>4. CASE Tick
    <3>1. time < MaxTime /\ time' = time + 1 /\ UNCHANGED <<hook, alive, sel, plan, heard, given>>
      BY <2>4 DEF Tick
    <3>2. time' \in 0 .. MaxTime
      BY <3>1, ConstantsAssumption DEF OrderInv, GameInv, ConstantsAssumption
    <3>3. QED
      BY <3>1, <3>2, OrderUntouched DEF OrderInv, GameInv, hook
  <2>5. CASE End
    <3>1. batch' = NoBatch /\ UNCHANGED <<queue, prev, inGame, game, given>>
      BY <2>5 DEF End
    <3>2. ~batch'.on
      BY <3>1 DEF NoBatch
    <3>3. QED
      BY <3>1, <3>2, OrderUntouched DEF OrderInv, GameInv, game
  <2>6. ASSUME NEW p \in Players, Begin(p) PROVE OrderInv'
    <3>1. inGame /\ UNCHANGED <<queue, prev, inGame, game, given>>
      BY <2>6 DEF Begin
    <3>2. QED
      BY <3>1, OrderUntouched DEF OrderInv, GameInv, game
  <2>7. ASSUME NEW u \in Units, Ends(u) PROVE OrderInv'
    <3>1. plan[u] # <<>> /\ plan' = [plan EXCEPT ![u] = Tail(@)] /\ UNCHANGED <<hook, alive, sel, time, heard, given>>
      BY <2>7 DEF Ends
    <3>2. plan[u] \in Seq(Things)
      BY DEF OrderInv, GameInv
    <3>3. Tail(plan[u]) \in Seq(Things)
      BY <3>1, <3>2
    <3>4. plan' \in [Units -> Seq(Things)]
      BY <3>1, <3>3 DEF OrderInv, GameInv
    <3>5. QED
      BY <3>1, <3>4, OrderUntouched DEF OrderInv, GameInv, hook
  <2>8. ASSUME NEW u \in Units, Dies(u) PROVE OrderInv'
    BY <2>8, DiesSound
  <2>9. CASE UNCHANGED vars
    <3>1. UNCHANGED <<queue, prev, inGame, batch, given, alive, sel, plan, time, heard>>
      BY <2>9 DEF vars, hook, game
    <3>2. QED
      BY <3>1, OrderUntouched DEF OrderInv, GameInv
  <2>10. QED
    BY <2>1, <2>2, <2>3, <2>4, <2>5, <2>6, <2>7, <2>8, <2>9 DEF Next
<1>3. QED
  BY <1>1, <1>2, Invariance, PTL DEF Spec

\* An order is preceded by what selects its unit, and the game will have heard
\* every order accepted once it has all that is queued.
RightUnit ==
  \A p \in Players : \A i \in DOMAIN queue[p] :
    queue[p][i].kind = "order" =>
      Applied(p, SubSeq(queue[p], 1, i - 1)).sel = {queue[p][i].unit} \cap alive
SentInOrder == \A p \in Players : Applied(p, queue[p]).heard = given[p]
OrdersArrive == RightUnit /\ SentInOrder

(* Every order reaches the living unit it was meant for and no other, and   *)
(* each is executed once and in order: for any units and players, whatever   *)
(* is selected, refused, flushed or killed between (select_unit,            *)
(* act_enqueue, act_flush).                                                 *)
THEOREM OrdersReachTheirUnits == Spec => []OrdersArrive
<1>1. RoomInv /\ OrderInv => OrdersArrive
  <2> SUFFICES ASSUME RoomInv, OrderInv PROVE OrdersArrive
    OBVIOUS
  <2>1. ASSUME NEW p \in Players
        PROVE  /\ queue[p] \in Seq(Records) /\ Right(p, queue[p]) /\ Applied(p, queue[p]).heard = given[p]
    BY DEF OrderInv, Sound, Leaves
  <2>2. RightUnit
    <3>1. ASSUME NEW p \in Players PROVE DOMAIN queue[p] = 1 .. Len(queue[p])
      BY <2>1
    <3>2. QED
      BY <2>1, <3>1 DEF Right, RightUnit
  <2>3. QED
    BY <2>1, <2>2 DEF OrdersArrive, SentInOrder
<1>2. QED
  BY <1>1, Invariance, QueuesAreSound, PTL

(* No record is written past the room of its queue, and no packet outgrows   *)
(* the buffer, for any sizes that take the longest action and the longest    *)
(* record (act_reserve, act_flush).                                         *)
THEOREM BuffersAreHeld == Spec => []BuffersHold
<1>1. RoomInv => BuffersHold
  <2> SUFFICES ASSUME RoomInv PROVE WithinPackets
    BY DEF BuffersHold, RoomInv
  <2>1. SUFFICES ASSUME NEW p \in Players, NEW packet \in ToSet(Packets(queue[p]))
                 PROVE  Size(packet) <= PacketBytes
    BY DEF WithinPackets
  <2> DEFINE ps == Packets(queue[p])
  <2>2. queue[p] \in Seq(Records)
    BY DEF RoomInv
  <2>3. ps \in Seq(Seq(Records)) /\ \A i \in 1 .. Len(ps) : Size(ps[i]) <= PacketBytes
    BY <2>2, PacketsGrow, PacketsHold DEF PacketLists
  <2>4. packet \in ToSet(ps)
    BY <2>1
  <2> HIDE DEF ps
  <2>5. DOMAIN ps = 1 .. Len(ps)
    BY <2>3
  <2>6. PICK i \in DOMAIN ps : packet = ps[i]
    BY <2>4 DEF ToSet
  <2>7. QED
    BY <2>3, <2>5, <2>6
<1>2. QED
  BY <1>1, Invariance, PTL
-----------------------------------------------------------------------------
(* What is left of the remembered sites.                                    *)

(* The sifting of a sequence grows with it.                                 *)
LEMMA SiftedGrows ==
  ASSUME NEW Elem, NEW keep
  PROVE  /\ Sifted(<<>>, keep) = <<>>
         /\ \A q \in Seq(Elem) :
              /\ Sifted(q, keep) \in Seq(Elem)
              /\ \A r \in Elem :
                   Sifted(Append(q, r), keep) =
                     IF r \in keep THEN Append(Sifted(q, keep), r) ELSE Sifted(q, keep)
<1> DEFINE State == Seq(Elem)
           Sieve(k, r) == IF r \in keep THEN Append(k, r) ELSE k
           step == [x \in State \X Elem |-> Sieve(x[1], x[2])]
           base == <<>>
           Made(q) == Outcome(step, base, q)
<1>1. base \in State
  OBVIOUS
<1>2. step \in [State \X Elem -> State]
      /\ \A k \in State : \A r \in Elem : step[<<k, r>>] = Sieve(k, r)
  OBVIOUS
<1>3. ASSUME NEW q \in Seq(Elem) PROVE Sifted(q, keep) = Made(q)
  <2> DEFINE D(f) == f = [n \in 0 .. Len(q) |->
                            IF n = 0 THEN base
                            ELSE IF q[n] \in keep THEN Append(f[n - 1], q[n]) ELSE f[n - 1]]
             left == CHOOSE f : D(f)
  <2>1. Sifted(q, keep) = left[Len(q)]
    BY DEF Sifted
  <2> HIDE DEF step, base, State
  <2>2. Len(q) \in Nat /\ \A n \in 1 .. Len(q) : q[n] \in Elem
    OBVIOUS
  <2>3. PICK f \in [0 .. Len(q) -> State] : Runs(f, step, base, q)
    BY <1>1, <1>2, RunExists
  <2>4. ASSUME NEW n \in 0 .. Len(q)
        PROVE  f[n] = IF n = 0 THEN base ELSE Sieve(f[n - 1], q[n])
    <3>1. f[n] = IF n = 0 THEN base ELSE step[<<f[n - 1], q[n]>>]
      BY <2>3 DEF Runs
    <3>2. CASE n # 0
      <4>1. n \in 1 .. Len(q) /\ n - 1 \in 0 .. Len(q)
        BY <2>2, <3>2
      <4> HIDE DEF Sieve
      <4>2. QED
        BY <1>2, <2>2, <3>1, <4>1
    <3>3. QED
      BY <3>1, <3>2
  <2>5. D(f)
    <3>1. f = [n \in 0 .. Len(q) |-> f[n]]
      OBVIOUS
    <3>2. QED
      BY <2>4, <3>1
  <2>6. D(left)
    <3> HIDE DEF D
    <3>1. QED
      BY <2>5
  <2> HIDE DEF left
  <2>7. left[0] = base /\ \A n \in 1 .. Len(q) : left[n] = Sieve(left[n - 1], q[n])
    <3>1. 0 \in 0 .. Len(q) /\ \A n \in 1 .. Len(q) : n \in 0 .. Len(q) /\ n # 0
      BY <2>2
    <3>2. QED
      BY <2>6, <3>1
  <2> HIDE DEF Sieve
  <2>8. Follows(left, State, step, base, q)
    BY <1>2, <2>2, <2>7 DEF Follows
  <2>9. left[Len(q)] = Made(q) /\ left[Len(q)] \in State
    <3> HIDE DEF D
    <3>1. QED
      BY <1>1, <1>2, <2>8, SameOutcome
  <2>10. QED
    BY <2>1, <2>9
<1>4. Grows(State, Elem, step, base)
  <2> HIDE DEF step, base, State
  <2>1. QED
    BY <1>1, <1>2, OutcomeGrows
<1>5. /\ Made(<<>>) = base
      /\ \A q \in Seq(Elem) :
           Made(q) \in State /\ \A r \in Elem : Made(Append(q, r)) = step[<<Made(q), r>>]
  BY <1>4 DEF Grows
<1>6. <<>> \in Seq(Elem) /\ \A q \in Seq(Elem) : \A r \in Elem : Append(q, r) \in Seq(Elem)
  OBVIOUS
<1> HIDE DEF Made, step
<1>7. ASSUME NEW q \in Seq(Elem), NEW r \in Elem
      PROVE  Sifted(q, keep) \in State /\ Sifted(Append(q, r), keep) = Sieve(Sifted(q, keep), r)
  <2>1. Append(q, r) \in Seq(Elem) /\ Made(q) \in State
    BY <1>5, <1>6
  <2>2. Sifted(Append(q, r), keep) = step[<<Made(q), r>>]
    BY <1>3, <1>5, <2>1
  <2> HIDE DEF Sieve
  <2>3. QED
    BY <1>2, <1>3, <2>1, <2>2
<1>8. Sifted(<<>>, keep) = base
  BY <1>3, <1>5, <1>6
<1>9. \A q \in Seq(Elem) : Sifted(q, keep) \in State
  BY <1>3, <1>5
<1>10. QED
  BY <1>7, <1>8, <1>9

(* What an appended sequence holds.                                         *)
LEMMA AppendHolds ==
  ASSUME NEW Elem, NEW q \in Seq(Elem), NEW r \in Elem
  PROVE  ToSet(Append(q, r)) = ToSet(q) \cup {r} /\ Len(Append(q, r)) = Len(q) + 1
<1> DEFINE L == Len(q)
           t == Append(q, r)
<1>1. /\ L \in Nat /\ DOMAIN q = 1 .. L /\ DOMAIN t = 1 .. L + 1 /\ Len(t) = L + 1
      /\ t[L + 1] = r /\ \A n \in 1 .. L : t[n] = q[n]
  OBVIOUS
<1> HIDE DEF L, t
<1>2. ToSet(t) = {t[n] : n \in 1 .. L + 1} /\ ToSet(q) = {q[n] : n \in 1 .. L}
  BY <1>1 DEF ToSet
<1>3. 1 .. L + 1 = (1 .. L) \cup {L + 1}
  BY <1>1
<1>4. QED
  BY <1>1, <1>2, <1>3 DEF t, L

(* A sifting keeps what it is to keep, and that only, in no more places.     *)
LEMMA SiftedKeeps ==
  ASSUME NEW Elem, NEW keep, NEW s \in Seq(Elem)
  PROVE  /\ Sifted(s, keep) \in Seq(Elem) /\ Len(Sifted(s, keep)) <= Len(s)
         /\ ToSet(Sifted(s, keep)) = ToSet(s) \cap keep
<1> DEFINE k(q) == Sifted(q, keep)
           Z == {q \in Seq(Elem) : Len(k(q)) <= Len(q) /\ ToSet(k(q)) = ToSet(q) \cap keep}
<1>1. /\ k(<<>>) = <<>>
      /\ \A q \in Seq(Elem) :
           /\ k(q) \in Seq(Elem)
           /\ \A r \in Elem : k(Append(q, r)) = IF r \in keep THEN Append(k(q), r) ELSE k(q)
  BY SiftedGrows
<1> HIDE DEF k
<1>2. <<>> \in Z
  <2>1. ToSet(<<>>) = {} /\ <<>> \in Seq(Elem) /\ Len(<<>>) = 0
    BY DEF ToSet
  <2>2. QED
    BY <1>1, <2>1
<1>3. ASSUME NEW q \in Seq(Elem), NEW r \in Elem, q \in Z PROVE Append(q, r) \in Z
  <2>1. /\ ToSet(Append(q, r)) = ToSet(q) \cup {r} /\ Len(Append(q, r)) = Len(q) + 1
        /\ Append(q, r) \in Seq(Elem) /\ Len(q) \in Nat
    BY AppendHolds
  <2>2. k(q) \in Seq(Elem) /\ Len(k(q)) \in Nat /\ Len(k(q)) <= Len(q) /\ ToSet(k(q)) = ToSet(q) \cap keep
    BY <1>1, <1>3
  <2>3. CASE r \in keep
    <3>1. k(Append(q, r)) = Append(k(q), r)
      BY <1>1, <2>3
    <3>2. ToSet(Append(k(q), r)) = ToSet(k(q)) \cup {r} /\ Len(Append(k(q), r)) = Len(k(q)) + 1
      BY <2>2, AppendHolds
    <3>3. Len(k(Append(q, r))) <= Len(Append(q, r))
      BY <2>1, <2>2, <3>1, <3>2
    <3>4. ToSet(k(Append(q, r))) = ToSet(Append(q, r)) \cap keep
      BY <2>1, <2>2, <2>3, <3>1, <3>2
    <3>5. QED
      BY <2>1, <3>3, <3>4
  <2>4. CASE r \notin keep
    <3>1. k(Append(q, r)) = k(q)
      BY <1>1, <2>4
    <3>2. Len(k(Append(q, r))) <= Len(Append(q, r))
      BY <2>1, <2>2, <3>1
    <3>3. ToSet(k(Append(q, r))) = ToSet(Append(q, r)) \cap keep
      BY <2>1, <2>2, <2>4, <3>1
    <3>4. QED
      BY <2>1, <3>2, <3>3
  <2>5. QED
    BY <2>3, <2>4
<1> HIDE DEF Z
<1>4. \A q \in Seq(Elem) : q \in Z
  BY <1>2, <1>3, GrowingUp
<1>5. QED
  BY <1>1, <1>4 DEF Z, k

\* The sites, their batch, and the episode; a site is no younger than the clock
\* of the episode it was ordered in.
SiteInv ==
  /\ sites \in Seq(Remembered) /\ Len(sites) <= MaxSites
  /\ batch \in Batches \cup {NoBatch} /\ inGame \in BOOLEAN /\ episode \in Nat
  /\ \A q \in ToSet(sites) : q.episode <= episode /\ (q.episode = episode => q.at <= time)

(* What a sequence of sites holds are sites.                                *)
LEMMA HeldAreSites == ASSUME NEW s \in Seq(Remembered) PROVE ToSet(s) \subseteq Remembered
BY DEF ToSet

(* An action of u that is not queued forgets the sites of u, and no other's. *)
LEMMA ForgottenLeaves ==
  ASSUME sites \in Seq(Remembered), NEW u \in Units, NEW queued \in BOOLEAN
  PROVE  /\ Forgotten(u, queued) \in Seq(Remembered) /\ Len(Forgotten(u, queued)) <= Len(sites)
         /\ ToSet(Forgotten(u, queued)) = {q \in ToSet(sites) : queued \/ q.worker # u}
<1>1. CASE queued
  <2>1. Forgotten(u, queued) = sites /\ Len(sites) \in Nat
    BY <1>1 DEF Forgotten
  <2>2. {q \in ToSet(sites) : queued \/ q.worker # u} = ToSet(sites)
    BY <1>1
  <2>3. QED
    BY <2>1, <2>2
<1>2. CASE ~queued
  <2> DEFINE keep == {q \in ToSet(sites) : q.worker # u}
  <2>1. Forgotten(u, queued) = Sifted(sites, keep)
    BY <1>2 DEF Forgotten
  <2>2. keep = {q \in ToSet(sites) : queued \/ q.worker # u} /\ ToSet(sites) \cap keep = keep
    BY <1>2
  <2> HIDE DEF keep
  <2>3. QED
    BY <2>1, <2>2, SiftedKeeps
<1>3. QED
  BY <1>1, <1>2

(* A scan keeps what still counts, in its order, and adds nothing.          *)
LEMMA PurgedLeaves ==
  ASSUME NEW r \in Seq(Remembered)
  PROVE  /\ Purged(r) \in Seq(Remembered) /\ Len(Purged(r)) <= Len(r)
         /\ ToSet(Purged(r)) \subseteq ToSet(r)
         /\ \A q \in ToSet(r) : Live(q) => q \in ToSet(Purged(r))
         /\ Kept(r) \in Seq(Remembered)
<1> DEFINE keep == {q \in ToSet(r) : Live(q)}
<1>1. Kept(r) = Sifted(r, keep)
  BY DEF Kept
<1>2. keep \subseteq ToSet(r) /\ \A q \in ToSet(r) : Live(q) => q \in keep
  OBVIOUS
<1>3. Len(r) \in Nat
  OBVIOUS
<1> HIDE DEF keep
<1>4. /\ Kept(r) \in Seq(Remembered) /\ Len(Kept(r)) <= Len(r)
      /\ ToSet(Kept(r)) = ToSet(r) \cap keep
  BY <1>1, SiftedKeeps
<1>5. Purged(r) = IF batch.scanned THEN r ELSE Kept(r)
  BY DEF Purged
<1>6. QED
  BY <1>2, <1>3, <1>4, <1>5

(* A site is noted if the table has room; nothing is lost for it.           *)
LEMMA RememberAdds ==
  ASSUME SiteInv, GameInv, NEW r \in Seq(Remembered), Len(r) <= MaxSites, NEW u \in Units, NEW s \in Sites
  PROVE  LET new == [worker |-> u, site |-> s, at |-> time, episode |-> episode] IN
         /\ Remember(r, u, s) \in Seq(Remembered) /\ Len(Remember(r, u, s)) <= MaxSites
         /\ ToSet(r) \subseteq ToSet(Remember(r, u, s))
         /\ ToSet(Remember(r, u, s)) \subseteq ToSet(r) \cup {new}
         /\ Len(Remember(r, u, s)) = MaxSites \/ new \in ToSet(Remember(r, u, s))
<1> DEFINE new == [worker |-> u, site |-> s, at |-> time, episode |-> episode]
<1>1. new \in Remembered
  BY DEF Remembered, SiteInv, GameInv
<1>2. Remember(r, u, s) = IF Len(r) < MaxSites THEN Append(r, new) ELSE r
  BY DEF Remember
<1>3. Len(r) \in Nat /\ MaxSites \in Nat
  BY ConstantsAssumption DEF ConstantsAssumption
<1> HIDE DEF new
<1>4. /\ Append(r, new) \in Seq(Remembered) /\ Len(Append(r, new)) = Len(r) + 1
      /\ ToSet(Append(r, new)) = ToSet(r) \cup {new}
  BY <1>1, AppendHolds
<1>5. CASE Len(r) < MaxSites
  BY <1>2, <1>3, <1>4, <1>5 DEF new
<1>6. CASE ~(Len(r) < MaxSites)
  BY <1>2, <1>3, <1>6
<1>7. QED
  BY <1>5, <1>6

(* What a batch holds pending are builds.                                   *)
LEMMA ScannedIsTyped ==
  ASSUME RoomInv, GameInv, SiteInv, batch.on, NEW r \in Seq(Remembered)
  PROVE  Scanned(r) \in SUBSET Pending
<1>1. batch \in Batches
  BY DEF SiteInv, NoBatch
<1>2. Current(batch.player) \subseteq Pending
  <2>1. SUFFICES ASSUME NEW u \in alive, Head(plan[u]).what \in Sites
                 PROVE  [worker |-> u, site |-> Head(plan[u]).what] \in Pending
    BY DEF Current
  <2>2. QED
    BY <2>1 DEF Pending, GameInv
<1>3. \A q \in ToSet(Kept(r)) : [worker |-> q.worker, site |-> q.site] \in Pending
  <2>1. ToSet(Kept(r)) \subseteq Remembered
    BY PurgedLeaves, HeldAreSites
  <2>2. QED
    BY <2>1 DEF Remembered, Pending
<1>4. batch.pending \in SUBSET Pending
  BY <1>1 DEF Batches
<1>5. CASE batch.scanned
  BY <1>4, <1>5 DEF Scanned
<1>6. CASE ~batch.scanned
  <2>1. Scanned(r) = Current(batch.player) \cup {[worker |-> q.worker, site |-> q.site] : q \in ToSet(Kept(r))}
    BY <1>6 DEF Scanned
  <2>2. QED
    BY <1>2, <1>3, <2>1
<1>7. QED
  BY <1>5, <1>6

(* What an action of a batch leaves of the sites: of those that live, all    *)
(* but those of a worker named by an action that is not queued; what it      *)
(* adds is new.                                                             *)
SitesAfter(u, queued) ==
  /\ sites' \in Seq(Remembered) /\ Len(sites') <= MaxSites
  /\ \A q \in ToSet(sites) : Live(q) /\ (queued \/ q.worker # u) => q \in ToSet(sites')
  /\ \A q \in ToSet(sites') : q \in ToSet(sites) \/ (q.at = time /\ q.episode = episode)

(* Actions that note nothing forget what they may, and no more.             *)
LEMMA LeavesSites ==
  ASSUME SiteInv, NEW u \in Units, NEW queued \in BOOLEAN,
         sites' = Forgotten(u, queued) \/ sites' = Purged(Forgotten(u, queued))
  PROVE  SitesAfter(u, queued)
<1> DEFINE f == Forgotten(u, queued)
<1>1. /\ f \in Seq(Remembered) /\ Len(f) <= Len(sites) /\ Len(f) \in Nat
      /\ ToSet(f) = {q \in ToSet(sites) : queued \/ q.worker # u}
  BY ForgottenLeaves DEF SiteInv
<1>2. Len(sites) \in Nat /\ Len(sites) <= MaxSites /\ MaxSites \in Nat
  BY ConstantsAssumption DEF ConstantsAssumption, SiteInv
<1>3. sites' = f \/ sites' = Purged(f)
  OBVIOUS
<1> HIDE DEF f
<1>4. /\ Purged(f) \in Seq(Remembered) /\ Len(Purged(f)) <= Len(f) /\ Len(Purged(f)) \in Nat
      /\ ToSet(Purged(f)) \subseteq ToSet(f)
      /\ \A q \in ToSet(f) : Live(q) => q \in ToSet(Purged(f))
  BY <1>1, PurgedLeaves
<1>5. sites' \in Seq(Remembered) /\ Len(sites') <= MaxSites
  BY <1>1, <1>2, <1>3, <1>4
<1>6. /\ ToSet(sites') \subseteq ToSet(f)
      /\ \A q \in ToSet(f) : Live(q) => q \in ToSet(sites')
  BY <1>3, <1>4
<1>7. QED
  BY <1>1, <1>5, <1>6 DEF SitesAfter

\* A Shift-queued build is remembered, unless the table is full.
InMind(u, s, queued) ==
  queued => \/ Len(sites') = MaxSites
            \/ \E q \in ToSet(sites') : q.worker = u /\ q.site = s /\ q.at = time

(* Nor does a build forget more; Shift-queued, it is noted.                 *)
LEMMA BuildRemembers ==
  ASSUME SiteInv, GameInv, NEW u \in Units, NEW s \in Sites, NEW queued \in BOOLEAN,
         NEW auto \in BOOLEAN, Build(u, s, queued, auto)
  PROVE  SitesAfter(u, queued) /\ InMind(u, s, queued)
<1> DEFINE k == Purged(Forgotten(u, queued))
           new == [worker |-> u, site |-> s, at |-> time, episode |-> episode]
<1>1. sites' = IF queued THEN Remember(k, u, s) ELSE k
  BY DEF Build
<1>2. CASE ~queued
  BY <1>1, <1>2, LeavesSites DEF InMind
<1>3. CASE queued
  <2>1. Forgotten(u, queued) = sites
    BY <1>3 DEF Forgotten
  <2>2. sites \in Seq(Remembered) /\ Len(sites) \in Nat /\ Len(sites) <= MaxSites /\ MaxSites \in Nat
    BY ConstantsAssumption DEF ConstantsAssumption, SiteInv
  <2>3. /\ k \in Seq(Remembered) /\ Len(k) <= Len(sites) /\ Len(k) \in Nat
        /\ ToSet(k) \subseteq ToSet(sites)
        /\ \A q \in ToSet(sites) : Live(q) => q \in ToSet(k)
    BY <2>1, <2>2, PurgedLeaves
  <2> HIDE DEF k
  <2>4. Len(k) <= MaxSites
    BY <2>2, <2>3
  <2>5. /\ Remember(k, u, s) \in Seq(Remembered) /\ Len(Remember(k, u, s)) <= MaxSites
        /\ ToSet(k) \subseteq ToSet(Remember(k, u, s))
        /\ ToSet(Remember(k, u, s)) \subseteq ToSet(k) \cup {new}
        /\ Len(Remember(k, u, s)) = MaxSites \/ new \in ToSet(Remember(k, u, s))
    BY <2>3, <2>4, RememberAdds
  <2>6. sites' = Remember(k, u, s)
    BY <1>1, <1>3
  <2>7. /\ new.worker = u /\ new.site = s /\ new.at = time /\ new.episode = episode
    OBVIOUS
  <2> HIDE DEF new
  <2>8. SitesAfter(u, queued)
    BY <2>3, <2>5, <2>6, <2>7 DEF SitesAfter
  <2>9. QED
    BY <2>5, <2>6, <2>7, <2>8 DEF InMind
<1>4. QED
  BY <1>2, <1>3

(* So it is with every action of a batch.                                   *)
LEMMA ActionLeaves ==
  ASSUME SiteInv, GameInv, NEW u \in Units, NEW queued \in BOOLEAN, Action(u, queued)
  PROVE  SitesAfter(u, queued)
<1>1. CASE Refuse(u, queued) \/ RefuseLate(u, queued) \/ NoSite(u, queued)
  BY <1>1, LeavesSites DEF Refuse, RefuseLate, NoSite
<1>2. ASSUME NEW what \in Commands, Command(u, what, queued) PROVE SitesAfter(u, queued)
  BY <1>2, LeavesSites DEF Command
<1>3. ASSUME ~queued, Select(u) \/ \E shop \in Units : Buy(u, shop) PROVE SitesAfter(u, queued)
  <2>1. queued = FALSE
    BY <1>3
  <2>2. sites' = Forgotten(u, queued)
    BY <1>3, <2>1 DEF Select, Buy
  <2>3. QED
    BY <2>2, LeavesSites
<1>4. ASSUME NEW s \in Sites, NEW auto \in BOOLEAN, Build(u, s, queued, auto) PROVE SitesAfter(u, queued)
  BY <1>4, BuildRemembers
<1>5. QED
  BY <1>1, <1>2, <1>3, <1>4 DEF Action

(* The batch goes on with its player, knowing builds only.                  *)
LEMMA ActionScans ==
  ASSUME RoomInv, GameInv, SiteInv, NEW u \in Units, NEW queued \in BOOLEAN, Action(u, queued)
  PROVE  batch' \in Batches /\ UNCHANGED <<inGame, time, episode>>
<1> DEFINE f == Forgotten(u, queued)
<1>1. batch.on /\ UNCHANGED <<inGame, time, episode>>
  BY DEF Action, Refuse, RefuseLate, NoSite, Command, Select, Buy, Build, actOnly, game
<1>2. batch \in Batches
  BY <1>1 DEF SiteInv, NoBatch
<1>3. f \in Seq(Remembered)
  BY ForgottenLeaves DEF SiteInv
<1> HIDE DEF f
<1>4. Scanned(f) \in SUBSET Pending
  BY <1>1, <1>3, ScannedIsTyped
<1>5. ASSUME NEW pending \in SUBSET Pending, batch' = [batch EXCEPT !.scanned = TRUE, !.pending = pending]
      PROVE  batch' \in Batches
  BY <1>2, <1>5 DEF Batches
<1>6. CASE batch' = batch
  BY <1>1, <1>2, <1>6
<1>7. CASE NoSite(u, queued)
  BY <1>1, <1>4, <1>5, <1>7 DEF NoSite, f
<1>8. ASSUME NEW s \in Sites, NEW auto \in BOOLEAN, Build(u, s, queued, auto) PROVE batch' \in Batches
  <2>1. [worker |-> u, site |-> s] \in Pending
    BY DEF Pending
  <2> DEFINE pending == Scanned(f) \cup {[worker |-> u, site |-> s]}
  <2>2. pending \in SUBSET Pending
    BY <1>4, <2>1
  <2>3. batch' = [batch EXCEPT !.scanned = TRUE, !.pending = pending]
    BY <1>8 DEF Build, f
  <2> HIDE DEF pending
  <2>4. QED
    BY <1>5, <2>2, <2>3
<1>9. QED
  BY <1>1, <1>6, <1>7, <1>8 DEF Action, Refuse, RefuseLate, Command, Select, Buy
-----------------------------------------------------------------------------
(* The invariant of the sites: their types and number, and their times.      *)
THEOREM SitesInvariance == Spec => []SiteInv
<1>1. Init => SiteInv
  <2> SUFFICES ASSUME Init PROVE SiteInv
    OBVIOUS
  <2>1. sites = <<>> /\ batch = NoBatch /\ inGame = FALSE /\ episode = 0
    BY DEF Init
  <2>2. sites \in Seq(Remembered) /\ Len(sites) = 0 /\ ToSet(sites) = {}
    BY <2>1 DEF ToSet
  <2>3. Len(sites) <= MaxSites
    BY <2>2, ConstantsAssumption DEF ConstantsAssumption
  <2>4. \A q \in ToSet(sites) : q.episode <= episode /\ (q.episode = episode => q.at <= time)
    BY <2>2
  <2>5. QED
    BY <2>1, <2>2, <2>3, <2>4 DEF SiteInv
<1>2. RoomInv /\ GameInv /\ SiteInv /\ [Next]_vars => SiteInv'
  <2> SUFFICES ASSUME RoomInv, GameInv, SiteInv, [Next]_vars PROVE SiteInv'
    OBVIOUS
  <2>1. CASE Item
    <3>1. PICK u \in Units, queued \in BOOLEAN : Action(u, queued)
      BY <2>1 DEF Item
    <3>2. SitesAfter(u, queued) /\ batch' \in Batches /\ UNCHANGED <<inGame, time, episode>>
      BY <3>1, ActionLeaves, ActionScans
    <3>3. \A q \in ToSet(sites') : q.episode <= episode /\ (q.episode = episode => q.at <= time)
      <4>1. time <= time /\ episode <= episode
        BY DEF SiteInv, GameInv
      <4>2. QED
        BY <3>2, <4>1 DEF SitesAfter, SiteInv
    <3>4. QED
      BY <3>2, <3>3 DEF SitesAfter, SiteInv
  <2>2. ASSUME UNCHANGED <<sites, inGame, episode>>, batch' \in Batches \cup {NoBatch},
               time' = time \/ time' = time + 1
        PROVE  SiteInv'
    <3>1. ToSet(sites') = ToSet(sites) /\ ToSet(sites) \subseteq Remembered
      BY <2>2, HeldAreSites DEF SiteInv
    <3>2. ASSUME NEW q \in ToSet(sites)
          PROVE  q.episode <= episode' /\ (q.episode = episode' => q.at <= time')
      <4>1. q.at \in Int /\ q.episode \in Nat /\ time \in Int
        BY <3>1 DEF Remembered, GameInv
      <4>2. QED
        BY <2>2, <4>1 DEF SiteInv
    <3>3. QED
      BY <2>2, <3>1, <3>2 DEF SiteInv
  <2>3. CASE Tick \/ Flush \/ \E u \in Units : Ends(u) \/ Dies(u)
    BY <2>2, <2>3 DEF Tick, Flush, Ends, Dies, hook, SiteInv
  <2>4. CASE End
    BY <2>2, <2>4 DEF End, game
  <2>5. ASSUME NEW p \in Players, Begin(p) PROVE SiteInv'
    <3>1. /\ batch' = [on |-> TRUE, player |-> p, scanned |-> FALSE, pending |-> {}, from |-> Len(queue[p])]
          /\ UNCHANGED <<sites, inGame, episode, time>>
      BY <2>5 DEF Begin, game
    <3>2. Len(queue[p]) \in Nat
      BY DEF RoomInv
    <3>3. batch' \in Batches
      BY <3>1, <3>2 DEF Batches
    <3>4. QED
      BY <2>2, <3>1, <3>3
  <2>6. CASE Create
    <3>1. inGame' = TRUE /\ UNCHANGED <<sites, batch, episode, time>>
      BY <2>6 DEF Create, game
    <3>2. QED
      BY <3>1 DEF SiteInv
  <2>7. CASE Restart
    <3>1. inGame' = FALSE /\ episode' = episode + 1 /\ UNCHANGED <<sites, batch>>
      BY <2>7 DEF Restart
    <3>2. ToSet(sites') = ToSet(sites) /\ ToSet(sites) \subseteq Remembered
      BY <3>1, HeldAreSites DEF SiteInv
    <3>3. ASSUME NEW q \in ToSet(sites)
          PROVE  q.episode <= episode' /\ (q.episode = episode' => q.at <= time')
      <4>1. q.episode \in Nat /\ episode \in Nat /\ q.episode <= episode
        BY <3>2 DEF Remembered, SiteInv
      <4>2. QED
        BY <3>1, <4>1
    <3>4. \A q \in ToSet(sites') : q.episode <= episode' /\ (q.episode = episode' => q.at <= time')
      BY <3>2, <3>3
    <3>5. episode' \in Nat
      BY <3>1 DEF SiteInv
    <3>6. QED
      BY <3>1, <3>4, <3>5 DEF SiteInv
  <2>8. CASE UNCHANGED vars
    BY <2>2, <2>8 DEF vars, hook, game, SiteInv
  <2>9. QED
    BY <2>1, <2>3, <2>4, <2>5, <2>6, <2>7, <2>8 DEF Next
<1>3. OrderInv => GameInv
  BY DEF OrderInv
<1>4. QED
  BY <1>1, <1>2, <1>3, Invariance, QueuesAreSound, PTL DEF Spec

(* The queues, the table of sites, the batch and the game keep their types:  *)
(* the table is never longer than MAX_QUEUED_SITES (g_act, g_queued).       *)
THEOREM TypeCorrect == Spec => []TypeOK
<1>1. RoomInv /\ OrderInv /\ SiteInv => TypeOK
  <2> SUFFICES ASSUME RoomInv, OrderInv, SiteInv PROVE TypeOK
    OBVIOUS
  <2>1. capacity \in [Players -> Nat]
    BY DEF RoomInv
  <2>2. QED
    BY <2>1 DEF TypeOK, RoomInv, OrderInv, GameInv, SiteInv, Records, Things
<1>2. QED
  BY <1>1, Invariance, QueuesAreSound, SitesInvariance, PTL

(* A site that lives is forgotten only at an action for its worker that is   *)
(* not queued, and that of a Shift-queued build is remembered while there is *)
(* room: for any units, and a table of any length (forget_queued_sites,     *)
(* add_queued_sites, act_apply).                                            *)
THEOREM SitesAreKept == Spec => SitesKept
<1>1. RoomInv /\ GameInv /\ SiteInv /\ [Next]_vars => KeptInMind /\ \A p \in Players : Noted(p)
  <2> SUFFICES ASSUME RoomInv, GameInv, SiteInv, [Next]_vars
               PROVE  KeptInMind /\ \A p \in Players : Noted(p)
    OBVIOUS
  <2>1. KeptInMind
    <3>1. SUFFICES ASSUME NEW q \in ToSet(sites), Live(q), q \notin ToSet(sites')
                   PROVE  Action(q.worker, FALSE)
      BY DEF KeptInMind
    <3>2. sites' # sites
      BY <3>1
    <3>3. Item
      BY <3>2 DEF Next, Tick, Flush, Restart, Create, End, Begin, Ends, Dies, hook, vars
    <3>4. PICK u \in Units, queued \in BOOLEAN : Action(u, queued)
      BY <3>3 DEF Item
    <3>5. SitesAfter(u, queued)
      BY <3>4, ActionLeaves
    <3>6. queued = FALSE /\ q.worker = u
      BY <3>1, <3>5 DEF SitesAfter
    <3>7. QED
      BY <3>4, <3>6
  <2>2. ASSUME NEW p \in Players, Len(queue'[p]) > Len(queue[p]), Last(queue'[p]).kind = "order",
               Last(queue'[p]).what \in Sites, Last(queue'[p]).queued
        PROVE  \/ Len(sites') = MaxSites
               \/ \E q \in ToSet(sites') : q.worker = Last(queue'[p]).unit /\ q.site = Last(queue'[p]).what
                                           /\ q.at = time
    <3>1. PICK u \in Units, s \in Sites, queued \in BOOLEAN, auto \in BOOLEAN :
            /\ Build(u, s, queued, auto)
            /\ Last(queue'[p]).unit = u /\ Last(queue'[p]).what = s
            /\ Last(queue'[p]).queued = queued /\ Last(queue'[p]).auto = auto
      BY <2>2, BuildAdded
    <3>2. Build(u, s, queued, auto)
      BY <3>1
    <3>3. InMind(u, s, queued)
      BY <3>2, BuildRemembers
    <3>4. QED
      BY <2>2, <3>1, <3>3 DEF InMind
  <2>3. QED
    BY <2>1, <2>2 DEF Noted
<1>2. RoomInv /\ GameInv /\ SiteInv /\ [Next]_vars => [KeptInMind /\ \A p \in Players : Noted(p)]_vars
  BY <1>1
<1>3. OrderInv => GameInv
  BY DEF OrderInv
<1>4. Spec => [][KeptInMind /\ \A p \in Players : Noted(p)]_vars
  BY <1>2, <1>3, Invariance, QueuesAreSound, SitesInvariance, PTL DEF Spec
<1>5. QED
  BY <1>4 DEF SitesKept

(* Sites chosen by the search keep apart, and sites are kept in mind.        *)
THEOREM SitesAreHeld == Spec => SitesHeld
BY BuildsStayApart, SitesAreKept DEF SitesHeld

\* The clock shows q's time, or one less than SiteLife after it.
Counts(q) == q.worker \in alive /\ q.at <= time /\ time < q.at + SiteLife
SitesCountInTime == \A q \in ToSet(sites) : Live(q) <=> Counts(q)

(* Unsigned time since a moment, for one passed and for one yet to come.    *)
LEMMA UnsignedSince ==
  ASSUME NEW at \in 0 .. MaxTime, NEW now \in 0 .. MaxTime
  PROVE  (now - at) % TimeWrap < SiteLife <=> at <= now /\ now < at + SiteLife
<1>1. /\ MaxTime \in Nat /\ SiteLife \in Nat /\ SiteLife > 0 /\ TimeWrap \in Nat /\ TimeWrap > 0
      /\ TimeWrap > MaxTime + SiteLife
  BY ConstantsAssumption DEF ConstantsAssumption
<1>2. CASE at <= now
  <2>1. now - at \in 0 .. TimeWrap - 1
    BY <1>1, <1>2
  <2>2. (now - at) % TimeWrap = now - at
    BY <1>1, <2>1
  <2>3. QED
    BY <1>1, <1>2, <2>2
<1>3. CASE now < at
  <2> DEFINE d == now - at + TimeWrap
  <2>1. d \in 0 .. TimeWrap - 1 /\ d >= SiteLife
    BY <1>1, <1>3
  <2>2. (now - at) % TimeWrap = d
    BY <1>1, <1>3, <2>1
  <2>3. QED
    BY <1>1, <1>3, <2>1, <2>2
<1>4. QED
  BY <1>2, <1>3

(* A site remembered counts exactly while its worker lives and the clock is *)
(* between its time and the end of its life, whatever the clock's width: one *)
(* of an episode before, not cleared by act_clear, counts only once the new *)
(* clock has reached its time (add_queued_sites subtracts unsigned).        *)
THEOREM SitesCount == Spec => []SitesCountInTime
<1>1. GameInv /\ SiteInv => SitesCountInTime
  <2> SUFFICES ASSUME GameInv, SiteInv, NEW q \in ToSet(sites) PROVE Live(q) <=> Counts(q)
    BY DEF SitesCountInTime
  <2>1. q \in Remembered
    BY HeldAreSites DEF SiteInv
  <2>2. q.at \in 0 .. MaxTime /\ time \in 0 .. MaxTime
    BY <2>1 DEF Remembered, GameInv
  <2>3. QED
    BY <2>2, UnsignedSince DEF Live, Counts
<1>2. OrderInv => GameInv
  BY DEF OrderInv
<1>3. QED
  BY <1>1, <1>2, QueuesAreSound, SitesInvariance, PTL
-----------------------------------------------------------------------------
(* The orders go straight to their units: UnitOrders is implemented.         *)

(* What waits next is what the next queues ask.                             *)
LEMMA WaitingNext == Waiting' = [p \in Players |-> Asked(queue'[p])]
BY DEF Waiting

AskOf(r) == [unit |-> r.unit, what |-> r.what, queued |-> r.queued]
Asking(asked, r) == IF r.kind = "order" THEN Append(asked, AskOf(r)) ELSE asked

(* What is asked grows with the records.                                    *)
LEMMA AskedGrows ==
  /\ Asked(<<>>) = <<>>
  /\ \A q \in Seq(Records) :
       /\ Asked(q) \in Seq(Direct!Asks)
       /\ \A r \in Records : Asked(Append(q, r)) = Asking(Asked(q), r)
<1> DEFINE State == Seq(Direct!Asks)
           step == [x \in State \X Records |-> Asking(x[1], x[2])]
           base == <<>>
           Made(q) == Outcome(step, base, q)
<1>1. base \in State
  OBVIOUS
<1>2. ASSUME NEW k \in State, NEW r \in Records PROVE Asking(k, r) \in State
  <2>1. CASE r.kind = "order"
    <3>1. r \in Orders
      BY <2>1 DEF Records, Marks
    <3>2. AskOf(r) \in Direct!Asks
      BY <3>1 DEF AskOf, Orders, Deeds, Direct!Asks, Direct!Deeds
    <3>3. QED
      BY <2>1, <3>2 DEF Asking
  <2>2. CASE r.kind # "order"
    BY <2>2 DEF Asking
  <2>3. QED
    BY <2>1, <2>2
<1>3. step \in [State \X Records -> State]
      /\ \A k \in State : \A r \in Records : step[<<k, r>>] = Asking(k, r)
  BY <1>2
<1>4. ASSUME NEW q \in Seq(Records) PROVE Asked(q) = Made(q)
  <2> DEFINE D(f) == f = [n \in 0 .. Len(q) |-> IF n = 0 THEN base ELSE Asking(f[n - 1], q[n])]
             asked == CHOOSE f : D(f)
  <2>1. Asked(q) = asked[Len(q)]
    BY DEF Asked, Asking, AskOf
  <2> HIDE DEF step, base, State
  <2>2. Len(q) \in Nat /\ \A n \in 1 .. Len(q) : q[n] \in Records
    OBVIOUS
  <2>3. PICK f \in [0 .. Len(q) -> State] : Runs(f, step, base, q)
    BY <1>1, <1>3, RunExists
  <2>4. ASSUME NEW n \in 0 .. Len(q)
        PROVE  f[n] = IF n = 0 THEN base ELSE Asking(f[n - 1], q[n])
    <3>1. f[n] = IF n = 0 THEN base ELSE step[<<f[n - 1], q[n]>>]
      BY <2>3 DEF Runs
    <3>2. CASE n # 0
      <4>1. n \in 1 .. Len(q) /\ n - 1 \in 0 .. Len(q)
        BY <2>2, <3>2
      <4>2. QED
        BY <1>3, <2>2, <3>1, <4>1
    <3>3. QED
      BY <3>1, <3>2
  <2>5. D(f)
    <3>1. f = [n \in 0 .. Len(q) |-> f[n]]
      OBVIOUS
    <3>2. QED
      BY <2>4, <3>1
  <2>6. D(asked)
    <3> HIDE DEF D
    <3>1. QED
      BY <2>5
  <2> HIDE DEF asked
  <2>7. asked[0] = base /\ \A n \in 1 .. Len(q) : asked[n] = Asking(asked[n - 1], q[n])
    <3>1. 0 \in 0 .. Len(q) /\ \A n \in 1 .. Len(q) : n \in 0 .. Len(q) /\ n # 0
      BY <2>2
    <3>2. QED
      BY <2>6, <3>1
  <2>8. Follows(asked, State, step, base, q)
    BY <1>3, <2>2, <2>7 DEF Follows
  <2>9. asked[Len(q)] = Made(q) /\ asked[Len(q)] \in State
    <3> HIDE DEF D
    <3>1. QED
      BY <1>1, <1>3, <2>8, SameOutcome
  <2>10. QED
    BY <2>1, <2>9
<1>5. Grows(State, Records, step, base)
  <2> HIDE DEF step, base, State
  <2>1. QED
    BY <1>1, <1>3, OutcomeGrows
<1>6. /\ Made(<<>>) = base
      /\ \A q \in Seq(Records) :
           Made(q) \in State /\ \A r \in Records : Made(Append(q, r)) = step[<<Made(q), r>>]
  BY <1>5 DEF Grows
<1>7. <<>> \in Seq(Records) /\ \A q \in Seq(Records) : \A r \in Records : Append(q, r) \in Seq(Records)
  OBVIOUS
<1> HIDE DEF Made, step, State
<1>8. ASSUME NEW q \in Seq(Records), NEW r \in Records
      PROVE  Asked(q) \in State /\ Asked(Append(q, r)) = Asking(Asked(q), r)
  <2>1. Append(q, r) \in Seq(Records) /\ Made(q) \in State
    BY <1>6, <1>7
  <2>2. Asked(Append(q, r)) = step[<<Made(q), r>>]
    BY <1>4, <1>6, <2>1
  <2>3. QED
    BY <1>3, <1>4, <2>1, <2>2
<1>9. Asked(<<>>) = base
  BY <1>4, <1>6, <1>7
<1>10. \A q \in Seq(Records) : Asked(q) \in State
  BY <1>4, <1>6
<1>11. QED
  BY <1>8, <1>9, <1>10 DEF State

\* What one order more makes of what u is to do.
Telling(u, todo, ask) == IF ask.unit = u THEN Direct!Doing(todo, ask) ELSE todo

(* What a unit is told grows with what is asked.                            *)
LEMMA ToldGrows ==
  ASSUME GameInv, NEW u \in Units
  PROVE  /\ Direct!Told(u, <<>>) = plan[u]
         /\ \A q \in Seq(Direct!Asks) :
              /\ Direct!Told(u, q) \in Seq(Things)
              /\ \A r \in Direct!Asks : Direct!Told(u, Append(q, r)) = Telling(u, Direct!Told(u, q), r)
<1> DEFINE State == Seq(Things)
           Elem == Direct!Asks
           step == [x \in State \X Elem |-> Telling(u, x[1], x[2])]
           base == plan[u]
           Made(q) == Outcome(step, base, q)
<1>1. base \in State
  BY DEF GameInv
<1>2. ASSUME NEW k \in State, NEW r \in Elem PROVE Telling(u, k, r) \in State
  <2> DEFINE new == [what |-> r.what, at |-> time]
  <2>1. r.what \in Deeds /\ time \in 0 .. MaxTime
    BY DEF Deeds, Direct!Asks, Direct!Deeds, GameInv
  <2>2. r.what \notin Production => new \in Things
    BY <2>1 DEF Deeds, Things
  <2>3. Direct!Doing(k, r) = IF r.what \in Production THEN k ELSE IF r.queued THEN Append(k, new) ELSE <<new>>
    BY DEF Direct!Doing
  <2> HIDE DEF new
  <2>4. Direct!Doing(k, r) \in State
    BY <2>2, <2>3
  <2>5. QED
    BY <2>4 DEF Telling
<1>3. step \in [State \X Elem -> State]
      /\ \A k \in State : \A r \in Elem : step[<<k, r>>] = Telling(u, k, r)
  BY <1>2
<1>4. ASSUME NEW q \in Seq(Elem) PROVE Direct!Told(u, q) = Made(q)
  <2> DEFINE D(f) == f = [n \in 0 .. Len(q) |-> IF n = 0 THEN base ELSE Telling(u, f[n - 1], q[n])]
             todo == CHOOSE f : D(f)
  <2>1. Direct!Told(u, q) = todo[Len(q)]
    BY DEF Direct!Told, Telling
  <2> HIDE DEF step, base, State, Elem
  <2>2. Len(q) \in Nat /\ \A n \in 1 .. Len(q) : q[n] \in Elem
    OBVIOUS
  <2>3. PICK f \in [0 .. Len(q) -> State] : Runs(f, step, base, q)
    BY <1>1, <1>3, RunExists
  <2>4. ASSUME NEW n \in 0 .. Len(q)
        PROVE  f[n] = IF n = 0 THEN base ELSE Telling(u, f[n - 1], q[n])
    <3>1. f[n] = IF n = 0 THEN base ELSE step[<<f[n - 1], q[n]>>]
      BY <2>3 DEF Runs
    <3>2. CASE n # 0
      <4>1. n \in 1 .. Len(q) /\ n - 1 \in 0 .. Len(q)
        BY <2>2, <3>2
      <4>2. QED
        BY <1>3, <2>2, <3>1, <4>1
    <3>3. QED
      BY <3>1, <3>2
  <2>5. D(f)
    <3>1. f = [n \in 0 .. Len(q) |-> f[n]]
      OBVIOUS
    <3>2. QED
      BY <2>4, <3>1
  <2>6. D(todo)
    <3> HIDE DEF D
    <3>1. QED
      BY <2>5
  <2> HIDE DEF todo
  <2>7. todo[0] = base /\ \A n \in 1 .. Len(q) : todo[n] = Telling(u, todo[n - 1], q[n])
    <3>1. 0 \in 0 .. Len(q) /\ \A n \in 1 .. Len(q) : n \in 0 .. Len(q) /\ n # 0
      BY <2>2
    <3>2. QED
      BY <2>6, <3>1
  <2>8. Follows(todo, State, step, base, q)
    BY <1>3, <2>2, <2>7 DEF Follows
  <2>9. todo[Len(q)] = Made(q) /\ todo[Len(q)] \in State
    <3> HIDE DEF D
    <3>1. QED
      BY <1>1, <1>3, <2>8, SameOutcome
  <2>10. QED
    BY <2>1, <2>9
<1>5. Grows(State, Elem, step, base)
  <2> HIDE DEF step, base, State, Elem
  <2>1. QED
    BY <1>1, <1>3, OutcomeGrows
<1>6. /\ Made(<<>>) = base
      /\ \A q \in Seq(Elem) :
           Made(q) \in State /\ \A r \in Elem : Made(Append(q, r)) = step[<<Made(q), r>>]
  BY <1>5 DEF Grows
<1>7. <<>> \in Seq(Elem) /\ \A q \in Seq(Elem) : \A r \in Elem : Append(q, r) \in Seq(Elem)
  OBVIOUS
<1> HIDE DEF Made, step, State, Elem
<1>8. ASSUME NEW q \in Seq(Elem), NEW r \in Elem
      PROVE  Direct!Told(u, Append(q, r)) = Telling(u, Direct!Told(u, q), r)
  <2>1. Append(q, r) \in Seq(Elem) /\ Made(q) \in State
    BY <1>6, <1>7
  <2>2. Direct!Told(u, Append(q, r)) = step[<<Made(q), r>>]
    BY <1>4, <1>6, <2>1
  <2>3. QED
    BY <1>3, <1>4, <2>1, <2>2
<1>9. Direct!Told(u, <<>>) = base
  BY <1>4, <1>6, <1>7
<1>10. \A q \in Seq(Elem) : Direct!Told(u, q) \in State
  BY <1>4, <1>6
<1>11. QED
  BY <1>8, <1>9, <1>10 DEF State, Elem

(* A record less.                                                           *)
LEMMA RightBefore ==
  ASSUME NEW p \in Players, NEW q \in Seq(Records), NEW r \in Records, Right(p, Append(q, r))
  PROVE  Right(p, q) /\ (r.kind = "order" => Applied(p, q).sel = {r.unit} \cap alive)
<1> DEFINE t == Append(q, r)
<1>1. /\ Len(q) \in Nat /\ Len(t) = Len(q) + 1 /\ t[Len(q) + 1] = r /\ SubSeq(t, 1, Len(q)) = q
      /\ \A i \in 1 .. Len(q) : t[i] = q[i] /\ SubSeq(t, 1, i - 1) = SubSeq(q, 1, i - 1)
  OBVIOUS
<1>2. \A i \in 1 .. Len(t) :
        t[i].kind = "order" => Applied(p, SubSeq(t, 1, i - 1)).sel = {t[i].unit} \cap alive
  BY DEF Right
<1> HIDE DEF t
<1>3. Right(p, q)
  <2>1. \A i \in 1 .. Len(q) : i \in 1 .. Len(t)
    BY <1>1
  <2>2. QED
    BY <1>1, <1>2, <2>1 DEF Right
<1>4. r.kind = "order" => Applied(p, q).sel = {r.unit} \cap alive
  <2>1. Len(q) + 1 \in 1 .. Len(t) /\ (Len(q) + 1) - 1 = Len(q)
    BY <1>1
  <2>2. QED
    BY <1>1, <1>2, <2>1
<1>5. QED
  BY <1>3, <1>4

\* What a record does to the plan of a unit.
Ordered(p, s, r, u) ==
  IF r.kind = "order" /\ u \in s.sel /\ Owner[u] = p THEN Direct!Doing(s.plan[u], AskOf(r)) ELSE s.plan[u]

(* Of all records only orders change plans, those of the units selected.    *)
LEMMA ApplyPlans ==
  ASSUME NEW p \in Players, NEW s \in States, NEW r \in Records, NEW u \in Units
  PROVE  Apply(p, s, r).plan[u] = Ordered(p, s, r, u)
<1>1. CASE r.kind = "deselect"
  BY <1>1 DEF Apply, States, Ordered
<1>2. CASE r.kind = "select"
  BY <1>2 DEF Apply, States, Ordered
<1>3. CASE r.kind = "order"
  <2> DEFINE next == [w \in Units |-> IF w \in s.sel /\ Owner[w] = p THEN Obey(s.plan[w], r) ELSE s.plan[w]]
             count == IF r.n = s.heard + 1 THEN r.n ELSE s.heard
  <2>1. Apply(p, s, r) = [s EXCEPT !.plan = next, !.heard = count]
    BY <1>3 DEF Apply
  <2>2. next[u] = IF u \in s.sel /\ Owner[u] = p THEN Obey(s.plan[u], r) ELSE s.plan[u]
    OBVIOUS
  <2> HIDE DEF next, count
  <2>3. Apply(p, s, r).plan = next
    BY <2>1 DEF States
  <2>4. Direct!Doing(s.plan[u], AskOf(r)) = Obey(s.plan[u], r)
    BY DEF Direct!Doing, AskOf, Obey
  <2>5. QED
    BY <1>3, <2>2, <2>3, <2>4 DEF Ordered
<1>4. CASE r.kind \in {"presub", "subgroup"}
  BY <1>4 DEF Apply, Ordered
<1>5. QED
  BY <1>1, <1>2, <1>3, <1>4 DEF Records, Marks, Orders

(* Records that are right for their units do what the orders among them say. *)
LEMMA AppliedTells ==
  ASSUME GameInv, NEW p \in Players, NEW u \in Units, Owner[u] = p
  PROVE  \A q \in Seq(Records) :
           Right(p, q) => Applied(p, q).plan[u] = IF u \in alive THEN Direct!Told(u, Asked(q)) ELSE plan[u]
<1> DEFINE Does(q) ==
             Right(p, q) => Applied(p, q).plan[u] = IF u \in alive THEN Direct!Told(u, Asked(q)) ELSE plan[u]
           Z == {q \in Seq(Records) : Does(q)}
<1>1. <<>> \in Z
  <2>1. Applied(p, <<>>).plan[u] = plan[u]
    BY AppliedGrows DEF AppliedByRecord, Before
  <2>2. Asked(<<>>) = <<>> /\ Direct!Told(u, <<>>) = plan[u]
    BY AskedGrows, ToldGrows
  <2>3. <<>> \in Seq(Records)
    OBVIOUS
  <2>4. QED
    BY <2>1, <2>2, <2>3
<1>2. ASSUME NEW q \in Seq(Records), NEW r \in Records, q \in Z PROVE Append(q, r) \in Z
  <2>1. SUFFICES ASSUME Right(p, Append(q, r)) PROVE Does(Append(q, r))
    OBVIOUS
  <2>2. Right(p, q) /\ (r.kind = "order" => Applied(p, q).sel = {r.unit} \cap alive)
    BY <2>1, RightBefore
  <2>3. Applied(p, q).plan[u] = IF u \in alive THEN Direct!Told(u, Asked(q)) ELSE plan[u]
    BY <1>2, <2>2
  <2>4. Applied(p, q) \in States /\ Applied(p, Append(q, r)) = Apply(p, Applied(p, q), r)
    BY AppliedGrows DEF AppliedByRecord
  <2>5. Applied(p, Append(q, r)).plan[u] = Ordered(p, Applied(p, q), r, u)
    BY <2>4, ApplyPlans
  <2>6. Asked(q) \in Seq(Direct!Asks) /\ Asked(Append(q, r)) = Asking(Asked(q), r)
    BY AskedGrows
  <2>7. CASE r.kind # "order"
    BY <2>3, <2>5, <2>6, <2>7 DEF Ordered, Asking
  <2>8. CASE r.kind = "order"
    <3>1. AskOf(r) \in Direct!Asks /\ AskOf(r).unit = r.unit
      BY <2>8 DEF Records, Marks, AskOf, Orders, Deeds, Direct!Asks, Direct!Deeds
    <3>2. Direct!Told(u, Asked(Append(q, r))) = Telling(u, Direct!Told(u, Asked(q)), AskOf(r))
      BY <2>6, <2>8, <3>1, ToldGrows DEF Asking
    <3>3. u \in Applied(p, q).sel <=> u \in alive /\ r.unit = u
      BY <2>2, <2>8
    <3>4. QED
      BY <2>3, <2>5, <2>8, <3>1, <3>2, <3>3 DEF Ordered, Telling
  <2>9. QED
    BY <2>7, <2>8
<1> HIDE DEF Z
<1>3. \A q \in Seq(Records) : q \in Z
  BY <1>1, <1>2, GrowingUp
<1>4. QED
  BY <1>3 DEF Z

(* Marks ask nothing.                                                       *)
LEMMA AskedMarks ==
  ASSUME NEW s \in Seq(Records), NEW t \in Seq(Records), \A i \in 1 .. Len(t) : t[i].kind # "order"
  PROVE  Asked(s \o t) = Asked(s)
<1> DEFINE Silent(x) == \A i \in 1 .. Len(x) : x[i].kind # "order"
           Z == {x \in Seq(Records) : Silent(x) => Asked(s \o x) = Asked(s)}
<1>1. <<>> \in Z
  <2>1. s \o <<>> = s
    OBVIOUS
  <2>2. QED
    BY <2>1
<1>2. ASSUME NEW x \in Seq(Records), NEW r \in Records, x \in Z PROVE Append(x, r) \in Z
  <2>1. SUFFICES ASSUME Silent(Append(x, r)) PROVE Asked(s \o Append(x, r)) = Asked(s)
    <3>1. Append(x, r) \in Seq(Records)
      OBVIOUS
    <3> HIDE DEF Silent
    <3>2. QED
      BY <3>1
  <2>2. /\ Len(x) \in Nat /\ Len(Append(x, r)) = Len(x) + 1 /\ Append(x, r)[Len(x) + 1] = r
        /\ \A i \in 1 .. Len(x) : Append(x, r)[i] = x[i]
    OBVIOUS
  <2>3. r.kind # "order" /\ Silent(x)
    <3>1. Len(x) + 1 \in 1 .. Len(x) + 1 /\ \A i \in 1 .. Len(x) : i \in 1 .. Len(x) + 1
      BY <2>2
    <3>2. QED
      BY <2>1, <2>2, <3>1
  <2>4. Asked(s \o x) = Asked(s)
    BY <1>2, <2>3
  <2>5. s \o x \in Seq(Records) /\ s \o Append(x, r) = Append(s \o x, r)
    <3> DEFINE one == <<r>>
    <3>1. one \in Seq(Records) /\ s \o x \in Seq(Records)
      OBVIOUS
    <3>2. Append(x, r) = x \o one /\ Append(s \o x, r) = (s \o x) \o one
      BY <3>1, AppendIsConcat
    <3> HIDE DEF one
    <3>3. (s \o x) \o one = s \o (x \o one)
      BY <3>1, JoinedOnce
    <3>4. QED
      BY <3>1, <3>2, <3>3
  <2>6. Asked(Append(s \o x, r)) = Asking(Asked(s \o x), r)
    BY <2>5, AskedGrows
  <2>7. QED
    BY <2>3, <2>4, <2>5, <2>6 DEF Asking
<1> HIDE DEF Z
<1>3. \A x \in Seq(Records) : x \in Z
  BY <1>1, <1>2, GrowingUp
<1>4. QED
  BY <1>3 DEF Z

(* Marks and an order ask that order.                                       *)
LEMMA AskedOrder ==
  ASSUME NEW s \in Seq(Records), NEW t \in Seq(Records), NEW o \in Orders,
         \A i \in 1 .. Len(t) : t[i].kind # "order"
  PROVE  Asked(s \o (t \o <<o>>)) = Append(Asked(s), AskOf(o))
<1>1. o \in Records /\ o.kind = "order"
  BY DEF Records, Orders
<1>2. s \o t \in Seq(Records)
  OBVIOUS
<1>3. s \o (t \o <<o>>) = Append(s \o t, o)
  BY <1>1
<1>4. Asked(Append(s \o t, o)) = Asking(Asked(s \o t), o)
  BY <1>1, <1>2, AskedGrows
<1>5. Asked(s \o t) = Asked(s)
  BY AskedMarks
<1>6. QED
  BY <1>1, <1>3, <1>4, <1>5 DEF Asking

(* An order enqueued is an order that waits; marks alone are none.           *)
LEMMA WaitingGrows ==
  ASSUME RoomInv, NEW p \in Players, NEW records \in Seq(Records),
         queue' = [queue EXCEPT ![p] = @ \o records]
  PROVE  /\ \A k \in Players \ {p} : Waiting'[k] = Waiting[k]
         /\ Waiting'[p] = Asked(queue[p] \o records)
         /\ Waiting' = [k \in Players |-> Waiting'[k]] /\ Waiting = [k \in Players |-> Waiting[k]]
<1>1. \A k \in Players : queue'[k] = IF k = p THEN queue[p] \o records ELSE queue[k]
  BY DEF RoomInv
<1>2. Waiting' = [k \in Players |-> Asked(queue'[k])]
  BY WaitingNext
<1>3. QED
  BY <1>1, <1>2 DEF Waiting

(* An order for a living unit, by its owner or for what is made, is accepted. *)
LEMMA OrderWaits ==
  ASSUME RoomInv, UNCHANGED <<plan, alive, time>>,
         NEW p \in Players, NEW t \in Seq(Records), NEW o \in Orders,
         \A i \in 1 .. Len(t) : t[i].kind # "order",
         queue' = [queue EXCEPT ![p] = @ \o (t \o <<o>>)],
         o.unit \in alive, o.what \notin Production => Owner[o.unit] = p
  PROVE  Direct!Accept(p)
<1> DEFINE ask == AskOf(o)
           asked == Waiting[p]
<1>1. ask \in Direct!Asks /\ ask.unit = o.unit /\ ask.what = o.what
  BY DEF AskOf, Orders, Deeds, Direct!Asks, Direct!Deeds
<1>2. queue[p] \in Seq(Records) /\ t \o <<o>> \in Seq(Records)
  <2>1. o \in Records
    BY DEF Records
  <2>2. <<o>> \in Seq(Records)
    BY <2>1
  <2>3. QED
    BY <2>2 DEF RoomInv
<1>3. Waiting[p] = Asked(queue[p]) /\ asked \in Seq(Direct!Asks)
  <2>1. Waiting[p] = Asked(queue[p])
    BY DEF Waiting
  <2>2. QED
    BY <1>2, <2>1, AskedGrows
<1>4. Waiting'[p] = Append(asked, ask)
  <2>1. Asked(queue[p] \o (t \o <<o>>)) = Append(Asked(queue[p]), AskOf(o))
    BY <1>2, AskedOrder
  <2>2. Waiting'[p] = Asked(queue[p] \o (t \o <<o>>))
    BY <1>2, WaitingGrows
  <2>3. QED
    BY <1>3, <2>1, <2>2
<1>5. /\ \A k \in Players \ {p} : Waiting'[k] = Waiting[k]
      /\ Waiting' = [k \in Players |-> Waiting'[k]] /\ Waiting = [k \in Players |-> Waiting[k]]
  BY <1>2, WaitingGrows
<1> HIDE DEF ask
<1>6. Waiting' = [Waiting EXCEPT ![p] = Append(@, ask)]
  BY <1>4, <1>5
<1>7. Waiting' # Waiting
  <2>1. Len(Append(asked, ask)) = Len(asked) + 1 /\ Len(asked) \in Nat
    BY <1>1, <1>3
  <2>2. Append(asked, ask) # asked
    BY <2>1
  <2>3. QED
    BY <1>4, <2>2
<1>8. \E a \in Direct!Asks :
        /\ a.unit \in alive /\ (a.what \notin Production => Owner[a.unit] = p)
        /\ Waiting' = [Waiting EXCEPT ![p] = Append(@, a)]
  BY <1>1, <1>6
<1>9. QED
  BY <1>7, <1>8 DEF Direct!Accept

(* An action of a batch is accepted, or asks nothing.                       *)
LEMMA ItemAsks ==
  ASSUME RoomInv, OrderInv, Item
  PROVE  Direct!UNext \/ UNCHANGED Direct!uvars
<1>1. batch.on => batch.player \in Players
  BY DEF RoomInv, BatchInv
<1>2. PICK u \in Units, queued \in BOOLEAN :
        \/ Refuse(u, queued) \/ RefuseLate(u, queued) \/ NoSite(u, queued)
        \/ \E what \in Commands : Command(u, what, queued)
        \/ ~queued /\ (Select(u) \/ \E shop \in Units : Buy(u, shop))
        \/ \E s \in Sites, auto \in BOOLEAN : Build(u, s, queued, auto)
  BY DEF Item, Action
<1>3. batch.on /\ UNCHANGED <<plan, alive, time>>
  BY <1>2 DEF Refuse, RefuseLate, NoSite, Command, Select, Buy, Build, actOnly, game
<1> DEFINE p == batch.player
           s == Selecting(prev[p], u)
<1>4. p \in Players /\ prev[p] \in Units \cup {NoUnit} /\ queue[p] \in Seq(Records) /\ given[p] + 1 \in Nat
  BY <1>1, <1>3 DEF RoomInv
<1>5. s \in Seq(Records) /\ \A i \in 1 .. Len(s) : s[i].kind # "order"
  BY <1>4, SelectingIsShort, SelectingMarks
<1>6. ASSUME NEW what \in Deeds, NEW auto \in BOOLEAN, Mine(u),
             queue' = [queue EXCEPT ![p] = @ \o (s \o Order(p, u, what, queued, auto))]
      PROVE  Direct!Accept(p)
  <2> DEFINE o == Order(p, u, what, queued, auto)[1]
  <2>1. o \in Orders /\ Order(p, u, what, queued, auto) = <<o>> /\ o.unit = u
    BY <1>4 DEF Order, Orders
  <2>2. u \in alive /\ Owner[u] = p
    BY <1>6 DEF Mine
  <2> HIDE DEF p, s, o
  <2>3. queue' = [queue EXCEPT ![p] = @ \o (s \o <<o>>)]
    BY <1>6, <2>1
  <2>4. QED
    BY <1>3, <1>4, <1>5, <2>1, <2>2, <2>3, OrderWaits
<1>7. CASE Refuse(u, queued) \/ RefuseLate(u, queued) \/ NoSite(u, queued)
  <2>1. queue' = queue
    BY <1>7 DEF Refuse, RefuseLate, NoSite
  <2>2. QED
    BY <1>3, <2>1, WaitingNext DEF Waiting, Direct!uvars
<1>8. ASSUME NEW what \in Commands, Command(u, what, queued) PROVE Direct!Accept(p)
  BY <1>6, <1>8, CommandsAreDeeds DEF Command, Enqueue
<1>9. CASE Select(u)
  <2>1. queue' = [queue EXCEPT ![p] = @ \o s]
    BY <1>9 DEF Select, Enqueue
  <2> HIDE DEF p, s
  <2>2. /\ \A k \in Players \ {p} : Waiting'[k] = Waiting[k]
        /\ Waiting'[p] = Asked(queue[p] \o s)
        /\ Waiting' = [k \in Players |-> Waiting'[k]] /\ Waiting = [k \in Players |-> Waiting[k]]
    BY <1>4, <1>5, <2>1, WaitingGrows
  <2>3. Asked(queue[p] \o s) = Waiting[p]
    BY <1>4, <1>5, AskedMarks DEF Waiting
  <2>4. Waiting' = Waiting
    BY <2>2, <2>3
  <2>5. QED
    BY <1>3, <2>4 DEF Direct!uvars
<1>10. ASSUME NEW shop \in Units, Buy(u, shop) PROVE Direct!Accept(p)
  <2> DEFINE t == Selecting(u, shop)
             o == Order(p, shop, "produce", FALSE, FALSE)[1]
  <2>1. o \in Orders /\ Order(p, shop, "produce", FALSE, FALSE) = <<o>> /\ o.unit = shop /\ o.what = "produce"
    BY <1>4, CommandsAreDeeds DEF Order, Orders
  <2>2. shop \in alive /\ queue' = [queue EXCEPT ![p] = @ \o (s \o t \o Order(p, shop, "produce", FALSE, FALSE))]
    BY <1>10 DEF Buy, Enqueue
  <2>3. t \in Seq(Records) /\ \A i \in 1 .. Len(t) : t[i].kind # "order"
    BY SelectingIsShort, SelectingMarks
  <2> HIDE DEF p, s, t, o
  <2>4. s \o t \in Seq(Records) /\ \A i \in 1 .. Len(s \o t) : (s \o t)[i].kind # "order"
    BY <1>5, <2>3, MarksJoin
  <2>5. queue' = [queue EXCEPT ![p] = @ \o ((s \o t) \o <<o>>)]
    BY <2>1, <2>2
  <2>6. QED
    BY <1>3, <1>4, <2>1, <2>2, <2>4, <2>5, OrderWaits, CommandsAreDeeds
<1>11. ASSUME NEW site \in Sites, NEW auto \in BOOLEAN, Build(u, site, queued, auto) PROVE Direct!Accept(p)
  BY <1>6, <1>11 DEF Build, Enqueue, Deeds
<1>12. QED
  <2>1. Direct!Accept(p) => Direct!UNext
    BY <1>4 DEF Direct!UNext
  <2>2. QED
    BY <1>2, <1>7, <1>8, <1>9, <1>10, <1>11, <2>1

(* A flush gives all that waits; with nothing that waits it gives nothing.   *)
LEMMA FlushGives ==
  ASSUME RoomInv, OrderInv, Flush
  PROVE  Direct!Give \/ UNCHANGED Direct!uvars
<1> DEFINE after == [p \in Players |-> Applied(p, FlattenSeq(Packets(queue[p])))]
<1>1. /\ plan' = [u \in Units |-> IF Owner[u] \in Players THEN after[Owner[u]].plan[u] ELSE plan[u]]
      /\ queue' = [p \in Players |-> <<>>] /\ UNCHANGED <<alive, time>>
  BY DEF Flush
<1>2. ASSUME NEW p \in Players
      PROVE  queue[p] \in Seq(Records) /\ Right(p, queue[p]) /\ after[p] = Applied(p, queue[p])
  <2>1. queue[p] \in Seq(Records) /\ Right(p, queue[p])
    BY DEF OrderInv, Sound
  <2>2. QED
    BY <2>1, PacketsHold
<1> HIDE DEF after
<1>3. ASSUME NEW u \in Units
      PROVE  plan'[u] = IF u \in alive /\ Owner[u] \in Players THEN Direct!Told(u, Waiting[Owner[u]])
                        ELSE plan[u]
  <2>1. CASE Owner[u] \in Players
    <3> DEFINE p == Owner[u]
    <3>1. p \in Players /\ Owner[u] = p
      BY <2>1
    <3>2. after[p].plan[u] = IF u \in alive THEN Direct!Told(u, Asked(queue[p])) ELSE plan[u]
      <4> HIDE DEF p
      <4>1. QED
        BY <1>2, <3>1, AppliedTells DEF OrderInv
    <3>3. Waiting[p] = Asked(queue[p])
      BY <3>1 DEF Waiting
    <3>4. QED
      BY <1>1, <2>1, <3>2, <3>3
  <2>2. CASE Owner[u] \notin Players
    BY <1>1, <2>2
  <2>3. QED
    BY <2>1, <2>2
<1>4. plan' = [u \in Units |-> plan'[u]] /\ plan = [u \in Units |-> plan[u]]
  BY <1>1 DEF OrderInv, GameInv
<1>5. Waiting' = [p \in Players |-> <<>>]
  <2>1. \A p \in Players : Asked(queue'[p]) = <<>>
    BY <1>1, AskedGrows
  <2>2. QED
    BY <2>1, WaitingNext
<1>6. CASE \E p \in Players : Waiting[p] # <<>>
  <2>1. plan' = [u \in Units |-> IF u \in alive /\ Owner[u] \in Players THEN Direct!Told(u, Waiting[Owner[u]])
                                 ELSE plan[u]]
    BY <1>3, <1>4
  <2>2. QED
    BY <1>1, <1>5, <1>6, <2>1 DEF Direct!Give
<1>7. CASE \A p \in Players : Waiting[p] = <<>>
  <2>1. Waiting' = Waiting
    BY <1>5, <1>7 DEF Waiting
  <2>2. \A u \in Units : Direct!Told(u, <<>>) = plan[u]
    BY ToldGrows DEF OrderInv
  <2>3. \A u \in Units : plan'[u] = plan[u]
    BY <1>3, <1>7, <2>2
  <2>4. plan' = plan
    BY <1>4, <2>3
  <2>5. QED
    BY <1>1, <2>1, <2>4 DEF Direct!uvars
<1>8. QED
  BY <1>6, <1>7

(* The records of selections, the packets and the frames implement orders    *)
(* that go straight to their units: for any players, units and sites, and    *)
(* whatever is selected, refused, flushed, killed or reloaded between, what  *)
(* units are to do is what they were told, in the order of acceptance, no    *)
(* game time passes over an order accepted, and none outlives its episode    *)
(* (select_unit, act_enqueue, act_flush, act_clear).                        *)
THEOREM Refinement == Spec => ImplementsOrders
<1>1. Init => Direct!UInit
  <2> SUFFICES ASSUME Init PROVE Direct!UInit
    OBVIOUS
  <2>1. \A p \in Players : Asked(queue[p]) = <<>>
    BY AskedGrows DEF Init
  <2>2. QED
    BY <2>1 DEF Init, Waiting, Direct!UInit
<1>2. RoomInv /\ OrderInv /\ [Next]_vars => [Direct!UNext]_Direct!uvars
  <2> SUFFICES ASSUME RoomInv, OrderInv, [Next]_vars PROVE Direct!UNext \/ UNCHANGED Direct!uvars
    OBVIOUS
  <2>1. CASE Item
    BY <2>1, ItemAsks
  <2>2. CASE Flush
    BY <2>2, FlushGives DEF Direct!UNext
  <2>3. ASSUME queue' = queue PROVE Waiting' = Waiting
    BY <2>3, WaitingNext DEF Waiting
  <2>4. CASE Tick
    <3>1. \A p \in Players : Waiting[p] = <<>>
      BY <2>4, AskedGrows DEF Tick, Waiting
    <3>2. Direct!Pass
      BY <2>3, <2>4, <3>1 DEF Tick, hook, Direct!Pass
    <3>3. QED
      BY <3>2 DEF Direct!UNext
  <2>5. CASE Restart
    <3>1. queue' = [p \in Players |-> <<>>]
      BY <2>5 DEF Restart, Clear
    <3>2. \A p \in Players : Asked(queue'[p]) = <<>>
      BY <3>1, AskedGrows
    <3>3. Waiting' = [p \in Players |-> <<>>]
      BY <3>2, WaitingNext
    <3>4. Direct!Reload
      BY <2>5, <3>3 DEF Restart, Direct!Reload
    <3>5. QED
      BY <3>4 DEF Direct!UNext
  <2>6. CASE Create
    <3>1. queue' = [p \in Players |-> <<>>] /\ ~inGame /\ UNCHANGED game
      BY <2>6 DEF Create, Clear
    <3>2. \A p \in Players : queue[p] = queue'[p]
      BY <3>1 DEF OrderInv
    <3>3. Waiting' = Waiting
      BY <3>2, WaitingNext DEF Waiting
    <3>4. QED
      BY <3>1, <3>3 DEF game, Direct!uvars
  <2>7. CASE End
    BY <2>3, <2>7 DEF End, game, Direct!uvars
  <2>8. ASSUME NEW p \in Players, Begin(p) PROVE UNCHANGED Direct!uvars
    BY <2>3, <2>8 DEF Begin, game, Direct!uvars
  <2>9. ASSUME NEW u \in Units, Ends(u) PROVE Direct!UNext
    <3>1. Direct!Finish(u)
      BY <2>3, <2>9 DEF Ends, hook, Direct!Finish
    <3>2. QED
      BY <3>1 DEF Direct!UNext
  <2>10. ASSUME NEW u \in Units, Dies(u) PROVE Direct!UNext
    <3>1. Direct!Die(u)
      BY <2>3, <2>10 DEF Dies, hook, Direct!Die
    <3>2. QED
      BY <3>1 DEF Direct!UNext
  <2>11. CASE UNCHANGED vars
    BY <2>3, <2>11 DEF vars, hook, game, Direct!uvars
  <2>12. QED
    BY <2>1, <2>2, <2>4, <2>5, <2>6, <2>7, <2>8, <2>9, <2>10, <2>11 DEF Next
<1>3. QED
  BY <1>1, <1>2, Invariance, QueuesAreSound, PTL DEF Spec, ImplementsOrders, Direct!USpec
=============================================================================
