------------------------- MODULE AgentControlProofs -------------------------
(***************************************************************************)
(* What holds of AgentControl for any units, groups and models: the        *)
(* inductive invariant, and from it that each unit has one commander, that *)
(* late answers are for what macro still wants, and that macro's casts are *)
(* left alone for as long as Control promises.                             *)
(***************************************************************************)
EXTENDS AgentControl, TLAPS

\* A group with members has a goal.
GoalInv == \A g \in Groups : ids[g] # {} => goal[g] # NoGoal

\* Only units macro knows have orders waiting, and once they are released none that is
\* seen has.
KnownInv ==
  /\ \A u \in Units : deferred[u] # None => u \in known
  /\ pc = "adopt" => \A u \in own : deferred[u] = None

\* The casts to leave alone are known, and their units are not asked about.
CastInv ==
  /\ held \subseteq casting
  /\ pc = "ask" => held \subseteq busy

\* A unit whose version is still its call's is commanded as it was when the call was made.
Stands(c, u) ==
  /\ c.ver[u] <= versions[u]
  /\ c.ver[u] = versions[u] => u \notin held
  /\ c.ver[u] = versions[u] /\ u \notin c.lost => u \in ids[c.group] /\ goal[c.group] = c.goal
CallInv == \A c \in pending : \A u \in DOMAIN c.ver : Stands(c, u)

\* What was sent is looked at where it was sent.
OutInv ==
  /\ pc \notin {"ask", "observe"} => out = {}
  /\ AnswerStands /\ CastLeftAlone

IInv ==
  /\ TypeOK /\ GoalInv /\ OneCommander /\ DeferredStands
  /\ KnownInv /\ CastInv /\ CallInv /\ OutInv
-----------------------------------------------------------------------------
\* The steps, by name.
ObserveStep ==
  \E seen \in SUBSET Units : \E gone \in SUBSET (known \cup seen) :
    \E summons \in {{}} \cup {{s} : s \in Units \X (Units \ known)} : Observe(seen, gone, summons)
CommandStep ==
  \E u \in Units, keeps \in BOOLEAN, makes \in Made :
    Command(u, keeps, makes)
GroupStep == \E g \in Groups, us \in SUBSET Units, new \in Goal : Group(g, us, new)
DisbandStep == \E g \in Groups : Disband(g)
AdoptStep == \E g \in Groups, us \in SUBSET Units : AdoptIdle(g, us)
AskStep == \E g \in Groups, t \in Types, us \in SUBSET Units : Ask(g, t, us)
AgainStep ==
  \E orders \in SUBSET Answered(pending, {}) : \E changing \in SUBSET orders : Again(orders, changing)

(* Every step has one of these names.                                       *)
LEMMA Steps ==
  ASSUME [Next]_vars
  PROVE  \/ ObserveStep \/ CommandStep \/ GroupStep \/ DisbandStep \/ EndReply \/ Release
         \/ AdoptStep \/ MicroStep \/ AskStep \/ Asked \/ AgainStep \/ UNCHANGED vars
BY DEF Next, MacroLine, ObserveStep, CommandStep, GroupStep, DisbandStep, AdoptStep, AskStep,
       AgainStep
-----------------------------------------------------------------------------
(* Records. *)

(* The three kinds of waiting orders differ.                                *)
LEMMA Kinds ==
  /\ None # Orders /\ None.kind = "none" /\ Orders.kind = "orders"
  /\ \A g, w : /\ Move(g, w).kind = "move" /\ Move(g, w).group = g /\ Move(g, w).way = w
               /\ Move(g, w) # None /\ Move(g, w) # Orders
BY DEF None, Orders, Move

(* A call has its fields.                                                   *)
LEMMA CallFields ==
  ASSUME NEW c, IsCall(c)
  PROVE  /\ c.group \in Groups /\ c.type \in Types /\ c.goal \in Goal
         /\ c.lost \subseteq Units /\ DOMAIN c.ver \subseteq Units
         /\ \A u \in DOMAIN c.ver : c.ver[u] \in Nat
BY DEF IsCall

(* A goal is a goal.                                                        *)
LEMMA GoalIsReal == \A new \in Goal : new # NoGoal
BY ConstantsAssumption DEF ConstantsAssumption

(* Units lost in the meantime change nothing else of a call.                *)
LEMMA LoseKeeps ==
  ASSUME NEW c, IsCall(c), NEW gone \in SUBSET Units,
         NEW d, d = [c EXCEPT !.lost = @ \cup gone]
  PROVE  /\ IsCall(d) /\ d.group = c.group /\ d.type = c.type /\ d.ver = c.ver
         /\ d.goal = c.goal /\ d.lost = c.lost \cup gone
BY DEF IsCall
-----------------------------------------------------------------------------
(* What the micro agent leaves alone. *)

AskingStep == AskStep \/ Asked \/ AgainStep \/ UNCHANGED vars

(* The micro agent's steps change nothing in Control but the casts whose    *)
(* time is over.                                                            *)
LEMMA MicroControl ==
  ASSUME MicroStep
  PROVE  /\ UNCHANGED <<ids, goal, deferred, versions, known, own, lines, wait>>
         /\ named' \subseteq named /\ recent' \subseteq recent
         /\ casting' \subseteq casting /\ held' \subseteq held
         /\ (held \subseteq casting => held' \subseteq casting')
         /\ pc = "collect" /\ pc' \in {"observe", "ask"}
<1>1. PICK done, kept, formed, moved, orders, changing, shown, on :
        Micro(done, kept, formed, moved, orders, changing, shown, on)
  BY Zenon DEF MicroStep
<1>2. QED
  BY <1>1 DEF Micro, world, control, StillCasting

(* Asking, and taking answers while the game stands still, nothing at all.  *)
LEMMA AskingControl ==
  ASSUME AskingStep
  PROVE  UNCHANGED <<control, casts, world, lines, wait>>
<1>1. CASE AskStep
  BY <1>1 DEF AskStep, Ask
<1>2. CASE Asked
  BY <1>2 DEF Asked
<1>3. CASE AgainStep
  BY <1>3 DEF AgainStep, Again, act
<1>4. CASE UNCHANGED vars
  BY <1>4 DEF vars, act
<1>5. QED
  BY <1>1, <1>2, <1>3, <1>4 DEF AskingStep

(* Calls are made by asking only.                                           *)
LEMMA PendingShrinks ==
  ASSUME MicroStep \/ Asked \/ AgainStep \/ UNCHANGED vars
  PROVE  pending' \subseteq pending
<1>1. CASE MicroStep
  <2>1. PICK done, kept, formed, moved, orders, changing, shown, on :
          Micro(done, kept, formed, moved, orders, changing, shown, on)
    BY <1>1, Zenon DEF MicroStep
  <2>2. QED
    BY <2>1 DEF Micro, Collect
<1>2. CASE Asked
  BY <1>2 DEF Asked, micro
<1>3. CASE AgainStep
  BY <1>3 DEF AgainStep, Again, Collect
<1>4. CASE UNCHANGED vars
  BY <1>4 DEF vars, micro
<1>5. QED
  BY <1>1, <1>2, <1>3, <1>4

(* What macro orders goes to no call, and nothing is sent by the lines that *)
(* order it.                                                                *)
LEMMA LinesSendNothing ==
  ASSUME CommandStep \/ GroupStep \/ DisbandStep
  PROVE  pc = "lines" /\ pc' = pc /\ UNCHANGED <<pending, followups, out>>
<1>1. ASSUME Line PROVE pc = "lines" /\ pc' = pc /\ UNCHANGED <<pending, followups, out>>
  BY <1>1 DEF Line, micro
<1>2. CASE CommandStep
  <2>1. PICK u \in Units, keeps \in BOOLEAN, makes \in Made :
          Command(u, keeps, makes)
    BY <1>2, Zenon DEF CommandStep
  <2>2. Line
    BY <2>1, Zenon DEF Command
  <2>3. QED
    BY <1>1, <2>2
<1>3. CASE GroupStep
  <2>1. PICK g \in Groups, us \in SUBSET Units, new \in Goal : Group(g, us, new)
    BY <1>3, Zenon DEF GroupStep
  <2>2. Line
    BY <2>1, Zenon DEF Group
  <2>3. QED
    BY <1>1, <2>2
<1>4. CASE DisbandStep
  <2>1. PICK g \in Groups : Disband(g)
    BY <1>4, Zenon DEF DisbandStep
  <2>2. Line
    BY <2>1, Zenon DEF Disband
  <2>3. QED
    BY <1>1, <2>2
<1>5. QED
  BY <1>2, <1>3, <1>4

(* Nor by what follows the lines.                                           *)
LEMMA OrdersSendNothing ==
  ASSUME EndReply \/ Release \/ AdoptStep
  PROVE  pc \in {"lines", "release", "adopt"} /\ UNCHANGED <<pending, followups, out>>
<1>1. CASE EndReply
  BY <1>1 DEF EndReply, micro
<1>2. CASE Release
  BY <1>2 DEF Release, micro
<1>3. CASE AdoptStep
  <2>1. PICK g \in Groups, us \in SUBSET Units : AdoptIdle(g, us)
    BY <1>3, Zenon DEF AdoptStep
  <2>2. QED
    BY <2>1 DEF AdoptIdle, micro
<1>4. QED
  BY <1>1, <1>2, <1>3
-----------------------------------------------------------------------------
(* Groups. *)

(* A group with members keeps a goal.                                       *)
LEMMA GoalKept ==
  ASSUME GoalInv, TypeOK, [Next]_vars
  PROVE  GoalInv'
<1> USE DEF GoalInv
<1>1. CASE ObserveStep
  <2>1. PICK seen \in SUBSET Units, gone \in SUBSET Units,
             summons \in {{}} \cup {{s} : s \in Units \X (Units \ known)} :
               Observe(seen, gone, summons)
    BY <1>1 DEF ObserveStep, TypeOK
  <2>2. ASSUME NEW g \in Groups, ids'[g] # {} PROVE ids[g] \ gone # {}
    BY <2>1, <2>2 DEF Observe, Without
  <2>3. QED
    BY <2>1, <2>2 DEF Observe, Without, Pruned
<1>2. CASE CommandStep
  <2>1. PICK u \in Units, keeps \in BOOLEAN, makes \in Made :
          Command(u, keeps, makes)
    BY <1>2 DEF CommandStep
  <2>2. goal' = goal /\ (ids' = ids \/ ids' = Without({u}))
    BY <2>1 DEF Command, Take, Leave
  <2>3. QED
    BY <2>2 DEF Without
<1>3. CASE GroupStep
  <2>1. PICK g \in Groups, us \in SUBSET Units, new \in Goal : Group(g, us, new)
    BY <1>3 DEF GroupStep
  <2>2. ids' = [h \in Groups |-> IF h = g THEN us ELSE ids[h] \ us]
    BY <2>1 DEF Group, Without
  <2>3. goal' = [goal EXCEPT ![g] = new]
    BY <2>1 DEF Group
  <2>4. QED
    BY <2>2, <2>3, GoalIsReal DEF TypeOK
<1>4. CASE DisbandStep
  BY <1>4 DEF DisbandStep, Disband, TypeOK
<1>5. CASE EndReply
  BY <1>5 DEF EndReply, Pruned
<1>6. CASE AdoptStep
  BY <1>6 DEF AdoptStep, AdoptIdle, TypeOK
<1>7. CASE Release \/ MicroStep \/ AskingStep
  BY <1>7, MicroControl, AskingControl DEF Release, control
<1>8. QED
  BY <1>1, <1>2, <1>3, <1>4, <1>5, <1>6, <1>7, Steps DEF AskingStep

(* No step puts a unit into a second group.                                 *)
LEMMA OneKept ==
  ASSUME OneCommander, TypeOK, [Next]_vars
  PROVE  OneCommander'
<1> USE DEF OneCommander
<1>1. CASE ObserveStep
  <2>1. PICK seen \in SUBSET Units, gone \in SUBSET Units,
             summons \in {{}} \cup {{s} : s \in Units \X (Units \ known)} :
               Observe(seen, gone, summons)
    BY <1>1 DEF ObserveStep, TypeOK
  <2>2. CASE summons = {}
    BY <2>1, <2>2 DEF Observe, Without
  <2>3. CASE \E s \in Units \X (Units \ known) : summons = {s}
    <3>1. PICK s \in Units \X (Units \ known) : summons = {s}
      BY <2>3
    <3>2. s[2] \notin Grouped
      BY <2>1, <3>1 DEF Observe
    <3>3. ids' = [g \in Groups |-> IF s[1] \in ids[g] \ gone THEN (ids[g] \ gone) \cup {s[2]}
                                   ELSE ids[g] \ gone]
      BY <2>1, <3>1 DEF Observe, Without
    <3>4. QED
      BY <3>2, <3>3 DEF Grouped
  <2>4. QED
    BY <2>1, <2>2, <2>3
<1>2. CASE CommandStep
  <2>1. PICK u \in Units, keeps \in BOOLEAN, makes \in Made :
          Command(u, keeps, makes)
    BY <1>2 DEF CommandStep
  <2>2. ids' = ids \/ ids' = Without({u})
    BY <2>1 DEF Command, Take, Leave
  <2>3. QED
    BY <2>2 DEF Without
<1>3. CASE GroupStep
  <2>1. PICK g \in Groups, us \in SUBSET Units, new \in Goal : Group(g, us, new)
    BY <1>3 DEF GroupStep
  <2>2. ids' = [h \in Groups |-> IF h = g THEN us ELSE ids[h] \ us]
    BY <2>1 DEF Group, Without
  <2>3. QED
    BY <2>2
<1>4. CASE DisbandStep
  BY <1>4 DEF DisbandStep, Disband, TypeOK
<1>5. CASE AdoptStep
  BY <1>5 DEF AdoptStep, AdoptIdle, Grouped, TypeOK
<1>6. CASE EndReply \/ Release \/ MicroStep \/ AskingStep
  BY <1>6, MicroControl, AskingControl DEF EndReply, Release, control
<1>7. QED
  BY <1>1, <1>2, <1>3, <1>4, <1>5, <1>6, Steps DEF AskingStep
-----------------------------------------------------------------------------
(* Orders that wait. *)

(* A command defers, or leaves none waiting, or keeps them with the unit's  *)
(* groups.                                                                  *)
LEMMA CommandEffect ==
  ASSUME TypeOK, NEW u \in Units, NEW keeps \in BOOLEAN,
         NEW makes \in Made, Command(u, keeps, makes)
  PROVE  /\ u \in known /\ pc = "lines" /\ pc' = pc
         /\ UNCHANGED <<goal, pending, followups, known, own, busy, out>>
         /\ \/ deferred' = [deferred EXCEPT ![u] = Orders] /\ ids' = Without({u})
            \/ deferred' = [deferred EXCEPT ![u] = None] /\ (ids' = ids \/ ids' = Without({u}))
            \/ deferred' = deferred /\ ids' = ids
<1>1. u \in known /\ pc = "lines" /\ pc' = pc /\ UNCHANGED <<goal, pending, followups, known, own, busy, out>>
  BY DEF Command, Line, micro, world
<1>2. deferred \in [Units -> Deferred]
  BY DEF TypeOK
<1> DEFINE deferring == makes # "nothing" /\ (u \notin own \/ (keeps /\ deferred[u] # None))
<1>3. deferred' = [deferred EXCEPT ![u] = IF deferring THEN Orders ELSE IF keeps THEN @ ELSE None]
  BY DEF Command
<1>4. \/ makes = "nothing" /\ ids' = ids
      \/ (deferring \/ makes # "nothing") /\ ids' = Without({u})
      \/ ~deferring /\ makes # "nothing" /\ ids' = ids
  BY DEF Command, Take, Leave, Cast, Casts
<1>5. deferring => ids' = Without({u})
  BY DEF Command, Take, Leave
<1>6. CASE deferring
  BY <1>1, <1>3, <1>5, <1>6
<1>7. CASE ~deferring /\ ~keeps
  BY <1>1, <1>3, <1>4, <1>7
<1>8. CASE ~deferring /\ keeps
  <2>1. deferred' = deferred
    BY <1>2, <1>3, <1>8
  <2>2. CASE makes = "nothing"
    BY <1>1, <1>4, <2>1, <2>2
  <2>3. CASE makes # "nothing"
    <3>1. deferred[u] = None
      BY <1>8, <2>3
    <3>2. deferred' = [deferred EXCEPT ![u] = None]
      BY <1>2, <2>1, <3>1
    <3>3. QED
      BY <1>1, <1>4, <3>2
  <2>4. QED
    BY <2>2, <2>3
<1>9. QED
  BY <1>6, <1>7, <1>8

(* Of that, what it does to groups and waiting orders.                      *)
LEMMA CommandChanges ==
  ASSUME TypeOK, NEW u \in Units, NEW keeps \in BOOLEAN,
         NEW makes \in Made, Command(u, keeps, makes)
  PROVE  /\ goal' = goal
         /\ \/ deferred' = [deferred EXCEPT ![u] = Orders] /\ ids' = Without({u})
            \/ deferred' = [deferred EXCEPT ![u] = None] /\ (ids' = ids \/ ids' = Without({u}))
            \/ deferred' = deferred /\ ids' = ids
BY CommandEffect, Zenon

(* Orders that wait remain what macro wants.                                *)
LEMMA DeferredKept ==
  ASSUME DeferredStands, KnownInv, TypeOK, [Next]_vars
  PROVE  DeferredStands'
<1> USE DEF DeferredStands, Grouped
<1>0. /\ ids \in [Groups -> SUBSET Units] /\ goal \in [Groups -> Goal \cup {NoGoal}]
      /\ deferred \in [Units -> Deferred] /\ \A u \in Units : deferred[u].kind = "move" => deferred[u].group \in Groups
  <2>1. ASSUME NEW u \in Units, deferred[u].kind = "move" PROVE deferred[u].group \in Groups
    <3>1. deferred[u] \in Deferred
      BY DEF TypeOK
    <3>2. QED
      BY <2>1, <3>1, Kinds DEF Deferred
  <2>2. QED
    BY <2>1 DEF TypeOK
<1>1. CASE ObserveStep
  <2>1. PICK seen \in SUBSET Units, gone \in SUBSET Units,
             summons \in {{}} \cup {{s} : s \in Units \X (Units \ known)} :
               Observe(seen, gone, summons)
    BY <1>1 DEF ObserveStep, TypeOK
  <2>2. deferred' = Dropped(gone) /\ goal' = IF gone = {} THEN goal ELSE Pruned(Without(gone))
    BY <2>1 DEF Observe
  <2>3. \A g \in Groups : ids[g] \ gone \subseteq ids'[g]
                         /\ \A v \in ids'[g] : v \in ids[g] \/ v \notin known
    BY <2>1 DEF Observe, Without
  <2>4. ASSUME NEW u \in Units, deferred'[u] # None
        PROVE  u \notin gone /\ deferred'[u] = deferred[u] /\ u \in known
    BY <2>2, <2>4 DEF Dropped, KnownInv
  <2>5. ASSUME NEW g \in Groups, NEW u \in ids[g] \ gone PROVE goal'[g] = goal[g]
    BY <2>2 DEF Pruned, Without
  <2>6. QED
    BY <1>0, <2>3, <2>4, <2>5, Kinds
<1>2. CASE CommandStep
  <2>1. PICK u \in Units, keeps \in BOOLEAN, makes \in Made :
          Command(u, keeps, makes)
    BY <1>2 DEF CommandStep
  <2>2. /\ goal' = goal
        /\ \/ deferred' = [deferred EXCEPT ![u] = Orders] /\ ids' = Without({u})
           \/ deferred' = [deferred EXCEPT ![u] = None] /\ (ids' = ids \/ ids' = Without({u}))
           \/ deferred' = deferred /\ ids' = ids
    <3> HIDE DEF DeferredStands, Grouped
    <3>1. QED
      BY <2>1, CommandChanges
  <2>3. CASE deferred' = [deferred EXCEPT ![u] = Orders] /\ ids' = Without({u})
    BY <1>0, <2>2, <2>3, Kinds DEF Without
  <2>4. CASE deferred' = [deferred EXCEPT ![u] = None] /\ (ids' = ids \/ ids' = Without({u}))
    BY <1>0, <2>2, <2>4, Kinds DEF Without
  <2>5. CASE deferred' = deferred /\ ids' = ids
    BY <2>2, <2>5
  <2>6. QED
    BY <2>2, <2>3, <2>4, <2>5
<1>3. CASE GroupStep
  <2>1. PICK g \in Groups, us \in SUBSET Units, new \in Goal : Group(g, us, new)
    BY <1>3 DEF GroupStep
  <2>2. ids' = [h \in Groups |-> IF h = g THEN us ELSE ids[h] \ us]
    BY <2>1 DEF Group, Without
  <2>3. goal' = [goal EXCEPT ![g] = new]
    BY <2>1 DEF Group
  <2>4. ASSUME NEW u \in Units
        PROVE  \/ u \in us /\ deferred'[u] = Move(g, new.way)
               \/ deferred'[u] = None
               \/ deferred'[u] = deferred[u] /\ ~Moving(u, g) /\ u \notin us
               \/ deferred'[u] = deferred[u] /\ Moving(u, g) /\ u \in us /\ goal[g] # NoGoal /\ goal[g].way = new.way
    BY <2>1 DEF Group, Kept, Already
  <2>5. ASSUME NEW u \in Units, deferred'[u].kind = "move"
        PROVE  u \in ids'[deferred'[u].group] /\ goal'[deferred'[u].group] # NoGoal
               /\ goal'[deferred'[u].group].way = deferred'[u].way
    <3>1. CASE u \in us /\ deferred'[u] = Move(g, new.way)
      BY <1>0, <2>2, <2>3, <3>1, GoalIsReal, Kinds
    <3>2. CASE deferred'[u] = None
      BY <2>5, <3>2, Kinds
    <3>3. CASE deferred'[u] = deferred[u] /\ ~Moving(u, g) /\ u \notin us
      BY <1>0, <2>2, <2>3, <2>5, <3>3 DEF Moving
    <3>4. CASE deferred'[u] = deferred[u] /\ Moving(u, g) /\ u \in us /\ goal[g] # NoGoal /\ goal[g].way = new.way
      BY <1>0, <2>2, <2>3, <2>5, <3>4, GoalIsReal DEF Moving
    <3>5. QED
      BY <2>4, <3>1, <3>2, <3>3, <3>4
  <2>6. ASSUME NEW u \in Units, deferred'[u] = Orders
        PROVE  \A h \in Groups : u \notin ids'[h]
    BY <1>0, <2>2, <2>4, <2>6, Kinds DEF Moving
  <2>7. QED
    BY <2>5, <2>6
<1>4. CASE DisbandStep
  <2>1. PICK g \in Groups : Disband(g)
    BY <1>4 DEF DisbandStep
  <2>2. /\ ids' = [ids EXCEPT ![g] = {}] /\ goal' = [goal EXCEPT ![g] = NoGoal]
        /\ \A u \in Units : deferred'[u] = IF Moving(u, g) THEN None ELSE deferred[u]
    BY <2>1 DEF Disband, Dropped
  <2>3. QED
    BY <1>0, <2>2, Kinds DEF Moving
<1>5. CASE EndReply
  <2>1. goal' = Pruned(ids) /\ UNCHANGED <<ids, deferred>>
    BY <1>5 DEF EndReply
  <2>2. QED
    BY <1>0, <2>1 DEF Pruned
<1>6. CASE Release
  <2>1. UNCHANGED <<ids, goal>> /\ \A u \in Units : deferred'[u] = None \/ deferred'[u] = deferred[u]
    BY <1>6 DEF Release, Dropped
  <2>2. QED
    BY <1>0, <2>1, Kinds
<1>7. CASE AdoptStep
  <2>1. PICK g \in Groups, us \in SUBSET Units : AdoptIdle(g, us)
    BY <1>7 DEF AdoptStep
  <2>2. /\ ids' = [ids EXCEPT ![g] = @ \cup us] /\ UNCHANGED <<goal, deferred>>
        /\ \A u \in us : deferred[u] = None
    BY <2>1 DEF AdoptIdle, KnownInv
  <2>3. QED
    BY <1>0, <2>2, Kinds
<1>8. CASE MicroStep \/ AskingStep
  BY <1>8, MicroControl, AskingControl DEF control
<1>9. QED
  BY <1>1, <1>2, <1>3, <1>4, <1>5, <1>6, <1>7, <1>8, Steps DEF AskingStep

(* Orders wait only for units macro knows, and for none that is seen once   *)
(* they are released.                                                       *)
LEMMA KnownKept ==
  ASSUME KnownInv, TypeOK, [Next]_vars
  PROVE  KnownInv'
<1> USE DEF KnownInv
<1>1. CASE ObserveStep
  <2>1. PICK seen \in SUBSET Units, gone \in SUBSET Units,
             summons \in {{}} \cup {{s} : s \in Units \X (Units \ known)} :
               Observe(seen, gone, summons)
    BY <1>1 DEF ObserveStep, TypeOK
  <2>2. deferred' = Dropped(gone) /\ known' = (known \cup seen) \ gone /\ pc' # "adopt"
    BY <2>1 DEF Observe
  <2>3. QED
    BY <2>2 DEF Dropped
<1>2. CASE CommandStep
  <2>1. PICK u \in Units, keeps \in BOOLEAN, makes \in Made :
          Command(u, keeps, makes)
    BY <1>2 DEF CommandStep
  <2>2. /\ u \in known /\ pc' = "lines" /\ known' = known
        /\ \E d : deferred' = [deferred EXCEPT ![u] = d] \/ deferred' = deferred
    BY <2>1, CommandEffect
  <2>3. QED
    BY <2>2 DEF TypeOK
<1>3. CASE GroupStep
  <2>1. PICK g \in Groups, us \in SUBSET Units, new \in Goal : Group(g, us, new)
    BY <1>3 DEF GroupStep
  <2>2. /\ us \subseteq known /\ known' = known /\ pc' = "lines"
        /\ \A u \in Units : deferred'[u] = None \/ deferred'[u] = deferred[u] \/ u \in us
    BY <2>1 DEF Group, Kept, Line, world
  <2>3. QED
    BY <2>2
<1>4. CASE DisbandStep
  BY <1>4 DEF DisbandStep, Disband, Dropped, Line, world
<1>5. CASE Release
  <2>1. /\ pc' = "adopt" /\ UNCHANGED <<known, own>>
        /\ deferred' = Dropped({u \in own : deferred[u] # None})
    BY <1>5 DEF Release, world
  <2>2. own \subseteq Units
    BY DEF TypeOK
  <2>3. QED
    BY <2>1, <2>2 DEF Dropped
<1>6. CASE EndReply
  BY <1>6 DEF EndReply, world
<1>7. CASE AdoptStep
  BY <1>7 DEF AdoptStep, AdoptIdle, world
<1>8. CASE MicroStep
  <2>1. pc' # "adopt"
    BY <1>8, MicroControl
  <2>2. QED
    BY <1>8, <2>1, MicroControl
<1>9. CASE AskingStep
  <2>1. pc' = "adopt" => pc = "adopt"
    BY <1>9 DEF AskingStep, AskStep, Ask, Asked, AgainStep, Again, vars
  <2>2. QED
    BY <1>9, <2>1, AskingControl DEF control, world
<1>10. QED
  BY <1>1, <1>2, <1>3, <1>4, <1>5, <1>6, <1>7, <1>8, <1>9, Steps DEF AskingStep

(* The casts to leave alone are known to Control, and their units are not   *)
(* asked about.                                                             *)
LEMMA CastKept ==
  ASSUME CastInv, TypeOK, [Next]_vars
  PROVE  CastInv'
<1> USE DEF CastInv
<1>1. CASE ObserveStep
  BY <1>1 DEF ObserveStep, Observe
<1>2. CASE CommandStep
  <2>1. PICK u \in Units, keeps \in BOOLEAN, makes \in Made :
          Command(u, keeps, makes)
    BY <1>2 DEF CommandStep
  <2>2. pc' = "lines"
    BY <2>1 DEF Command, Line
  <2>3. \/ UNCHANGED <<casting, held>>
        \/ casting' = casting \ {u} /\ held' = held \ {u}
        \/ casting' = casting \cup {u} /\ held' = held \cup {u}
    BY <2>1 DEF Command, Take, Leave, Cast, casts
  <2>4. QED
    BY <2>2, <2>3
<1>3. CASE GroupStep \/ DisbandStep
  BY <1>3 DEF GroupStep, Group, DisbandStep, Disband, Line, casts
<1>4. CASE EndReply \/ Release
  BY <1>4 DEF EndReply, Release, casts
<1>5. CASE AdoptStep
  BY <1>5 DEF AdoptStep, AdoptIdle, act, casts
<1>6. CASE MicroStep
  <2>1. PICK done, kept, formed, moved, orders, changing, shown, on :
          Micro(done, kept, formed, moved, orders, changing, shown, on)
    BY <1>6, Zenon DEF MicroStep
  <2>2. /\ busy' = IF acted THEN {} ELSE (casting' \cup UnitsOf(kept \cup formed)) \cup moved
        /\ pc' = IF acted THEN "observe" ELSE "ask"
    BY <2>1 DEF Micro
  <2>3. held' \subseteq casting'
    BY <1>6, MicroControl
  <2>4. QED
    BY <2>2, <2>3
<1>7. CASE AskingStep
  <2>1. pc' = "ask" => pc = "ask" /\ busy \subseteq busy'
    BY <1>7 DEF AskingStep, AskStep, Ask, Asked, AgainStep, Again, vars, act
  <2>2. QED
    BY <1>7, <2>1, AskingControl DEF control, casts
<1>8. QED
  BY <1>1, <1>2, <1>3, <1>4, <1>5, <1>6, <1>7, Steps DEF AskingStep
-----------------------------------------------------------------------------
(* Calls in flight. *)

(* Counting a change moves no version back, and none but the changed units'.*)
LEMMA TouchedCounts ==
  ASSUME TypeOK, NEW us, versions' = Touched(us)
  PROVE  \A u \in Units : /\ versions[u] \in Nat /\ versions'[u] \in Nat /\ versions'[u] >= versions[u]
                          /\ versions'[u] # versions[u] <=> u \in us
BY DEF Touched, TypeOK

(* A call in flight whose unit's version stands still stands itself, if the *)
(* step changed nothing in how the unit is commanded.                       *)
LEMMA StandsKept ==
  ASSUME TypeOK, NEW c, IsCall(c), NEW u \in DOMAIN c.ver, Stands(c, u), NEW us, versions' = Touched(us),
         u \in held' => u \in held \/ u \in us,
         u \notin us /\ u \notin c.lost /\ u \in ids[c.group] =>
           u \in ids'[c.group] /\ goal'[c.group] = goal[c.group]
  PROVE  Stands(c, u)'
<1>1. u \in Units /\ c.ver[u] \in Nat
  BY CallFields
<1>2. /\ versions[u] \in Nat /\ versions'[u] \in Nat /\ versions'[u] >= versions[u]
      /\ versions'[u] # versions[u] <=> u \in us
  BY <1>1, TouchedCounts
<1>3. CASE u \in us
  BY <1>1, <1>2, <1>3 DEF Stands
<1>4. CASE u \notin us
  BY <1>1, <1>2, <1>4 DEF Stands
<1>5. QED
  BY <1>3, <1>4

(* If nothing is touched, the unit's group and goal must stay.              *)
LEMMA StandsUntouched ==
  ASSUME NEW c, NEW u \in DOMAIN c.ver, Stands(c, u), versions' = versions, held' \subseteq held,
         u \in ids[c.group] => u \in ids'[c.group] /\ goal'[c.group] = goal[c.group]
  PROVE  Stands(c, u)'
BY DEF Stands

(* Every step that changes how a unit is commanded changes its version.     *)
LEMMA CallKept ==
  ASSUME IInv, [Next]_vars
  PROVE  CallInv'
<1>1. /\ TypeOK /\ CallInv /\ OneCommander /\ GoalInv /\ CastInv
      /\ ids \in [Groups -> SUBSET Units] /\ goal \in [Groups -> Goal \cup {NoGoal}]
  BY DEF IInv, TypeOK
<1>2. ASSUME NEW c \in pending PROVE IsCall(c) /\ c.group \in Groups /\ DOMAIN c.ver \subseteq Units
  <2>1. IsCall(c)
    BY <1>1 DEF TypeOK
  <2>2. QED
    BY <2>1, CallFields
<1>3. ASSUME NEW c \in pending, NEW u \in DOMAIN c.ver PROVE Stands(c, u)
  BY <1>1 DEF CallInv
<1>4. CASE ObserveStep
  <2>1. PICK seen \in SUBSET Units, gone \in SUBSET Units,
             summons \in {{}} \cup {{s} : s \in Units \X (Units \ known)} :
               Observe(seen, gone, summons)
    BY <1>1, <1>4 DEF ObserveStep, TypeOK
  <2>2. goal' = IF gone = {} THEN goal ELSE Pruned(Without(gone))
    BY <2>1 DEF Observe
  <2>3. \A g \in Groups : ids[g] \ gone \subseteq ids'[g]
    BY <2>1 DEF Observe, Without
  <2>4. ASSUME NEW g \in Groups, NEW u \in ids[g] \ gone PROVE goal'[g] = goal[g]
    BY <2>2 DEF Pruned, Without
  <2>5. PICK us : versions' = Touched(us)
    BY <2>1 DEF Observe
  <2>6. held' \subseteq held /\ pending' = {[c EXCEPT !.lost = @ \cup gone] : c \in pending}
    BY <2>1 DEF Observe
  <2>7. ASSUME NEW d \in pending', NEW u \in DOMAIN d.ver PROVE Stands(d, u)'
    <3>1. PICK c \in pending : d = [c EXCEPT !.lost = @ \cup gone]
      BY <2>6
    <3>2. /\ IsCall(d) /\ d.group = c.group /\ d.ver = c.ver /\ d.goal = c.goal
          /\ d.lost = c.lost \cup gone
      BY <1>2, <3>1, LoseKeeps
    <3>3. u \in DOMAIN c.ver /\ Stands(c, u)
      BY <1>3, <3>2
    <3>4. Stands(d, u)
      BY <3>2, <3>3 DEF Stands
    <3>5. u \notin d.lost /\ u \in ids[d.group] => u \in ids'[d.group] /\ goal'[d.group] = goal[d.group]
      BY <1>2, <2>3, <2>4, <3>2
    <3>6. QED
      BY <1>1, <2>5, <2>6, <3>2, <3>4, <3>5, StandsKept
  <2>8. QED
    BY <2>7 DEF CallInv
<1>5. CASE CommandStep
  <2>1. PICK u \in Units, keeps \in BOOLEAN, makes \in Made :
          Command(u, keeps, makes)
    BY <1>5 DEF CommandStep
  <2>2. goal' = goal /\ pending' = pending
    BY <2>1 DEF Command, Line, micro
  <2>3. \/ UNCHANGED <<ids, versions, held>>
        \/ /\ versions' = Touched({u}) /\ held' \subseteq held \cup {u}
           /\ ids' = ids \/ ids' = Without({u})
    BY <2>1 DEF Command, Take, Leave, Cast, casts
  <2>4. ASSUME NEW c \in pending, NEW v \in DOMAIN c.ver PROVE Stands(c, v)'
    <3>1. CASE UNCHANGED <<ids, versions, held>>
      BY <1>3, <2>2, <3>1, StandsUntouched
    <3>2. CASE /\ versions' = Touched({u}) /\ held' \subseteq held \cup {u}
               /\ ids' = ids \/ ids' = Without({u})
      <4>1. v \notin {u} /\ v \in ids[c.group] => v \in ids'[c.group]
        BY <1>2, <3>2 DEF Without
      <4>2. QED
        BY <1>1, <1>2, <1>3, <2>2, <3>2, <4>1, StandsKept
    <3>3. QED
      BY <2>3, <3>1, <3>2
  <2>5. QED
    BY <2>2, <2>4 DEF CallInv
<1>6. CASE GroupStep
  <2>1. PICK g \in Groups, us \in SUBSET Units, new \in Goal : Group(g, us, new)
    BY <1>6 DEF GroupStep
  <2>2. /\ ids' = [h \in Groups |-> IF h = g THEN us ELSE ids[h] \ us]
        /\ goal' = [goal EXCEPT ![g] = new] /\ held' = held /\ pending' = pending
        /\ versions' = Touched(Changes(g, us, new))
    BY <2>1 DEF Group, Without, Line, micro, casts
  <2>3. ASSUME NEW h \in Groups, NEW u \in ids[h], u \notin Changes(g, us, new)
        PROVE  u \in ids'[h] /\ goal'[h] = goal[h]
    <3>1. CASE h = g
      BY <1>1, <2>2, <2>3, <3>1 DEF Changes
    <3>2. CASE h # g
      BY <1>1, <2>2, <2>3, <3>2 DEF Changes, OneCommander
    <3>3. QED
      BY <3>1, <3>2
  <2>4. ASSUME NEW c \in pending, NEW u \in DOMAIN c.ver PROVE Stands(c, u)'
    BY <1>1, <1>2, <1>3, <2>2, <2>3, StandsKept
  <2>5. QED
    BY <2>2, <2>4 DEF CallInv
<1>7. CASE DisbandStep
  <2>1. PICK g \in Groups : Disband(g)
    BY <1>7 DEF DisbandStep
  <2>2. /\ ids' = [ids EXCEPT ![g] = {}] /\ goal' = [goal EXCEPT ![g] = NoGoal]
        /\ held' = held /\ pending' = pending /\ versions' = Touched(ids[g])
    BY <2>1 DEF Disband, Line, micro, casts
  <2>3. ASSUME NEW h \in Groups, NEW u \in ids[h], u \notin ids[g]
        PROVE  u \in ids'[h] /\ goal'[h] = goal[h]
    BY <1>1, <2>2, <2>3
  <2>4. ASSUME NEW c \in pending, NEW u \in DOMAIN c.ver PROVE Stands(c, u)'
    BY <1>1, <1>2, <1>3, <2>2, <2>3, StandsKept
  <2>5. QED
    BY <2>2, <2>4 DEF CallInv
<1>8. CASE EndReply
  <2>1. goal' = Pruned(ids) /\ UNCHANGED <<ids, versions, held, pending>>
    BY <1>8 DEF EndReply, micro, casts
  <2>2. ASSUME NEW c \in pending, NEW u \in DOMAIN c.ver PROVE Stands(c, u)'
    <3>1. u \in ids[c.group] => goal'[c.group] = goal[c.group]
      BY <1>2, <2>1 DEF Pruned
    <3>2. QED
      BY <1>3, <2>1, <3>1, StandsUntouched
  <2>3. QED
    BY <2>1, <2>2 DEF CallInv
<1>9. CASE Release
  <2>1. PICK us : versions' = Touched(us) /\ UNCHANGED <<ids, goal, held, pending>>
    BY <1>9 DEF Release, micro, casts
  <2>2. ASSUME NEW c \in pending, NEW u \in DOMAIN c.ver PROVE Stands(c, u)'
    BY <1>1, <1>2, <1>3, <2>1, StandsKept
  <2>3. QED
    BY <2>1, <2>2 DEF CallInv
<1>10. CASE AdoptStep
  <2>1. PICK g \in Groups, us \in SUBSET Units : AdoptIdle(g, us)
    BY <1>10 DEF AdoptStep
  <2>2. /\ ids' = [ids EXCEPT ![g] = @ \cup us] /\ versions' = Touched(us)
        /\ UNCHANGED <<goal, held, pending>>
    BY <2>1 DEF AdoptIdle, micro, casts
  <2>3. ASSUME NEW c \in pending, NEW u \in DOMAIN c.ver PROVE Stands(c, u)'
    <3>1. u \in ids[c.group] => u \in ids'[c.group]
      BY <1>1, <1>2, <2>2
    <3>2. QED
      BY <1>1, <1>2, <1>3, <2>2, <3>1, StandsKept
  <2>4. QED
    BY <2>2, <2>3 DEF CallInv
<1>11. CASE AskStep
  <2>1. PICK g \in Groups, t \in Types, us \in SUBSET Units : Ask(g, t, us)
    BY <1>11 DEF AskStep
  <2>2. /\ UNCHANGED <<control, held>> /\ us \subseteq ids[g] \ held
        /\ pending' = pending \cup {[group |-> g, type |-> t, ver |-> [u \in us |-> versions[u]],
                                     goal |-> goal[g], lost |-> {}]}
    BY <1>1, <2>1 DEF Ask, CastInv, casts
  <2>3. ASSUME NEW c \in pending', NEW u \in DOMAIN c.ver PROVE Stands(c, u)'
    <3>1. CASE c \in pending
      BY <1>3, <2>2, <3>1, StandsUntouched DEF control
    <3>2. CASE c = [group |-> g, type |-> t, ver |-> [v \in us |-> versions[v]], goal |-> goal[g], lost |-> {}]
      <4>1. u \in us /\ c.ver[u] = versions[u] /\ c.group = g /\ c.goal = goal[g]
        BY <2>3, <3>2
      <4>2. versions[u] \in Nat
        BY <1>1, <4>1 DEF TypeOK
      <4>3. QED
        BY <2>2, <4>1, <4>2 DEF Stands, control
    <3>3. QED
      BY <2>2, <3>1, <3>2
  <2>4. QED
    BY <2>3 DEF CallInv
<1>12. CASE MicroStep \/ Asked \/ AgainStep \/ UNCHANGED vars
  <2>1. UNCHANGED <<ids, goal, versions>> /\ held' \subseteq held
    BY <1>12, MicroControl, AskingControl DEF AskingStep, control, casts
  <2>2. pending' \subseteq pending
    BY <1>12, PendingShrinks
  <2>3. ASSUME NEW c \in pending', NEW u \in DOMAIN c.ver PROVE Stands(c, u)'
    BY <1>3, <2>1, <2>2, StandsUntouched
  <2>4. QED
    BY <2>3 DEF CallInv
<1>13. QED
  BY <1>4, <1>5, <1>6, <1>7, <1>8, <1>9, <1>10, <1>11, <1>12, Steps
-----------------------------------------------------------------------------
(* What is sent. *)

(* The micro agent's choices are what they are chosen from.                 *)
LEMMA MicroChoice ==
  ASSUME MicroStep
  PROVE  \E done, kept, formed, moved, orders, changing, shown, on :
           /\ done \subseteq pending /\ kept \subseteq followups /\ formed \subseteq followups
           /\ orders \subseteq Answered(done, moved)
           /\ Micro(done, kept, formed, moved, orders, changing, shown, on)
<1>1. PICK done \in SUBSET pending, kept \in SUBSET followups :
        \E formed \in SUBSET (followups \ kept), moved \in SUBSET (own \cap Grouped) :
          \E orders \in SUBSET Answered(done, moved) :
            \E changing \in SUBSET orders, shown \in SUBSET casting :
              \E on \in SUBSET (shown \ recent) : Micro(done, kept, formed, moved, orders, changing, shown, on)
  BY DEF MicroStep
<1>2. PICK formed \in SUBSET (followups \ kept), moved \in SUBSET (own \cap Grouped) :
        \E orders \in SUBSET Answered(done, moved) :
          \E changing \in SUBSET orders, shown \in SUBSET casting :
            \E on \in SUBSET (shown \ recent) : Micro(done, kept, formed, moved, orders, changing, shown, on)
  BY <1>1
<1>3. PICK orders \in SUBSET Answered(done, moved) :
        \E changing \in SUBSET orders, shown \in SUBSET casting :
          \E on \in SUBSET (shown \ recent) : Micro(done, kept, formed, moved, orders, changing, shown, on)
  BY <1>2
<1>4. PICK changing \in SUBSET orders, shown \in SUBSET casting :
        \E on \in SUBSET (shown \ recent) : Micro(done, kept, formed, moved, orders, changing, shown, on)
  BY <1>3
<1>5. PICK on \in SUBSET (shown \ recent) : Micro(done, kept, formed, moved, orders, changing, shown, on)
  BY <1>4
<1>6. formed \subseteq followups /\ done \subseteq pending /\ kept \subseteq followups
  BY <1>1, <1>2
<1>7. QED
  BY <1>3, <1>5, <1>6

(* An order of an answer stands, and reaches no unit to leave alone.        *)
LEMMA AnswersStand ==
  ASSUME CallInv, NEW done \in SUBSET pending, NEW moved, NEW o \in Answered(done, moved)
  PROVE  /\ \E c \in done : \E u \in DOMAIN c.ver : o = Answer(c, u)
         /\ o.kind = "answer" /\ o.unit \notin held
         /\ o.unit \notin o.call.lost => o.unit \in ids[o.call.group] /\ goal[o.call.group] = o.call.goal
<1>1. PICK c \in done : \E u \in DOMAIN c.ver : MayOrder(c, u, moved) /\ o = Answer(c, u)
  BY DEF Answered
<1>2. PICK u \in DOMAIN c.ver : MayOrder(c, u, moved) /\ o = Answer(c, u)
  BY <1>1
<1>3. o.kind = "answer" /\ o.unit = u /\ o.call = c
  BY <1>2 DEF Answer
<1>4. Stands(c, u) /\ versions[u] = c.ver[u]
  BY <1>2 DEF CallInv, MayOrder
<1>5. QED
  BY <1>2, <1>3, <1>4 DEF Stands

(* Micro orders are for what macro wants of a unit, and reach none to leave *)
(* alone.                                                                   *)
LEMMA OutKept ==
  ASSUME IInv, [Next]_vars
  PROVE  OutInv'
<1> USE DEF OutInv, AnswerStands, CastLeftAlone
<1>0. OutInv /\ CallInv /\ held \subseteq casting
  BY DEF IInv, CastInv
<1>1. CASE MicroStep
  <2>1. PICK done, kept, formed, moved, orders, changing, shown, on :
           /\ done \subseteq pending /\ kept \subseteq followups /\ formed \subseteq followups
           /\ orders \subseteq Answered(done, moved)
           /\ Micro(done, kept, formed, moved, orders, changing, shown, on)
    BY <1>1, MicroChoice
  <2>2. /\ pc' \in {"ask", "observe"} /\ UNCHANGED <<ids, goal>>
        /\ held' \subseteq held /\ held' \subseteq casting'
    BY <1>0, <1>1, MicroControl
  <2>3. /\ out' = orders \cup formed \cup {Coded(u) : u \in moved}
        /\ moved \cap casting' = {}
    BY <2>1 DEF Micro
  <2>4. ASSUME NEW o \in orders
        PROVE  /\ o.kind = "answer" /\ o.unit \notin held
               /\ o.unit \notin o.call.lost =>
                    o.unit \in ids[o.call.group] /\ goal[o.call.group] = o.call.goal
    BY <1>0, <2>1, AnswersStand
  <2>5. ASSUME NEW o \in formed PROVE o.kind = "followup"
    BY <2>1 DEF IInv, TypeOK, FollowUps
  <2>6. ASSUME NEW u \in moved PROVE Coded(u).kind = "code" /\ Coded(u).unit \notin held'
    BY <2>2, <2>3 DEF Coded
  <2>7. QED
    BY <2>2, <2>4, <2>5, <2>6, <2>3
<1>2. CASE AgainStep
  <2>1. PICK orders \in SUBSET Answered(pending, {}) : out' = orders
    BY <1>2 DEF AgainStep, Again
  <2>2. pc' = "observe" /\ UNCHANGED <<ids, goal, held>>
    BY <1>2 DEF AgainStep, Again, control, casts
  <2>3. QED
    BY <1>0, <2>1, <2>2, AnswersStand
<1>3. CASE AskStep \/ Asked \/ ObserveStep
  <2>1. out' = {}
    BY <1>3 DEF AskStep, Ask, Asked, ObserveStep, Observe
  <2>2. QED
    BY <2>1
<1>4. CASE CommandStep \/ GroupStep \/ DisbandStep
  <2>1. out = {} /\ out' = out
    BY <1>0, <1>4, LinesSendNothing
  <2>2. QED
    BY <2>1
<1>5. CASE EndReply \/ Release \/ AdoptStep
  <2>1. out = {} /\ out' = out
    BY <1>0, <1>5, OrdersSendNothing
  <2>2. QED
    BY <2>1
<1>6. CASE UNCHANGED vars
  <2>1. UNCHANGED <<ids, goal, held, out, pc>>
    BY <1>6 DEF vars, control, casts
  <2>2. QED
    BY <1>0, <2>1
<1>7. QED
  BY <1>1, <1>2, <1>3, <1>4, <1>5, <1>6, Steps
-----------------------------------------------------------------------------
(* Types. *)

(* Groups and goals keep their types.                                       *)
LEMMA GroupTypes ==
  ASSUME TypeOK, [Next]_vars
  PROVE  ids' \in [Groups -> SUBSET Units] /\ goal' \in [Groups -> Goal \cup {NoGoal}]
<1>0. ids \in [Groups -> SUBSET Units] /\ goal \in [Groups -> Goal \cup {NoGoal}]
  BY DEF TypeOK
<1>1. CASE ObserveStep
  <2>1. PICK seen \in SUBSET Units, gone \in SUBSET Units,
             summons \in {{}} \cup {{s} : s \in Units \X (Units \ known)} :
               Observe(seen, gone, summons)
    BY <1>1 DEF ObserveStep, TypeOK
  <2>2. goal' = (IF gone = {} THEN goal ELSE Pruned(Without(gone)))
    BY <2>1 DEF Observe
  <2>3. ids' = [g \in Groups |-> (ids[g] \ gone) \cup {s[2] : s \in {r \in summons : r[1] \in ids[g] \ gone}}]
    BY <2>1 DEF Observe, Without
  <2>4. \A s \in summons : s[2] \in Units
    OBVIOUS
  <2>5. ids' \in [Groups -> SUBSET Units]
    BY <1>0, <2>3, <2>4
  <2>6. QED
    BY <1>0, <2>2, <2>5 DEF Pruned
<1>2. CASE CommandStep
  BY <1>0, <1>2 DEF CommandStep, Command, Take, Leave, Without
<1>3. CASE GroupStep
  <2>1. PICK g \in Groups, us \in SUBSET Units, new \in Goal : Group(g, us, new)
    BY <1>3 DEF GroupStep
  <2>2. /\ ids' = [h \in Groups |-> IF h = g THEN us ELSE ids[h] \ us]
        /\ goal' = [goal EXCEPT ![g] = new]
    BY <2>1 DEF Group, Without
  <2>3. QED
    BY <1>0, <2>2
<1>4. CASE DisbandStep \/ EndReply \/ Release
  BY <1>0, <1>4 DEF DisbandStep, Disband, EndReply, Release, Pruned
<1>5. CASE AdoptStep
  BY <1>0, <1>5 DEF AdoptStep, AdoptIdle
<1>6. CASE MicroStep \/ AskingStep
  BY <1>0, <1>6, MicroControl, AskingControl DEF control
<1>7. QED
  BY <1>1, <1>2, <1>3, <1>4, <1>5, <1>6, Steps DEF AskingStep

(* Waiting orders and versions keep theirs.                                 *)
LEMMA OrderTypes ==
  ASSUME TypeOK, [Next]_vars
  PROVE  deferred' \in [Units -> Deferred] /\ versions' \in [Units -> Nat]
<1>0. /\ deferred \in [Units -> Deferred] /\ versions \in [Units -> Nat]
      /\ {None, Orders} \subseteq Deferred /\ \A g \in Groups, w \in Ways : Move(g, w) \in Deferred
  BY DEF TypeOK, Deferred
<1>1. \A us : Touched(us) \in [Units -> Nat] /\ Dropped(us) \in [Units -> Deferred]
  BY <1>0 DEF Touched, Dropped
<1>2. CASE ObserveStep
  BY <1>1, <1>2 DEF ObserveStep, Observe
<1>3. CASE CommandStep
  <2>1. PICK u \in Units, keeps \in BOOLEAN, makes \in Made :
          Command(u, keeps, makes)
    BY <1>3 DEF CommandStep
  <2>2. /\ versions' = versions \/ versions' = Touched({u})
        /\ \/ deferred' = [deferred EXCEPT ![u] = Orders]
           \/ deferred' = [deferred EXCEPT ![u] = None] \/ deferred' = deferred
    BY <2>1, CommandEffect DEF Command, Take, Cast
  <2>3. QED
    BY <1>0, <1>1, <2>2
<1>4. CASE GroupStep
  <2>1. PICK g \in Groups, us \in SUBSET Units, new \in Goal : Group(g, us, new)
    BY <1>4 DEF GroupStep
  <2>2. new.way \in Ways
    BY DEF Goal
  <2>3. \A u \in Units : Kept(g, us, new)[u] \in Deferred
    BY <1>0 DEF Kept
  <2>4. PICK sent : deferred' = [u \in Units |-> IF u \in sent \ own THEN Move(g, new.way)
                                                 ELSE Kept(g, us, new)[u]]
    BY <2>1 DEF Group
  <2>5. versions' = Touched(Changes(g, us, new))
    BY <2>1 DEF Group
  <2>6. QED
    BY <1>0, <1>1, <2>2, <2>3, <2>4, <2>5
<1>5. CASE DisbandStep
  BY <1>1, <1>5 DEF DisbandStep, Disband
<1>6. CASE EndReply
  BY <1>0, <1>6 DEF EndReply
<1>7. CASE Release
  BY <1>1, <1>7 DEF Release
<1>8. CASE AdoptStep
  BY <1>0, <1>1, <1>8 DEF AdoptStep, AdoptIdle
<1>9. CASE MicroStep \/ AskingStep
  BY <1>0, <1>9, MicroControl, AskingControl DEF control
<1>10. QED
  BY <1>2, <1>3, <1>4, <1>5, <1>6, <1>7, <1>8, <1>9, Steps DEF AskingStep

(* A question is a call.                                                    *)
LEMMA QuestionIsCall ==
  ASSUME TypeOK, GoalInv, NEW g \in Groups, NEW t \in Types, NEW us \in SUBSET Units, us # {}, us \subseteq ids[g]
  PROVE  IsCall([group |-> g, type |-> t, ver |-> [u \in us |-> versions[u]], goal |-> goal[g], lost |-> {}])
<1>1. goal[g] \in Goal
  BY DEF TypeOK, GoalInv
<1>2. [u \in us |-> versions[u]] \in [us -> Nat]
  BY DEF TypeOK
<1>3. QED
  BY <1>1, <1>2 DEF IsCall

\* No two calls for the same units of a group are in flight.
OnePerType == \A c, d \in pending : <<c.group, c.type>> = <<d.group, d.type>> => c = d

(* The calls in flight are calls, one for each group and type.              *)
LEMMA CallTypes ==
  ASSUME TypeOK, GoalInv, [Next]_vars
  PROVE  (\A c \in pending' : IsCall(c)) /\ OnePerType'
<1>0. (\A c \in pending : IsCall(c)) /\ OnePerType
  BY DEF TypeOK, OnePerType
<1>1. CASE ObserveStep
  <2>0. PICK seen \in SUBSET Units, gone \in SUBSET Units,
             summons \in {{}} \cup {{s} : s \in Units \X (Units \ known)} :
               Observe(seen, gone, summons)
    BY <1>1 DEF ObserveStep, TypeOK
  <2>1. pending' = {[c EXCEPT !.lost = @ \cup gone] : c \in pending}
    BY <2>0 DEF Observe
  <2>2. ASSUME NEW d \in pending'
        PROVE  \E c \in pending : d = [c EXCEPT !.lost = @ \cup gone] /\ IsCall(d)
                                  /\ d.group = c.group /\ d.type = c.type
    <3>1. PICK c \in pending : d = [c EXCEPT !.lost = @ \cup gone]
      BY <2>1
    <3>2. IsCall(d) /\ d.group = c.group /\ d.type = c.type
      BY <1>0, <3>1, LoseKeeps
    <3>3. QED
      BY <3>1, <3>2, Zenon
  <2>3. ASSUME NEW d \in pending', NEW e \in pending', <<d.group, d.type>> = <<e.group, e.type>> PROVE d = e
    <3>1. PICK c \in pending : d = [c EXCEPT !.lost = @ \cup gone] /\ d.group = c.group /\ d.type = c.type
      BY <2>2
    <3>2. PICK f \in pending : e = [f EXCEPT !.lost = @ \cup gone] /\ e.group = f.group /\ e.type = f.type
      BY <2>2
    <3>3. c = f
      BY <1>0, <2>3, <3>1, <3>2 DEF OnePerType
    <3>4. QED
      BY <3>1, <3>2, <3>3
  <2>4. QED
    BY <2>2, <2>3 DEF OnePerType
<1>2. CASE AskStep
  <2>1. PICK g \in Groups, t \in Types, us \in SUBSET Units : Ask(g, t, us)
    BY <1>2 DEF AskStep
  <2> DEFINE new == [group |-> g, type |-> t, ver |-> [u \in us |-> versions[u]], goal |-> goal[g], lost |-> {}]
  <2>2. /\ us # {} /\ us \subseteq ids[g] /\ pending' = pending \cup {new}
        /\ \A c \in pending : <<c.group, c.type>> # <<g, t>>
    BY <2>1 DEF Ask, Unasked
  <2>3. IsCall(new)
    BY <2>2, QuestionIsCall
  <2>4. new.group = g /\ new.type = t
    OBVIOUS
  <2> HIDE DEF new
  <2>5. QED
    BY <1>0, <2>2, <2>3, <2>4 DEF OnePerType
<1>3. CASE MicroStep \/ Asked \/ AgainStep \/ UNCHANGED vars
  <2>1. pending' \subseteq pending
    BY <1>3, PendingShrinks
  <2>2. QED
    BY <1>0, <2>1 DEF OnePerType
<1>4. CASE CommandStep \/ GroupStep \/ DisbandStep \/ EndReply \/ Release \/ AdoptStep
  <2>1. pending' = pending
    BY <1>4, LinesSendNothing, OrdersSendNothing
  <2>2. QED
    BY <1>0, <2>1 DEF OnePerType
<1>5. QED
  BY <1>1, <1>2, <1>3, <1>4, Steps

(* What waits to be sent, and what is sent, keep their types.               *)
LEMMA SentTypes ==
  ASSUME IInv, [Next]_vars
  PROVE  /\ followups' \subseteq FollowUps
         /\ \A o \in out' :
              \/ o \in FollowUps \cup {Coded(u) : u \in Units}
              \/ IsCall(o.call) /\ o.unit \in DOMAIN o.call.ver /\ o = Answer(o.call, o.unit)
<1> DEFINE Good(o) == \/ o \in FollowUps \cup {Coded(u) : u \in Units}
                      \/ IsCall(o.call) /\ o.unit \in DOMAIN o.call.ver /\ o = Answer(o.call, o.unit)
<1>0. /\ CallInv /\ followups \subseteq FollowUps /\ own \subseteq Units
      /\ \A c \in pending : IsCall(c)
      /\ \A o \in out : Good(o)
  BY DEF IInv, TypeOK
<1>1. ASSUME NEW done \in SUBSET pending, NEW moved, NEW o \in Answered(done, moved)
      PROVE  Good(o) /\ FollowUp(o) \in FollowUps
  <2>1. PICK c \in done : \E u \in DOMAIN c.ver : o = Answer(c, u)
    BY <1>0, <1>1, AnswersStand
  <2>2. PICK u \in DOMAIN c.ver : o = Answer(c, u)
    BY <2>1
  <2>3. o.unit = u /\ o.ver = c.ver[u] /\ o.call = c
    BY <2>2 DEF Answer
  <2>4. IsCall(c) /\ u \in Units /\ c.ver[u] \in Nat
    BY <1>0, <2>1, <2>2, CallFields
  <2>5. QED
    BY <2>2, <2>3, <2>4 DEF FollowUp, FollowUps
<1>2. CASE MicroStep
  <2>1. PICK done, kept, formed, moved, orders, changing, shown, on :
           /\ done \subseteq pending /\ kept \subseteq followups /\ formed \subseteq followups
           /\ orders \subseteq Answered(done, moved)
           /\ Micro(done, kept, formed, moved, orders, changing, shown, on)
    BY <1>2, MicroChoice
  <2>2. /\ changing \subseteq orders /\ moved \subseteq own
        /\ followups' = {f \in kept : f.unit \notin UnitsOf(changing)} \cup {FollowUp(o) : o \in changing}
        /\ out' = orders \cup formed \cup {Coded(u) : u \in moved}
    BY <2>1 DEF Micro, Collect
  <2>3. \A o \in orders : Good(o) /\ FollowUp(o) \in FollowUps
    BY <1>1, <2>1
  <2>4. followups' \subseteq FollowUps
    BY <1>0, <2>1, <2>2, <2>3
  <2>5. \A o \in formed \cup {Coded(u) : u \in moved} : Good(o)
    BY <1>0, <2>1, <2>2
  <2>6. QED
    BY <2>2, <2>3, <2>4, <2>5
<1>3. CASE AgainStep
  <2>1. PICK orders \in SUBSET Answered(pending, {}) : \E changing \in SUBSET orders : Again(orders, changing)
    BY <1>3 DEF AgainStep
  <2>2. PICK changing \in SUBSET orders : Again(orders, changing)
    BY <2>1
  <2>3. /\ out' = orders
        /\ followups' = {f \in followups : f.unit \notin UnitsOf(changing)} \cup {FollowUp(o) : o \in changing}
    BY <2>2 DEF Again, Collect
  <2>4. \A o \in orders : Good(o) /\ FollowUp(o) \in FollowUps
    BY <1>1, <2>1
  <2>5. QED
    BY <1>0, <2>2, <2>3, <2>4
<1>4. CASE AskStep \/ Asked \/ ObserveStep
  <2>1. out' = {} /\ followups' = followups
    BY <1>4 DEF AskStep, Ask, Asked, ObserveStep, Observe, micro
  <2>2. QED
    BY <1>0, <2>1
<1>5. CASE CommandStep \/ GroupStep \/ DisbandStep \/ EndReply \/ Release \/ AdoptStep \/ UNCHANGED vars
  <2>1. out' = out /\ followups' = followups
    <3>1. CASE CommandStep \/ GroupStep \/ DisbandStep \/ EndReply \/ Release \/ AdoptStep
      BY <3>1, LinesSendNothing, OrdersSendNothing
    <3>2. CASE UNCHANGED vars
      BY <3>2 DEF vars, micro
    <3>3. QED
      BY <1>5, <3>1, <3>2
  <2>2. QED
    BY <1>0, <2>1
<1>6. QED
  BY <1>2, <1>3, <1>4, <1>5, Steps

(* The units seen, known, casting or busy are units; the act keeps its type.*)
LEMMA ActTypes ==
  ASSUME TypeOK, [Next]_vars
  PROVE  /\ {casting, named, recent, held, known, own, busy}' \subseteq SUBSET Units
         /\ {wait, acted}' \subseteq BOOLEAN /\ lines' \in Nat /\ landed' \subseteq Groups \X Types
         /\ pc' \in {"observe", "lines", "release", "adopt", "collect", "ask", "again"}
<1>0. /\ {casting, named, recent, held, known, own, busy} \subseteq SUBSET Units
      /\ {wait, acted} \subseteq BOOLEAN /\ lines \in Nat /\ landed \subseteq Groups \X Types
      /\ pc \in {"observe", "lines", "release", "adopt", "collect", "ask", "again"}
  BY DEF TypeOK
<1>1. CASE ObserveStep
  BY <1>0, <1>1 DEF ObserveStep, Observe, act
<1>2. CASE CommandStep
  <2>1. PICK u \in Units, keeps \in BOOLEAN, makes \in Made :
          Command(u, keeps, makes)
    BY <1>2 DEF CommandStep
  <2>2. /\ UNCHANGED <<known, own, pc, wait, landed, busy>> /\ lines' = lines + 1 /\ acted' \in BOOLEAN
    BY <1>0, <2>1 DEF Command, Line, world
  <2>3. /\ casting' \subseteq casting \cup {u} /\ named' \subseteq named \cup {u}
        /\ recent' \subseteq recent \cup {u} /\ held' \subseteq held \cup {u}
    BY <2>1 DEF Command, Take, Leave, Cast, casts
  <2>4. QED
    BY <1>0, <2>2, <2>3
<1>3. CASE GroupStep \/ DisbandStep
  <2>1. UNCHANGED <<known, own, pc, wait, landed, busy, casts>> /\ lines' = lines + 1
        /\ acted' \in BOOLEAN
    BY <1>0, <1>3 DEF GroupStep, Group, DisbandStep, Disband, Line, world
  <2>2. QED
    BY <1>0, <2>1 DEF casts
<1>4. CASE EndReply \/ Release
  <2>1. /\ UNCHANGED <<casts, known, own, busy, wait, landed>>
        /\ acted' \in {acted, TRUE} /\ lines' \in {0, lines} /\ pc' \in {"release", "adopt"}
    BY <1>4 DEF EndReply, Release, world
  <2>2. acted' \in BOOLEAN
    BY <1>0, <2>1
  <2>3. QED
    BY <1>0, <2>1, <2>2 DEF casts
<1>5. CASE AdoptStep
  BY <1>0, <1>5 DEF AdoptStep, AdoptIdle, world, act, casts
<1>6. CASE MicroStep
  <2>1. PICK done, kept, formed, moved, orders, changing, shown, on :
           /\ done \subseteq pending /\ kept \subseteq followups /\ formed \subseteq followups
           /\ orders \subseteq Answered(done, moved)
           /\ Micro(done, kept, formed, moved, orders, changing, shown, on)
    BY <1>6, MicroChoice
  <2>2. /\ UnitsOf(kept \cup formed) \subseteq own /\ moved \subseteq own /\ acted' = FALSE
        /\ busy' = (IF acted THEN {} ELSE (casting' \cup UnitsOf(kept \cup formed)) \cup moved)
        /\ landed' = (IF acted THEN {} ELSE {<<c.group, c.type>> : c \in done})
    BY <2>1 DEF Micro
  <2>3. \A c \in done : c.group \in Groups /\ c.type \in Types
    BY <2>1, CallFields DEF TypeOK
  <2>4. landed' \subseteq Groups \X Types
    BY <2>2, <2>3
  <2>5. QED
    BY <1>0, <1>6, <2>2, <2>4, MicroControl
<1>7. CASE AskingStep
  <2>1. /\ acted' = acted /\ (landed' = landed \/ landed' = {}) /\ busy' \subseteq Units
        /\ pc' \in {pc, "observe", "again"}
    BY <1>0, <1>7 DEF AskingStep, AskStep, Ask, Asked, AgainStep, Again, vars, act
  <2>2. QED
    BY <1>0, <1>7, <2>1, AskingControl DEF control, casts, world
<1>8. QED
  BY <1>1, <1>2, <1>3, <1>4, <1>5, <1>6, <1>7, Steps DEF AskingStep

(* A step leaves the state well typed, with one call in flight for each     *)
(* group and type.                                                          *)
LEMMA TypesKept ==
  ASSUME IInv, [Next]_vars
  PROVE  TypeOK'
<1>1. TypeOK /\ GoalInv
  BY DEF IInv
<1>2. /\ ids' \in [Groups -> SUBSET Units] /\ goal' \in [Groups -> Goal \cup {NoGoal}]
      /\ deferred' \in [Units -> Deferred] /\ versions' \in [Units -> Nat]
  BY <1>1, GroupTypes, OrderTypes
<1>3. (\A c \in pending' : IsCall(c)) /\ OnePerType'
  BY <1>1, CallTypes
<1>4. /\ followups' \subseteq FollowUps
      /\ \A o \in out' :
           \/ o \in FollowUps \cup {Coded(u) : u \in Units}
           \/ IsCall(o.call) /\ o.unit \in DOMAIN o.call.ver /\ o = Answer(o.call, o.unit)
  BY SentTypes
<1>5. /\ {casting, named, recent, held, known, own, busy}' \subseteq SUBSET Units
      /\ {wait, acted}' \subseteq BOOLEAN /\ lines' \in Nat /\ landed' \subseteq Groups \X Types
      /\ pc' \in {"observe", "lines", "release", "adopt", "collect", "ask", "again"}
  BY <1>1, ActTypes
<1>6. QED
  BY <1>2, <1>3, <1>4, <1>5 DEF TypeOK, OnePerType
-----------------------------------------------------------------------------
(* The player starts with no groups, no calls and nothing waiting.          *)
LEMMA InitInv == Init => IInv
<1> SUFFICES ASSUME Init PROVE IInv
  OBVIOUS
<1>1. TypeOK
  <2>1. None \in Deferred /\ NoGoal \in Goal \cup {NoGoal} /\ 0 \in Nat /\ wait \in BOOLEAN
    BY DEF Deferred, Init
  <2>2. /\ ids \in [Groups -> SUBSET Units] /\ goal \in [Groups -> Goal \cup {NoGoal}]
        /\ deferred \in [Units -> Deferred] /\ versions \in [Units -> Nat]
    BY <2>1 DEF Init
  <2>3. pending = {} /\ followups = {} /\ out = {}
    BY DEF Init
  <2>4. QED
    BY <2>1, <2>2, <2>3 DEF Init, TypeOK
<1>2. GoalInv /\ OneCommander /\ DeferredStands
  BY Kinds DEF Init, GoalInv, OneCommander, DeferredStands, None, Orders
<1>3. KnownInv /\ CastInv /\ CallInv /\ OutInv
  BY DEF Init, KnownInv, CastInv, CallInv, OutInv, AnswerStands, CastLeftAlone
<1>4. QED
  BY <1>1, <1>2, <1>3 DEF IInv

(* The inductive invariant holds whatever the game shows, macro orders and  *)
(* the models answer, and however late.                                     *)
THEOREM Invariance == Spec => []IInv
<1>1. ASSUME IInv, [Next]_vars PROVE IInv'
  BY <1>1, TypesKept, GoalKept, OneKept, DeferredKept, KnownKept, CastKept, CallKept, OutKept DEF IInv
<1>2. QED
  BY InitInv, <1>1, PTL DEF Spec

(* The state is well typed, and there is at most one call in flight for     *)
(* each group and unit type.                                                *)
THEOREM TypeCorrect == Spec => []TypeOK
<1>1. IInv => TypeOK
  BY DEF IInv
<1>2. QED
  BY Invariance, <1>1, PTL

(* Each unit is in one group at most, and the orders that wait for it are   *)
(* its group's present ones, or macro's own with no group to contradict     *)
(* them.                                                                    *)
THEOREM UnitsHaveOneCommander == Spec => []CommandStands
<1>1. IInv => CommandStands
  BY DEF IInv, CommandStands
<1>2. QED
  BY Invariance, <1>1, PTL

(* A micro answer is sent only for units that macro still wants commanded   *)
(* as they were when the question was asked.                                *)
THEOREM AnswersStandForGroup == Spec => []AnswerStands
<1>1. IInv => AnswerStands
  BY DEF IInv, OutInv
<1>2. QED
  BY Invariance, <1>1, PTL

(* No answer, however late, and no move of code's reaches a unit that macro *)
(* had cast a spell or use an item before an act finds its time over: for   *)
(* CAST_SECONDS, and as long as the observation shows it on the order.      *)
THEOREM CastsAreLeftAlone == Spec => []CastLeftAlone
<1>1. IInv => CastLeftAlone
  BY DEF IInv, OutInv
<1>2. QED
  BY Invariance, <1>1, PTL
=============================================================================
