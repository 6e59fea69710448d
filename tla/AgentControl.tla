---------------------------- MODULE AgentControl ----------------------------
(***************************************************************************)
(* Who commands each unit of the language-model player (wc3agent):         *)
(* Control (control.py), the macro orders that change it (game/orders.py,  *)
(* macro/memory.py), the micro calls asked and answered under it           *)
(* (micro/agent.py), and the loop that runs them (agent.py).               *)
(*                                                                         *)
(* All of Agent.act runs on one thread, on one observation, phase by       *)
(* phase.  The models answer in threads of their own: a reply is written   *)
(* for the game as it was when it was asked for, and lands in a later act  *)
(* (or, when play is stepped, in the same one).  What the game and the     *)
(* models decide is left open: which units are seen, die or come back,     *)
(* which lines a reply has, which units are idle, worth asking about or    *)
(* moved by code, and when a unit has changed its form.                    *)
(*                                                                         *)
(* A definition named after another and a slip in it is no part of the     *)
(* specification: it is what the code must not do.                         *)
(***************************************************************************)
EXTENDS Integers, FiniteSets

CONSTANTS
  Units, Groups,
  Types,       \* unit types: a group has one call in flight for each
  Ways, Texts, \* where a group goes and how; its instruction
  Nowhere,     \* a way: the group line names no point
  NoGoal,      \* of a group that does not exist
  MaxCalls,    \* MAX_CALLS
  MaxVersion,  \* bound: changes to how a unit is commanded
  MaxLines     \* bound: lines of a macro reply

Goal == [way : Ways, text : Texts]

ASSUME ConstantsAssumption ==
  /\ Nowhere \in Ways /\ NoGoal \notin Goal
  /\ {MaxCalls, MaxVersion, MaxLines} \subseteq Nat

VARIABLES
  \* Control: members and goal of each group, deferred, versions
  ids, goal, deferred, versions,
  \* Control.casting: the units it holds, those with the name of an order (an item use
  \* has none), and those younger than CAST_SECONDS at the act's observation
  casting, named, recent,
  \* the micro agent: calls in flight, casts that wait for a change of form
  pending, followups,
  \* memory.known_units, and the units the observation shows alive
  known, own,
  \* the act: its phase, whether it waits for answers, whether it has orders for the
  \* game, the lines read, the calls that landed, the units not to ask about
  pc, wait, acted, lines, landed, busy,
  \* history: units that Control.cast promises to leave alone, and the orders the micro
  \* agent has just sent
  held, out

control == <<ids, goal, deferred, versions>>
casts == <<casting, named, recent, held>>
micro == <<pending, followups>>
world == <<known, own>>
act == <<wait, acted, lines, landed, busy>>
vars == <<control, casts, micro, world, pc, act, out>>

None == [kind |-> "none"]
Orders == [kind |-> "orders"]
Move(g, w) == [kind |-> "move", group |-> g, way |-> w]
Deferred == {None, Orders} \cup {Move(g, w) : g \in Groups, w \in Ways}

\* A call knows the version of every unit it asks about.  Its group's goal, and
\* the units lost since, are history.
IsCall(c) == \E us \in SUBSET Units :
  c \in [group : Groups, type : Types, ver : [us -> Nat], goal : Goal, lost : SUBSET Units]
Answer(c, u) == [kind |-> "answer", unit |-> u, ver |-> c.ver[u], call |-> c]
FollowUp(o) == [kind |-> "followup", unit |-> o.unit, ver |-> o.ver]
Coded(u) == [kind |-> "code", unit |-> u]
FollowUps == [kind : {"followup"}, unit : Units, ver : Nat]

TypeOK ==
  /\ ids \in [Groups -> SUBSET Units] /\ goal \in [Groups -> Goal \cup {NoGoal}]
  /\ deferred \in [Units -> Deferred] /\ versions \in [Units -> Nat]
  /\ {casting, named, recent, held, known, own, busy} \subseteq SUBSET Units
  /\ \A c \in pending : IsCall(c)
  /\ \A c, d \in pending : <<c.group, c.type>> = <<d.group, d.type>> => c = d
  /\ followups \subseteq FollowUps
  /\ \A o \in out :
       \/ o \in FollowUps \cup {Coded(u) : u \in Units}
       \/ IsCall(o.call) /\ o.unit \in DOMAIN o.call.ver /\ o = Answer(o.call, o.unit)
  /\ {wait, acted} \subseteq BOOLEAN
  /\ lines \in Nat /\ landed \subseteq Groups \X Types
  /\ pc \in {"observe", "lines", "release", "adopt", "collect", "ask", "again"}

Init ==
  /\ ids = [g \in Groups |-> {}] /\ goal = [g \in Groups |-> NoGoal]
  /\ deferred = [u \in Units |-> None] /\ versions = [u \in Units |-> 0]
  /\ casting = {} /\ named = {} /\ recent = {} /\ held = {}
  /\ pending = {} /\ followups = {}
  /\ known = {} /\ own = {}
  /\ pc = "observe" /\ wait \in BOOLEAN /\ acted = FALSE /\ lines = 0
  /\ landed = {} /\ busy = {} /\ out = {}
-----------------------------------------------------------------------------
(* Control. *)

Grouped == UNION {ids[g] : g \in Groups}
Moving(u, g) == deferred[u].kind = "move" /\ deferred[u].group = g

\* touch.  Within the bound, a unit keeps one change for the release of its orders.
Room(us) == \A u \in us : versions[u] + 1 < MaxVersion
Touched(us) == [u \in Units |-> IF u \in us THEN versions[u] + 1 ELSE versions[u]]

Without(us) == [g \in Groups |-> ids[g] \ us]

\* prune: groups without members are forgotten.
Pruned(members) == [g \in Groups |-> IF members[g] = {} THEN NoGoal ELSE goal[g]]

\* take: macro commands the unit directly, and it leaves any group.
Leave(u) ==
  /\ ids' = Without({u})
  /\ casting' = casting \ {u} /\ named' = named \ {u} /\ recent' = recent \ {u}
  /\ held' = held \ {u}
TakeUntouched(u) == Leave(u) /\ UNCHANGED versions
Take(u) == Leave(u) /\ versions' = Touched({u})

Dropped(us) == [u \in Units |-> IF u \in us THEN None ELSE deferred[u]]

\* delegate: the members already heading to the destination the same way, the
\* waiting orders that stay, and the units whose command changes.
Already(g, new) == IF goal[g] # NoGoal /\ goal[g].way = new.way THEN ids[g] ELSE {}
KeptOfOthers(g, us, new) ==
  [u \in Units |-> IF Moving(u, g) /\ u \notin us \cap Already(g, new) THEN None ELSE deferred[u]]
Kept(g, us, new) ==
  [u \in Units |-> IF (Moving(u, g) \/ u \in us) /\ ~(Moving(u, g) /\ u \in us \cap Already(g, new))
                     THEN None ELSE deferred[u]]
Changes(g, us, new) ==
  IF goal[g] = new THEN (ids[g] \ us) \cup (us \ ids[g]) ELSE ids[g] \cup us
-----------------------------------------------------------------------------
(* A new observation: memory.update. *)

\* Casts grow old.  Units that died or changed sides leave the groups; a summoned unit joins its
\* summoner's group, if it has one.  A summoned unit is a new one.  A macro reply may
\* be there to be read, to a request that this act or one before has made.
Observe(seen, gone, summons) ==
  /\ pc = "observe"
  /\ gone \subseteq known \cup seen
  /\ LET new == {s[2] : s \in summons}
         left == Without(gone)
         members == [g \in Groups |-> left[g] \cup {s[2] : s \in {r \in summons : r[1] \in left[g]}}] IN
       /\ new \cap (known \cup Grouped) = {} /\ Room(new)
       /\ known' = (known \cup seen) \ gone /\ own' = seen
       /\ ids' = members
       /\ goal' = IF gone = {} THEN goal ELSE Pruned(left)
       /\ versions' = Touched({u \in new : \E g \in Groups : u \in members[g]})
       /\ deferred' = Dropped(gone)
       /\ pending' = {[c EXCEPT !.lost = @ \cup gone] : c \in pending}
       /\ UNCHANGED followups
  /\ recent' \in SUBSET recent
  /\ pc' \in {"lines", "release"} /\ out' = {}
  /\ UNCHANGED <<casting, named, held, act>>

-----------------------------------------------------------------------------
(* The lines of a macro reply, each applied to Control in turn. *)

Line ==
  /\ pc = "lines" /\ lines < MaxLines
  /\ lines' = lines + 1
  /\ UNCHANGED <<micro, world, pc, wait, landed, busy, out>>

\* Control.cast: a spell or item use for a grouped unit.
Cast(u, byName) ==
  /\ casting' = casting \cup {u} /\ recent' = recent \cup {u}
  /\ named' = IF byName THEN named \cup {u} ELSE named \ {u}
  /\ held' = held \cup {u}
  /\ versions' = Touched({u})

Casts == {"cast", "item"}
Made == Casts \cup {"nothing", "order", "other"}

\* An order for unit u.  It is skipped or refused, or makes an order for the game, a cast,
\* an item use, or something that interrupts no order (production, learning a skill).
\* Only a queued or a production order leaves the unit's waiting orders in place.
Command(u, keeps, makes) ==
  /\ Line /\ u \in known /\ Room({u})
  /\ LET deferring == makes # "nothing" /\ (u \notin own \/ (keeps /\ deferred[u] # None)) IN
       /\ deferred' = [deferred EXCEPT ![u] = IF deferring THEN Orders
                                              ELSE IF keeps THEN @ ELSE None]
       /\ acted' = (acted \/ (makes # "nothing" /\ ~deferring))
       /\ \/ /\ makes = "nothing"
             /\ UNCHANGED <<ids, versions, casts>>
          \/ /\ deferring \/ makes = "order" \/ (makes \in Casts /\ u \notin Grouped)
             /\ Take(u)
          \/ /\ ~deferring /\ makes \in Casts /\ u \in Grouped
             /\ Cast(u, makes = "cast") /\ UNCHANGED ids
          \/ /\ ~deferring /\ makes = "other"
             /\ versions' = Touched({u}) /\ UNCHANGED <<ids, casts>>
  /\ UNCHANGED goal

\* "group": newcomers, or everyone after a change of destination, are sent there,
\* and those that cannot be seen as soon as they can.
Group(g, us, new) ==
  /\ Line /\ us # {} /\ us \subseteq known /\ Room(Changes(g, us, new))
  /\ LET sent == IF new.way = Nowhere THEN {} ELSE us \ Already(g, new) IN
       /\ ids' = [Without(us) EXCEPT ![g] = us]
       /\ goal' = [goal EXCEPT ![g] = new]
       /\ versions' = Touched(Changes(g, us, new))
       /\ deferred' = [u \in Units |-> IF u \in sent \ own THEN Move(g, new.way)
                                       ELSE Kept(g, us, new)[u]]
       /\ acted' = (acted \/ sent \cap own # {})
  /\ UNCHANGED casts

Disband(g) ==
  /\ Line /\ goal[g] # NoGoal /\ Room(ids[g])
  /\ ids' = [ids EXCEPT ![g] = {}] /\ goal' = [goal EXCEPT ![g] = NoGoal]
  /\ deferred' = Dropped({u \in Units : Moving(u, g)})
  /\ versions' = Touched(ids[g])
  /\ UNCHANGED <<casts, acted>>

\* What code adds for unspent skill points and crowded gold mines changes no command.
EndReply ==
  /\ pc = "lines"
  /\ goal' = Pruned(ids)
  /\ acted' \in {acted, TRUE}
  /\ lines' = 0
  /\ pc' = "release"
  /\ UNCHANGED <<ids, deferred, versions, casts, micro, world, wait, landed, busy, out>>
-----------------------------------------------------------------------------
\* Orders.release: waiting orders of units that are seen again.
Release ==
  /\ pc = "release"
  /\ LET us == {u \in own : deferred[u] # None} IN
       /\ deferred' = Dropped(us) /\ versions' = Touched(us)
       /\ acted' \in (IF us = {} THEN {acted} ELSE {acted, TRUE})
  /\ pc' = "adopt"
  /\ UNCHANGED <<ids, goal, casts, micro, world, wait, lines, landed, busy, out>>

\* adopt_idle_fighters: units of no group join the one that has our heroes.
AdoptIdle(g, us) ==
  /\ pc = "adopt"
  /\ us \subseteq own \ Grouped /\ Room(us)
  /\ us # {} => goal[g] # NoGoal /\ ids[g] \cap own # {}
  /\ ids' = [ids EXCEPT ![g] = @ \cup us] /\ versions' = Touched(us)
  /\ pc' = "collect"
  /\ UNCHANGED <<goal, deferred, casts, micro, world, act, out>>
-----------------------------------------------------------------------------
(* The micro agent. *)

UnitsOf(orders) == {o.unit : o \in orders}
Unique(orders) == \A o, p \in orders : o.unit = p.unit => o = p

\* An answer's orders are sent to units that live, that macro has not commanded since, and
\* that code is not moving.
MayOrderStale(c, u, moved) == u \in own /\ u \notin moved
MayOrder(c, u, moved) == u \in own /\ versions[u] = c.ver[u] /\ u \notin moved

Answered(done, moved) ==
  UNION {{Answer(c, u) : u \in {v \in DOMAIN c.ver : MayOrder(c, v, moved)}} : c \in done}

\* collect: of each answer that landed some orders are sent, and some of those are
\* to be followed by a cast once the unit has changed its form.
Collect(done, kept, moved, orders, changing) ==
  /\ orders \subseteq Answered(done, moved)
  /\ changing \subseteq orders /\ Unique(changing)
  /\ pending' = pending \ done
  /\ followups' = {f \in kept : f.unit \notin UnitsOf(changing)} \cup {FollowUp(o) : o \in changing}

\* Control.busy: an entry is dropped when the observation does not list its unit, and from
\* CAST_SECONDS on once the unit is not on the order of that name.
StillCastingTimed(shown, on) == casting \cap shown \cap recent
StillCasting(shown, on) == {u \in casting \cap shown : u \in recent \/ u \in named \cap on}

\* MicroAgent.act up to its new questions.  A follow-up is sent when the unit has its
\* form, and given up with the unit or after FOLLOWUP_SECONDS.  Code moves grouped units
\* (out of danger, to loot, back to their group); a hero of no group that it sends for
\* loot is left out: no call is about it.  shown, on: the casting units the observation
\* lists (a dead one may be), and those whose order is the one macro gave last.
Micro(done, kept, formed, moved, orders, changing, shown, on) ==
  /\ pc = "collect"
  /\ wait => done = pending
  /\ UnitsOf(kept \cup formed) \subseteq own /\ kept \cap formed = {}
  /\ casting \cap own \subseteq shown /\ on \subseteq shown
  /\ casting' = StillCasting(shown, on)
  /\ named' = named \cap casting' /\ recent' = recent \cap casting'
  /\ held' = {u \in held \cap shown : u \in recent \/ u \in named \cap on}
  /\ LET engaged == casting' \cup UnitsOf(kept \cup formed) IN
       /\ moved \subseteq (own \cap Grouped) \ engaged
       /\ busy' = IF acted THEN {} ELSE engaged \cup moved
  /\ Collect(done, kept, moved, orders, changing)
  /\ landed' = IF acted THEN {} ELSE {<<c.group, c.type>> : c \in done}
  /\ out' = orders \cup formed \cup {Coded(u) : u \in moved}
  /\ pc' = (IF acted THEN "observe" ELSE "ask") /\ acted' = FALSE
  /\ UNCHANGED <<control, world, wait, lines>>

\* One call for units of one type in a group, in flight or just answered.  A unit has one
\* type now, and had others before.
UnaskedInFlight(g, t) == <<g, t>> \notin landed
Unasked(g, t) == <<g, t>> \notin landed /\ \A c \in pending : <<c.group, c.type>> # <<g, t>>

Ask(g, t, us) ==
  /\ pc = "ask" /\ Cardinality(pending) < MaxCalls /\ Unasked(g, t)
  /\ us # {} /\ us \subseteq (ids[g] \cap own) \ busy
  /\ pending' = pending \cup {[group |-> g, type |-> t, ver |-> [u \in us |-> versions[u]],
                               goal |-> goal[g], lost |-> {}]}
  /\ busy' = busy \cup us
  /\ out' = {}
  /\ UNCHANGED <<control, casts, followups, world, pc, wait, acted, lines, landed>>

Asked ==
  /\ pc = "ask"
  /\ pc' = IF wait THEN "again" ELSE "observe"
  /\ busy' = {} /\ landed' = {} /\ out' = {}
  /\ UNCHANGED <<control, casts, micro, world, wait, acted, lines>>

\* Stepped play waits for the answers: nothing has changed since the questions.
Again(orders, changing) ==
  /\ pc = "again"
  /\ Collect(pending, followups, {}, orders, changing)
  /\ out' = orders
  /\ pc' = "observe"
  /\ UNCHANGED <<control, casts, world, act>>
-----------------------------------------------------------------------------
MicroStep ==
  \E done \in SUBSET pending, kept \in SUBSET followups :
    \E formed \in SUBSET (followups \ kept), moved \in SUBSET (own \cap Grouped) :
      \E orders \in SUBSET Answered(done, moved) :
        \E changing \in SUBSET orders, shown \in SUBSET casting :
          \E on \in SUBSET (shown \ recent) : Micro(done, kept, formed, moved, orders, changing, shown, on)
MacroLine ==
  \/ \E u \in Units, keeps \in BOOLEAN, makes \in Made :
       Command(u, keeps, makes)
  \/ \E g \in Groups, us \in SUBSET Units, new \in Goal : Group(g, us, new)
  \/ \E g \in Groups : Disband(g)

Next ==
  \/ \E seen \in SUBSET Units : \E gone \in SUBSET (known \cup seen) :
       \E summons \in {{}} \cup {{s} : s \in Units \X (Units \ known)} :
         Observe(seen, gone, summons)
  \/ MacroLine \/ EndReply \/ Release
  \/ \E g \in Groups, us \in SUBSET Units : AdoptIdle(g, us)
  \/ MicroStep
  \/ \E g \in Groups, t \in Types, us \in SUBSET Units : Ask(g, t, us)
  \/ Asked
  \/ \E orders \in SUBSET Answered(pending, {}) :
       \E changing \in SUBSET orders : Again(orders, changing)

Spec == Init /\ [][Next]_vars
-----------------------------------------------------------------------------
(* Correctness. *)

(* A unit is in one group at most: one objective, one micro call's worth of *)
(* orders.                                                                  *)
OneCommander == \A g, h \in Groups : g # h => ids[g] \cap ids[h] = {}

(* Orders that wait for a unit to be seen are what macro wants of it when   *)
(* they are sent: a group's move is for a member, to the group's present    *)
(* destination, and a unit with direct orders waiting is in no group, so    *)
(* that micro does not command it before them.                              *)
DeferredStands ==
  \A u \in Units :
    /\ deferred[u].kind = "move" => u \in ids[deferred[u].group]
                                    /\ goal[deferred[u].group] # NoGoal
                                    /\ goal[deferred[u].group].way = deferred[u].way
    /\ deferred[u] = Orders => u \notin Grouped

(* Each unit has one commander, and what waits for it is from there.        *)
CommandStands == OneCommander /\ DeferredStands

(* Micro orders are for what macro wants of a unit now: it is still in the  *)
(* group it was asked about in, under the same goal, whatever macro ordered *)
(* while the model thought.  Left out are units that were lost meanwhile    *)
(* and came back (lose does not count as a change of command).              *)
AnswerStands ==
  \A o \in out : o.kind = "answer" /\ o.unit \notin o.call.lost =>
    o.unit \in ids[o.call.group] /\ goal[o.call.group] = o.call.goal

(* After macro's cast or item use for a grouped unit "micro leaves it alone *)
(* [for] CAST_SECONDS, or longer while the unit is still on that order"     *)
(* (Control.cast): neither late answers nor code's own moves reach the unit *)
(* before an act that finds the time over and the unit on no order of that  *)
(* name, or does not see the unit.  An item use has no name.  What is sent  *)
(* may well cut a cast that waits in the unit's queue, or an item use that  *)
(* takes longer.                                                            *)
CastLeftAlone == \A o \in out : o.kind # "followup" => o.unit \notin held

(* "A micro answer is sent only for units whose versions are still the ones *)
(* it was asked under" (control.py): the cast it chose for after a change   *)
(* of form too.                                                             *)
AnswersAreCurrent ==
  \A o \in out : o.kind # "code" => o.ver = versions[o.unit]
=============================================================================
