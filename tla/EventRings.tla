----------------------------- MODULE EventRings -----------------------------
(***************************************************************************)
(* The event and order rings of the players (wc3hook/events.c), and the    *)
(* observations that consume them (wc3hook/observe.c, gather, and          *)
(* wc3hook/rpc.c, observe_job and binary_job).                             *)
(*                                                                         *)
(* All of it runs on the game thread.  The game fires events between       *)
(* observations; each goes to the ring of every player who could see it    *)
(* then.  Heads and cursors are unsigned words that wrap, and the slots    *)
(* are overwritten whether they were read or not.  An observation consumes *)
(* what is unread as it is written, before it is known to fit: a request   *)
(* that fails, for this player or a later one, tells of none of it.        *)
(*                                                                         *)
(* A definition named after another and a slip in it is no part of the     *)
(* specification: it is what the code must not do.                         *)
(***************************************************************************)
EXTENDS Integers, Sequences

CONSTANTS
  Players,
  EvCap, OrdCap,  \* EV_CAP, ORD_CAP
  Word,           \* 2^32: heads and cursors are below it
  MaxRecords,     \* bound: records made in all games
  NoNews,         \* told to a player who is not observed
  NoRecord        \* an empty slot

ASSUME ConstantsAssumption ==
  /\ {EvCap, OrdCap, Word} \subseteq Nat \ {0} /\ MaxRecords \in Nat
  /\ \E m \in 2 .. Word : Word = EvCap * m
  /\ \E m \in 2 .. Word : Word = OrdCap * m

VARIABLES
  playing,  \* g_players
  ring,     \* g_ev, g_ord: the slots of each kind and player
  head,     \* g_ev_head, g_ord_head
  cursor,   \* g_cursor, g_ord_cursor
  made,     \* history: records made
  log,      \* history: those each player could see since the game began
  told      \* history: what the step tells each player

vars == <<playing, ring, head, cursor, made, log, told>>

Kinds == {"events", "orders"}
Cap(k) == IF k = "events" THEN EvCap ELSE OrdCap
Slots(k) == 0 .. Cap(k) - 1

\* All that is kept here of a record is who could see the second unit it names; a player is
\* told the unit or 0.  Orders are told whole.
Records == SUBSET Players
News == [lost : Nat, records : Seq(BOOLEAN)]

\* The records no observation has consumed, by head and cursor.
Unread(k, p) == (head[k][p] - cursor[k][p]) % Word

TypeOK ==
  /\ playing \subseteq Players
  /\ DOMAIN ring = Kinds
  /\ \A k \in Kinds : ring[k] \in [Players -> [Slots(k) -> Records \cup {NoRecord}]]
  /\ {head, cursor} \subseteq [Kinds -> [Players -> 0 .. Word - 1]]
  /\ made \in 0 .. MaxRecords
  /\ log \in [Kinds -> [Players -> Seq(Records)]]
  /\ told \in [Players -> [Kinds -> News] \cup {NoNews}]
  /\ \A k \in Kinds, p \in Players : Unread(k, p) <= Len(log[k][p])

Each(x) == [k \in Kinds |-> [p \in Players |-> x]]
Silent == [p \in Players |-> NoNews]

Init ==
  /\ playing = {}
  /\ ring = [k \in Kinds |-> [p \in Players |-> [i \in Slots(k) |-> NoRecord]]]
  /\ head = Each(0) /\ cursor = Each(0)
  /\ made = 0 /\ log = Each(<<>>) /\ told = Silent
-----------------------------------------------------------------------------
SetPlayersOnly(mask) ==
  /\ playing' = mask /\ head' = Each(0) /\ log' = Each(<<>>) /\ told' = Silent
  /\ UNCHANGED <<ring, cursor, made>>

\* events_set_players: a new game starts counting anew.  What the slots hold stays there.
SetPlayers(mask) ==
  /\ playing' = mask
  /\ head' = Each(0) /\ cursor' = Each(0)
  /\ log' = Each(<<>>) /\ told' = Silent
  /\ UNCHANGED <<ring, made>>

\* Bound: no player leaves as many records unread as a word counts.
Countable(k, p) == Unread(k, p) < Word - 1

Slot(k, count) == count % Cap(k)

Record(kind, e, who) ==
  /\ \A p \in who : Countable(kind, p)
  /\ ring' = [k \in Kinds |-> [p \in Players |->
                IF k = kind /\ p \in who THEN [ring[k][p] EXCEPT ![Slot(k, head[k][p])] = e]
                ELSE ring[k][p]]]
  /\ head' = [k \in Kinds |-> [p \in Players |->
                IF k = kind /\ p \in who THEN (head[k][p] + 1) % Word ELSE head[k][p]]]
  /\ log' = [k \in Kinds |-> [p \in Players |->
               IF k = kind /\ p \in who THEN Append(log[k][p], e) ELSE log[k][p]]]
  /\ made' = made + 1 /\ told' = Silent
  /\ UNCHANGED <<playing, cursor>>

\* ev_record: the owner sees it, and every player whose fog shows it.
EvRecord(owner, fog, other) ==
  /\ playing # {} /\ made < MaxRecords
  /\ Record("events", other \cap playing, ({owner} \cup fog) \cap playing)

\* order_record: a unit's orders are its owner's alone.
OrderRecord(owner) ==
  /\ owner \in playing /\ made < MaxRecords
  /\ Record("orders", {owner}, {owner})
-----------------------------------------------------------------------------
\* event_record: a second unit the player could not see is left out.
View(e, p) == p \in e

\* events_gather, orders_gather: the records lost, and the others from the oldest.
LostFromCursor(k, p) == IF head[k][p] > cursor[k][p] + Cap(k) THEN head[k][p] - cursor[k][p] - Cap(k) ELSE 0
Lost(k, p) == IF Unread(k, p) > Cap(k) THEN Unread(k, p) - Cap(k) ELSE 0
From(k, p) == (IF Lost(k, p) > 0 THEN head[k][p] - Cap(k) ELSE cursor[k][p]) % Word
Gather(k, p) ==
  [lost |-> Lost(k, p),
   records |-> [i \in 1 .. (head[k][p] - From(k, p)) % Word |->
                  View(ring[k][p][Slot(k, (From(k, p) + i - 1) % Word)], p)]]

\* A request for the players of who: written one after another until one does not fit.
Observe(who, ok) ==
  /\ told' = [p \in Players |-> IF ok /\ p \in who THEN [k \in Kinds |-> Gather(k, p)] ELSE NoNews]
  /\ cursor' = [k \in Kinds |-> [p \in Players |-> IF p \in who THEN head[k][p] ELSE cursor[k][p]]]
  /\ UNCHANGED <<playing, ring, head, made, log>>
-----------------------------------------------------------------------------
Next ==
  \/ \E mask \in SUBSET Players : SetPlayers(mask)
  \/ \E owner \in Players, other \in SUBSET playing : \E fog \in SUBSET (playing \ {owner}) :
       EvRecord(owner, fog, other)
  \/ \E owner \in Players : OrderRecord(owner)
  \/ \E who \in SUBSET Players, ok \in BOOLEAN : Observe(who, ok)

Spec == Init /\ [][Next]_vars
-----------------------------------------------------------------------------
(* Correctness. *)

(* Each player is told what EventLog promises, however the rings and their  *)
(* counters wrap: every record it could see exactly once, in order, or      *)
(* counted as lost, and none that another game or player left in a slot.    *)
Promise == INSTANCE EventLog
             WITH read <- [k \in Kinds |-> [p \in Players |-> Len(log[k][p]) - Unread(k, p)]]

ImplementsLog == Promise!LSpec
=============================================================================
