------------------------------ MODULE EventLog ------------------------------
(***************************************************************************)
(* What a player is promised about events and orders                       *)
(* (docs/specs/observations.md), with no rings or cursors in sight.  All   *)
(* that the player could see since the game began is kept in order.  Each  *)
(* observation gives what is new of it, oldest first, except that only the *)
(* latest Cap records are kept, and says how many came before those.  What *)
(* an observation consumed is not told again, even if its request failed.  *)
(***************************************************************************)
EXTENDS Integers, Sequences

CONSTANTS
  Players,
  EvCap, OrdCap,  \* records kept of each kind
  NoNews          \* told to a player who is not observed

VARIABLES
  playing,  \* players whose events are kept
  log,      \* of each kind, what each player could see since the game began
  read,     \* how much of it earlier observations consumed
  told      \* what the step tells each player

lvars == <<playing, log, read, told>>

Kinds == {"events", "orders"}
Cap(k) == IF k = "events" THEN EvCap ELSE OrdCap

\* Of a record: the players who could see the second unit it names.
Records == SUBSET Players
View(e, p) == p \in e

Empty(x) == [k \in Kinds |-> [p \in Players |-> x]]
Silent == [p \in Players |-> NoNews]

LInit == playing = {} /\ log = Empty(<<>>) /\ read = Empty(0) /\ told = Silent

NewGame(mask) ==
  /\ playing' = mask
  /\ log' = Empty(<<>>) /\ read' = Empty(0) /\ told' = Silent

Happens(kind, e, who) ==
  /\ who \subseteq playing
  /\ log' = [k \in Kinds |-> [p \in Players |->
               IF k = kind /\ p \in who THEN Append(log[k][p], e) ELSE log[k][p]]]
  /\ told' = Silent
  /\ UNCHANGED <<playing, read>>

News(k, p) ==
  LET new == Len(log[k][p]) - read[k][p]
      lost == IF new > Cap(k) THEN new - Cap(k) ELSE 0 IN
    [lost |-> lost, records |-> [i \in 1 .. new - lost |-> View(log[k][p][read[k][p] + lost + i], p)]]

\* One request observes some players; if it fails, nobody is told anything.
Observe(who, ok) ==
  /\ read' = [k \in Kinds |-> [p \in Players |-> IF p \in who THEN Len(log[k][p]) ELSE read[k][p]]]
  /\ told' = [p \in Players |-> IF ok /\ p \in who THEN [k \in Kinds |-> News(k, p)] ELSE NoNews]
  /\ UNCHANGED <<playing, log>>

LNext ==
  \/ \E mask \in SUBSET Players : NewGame(mask)
  \/ \E kind \in Kinds, e \in Records, who \in SUBSET Players : Happens(kind, e, who)
  \/ \E who \in SUBSET Players, ok \in BOOLEAN : Observe(who, ok)

LSpec == LInit /\ [][LNext]_lvars
=============================================================================
