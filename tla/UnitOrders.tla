----------------------------- MODULE UnitOrders -----------------------------
(***************************************************************************)
(* What a client may rely on when its actions are accepted (act.c), with   *)
(* no records, selections, packets or queues of bytes in sight.  An order  *)
(* is its unit's own.  Orders wait, in the order of acceptance, until all  *)
(* of them are given at once; no game time passes over one that waits.  A  *)
(* unit that died meanwhile does nothing of what it was told.              *)
(***************************************************************************)
EXTENDS Integers, Sequences

CONSTANTS Players, Units, Owner, Sites, Tasks, Production, MaxTime

VARIABLES
  orders, \* of each player, accepted and not yet given
  plan,   \* what each unit is to do
  alive, time

uvars == <<orders, plan, alive, time>>

Deeds == Sites \cup Tasks \cup Production
Asks == [unit : Units, what : Deeds, queued : BOOLEAN]

UInit ==
  /\ orders = [p \in Players |-> <<>>] /\ plan = [u \in Units |-> <<>>]
  /\ alive = Units /\ time = 0

\* A unit has one owner; what a building or a shop makes is asked of it by others too.
\* (An order is accepted if there is one more: said first, for TLC.)
Accept(p) ==
  /\ orders' # orders
  /\ UNCHANGED <<plan, alive, time>>
  /\ \E ask \in Asks :
       /\ ask.unit \in alive /\ (ask.what \notin Production => Owner[ask.unit] = p)
       /\ orders' = [orders EXCEPT ![p] = Append(@, ask)]

\* An order replaces what a unit is at, or is put after it.
Doing(todo, ask) ==
  IF ask.what \in Production THEN todo
  ELSE IF ask.queued THEN Append(todo, [what |-> ask.what, at |-> time])
       ELSE <<[what |-> ask.what, at |-> time]>>

\* What u is to do after the orders that are its own.
Told(u, asked) ==
  LET todo[n \in 0 .. Len(asked)] ==
        IF n = 0 THEN plan[u]
        ELSE IF asked[n].unit = u THEN Doing(todo[n - 1], asked[n]) ELSE todo[n - 1]
  IN todo[Len(asked)]

Give ==
  /\ \E p \in Players : orders[p] # <<>>
  /\ orders' = [p \in Players |-> <<>>]
  /\ plan' = [u \in Units |-> IF u \in alive /\ Owner[u] \in Players THEN Told(u, orders[Owner[u]]) ELSE plan[u]]
  /\ UNCHANGED <<alive, time>>

Pass ==
  /\ \A p \in Players : orders[p] = <<>>
  /\ time < MaxTime /\ time' = time + 1
  /\ UNCHANGED <<orders, plan, alive>>

Finish(u) ==
  /\ plan[u] # <<>> /\ plan' = [plan EXCEPT ![u] = Tail(@)]
  /\ UNCHANGED <<orders, alive, time>>

Die(u) ==
  /\ u \in alive
  /\ alive' = alive \ {u} /\ plan' = [plan EXCEPT ![u] = <<>>]
  /\ UNCHANGED <<orders, time>>

\* A new episode, with nothing of the one before.
Reload ==
  /\ orders' = [p \in Players |-> <<>>] /\ plan' = [u \in Units |-> <<>>]
  /\ alive' = Units /\ time' = 0

UNext ==
  \/ Give \/ Pass \/ Reload
  \/ \E p \in Players : Accept(p)
  \/ \E u \in Units : Finish(u) \/ Die(u)

USpec == UInit /\ [][UNext]_uvars
=============================================================================
