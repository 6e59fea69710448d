---------------------------- MODULE VectorSession ----------------------------
(***************************************************************************)
(* Many games in worker processes (wc3env/vector.py): VectorSession in the *)
(* host, and the worker (_serve) that plays a group of them.               *)
(*                                                                         *)
(* One thread uses the session.  Messages for a game go to its worker,     *)
(* which answers them in order, in a thread for each game; a drain thread  *)
(* for each worker puts the replies of all its games into one queue, and   *)
(* _take picks from it: the next reply of one game, or of any.  Workers    *)
(* may die at any time, also in the middle of writing a reply.             *)
(*                                                                         *)
(* A definition named after another and a slip in it is no part of the     *)
(* specification: it is what the code must not do.                         *)
(***************************************************************************)
EXTENDS Integers, Sequences

CONSTANTS
  NGames,      \* len(configs)
  GroupSizes,  \* values of group_size to consider
  Remotes,     \* whether workers are behind a connection (RemoteWorker): cases to consider
  MaxAsked,    \* bound: messages to a game
  Torn         \* a part of a reply, cut off after its length

Games == 0 .. NGames - 1
Kinds == {"reset", "step", "query"}
Message == [game : Games, number : Nat, kind : Kinds]
\* A reply names the message it answers; number 0 is that of the drain thread itself.
Reply == [game : Games, number : Nat, kind : Kinds \cup {"exited"}, ok : BOOLEAN]

ASSUME ConstantsAssumption ==
  /\ {NGames, MaxAsked} \subseteq Nat \ {0} /\ GroupSizes \subseteq Nat \ {0}
  /\ Remotes \subseteq BOOLEAN /\ Torn \notin Reply

VARIABLES
  groupSize, remote,  \* how the session was made
  \* the host: _busy, the replies it has (_waiting, then _results), the call it is in
  busy, replies, call,
  \* each worker: whether it runs, what it has written; its drain thread
  up, out, drain,
  inbox,              \* the messages a worker has for each game, the one it works on first
  asked,              \* history: messages to each game, which number them
  mixed,              \* history: a reset met, or left, a game that is busy
  lost                \* history: games sent a message after the last word of their worker

config == <<groupSize, remote>>
host == <<busy, replies, call>>
workers == <<up, out, drain, inbox>>
history == <<asked, mixed, lost>>
vars == <<config, host, workers, history>>

Where(i) == i \div groupSize
Workers == {Where(i) : i \in Games}
Group(w) == {i \in Games : Where(i) = w}

Answer(m, ok) == [game |-> m.game, number |-> m.number, kind |-> m.kind, ok |-> ok]
Exited(i) == [game |-> i, number |-> 0, kind |-> "exited", ok |-> FALSE]

Call == [op : {"none", "send_all", "take_all", "take", "recv", "close"}, game : Games, kind : Kinds]
NoCall == [op |-> "none", game |-> 0, kind |-> "reset"]

TypeOK ==
  /\ groupSize \in GroupSizes /\ remote \in Remotes
  /\ busy \subseteq Games /\ replies \in Seq(Reply) /\ call \in Call
  /\ call.op \in {"take", "take_all"} => mixed \/ call.game \in busy
  /\ call.op = "recv" => busy # {}
  /\ up \in [Workers -> BOOLEAN] /\ out \in [Workers -> Seq(Reply \cup {Torn})]
  /\ drain \in [Workers -> {"reads", "over", "failed"}]
  /\ inbox \in [Games -> Seq(Message)]
  /\ asked \in [Games -> 0 .. MaxAsked] /\ mixed \in BOOLEAN /\ lost \subseteq Games

Init ==
  /\ groupSize \in GroupSizes /\ remote \in Remotes
  /\ busy = {} /\ replies = <<>> /\ call = NoCall
  /\ up = [w \in Workers |-> TRUE] /\ out = [w \in Workers |-> <<>>]
  /\ drain = [w \in Workers |-> "reads"]
  /\ inbox = [i \in Games |-> <<>>]
  /\ asked = [i \in Games |-> 0] /\ mixed = FALSE /\ lost = {}
-----------------------------------------------------------------------------
(* The host: messages out. *)

Idle == call.op = "none"
Of(i) == {k \in DOMAIN replies : replies[k].game = i}

\* _send.  A write to a worker that is gone fails; on a connection it may go unnoticed.
Outcomes(i) == IF up[Where(i)] THEN {TRUE} ELSE {FALSE, remote}

SendTo(i, kind) ==
  /\ asked[i] < MaxAsked
  /\ asked' = [asked EXCEPT ![i] = @ + 1]
  /\ busy' = busy \cup {i}
  /\ inbox' = IF up[Where(i)]
                THEN [inbox EXCEPT ![i] = Append(@, [game |-> i, number |-> asked[i] + 1, kind |-> kind])]
                ELSE inbox
  /\ lost' = IF drain[Where(i)] # "reads" /\ Of(i) = {} THEN lost \cup {i} ELSE lost
  /\ UNCHANGED <<config, replies, up, out, drain>>

\* send, stage: they return at once.
Send(i) == Idle /\ i \notin busy /\ SendTo(i, "step") /\ UNCHANGED <<call, mixed>>

SendAndTake(i, kind) ==
  /\ Idle /\ SendTo(i, kind)
  /\ \E ok \in Outcomes(i) :
       call' = IF ok THEN [op |-> "take", game |-> i, kind |-> kind] ELSE NoCall

\* debug, save_replay
Query(i) == i \notin busy /\ SendAndTake(i, "query") /\ UNCHANGED mixed

\* reset_one, and reset: they do not ask whether the game is busy.
ResetOne(i) == SendAndTake(i, "reset") /\ mixed' = (mixed \/ i \in busy)

Start(op) == call' = [NoCall EXCEPT !.op = op] /\ UNCHANGED <<config, busy, replies, workers, history>>

Reset == Idle /\ Start("send_all")

\* A write that fails leaves the games before it busy.
ResetSend ==
  LET i == call.game IN
  /\ call.op = "send_all" /\ SendTo(i, "reset")
  /\ \E ok \in Outcomes(i) :
       /\ mixed' = (mixed \/ i \in busy \/ (~ok /\ busy # {}))
       /\ call' = IF ~ok THEN NoCall
                  ELSE IF i + 1 \in Games THEN [call EXCEPT !.game = i + 1]
                  ELSE [call EXCEPT !.op = "take_all", !.game = 0]
-----------------------------------------------------------------------------
(* The host: replies in. *)

\* recv: nothing comes when no game is busy.
RecvAnyway == Idle /\ Start("recv")
Recv == Idle /\ busy # {} /\ Start("recv")

RecvNone ==
  /\ call.op = "recv" /\ replies = <<>>
  /\ call' = NoCall
  /\ UNCHANGED <<config, busy, replies, workers, history>>

\* _take: the first reply of the game, if one is named, else of any.
MatchesAny(r) == call.op \in {"recv", "take", "take_all"}
Matches(r) == call.op = "recv" \/ (call.op \in {"take", "take_all"} /\ r.game = call.game)
Picked(k) == Matches(replies[k]) /\ \A j \in 1 .. k - 1 : ~Matches(replies[j])

Without(k) == SubSeq(replies, 1, k - 1) \o SubSeq(replies, k + 1, Len(replies))

\* An error is raised: out of reset too, whose other games stay busy.
Take(k) ==
  LET r == replies[k]
      more == r.ok /\ call.op = "take_all" /\ call.game + 1 \in Games IN
  /\ Picked(k)
  /\ replies' = Without(k) /\ busy' = busy \ {r.game}
  /\ call' = IF more THEN [call EXCEPT !.game = @ + 1] ELSE NoCall
  /\ mixed' = (mixed \/ (call.op = "take_all" /\ ~r.ok /\ busy' # {}))
  /\ UNCHANGED <<config, workers, asked, lost>>

\* close: the end of input to each worker, and a kill for those that outlast it.
Close == Idle /\ Start("close")

Kill(w) ==
  /\ call.op = "close" /\ up[w]
  /\ up' = [up EXCEPT ![w] = FALSE]
  /\ inbox' = [i \in Games |-> IF Where(i) = w THEN <<>> ELSE inbox[i]]
  /\ UNCHANGED <<config, host, out, drain, history>>
-----------------------------------------------------------------------------
(* The drain threads. *)

Drain(w) ==
  /\ drain[w] = "reads" /\ out[w] # <<>> /\ Head(out[w]) # Torn
  /\ replies' = Append(replies, Head(out[w])) /\ out' = [out EXCEPT ![w] = Tail(@)]
  /\ UNCHANGED <<config, busy, call, up, drain, inbox, history>>

AtEnd(w) == drain[w] = "reads" /\ ~up[w] /\ out[w] = <<>>

\* A worker that exits fails its games.
FailedInNone(w) == <<>>
FailedIn(w) ==
  LET first == w * groupSize
      size == IF first + groupSize <= NGames THEN groupSize ELSE NGames - first IN
  [n \in 1 .. size |-> Exited(first + n - 1)]

DrainEnds(w) ==
  /\ AtEnd(w)
  /\ replies' = replies \o FailedIn(w) /\ drain' = [drain EXCEPT ![w] = "over"]
  /\ UNCHANGED <<config, busy, call, up, out, inbox, history>>

\* The thread ends by an exception: a reply that cannot be read, a connection that is reset.
DrainFails(w) ==
  /\ drain[w] = "reads" /\ ~up[w]
  /\ remote \/ (out[w] # <<>> /\ Head(out[w]) = Torn)
  /\ drain' = [drain EXCEPT ![w] = "failed"] /\ out' = [out EXCEPT ![w] = <<>>]
  /\ UNCHANGED <<config, host, up, inbox, history>>
-----------------------------------------------------------------------------
(* The workers. *)

\* A game's thread answers one message after another, whatever becomes of it.
Serve(i, ok) ==
  /\ up[Where(i)] /\ inbox[i] # <<>>
  /\ out' = [out EXCEPT ![Where(i)] = Append(@, Answer(Head(inbox[i]), ok))]
  /\ inbox' = [inbox EXCEPT ![i] = Tail(@)]
  /\ UNCHANGED <<config, host, up, drain, history>>

\* The process dies, perhaps with a part of a reply written.
Dies(w) ==
  /\ up[w]
  /\ up' = [up EXCEPT ![w] = FALSE]
  /\ inbox' = [i \in Games |-> IF Where(i) = w THEN <<>> ELSE inbox[i]]
  /\ \/ out' = out
     \/ (\E i \in Group(w) : inbox[i] # <<>>) /\ out' = [out EXCEPT ![w] = Append(@, Torn)]
  /\ UNCHANGED <<config, host, drain, history>>

\* At the end of its input: when each game has handled what was sent before.
Exits(w) ==
  /\ call.op = "close" /\ up[w] /\ \A i \in Group(w) : inbox[i] = <<>>
  /\ up' = [up EXCEPT ![w] = FALSE]
  /\ UNCHANGED <<config, host, out, drain, inbox, history>>
-----------------------------------------------------------------------------
HostCall ==
  \/ \E i \in Games : Send(i) \/ Query(i) \/ ResetOne(i)
  \/ Reset \/ Recv \/ Close
TakeNext == \E k \in DOMAIN replies : Take(k)
DrainStep(w) == Drain(w) \/ DrainEnds(w) \/ DrainFails(w)
ServeStep(i) == \E ok \in BOOLEAN : Serve(i, ok)

Next ==
  \/ HostCall \/ ResetSend \/ TakeNext \/ RecvNone
  \/ \E w \in Workers : DrainStep(w) \/ Dies(w) \/ Exits(w) \/ Kill(w)
  \/ \E i \in Games : ServeStep(i)

Spec == Init /\ [][Next]_vars

\* Inside a call the host goes on, drain threads are scheduled, and every request to a
\* game has a deadline.
Fairness ==
  /\ WF_vars(ResetSend) /\ WF_vars(TakeNext)
  /\ \A i \in Games : WF_vars(ServeStep(i))
  /\ \A w \in 0 .. NGames - 1 : WF_vars(w \in Workers /\ DrainStep(w)) /\ WF_vars(w \in Workers /\ Kill(w))

FairSpec == Spec /\ Fairness
-----------------------------------------------------------------------------
(* Correctness. *)

(* A call returns the answer to its own message: recv that of a step, the   *)
(* last one of its game, and the others that of what they sent, whichever   *)
(* games answer first and whatever workers die.  Left out is what follows   *)
(* a reset of a busy game, or a reset that has raised an error and left     *)
(* others busy: their replies then answer later calls.                      *)
Answers(r) ==
  /\ r.number = asked[r.game] /\ r.game \in busy
  /\ r.kind = (IF call.op = "recv" THEN "step" ELSE call.kind)
OwnAnswers == \A k \in DOMAIN replies : Picked(k) /\ replies[k].kind # "exited" => Answers(replies[k])
AnswersMatch == ~mixed => OwnAnswers

(* "A worker that exits fails its games" (_drain): a busy game's reply is   *)
(* on the way, or its worker's end has been told or will be.  That does not *)
(* hold when the drain thread fails: a reply cut off by the death of its    *)
(* worker, or a connection that is reset, ends it before it has told.       *)
ExitsAreTold == \A i \in busy \ lost : drain[Where(i)] = "reads" \/ Of(i) # {}

(* Every call returns, unless it waits for a game whose worker's drain      *)
(* thread has failed, or that was sent a message after its worker's end was *)
(* told.                                                                    *)
Told(i) == i \notin lost /\ drain[Where(i)] # "failed"
Expected == CASE call.op = "recv" -> {i \in busy : Told(i)}
              [] call.op \in {"take", "take_all"} -> {i \in {call.game} : Told(i)}
              [] OTHER -> {}
CallsReturn == Expected # {} ~> Expected = {} \/ Idle
=============================================================================
