------------------------------- MODULE RpcCall -------------------------------
(***************************************************************************)
(* What a caller of RpcClient.call (wc3env/rpc.py) may rely on, with no    *)
(* pipe, buffers or threads in sight.  Calls are made one after another.   *)
(* The game serves requests one at a time, each at most once, in the order *)
(* of the calls.  A call that returns was served, and returns the answer   *)
(* to its own request.  A call that fails may have been served, or may     *)
(* still be later, but never after the request of a later call.            *)
(***************************************************************************)
EXTENDS Integers

CONSTANT MaxCalls  \* bound: calls made

Calls == 1 .. MaxCalls

VARIABLES
  last,   \* the last call made
  phase,  \* of each call
  reply,  \* the request whose answer the call returned
  ran     \* the requests that were served

cvars == <<last, phase, reply, ran>>

CInit ==
  /\ last = 0
  /\ phase = [i \in Calls |-> "none"]
  /\ reply = [i \in Calls |-> 0]
  /\ ran = {}

Open == last > 0 /\ phase[last] = "open"

\* The call before is over.  One that cannot be sent, or not in time, fails at once.
Make ==
  /\ ~Open /\ last < MaxCalls
  /\ last' = last + 1
  /\ \E p \in {"open", "failed"} : phase' = [phase EXCEPT ![last + 1] = p]
  /\ UNCHANGED <<reply, ran>>

Serve(i) ==
  /\ phase[i] # "none"
  /\ \A j \in ran : j < i
  /\ ran' = ran \cup {i}
  /\ UNCHANGED <<last, phase, reply>>

Return ==
  /\ Open /\ last \in ran
  /\ phase' = [phase EXCEPT ![last] = "answered"]
  /\ reply' = [reply EXCEPT ![last] = last]
  /\ UNCHANGED <<last, ran>>

Fail ==
  /\ Open
  /\ phase' = [phase EXCEPT ![last] = "failed"]
  /\ UNCHANGED <<last, reply, ran>>

CNext == Make \/ Return \/ Fail \/ \E i \in Calls : Serve(i)

CSpec == CInit /\ [][CNext]_cvars
=============================================================================
