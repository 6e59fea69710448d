--------------------------- MODULE GameThreadCall ---------------------------
(***************************************************************************)
(* What a caller of run_on_game_thread (wc3hook/rpc.c) may rely on, with   *)
(* no mailbox, events or timeouts in sight: a call is executed at most     *)
(* once, by the one game thread, strictly between the moment it is made    *)
(* and the moment it is answered, and "true" is answered only for a call   *)
(* that ran to its end without a fault.  A call answered "false" may have  *)
(* run: the caller cannot tell.                                            *)
(***************************************************************************)
CONSTANT Callers

VARIABLES
  call,    \* the stage of each caller's current call
  reply    \* what each caller's last call answered

avars == <<call, reply>>

Stages == {"idle", "made", "running", "ran", "faulted"}

AInit ==
  /\ call = [c \in Callers |-> "idle"]
  /\ reply = [c \in Callers |-> FALSE]

Make(c) ==
  /\ call[c] = "idle"
  /\ call' = [call EXCEPT ![c] = "made"]
  /\ UNCHANGED reply

\* The game thread is one thread: it runs no second call inside a first.
Start(c) ==
  /\ call[c] = "made"
  /\ \A d \in Callers : call[d] # "running"
  /\ call' = [call EXCEPT ![c] = "running"]
  /\ UNCHANGED reply

Finish(c) ==
  /\ call[c] = "running"
  /\ \E end \in {"ran", "faulted"} : call' = [call EXCEPT ![c] = end]
  /\ UNCHANGED reply

Answer(c) ==
  /\ call[c] \in {"made", "ran", "faulted"}
  /\ \E ok \in BOOLEAN :
       /\ ok => call[c] = "ran"
       /\ reply' = [reply EXCEPT ![c] = ok]
  /\ call' = [call EXCEPT ![c] = "idle"]

ANext == \E c \in Callers : Make(c) \/ Start(c) \/ Finish(c) \/ Answer(c)

ASpec == AInit /\ [][ANext]_avars
=============================================================================
