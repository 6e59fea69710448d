----------------------------- MODULE JobMailbox -----------------------------
(***************************************************************************)
(* The one-slot mailbox through which the hook's pipe thread runs code on  *)
(* the game thread (wc3hook/rpc.c, run_on_game_thread and                  *)
(* rpc_service_jobs), together with the two places the game thread serves  *)
(* it from: every frame (step.c, frame_seen and GameUpdate_hook) and the   *)
(* frame loop's pacing wait (clock.c, WFSO_hook), where it may be asleep.  *)
(*                                                                         *)
(* A job's argument lives on its caller's stack, so the slot names a job   *)
(* by its caller.  Every read or write of a shared word, event or lock is  *)
(* a step of its own.                                                      *)
(*                                                                         *)
(* A definition named after an action and a slip in it (WithdrawAtOnce,    *)
(* WakeMissing, ...) is no part of the specification: it is what the code  *)
(* must not do, kept to show which property would notice.                  *)
(***************************************************************************)
EXTENDS Integers

CONSTANTS
  Callers,     \* threads that call run_on_game_thread (today: the pipe thread)
  NoCaller     \* the empty slot, the free lock

ASSUME NoCallerAssumption == NoCaller \notin Callers

VARIABLES
  lock,        \* g_job_lock: its owner
  pending,     \* g_job_pending: 0 idle, 1 posted, 2 running
  arg,         \* g_job_fn and g_job_arg: whose job the slot holds
  failed,      \* g_job_failed
  done,        \* g_job_done: a manual-reset event
  wake,        \* g_wake: an auto-reset event
  tls,         \* g_frame_tls is known
  pc,          \* where each caller is in run_on_game_thread
  late,        \* per caller: the timed wait did not return WAIT_OBJECT_0
  game,        \* where the game thread is
  site,        \* the service call the game thread returns to after a job
  outcome,     \* history: what became of each caller's current job
  answer       \* what each caller's last call returned

vars == <<lock, pending, arg, failed, done, wake, tls, pc, late, game, site,
          outcome, answer>>
callerVars == <<lock, pc, late, outcome, answer>>
gameVars == <<tls, game, site>>

\* Inside the call with the lock held, before and after the job is posted.
Filling == {"reset", "fill", "post"}
Posted == {"wake", "wait", "withdraw", "waitout"}
CallerPc == {"idle", "enter", "leave"} \cup Filling \cup Posted
Sites == {"frame", "gate", "woken"}
Serving == {"run", "clear", "signal"}
GamePc == Sites \cup Serving \cup {"asleep"}

TypeOK ==
  /\ lock \in Callers \cup {NoCaller}
  /\ pending \in {0, 1, 2}
  /\ arg \in Callers \cup {NoCaller}
  /\ failed \in BOOLEAN /\ done \in BOOLEAN /\ wake \in BOOLEAN /\ tls \in BOOLEAN
  /\ pc \in [Callers -> CallerPc]
  /\ late \in [Callers -> BOOLEAN]
  /\ game \in GamePc
  /\ site \in Sites
  /\ outcome \in [Callers -> {"none", "ran", "faulted"}]
  /\ answer \in [Callers -> BOOLEAN]

\* rpc_init and clock_init_hooks: both events unset, nothing posted, and the
\* game thread has not yet been seen in a frame.
Init ==
  /\ lock = NoCaller /\ pending = 0 /\ arg = NoCaller
  /\ failed = FALSE /\ done = FALSE /\ wake = FALSE /\ tls = FALSE
  /\ pc = [c \in Callers |-> "idle"]
  /\ late = [c \in Callers |-> FALSE]
  /\ game = "frame" /\ site = "frame"
  /\ outcome = [c \in Callers |-> "none"]
  /\ answer = [c \in Callers |-> FALSE]

Goto(c, from, to) == pc[c] = from /\ pc' = [pc EXCEPT ![c] = to]
-----------------------------------------------------------------------------
(* The caller: run_on_game_thread, from a thread other than the game's. *)

Call(c) ==
  /\ Goto(c, "idle", "enter")
  /\ outcome' = [outcome EXCEPT ![c] = "none"]
  /\ UNCHANGED <<lock, pending, arg, failed, done, wake, late, answer, gameVars>>

Enter(c) ==
  /\ lock = NoCaller
  /\ Goto(c, "enter", "reset")
  /\ lock' = c
  /\ UNCHANGED <<pending, arg, failed, done, wake, late, outcome, answer, gameVars>>

ResetDone(c) ==
  /\ Goto(c, "reset", "fill")
  /\ done' = FALSE
  /\ UNCHANGED <<lock, pending, arg, failed, wake, late, outcome, answer, gameVars>>

Fill(c) ==
  /\ Goto(c, "fill", "post")
  /\ arg' = c
  /\ failed' = FALSE
  /\ UNCHANGED <<lock, pending, done, wake, late, outcome, answer, gameVars>>

Post(c) ==
  /\ Goto(c, "post", "wake")
  /\ pending' = 1
  /\ UNCHANGED <<lock, arg, failed, done, wake, late, outcome, answer, gameVars>>

WakeMissing(c) ==
  /\ Goto(c, "wake", "wait")
  /\ UNCHANGED <<lock, pending, arg, failed, done, wake, late, outcome, answer, gameVars>>

Wake(c) ==
  /\ Goto(c, "wake", "wait")
  /\ wake' = TRUE
  /\ UNCHANGED <<lock, pending, arg, failed, done, late, outcome, answer, gameVars>>

\* real_wait returned because the job is done.
Signalled(c) ==
  /\ done
  /\ Goto(c, "wait", "leave")
  /\ late' = [late EXCEPT ![c] = FALSE]
  /\ UNCHANGED <<lock, pending, arg, failed, done, wake, outcome, answer, gameVars>>

\* timeout_ms passed first; the game thread may start the job from here on.
Timeout(c) ==
  /\ ~done
  /\ Goto(c, "wait", "withdraw")
  /\ late' = [late EXCEPT ![c] = TRUE]
  /\ UNCHANGED <<lock, pending, arg, failed, done, wake, outcome, answer, gameVars>>

WithdrawAtOnce(c) ==
  /\ Goto(c, "withdraw", "leave")
  /\ pending' = IF pending = 1 THEN 0 ELSE pending
  /\ UNCHANGED <<lock, arg, failed, done, wake, late, outcome, answer, gameVars>>

WithdrawByDecrement(c) ==
  /\ pc[c] = "withdraw"
  /\ pending' = pending - 1
  /\ pc' = [pc EXCEPT ![c] = IF pending = 1 THEN "leave" ELSE "waitout"]
  /\ UNCHANGED <<lock, arg, failed, done, wake, late, outcome, answer, gameVars>>

\* The compare-and-swap 1 -> 0: a job not started is taken back, a started one
\* must be waited out.
Withdraw(c) ==
  /\ pc[c] = "withdraw"
  /\ IF pending = 1
       THEN pending' = 0 /\ pc' = [pc EXCEPT ![c] = "leave"]
       ELSE pending' = pending /\ pc' = [pc EXCEPT ![c] = "waitout"]
  /\ UNCHANGED <<lock, arg, failed, done, wake, late, outcome, answer, gameVars>>

WaitedOut(c) ==
  /\ done
  /\ Goto(c, "waitout", "leave")
  /\ UNCHANGED <<lock, pending, arg, failed, done, wake, late, outcome, answer, gameVars>>

LeaveFaultUnseen(c) ==
  /\ Goto(c, "leave", "idle")
  /\ answer' = [answer EXCEPT ![c] = ~late[c]]
  /\ lock' = NoCaller
  /\ UNCHANGED <<pending, arg, failed, done, wake, late, outcome, gameVars>>

Leave(c) ==
  /\ Goto(c, "leave", "idle")
  /\ answer' = [answer EXCEPT ![c] = ~late[c] /\ ~failed]
  /\ lock' = NoCaller
  /\ UNCHANGED <<pending, arg, failed, done, wake, late, outcome, gameVars>>

CallerStep(c) ==
  \/ Call(c) \/ Enter(c) \/ ResetDone(c) \/ Fill(c) \/ Post(c) \/ Wake(c)
  \/ Signalled(c) \/ Timeout(c) \/ Withdraw(c) \/ WaitedOut(c) \/ Leave(c)
-----------------------------------------------------------------------------
(* The game thread. *)

\* rpc_service_jobs takes a posted job (compare-and-swap 1 -> 2) at service
\* site s.  Around the pacing wait it needs the frame's TLS table, which a
\* frame notes on its way (frame_seen).
TakeJob(s) ==
  /\ game = s
  /\ pending = 1
  /\ s = "frame" \/ tls
  /\ pending' = 2
  /\ game' = "run"
  /\ site' = s
  /\ tls' \in (IF s = "frame" THEN {tls, TRUE} ELSE {tls})
  /\ UNCHANGED <<arg, failed, done, wake, callerVars>>

\* The job runs to its end or faults (the __except handler).  A restart job
\* forgets the frame's TLS table (step_restart).
RunJob ==
  /\ game = "run"
  /\ game' = "clear"
  /\ \E end \in {"ran", "faulted"} :
       /\ outcome' = [outcome EXCEPT ![arg] = end]
       /\ failed' = (failed \/ end = "faulted")
  /\ tls' \in {tls, FALSE}
  /\ UNCHANGED <<lock, pending, arg, done, wake, pc, late, site, answer>>

ClearPending ==
  /\ game = "clear"
  /\ pending' = 0
  /\ game' = "signal"
  /\ UNCHANGED <<arg, failed, done, wake, tls, site, callerVars>>

\* Service sites in the order the frame loop passes them: after the one before
\* the wait the thread sleeps, after the others it goes on.
AfterService(s) == IF s = "gate" THEN "asleep" ELSE "frame"

SignalDoneUnlessFault ==
  /\ game = "signal"
  /\ done' = ~failed
  /\ game' = AfterService(site)
  /\ UNCHANGED <<pending, arg, failed, wake, tls, site, callerVars>>

SignalDone ==
  /\ game = "signal"
  /\ done' = TRUE
  /\ game' = AfterService(site)
  /\ UNCHANGED <<pending, arg, failed, wake, tls, site, callerVars>>

\* A service call that finds nothing to do.
NoJob(s) ==
  /\ game = s /\ s # "frame"
  /\ pending # 1 \/ ~tls
  /\ game' = AfterService(s)
  /\ UNCHANGED <<pending, arg, failed, done, wake, tls, site, callerVars>>

\* A frame goes by and the thread comes to its pacing wait.
Frame ==
  /\ game = "frame"
  /\ game' = "gate"
  /\ tls' = TRUE
  /\ UNCHANGED <<pending, arg, failed, done, wake, site, callerVars>>

\* The pacing wait ends: on g_wake the slot is looked at again, on a timeout or
\* on the wait's own handle the thread goes on at once.
Woken ==
  /\ game = "asleep" /\ wake
  /\ wake' = FALSE
  /\ game' = "woken"
  /\ UNCHANGED <<pending, arg, failed, done, tls, site, callerVars>>

WaitTimeout ==
  /\ game = "asleep"
  /\ game' = "frame"
  /\ UNCHANGED <<pending, arg, failed, done, wake, tls, site, callerVars>>

\* step_to wakes the pacing wait as well; between calls, on the pipe thread.
StepWake ==
  /\ \E c \in Callers : pc[c] = "idle"
  /\ wake' = TRUE
  /\ UNCHANGED <<pending, arg, failed, done, callerVars, gameVars>>

FinishJob == RunJob \/ ClearPending \/ SignalDone
GameStep ==
  \/ \E s \in Sites : TakeJob(s) \/ NoJob(s)
  \/ FinishJob \/ Frame \/ Woken \/ WaitTimeout

Next == StepWake \/ GameStep \/ \E c \in Callers : CallerStep(c)

Spec == Init /\ [][Next]_vars

\* Fairness: threads are scheduled, the 5 s timeout passes and a started job
\* ends.  Nothing is asked of the frame loop: the game may hang outside a job.
Fairness ==
  /\ WF_vars(FinishJob)
  /\ \A c \in Callers :
       WF_vars(CallerStep(c) /\ pc[c] \notin {"idle", "enter"})

FairSpec == Spec /\ Fairness
-----------------------------------------------------------------------------
InCall(c) == pc[c] \in Filling \cup Posted \cup {"leave"}

(* A job is run for the caller that waits for it.  The job being run        *)
(* belongs to a caller that is still inside its call, whose stack is its    *)
(* argument; whoever finds g_job_done set while it waits finds its own job  *)
(* executed, and takes no signal of an earlier job for it; and a posted job *)
(* that has not run is in the slot, or on its way through the game thread.  *)
ArgAlive == game = "run" => arg \in Callers /\ pc[arg] \in Posted
OwnSignal ==
  \A c \in Callers : done /\ pc[c] \in Posted => outcome[c] # "none"
NoLostJob ==
  \A c \in Callers :
    pc[c] \in Posted /\ outcome[c] = "none" =>
      arg = c /\ (pending = 1 \/ game = "run")
JobSound == ArgAlive /\ OwnSignal /\ NoLostJob

(* The pacing wait never sleeps through a post: while the game thread is    *)
(* asleep with a job in the slot, g_wake is set or about to be.             *)
NoLostWakeup ==
  game = "asleep" /\ pending = 1 =>
    wake \/ ~tls \/ \E c \in Callers : pc[c] = "wake"

(* A call always returns: even when no frame ever runs again.               *)
CallReturns == \A c \in Callers : InCall(c) ~> pc[c] = "idle"
-----------------------------------------------------------------------------
(* The mailbox implements GameThreadCall. *)
callStage ==
  [c \in Callers |->
     IF pc[c] = "idle" THEN "idle"
     ELSE IF game = "run" /\ arg = c THEN "running"
     ELSE IF outcome[c] = "none" THEN "made" ELSE outcome[c]]

Abstract == INSTANCE GameThreadCall WITH call <- callStage, reply <- answer

ImplementsCall == Abstract!ASpec
=============================================================================
