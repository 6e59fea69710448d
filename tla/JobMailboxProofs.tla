-------------------------- MODULE JobMailboxProofs --------------------------
(***************************************************************************)
(* Machine-checked proofs about JobMailbox, for every set of callers: type *)
(* correctness, the four safety invariants, and the refinement of          *)
(* GameThreadCall.  The argument is one inductive invariant, IInv: the     *)
(* lock names the one caller inside its call, and the slot it posted is in *)
(* exactly one of five phases.                                             *)
(***************************************************************************)
EXTENDS JobMailbox, TLAPS

\* The life of a posted job: in the slot; running; run, but not cleared;
\* cleared, but not signalled; signalled.
Phase(c) ==
  \/ /\ pending = 1 /\ game \notin Serving /\ outcome[c] = "none"
     /\ ~done /\ pc[c] # "waitout"
  \/ pending = 2 /\ game = "run" /\ outcome[c] = "none" /\ ~done
  \/ pending = 2 /\ game = "clear" /\ outcome[c] # "none" /\ ~done
  \/ pending = 0 /\ game = "signal" /\ outcome[c] # "none" /\ ~done
  \/ pending = 0 /\ game \notin Serving /\ outcome[c] # "none" /\ done

LockInv == \A c \in Callers : InCall(c) <=> lock = c

FillInv ==
  \A c \in Callers :
    /\ pc[c] \in {"enter"} \cup Filling => outcome[c] = "none"
    /\ pc[c] \in {"fill", "post"} => ~done
    /\ pc[c] = "post" => arg = c /\ ~failed

PostedInv ==
  \A c \in Callers : pc[c] \in Posted => arg = c /\ Phase(c)

EmptyInv ==
  (\A c \in Callers : pc[c] \notin Posted) => pending = 0 /\ game \notin Serving

\* What the answer is computed from.
AnswerInv ==
  \A c \in Callers :
    /\ pc[c] \in Posted \cup {"leave"} => (outcome[c] = "faulted" => failed)
    /\ pc[c] = "leave" => late[c] \/ outcome[c] # "none"
    /\ pc[c] \in {"withdraw", "waitout"} => late[c]

IInv == TypeOK /\ LockInv /\ FillInv /\ PostedInv /\ EmptyInv /\ AnswerInv

(* The mailbox starts empty, with no caller inside its call.                *)
LEMMA InitInv == Init => IInv
<1> SUFFICES ASSUME Init PROVE IInv
  OBVIOUS
<1>1. TypeOK
  <2>1. /\ lock \in Callers \cup {NoCaller} /\ arg \in Callers \cup {NoCaller}
        /\ pending \in {0, 1, 2}
    BY DEF Init
  <2>2. failed \in BOOLEAN /\ done \in BOOLEAN /\ wake \in BOOLEAN /\ tls \in BOOLEAN
    BY DEF Init
  <2>3. pc \in [Callers -> CallerPc] /\ outcome \in [Callers -> {"none", "ran", "faulted"}]
    BY DEF Init, CallerPc
  <2>4. late \in [Callers -> BOOLEAN] /\ answer \in [Callers -> BOOLEAN]
    BY DEF Init
  <2>5. game \in GamePc /\ site \in Sites
    BY DEF Init, GamePc, Sites
  <2>6. QED
    BY <2>1, <2>2, <2>3, <2>4, <2>5 DEF TypeOK
<1>2. LockInv
  BY NoCallerAssumption DEF Init, LockInv, InCall, Filling, Posted
<1>3. FillInv
  BY DEF Init, FillInv, Filling
<1>4. PostedInv /\ EmptyInv
  BY DEF Init, PostedInv, EmptyInv, Posted, Serving
<1>5. AnswerInv
  BY DEF Init, AnswerInv, Posted
<1>6. QED
  BY <1>1, <1>2, <1>3, <1>4, <1>5 DEF IInv

(* No step of a caller leaves the types.                                    *)
LEMMA CallerTypes ==
  ASSUME TypeOK, NEW c \in Callers, CallerStep(c)
  PROVE  TypeOK'
<1>1. PICK to \in CallerPc : pc' = [pc EXCEPT ![c] = to]
  <2>1. CASE Call(c)
    <3>1. "enter" \in CallerPc /\ pc' = [pc EXCEPT ![c] = "enter"]
      BY <2>1 DEF Call, Goto, CallerPc
    <3>2. QED
      BY <3>1
  <2>2. CASE Enter(c) \/ ResetDone(c) \/ Fill(c)
    <3>1. \E to \in Filling : pc' = [pc EXCEPT ![c] = to]
      BY <2>2 DEF Enter, ResetDone, Fill, Goto, Filling
    <3>2. QED
      BY <3>1 DEF CallerPc
  <2>3. CASE Post(c) \/ Wake(c) \/ Timeout(c)
    <3>1. \E to \in Posted : pc' = [pc EXCEPT ![c] = to]
      BY <2>3 DEF Post, Wake, Timeout, Goto, Posted
    <3>2. QED
      BY <3>1 DEF CallerPc
  <2>4. CASE Signalled(c) \/ WaitedOut(c) \/ Leave(c)
    <3>1. \E to \in {"leave", "idle"} : pc' = [pc EXCEPT ![c] = to]
      BY <2>4 DEF Signalled, WaitedOut, Leave, Goto
    <3>2. QED
      BY <3>1 DEF CallerPc
  <2>5. CASE Withdraw(c)
    <3>1. \E to \in {"leave", "waitout"} : pc' = [pc EXCEPT ![c] = to]
      BY <2>5 DEF Withdraw
    <3>2. QED
      BY <3>1 DEF CallerPc, Posted
  <2>6. QED
    BY <2>1, <2>2, <2>3, <2>4, <2>5 DEF CallerStep
<1>2. pc' \in [Callers -> CallerPc]
  BY <1>1 DEF TypeOK
<1> USE DEF CallerStep, Call, Enter, ResetDone, Fill, Post, Wake, Signalled, Timeout,
            Withdraw, WaitedOut, Leave, gameVars
<1>3. lock' \in Callers \cup {NoCaller} /\ arg' \in Callers \cup {NoCaller}
  BY DEF TypeOK
<1>4. pending' \in {0, 1, 2}
  BY DEF TypeOK
<1>5. failed' \in BOOLEAN /\ done' \in BOOLEAN /\ wake' \in BOOLEAN /\ tls' \in BOOLEAN
  BY DEF TypeOK
<1>6. late' \in [Callers -> BOOLEAN]
  BY DEF TypeOK
<1>7. outcome' \in [Callers -> {"none", "ran", "faulted"}]
  BY DEF TypeOK
<1>8. answer' \in [Callers -> BOOLEAN]
  BY DEF TypeOK
<1>9. game' \in GamePc /\ site' \in Sites
  BY DEF TypeOK
<1>10. QED
  BY <1>2, <1>3, <1>4, <1>5, <1>6, <1>7, <1>8, <1>9 DEF TypeOK

(* No step of the game thread leaves the types.                             *)
LEMMA GameTypes ==
  ASSUME TypeOK, GameStep \/ StepWake \/ UNCHANGED vars
  PROVE  TypeOK'
<1> USE DEF GameStep, FinishJob, TakeJob, NoJob, AfterService, RunJob, ClearPending,
            SignalDone, Frame, Woken, WaitTimeout, StepWake, vars, callerVars, gameVars
<1>1. lock' \in Callers \cup {NoCaller} /\ arg' \in Callers \cup {NoCaller}
  BY DEF TypeOK
<1>2. pending' \in {0, 1, 2}
  BY DEF TypeOK
<1>3. failed' \in BOOLEAN /\ done' \in BOOLEAN /\ wake' \in BOOLEAN /\ tls' \in BOOLEAN
  BY DEF TypeOK
<1>4. pc' = pc /\ late' = late /\ answer' = answer
  BY DEF TypeOK
<1>5. outcome' \in [Callers -> {"none", "ran", "faulted"}]
  BY DEF TypeOK
<1>6. game' \in GamePc /\ site' \in Sites
  BY DEF TypeOK, GamePc, Sites, Serving
<1>7. QED
  BY <1>1, <1>2, <1>3, <1>4, <1>5, <1>6 DEF TypeOK

(* A step of one caller keeps the invariant: only the holder of the lock    *)
(* is inside its call, and the slot it fills is still empty.                *)
LEMMA CallerKeeps ==
  ASSUME IInv, NEW c \in Callers, CallerStep(c)
  PROVE  LockInv' /\ FillInv' /\ PostedInv' /\ EmptyInv' /\ AnswerInv'
<1> USE DEF IInv, TypeOK, LockInv, InCall, Filling, Posted, Goto, gameVars
<1>1. CASE Call(c)
  <2>1. LockInv' /\ FillInv' /\ AnswerInv'
    BY <1>1 DEF Call, FillInv, AnswerInv
  <2>2. PostedInv' /\ EmptyInv'
    BY <1>1 DEF Call, PostedInv, EmptyInv, Phase
  <2>3. QED
    BY <2>1, <2>2
<1>2. CASE Enter(c)
  <2>1. LockInv' /\ FillInv' /\ AnswerInv'
    BY <1>2, NoCallerAssumption DEF Enter, FillInv, AnswerInv
  <2>2. PostedInv' /\ EmptyInv'
    BY <1>2 DEF Enter, PostedInv, EmptyInv, Phase
  <2>3. QED
    BY <2>1, <2>2
<1>3. CASE ResetDone(c)
  <2>1. LockInv' /\ FillInv' /\ AnswerInv'
    BY <1>3 DEF ResetDone, FillInv, AnswerInv
  <2>2. PostedInv' /\ EmptyInv'
    BY <1>3 DEF ResetDone, PostedInv, EmptyInv, Phase
  <2>3. QED
    BY <2>1, <2>2
<1>4. CASE Fill(c)
  <2>1. LockInv' /\ FillInv' /\ AnswerInv'
    BY <1>4 DEF Fill, FillInv, AnswerInv
  <2>2. PostedInv' /\ EmptyInv'
    BY <1>4 DEF Fill, PostedInv, EmptyInv, Phase
  <2>3. QED
    BY <2>1, <2>2
<1>5. CASE Post(c)
  <2>1. LockInv' /\ FillInv' /\ AnswerInv'
    BY <1>5 DEF Post, FillInv, AnswerInv
  <2>2. PostedInv' /\ EmptyInv'
    BY <1>5 DEF Post, FillInv, PostedInv, EmptyInv, Phase
  <2>3. QED
    BY <2>1, <2>2
<1>6. CASE Wake(c) \/ Timeout(c)
  <2>1. LockInv' /\ FillInv' /\ AnswerInv'
    BY <1>6 DEF Wake, Timeout, FillInv, AnswerInv
  <2>2. PostedInv' /\ EmptyInv'
    BY <1>6 DEF Wake, Timeout, PostedInv, EmptyInv, Phase
  <2>3. QED
    BY <2>1, <2>2
<1>7. CASE Signalled(c) \/ WaitedOut(c)
  <2>1. LockInv' /\ FillInv'
    BY <1>7 DEF Signalled, WaitedOut, FillInv
  <2>2. PostedInv' /\ EmptyInv'
    BY <1>7 DEF Signalled, WaitedOut, PostedInv, EmptyInv, Phase
  <2>3. AnswerInv'
    BY <1>7 DEF Signalled, WaitedOut, PostedInv, AnswerInv, Phase
  <2>4. QED
    BY <2>1, <2>2, <2>3
<1>8. CASE Withdraw(c)
  <2>1. LockInv' /\ FillInv' /\ AnswerInv'
    BY <1>8 DEF Withdraw, FillInv, AnswerInv
  <2>2. PostedInv' /\ EmptyInv'
    BY <1>8 DEF Withdraw, PostedInv, EmptyInv, Phase
  <2>3. QED
    BY <2>1, <2>2
<1>9. CASE Leave(c)
  <2>1. LockInv' /\ FillInv' /\ AnswerInv'
    BY <1>9, NoCallerAssumption DEF Leave, FillInv, AnswerInv
  <2>2. PostedInv' /\ EmptyInv'
    BY <1>9 DEF Leave, PostedInv, EmptyInv, Phase
  <2>3. QED
    BY <2>1, <2>2
<1>10. QED
  BY <1>1, <1>2, <1>3, <1>4, <1>5, <1>6, <1>7, <1>8, <1>9 DEF CallerStep

(* A step of the game thread moves the slot from one phase to the next, or  *)
(* leaves it alone.                                                         *)
LEMMA GameKeeps ==
  ASSUME IInv, GameStep \/ StepWake \/ UNCHANGED vars
  PROVE  LockInv' /\ FillInv' /\ PostedInv' /\ EmptyInv' /\ AnswerInv'
<1> USE DEF IInv, Posted, Serving
<1>1. ASSUME NEW s \in Sites, TakeJob(s)
      PROVE LockInv' /\ FillInv' /\ PostedInv' /\ EmptyInv' /\ AnswerInv'
  BY <1>1 DEF TakeJob, LockInv, InCall, FillInv, Filling, PostedInv, EmptyInv, AnswerInv, Phase,
     TypeOK, Sites, callerVars
<1>2. CASE RunJob
  <2>1. LockInv' /\ FillInv' /\ EmptyInv'
    BY <1>2 DEF RunJob, LockInv, InCall, FillInv, Filling, PostedInv, EmptyInv, Phase, TypeOK
  <2>2. PostedInv'
    BY <1>2 DEF RunJob, PostedInv, Phase, TypeOK
  <2>3. AnswerInv'
    BY <1>2 DEF RunJob, LockInv, InCall, AnswerInv, PostedInv, EmptyInv, Phase, TypeOK
  <2>4. QED
    BY <2>1, <2>2, <2>3
<1>3. CASE ClearPending
  BY <1>3 DEF ClearPending, LockInv, InCall, FillInv, Filling, PostedInv, EmptyInv, AnswerInv,
     Phase, TypeOK, callerVars
<1>4. CASE SignalDone
  BY <1>4 DEF SignalDone, AfterService, LockInv, InCall, FillInv, Filling, PostedInv, EmptyInv,
     AnswerInv, Phase, TypeOK, Sites, callerVars
<1>5. ASSUME NEW s \in Sites, NoJob(s)
      PROVE LockInv' /\ FillInv' /\ PostedInv' /\ EmptyInv' /\ AnswerInv'
  BY <1>5 DEF NoJob, AfterService, LockInv, InCall, FillInv, PostedInv, EmptyInv, AnswerInv,
     Phase, TypeOK, Sites, callerVars
<1>6. CASE Frame \/ Woken \/ WaitTimeout \/ StepWake \/ UNCHANGED vars
  BY <1>6 DEF Frame, Woken, WaitTimeout, StepWake, vars, LockInv, InCall, FillInv, PostedInv,
     EmptyInv, AnswerInv, Phase, callerVars, gameVars
<1>7. QED
  BY <1>1, <1>2, <1>3, <1>4, <1>5, <1>6 DEF GameStep, FinishJob

(* The inductive invariant holds of every reachable state: the slot is in   *)
(* exactly one phase of its life while its caller is inside the call.       *)
THEOREM Invariance == Spec => []IInv
<1>1. IInv /\ [Next]_vars => IInv'
  <2> SUFFICES ASSUME IInv, [Next]_vars PROVE IInv'
    OBVIOUS
  <2>1. TypeOK'
    BY CallerTypes, GameTypes DEF IInv, Next
  <2>2. LockInv' /\ FillInv' /\ PostedInv' /\ EmptyInv' /\ AnswerInv'
    BY CallerKeeps, GameKeeps DEF Next
  <2>3. QED
    BY <2>1, <2>2 DEF IInv
<1>2. QED
  BY InitInv, <1>1, PTL DEF Spec

(* Every variable keeps its type: the mailbox words hold only the values    *)
(* rpc.c gives them.                                                        *)
THEOREM TypeCorrect == Spec => []TypeOK
BY Invariance, PTL DEF IInv

(* A job runs only while its caller, whose stack holds its argument, waits  *)
(* in run_on_game_thread; the done event a waiting caller sees is its own   *)
(* job's; a posted job that has not run is in the slot or running.          *)
THEOREM JobsAreSound == Spec => []JobSound
<1>1. IInv => ArgAlive
  BY DEF IInv, TypeOK, ArgAlive, EmptyInv, PostedInv, Serving
<1>2. IInv => OwnSignal
  BY DEF IInv, OwnSignal, PostedInv, Phase
<1>3. IInv => NoLostJob
  BY DEF IInv, NoLostJob, PostedInv, Phase
<1>4. QED
  BY <1>1, <1>2, <1>3, Invariance, PTL DEF JobSound

(* The game thread is never left asleep on an unset g_wake with a job       *)
(* posted that it could serve.                                              *)
THEOREM WakeupNotLost == Spec => []NoLostWakeup
<1>1. Init => NoLostWakeup
  BY DEF Init, NoLostWakeup
<1>2. IInv /\ NoLostWakeup /\ [Next]_vars => NoLostWakeup'
  <2> SUFFICES ASSUME IInv, NoLostWakeup, [Next]_vars PROVE NoLostWakeup'
    OBVIOUS
  <2>1. ASSUME NEW c \in Callers, CallerStep(c) PROVE NoLostWakeup'
    BY <2>1 DEF NoLostWakeup, IInv, TypeOK, Goto, gameVars, CallerStep, Call, Enter,
       ResetDone, Fill, Post, Wake, Signalled, Timeout, Withdraw, WaitedOut, Leave
  <2>2. CASE GameStep
    BY <2>2 DEF NoLostWakeup, IInv, PostedInv, EmptyInv, Phase, Serving, Sites, GameStep,
       FinishJob, TakeJob, NoJob, AfterService, RunJob, ClearPending, SignalDone, Frame,
       Woken, WaitTimeout, callerVars
  <2>3. CASE StepWake \/ UNCHANGED vars
    BY <2>3 DEF NoLostWakeup, StepWake, vars, callerVars, gameVars
  <2>4. QED
    BY <2>1, <2>2, <2>3 DEF Next
<1>3. QED
  BY <1>1, <1>2, Invariance, PTL DEF Spec
-----------------------------------------------------------------------------
\* What one step does to the refinement mapping.
StageOf(c) ==
  IF pc[c] = "idle" THEN "idle"
  ELSE IF game = "run" /\ arg = c THEN "running"
  ELSE IF outcome[c] = "none" THEN "made" ELSE outcome[c]

(* The refinement mapping, caller by caller.                                *)
LEMMA StageIs == callStage = [c \in Callers |-> StageOf(c)]
BY DEF callStage, StageOf

(* A caller's step makes a call, answers it, or changes nothing the         *)
(* abstraction sees.                                                        *)
LEMMA CallerRefines ==
  ASSUME IInv, IInv', NEW c \in Callers, CallerStep(c)
  PROVE  Abstract!ANext \/ UNCHANGED Abstract!avars
<1> USE DEF IInv, TypeOK, callStage
<1>1. CASE Call(c)
  <2>1. Abstract!Make(c)
    <3>1. pc[c] = "idle" /\ callStage[c] = "idle"
      BY <1>1 DEF Call, Goto
    <3>2. ~(game = "run" /\ arg = c)
      <4>1. arg = c /\ game = "run" => FALSE
        BY <3>1 DEF PostedInv, EmptyInv, Posted, Serving
      <4>2. QED
        BY <4>1
    <3>3. pc' = [pc EXCEPT ![c] = "enter"] /\ outcome' = [outcome EXCEPT ![c] = "none"]
          /\ game' = game /\ arg' = arg /\ answer' = answer
      BY <1>1 DEF Call, Goto, gameVars
    <3>4. callStage' = [callStage EXCEPT ![c] = "made"]
      BY <3>2, <3>3
    <3>5. QED
      BY <3>1, <3>3, <3>4 DEF Abstract!Make
  <2>2. QED
    BY <2>1 DEF Abstract!ANext
<1>2. CASE Leave(c)
  <2>1. StageOf(c) \in {"made", "ran", "faulted"} /\ (answer'[c] => StageOf(c) = "ran")
    BY <1>2 DEF Leave, Goto, StageOf, AnswerInv, PostedInv, EmptyInv, Posted, Serving
  <2>2. Abstract!Answer(c)
    <3>1. callStage' = [callStage EXCEPT ![c] = "idle"]
      BY <1>2 DEF Leave, Goto, gameVars
    <3>2. answer' = [answer EXCEPT ![c] = answer'[c]] /\ answer'[c] \in BOOLEAN
      BY <1>2 DEF Leave
    <3>3. QED
      BY <2>1, <3>1, <3>2, StageIs DEF Abstract!Answer
  <2>3. QED
    BY <2>2 DEF Abstract!ANext
<1>3. CASE ~Call(c) /\ ~Leave(c)
  <2>1. callStage' = callStage /\ answer' = answer
    BY <1>3 DEF CallerStep, Goto, gameVars, Enter, ResetDone, Fill, Post, Wake, Signalled,
       Timeout, Withdraw, WaitedOut, FillInv, PostedInv, EmptyInv, Filling, Posted, Serving
  <2>2. QED
    BY <2>1 DEF Abstract!avars
<1>4. QED
  BY <1>1, <1>2, <1>3

(* The game thread's steps start a call, finish it, or change nothing the   *)
(* abstraction sees.                                                        *)
LEMMA GameRefines ==
  ASSUME IInv, IInv', GameStep \/ StepWake \/ UNCHANGED vars
  PROVE  Abstract!ANext \/ UNCHANGED Abstract!avars
<1> USE DEF IInv, TypeOK, callStage
<1>1. ASSUME NEW s \in Sites, TakeJob(s) PROVE Abstract!ANext
  <2>1. PICK c \in Callers : arg = c
    BY <1>1 DEF TakeJob, EmptyInv, PostedInv
  <2>2. pc[c] \in Posted /\ outcome[c] = "none" /\ game # "run"
    BY <1>1, <2>1 DEF TakeJob, PostedInv, EmptyInv, Phase, Sites, Serving
  <2>3. Abstract!Start(c)
    <3>1. callStage[c] = "made"
      BY <2>2 DEF Posted
    <3>2. \A d \in Callers : callStage[d] # "running"
      BY <2>2
    <3>3. callStage' = [callStage EXCEPT ![c] = "running"]
      BY <1>1, <2>1, <2>2 DEF TakeJob, Posted, callerVars
    <3>4. QED
      BY <1>1, <3>1, <3>2, <3>3 DEF Abstract!Start, TakeJob, callerVars
  <2>4. QED
    BY <2>3 DEF Abstract!ANext
<1>2. CASE RunJob
  <2>1. PICK c \in Callers : arg = c
    BY <1>2 DEF RunJob, EmptyInv, PostedInv, Serving
  <2>2. pc[c] \in Posted
    BY <1>2, <2>1 DEF RunJob, PostedInv, EmptyInv, Serving
  <2>3. Abstract!Finish(c)
    <3>1. callStage[c] = "running"
      BY <1>2, <2>1, <2>2 DEF RunJob, Posted
    <3>2. PICK end \in {"ran", "faulted"} : outcome' = [outcome EXCEPT ![c] = end]
      BY <1>2, <2>1 DEF RunJob
    <3>3. callStage' = [callStage EXCEPT ![c] = end]
      BY <1>2, <2>1, <2>2, <3>2 DEF RunJob, Posted
    <3>4. QED
      BY <1>2, <3>1, <3>3 DEF Abstract!Finish, RunJob
  <2>4. QED
    BY <2>3 DEF Abstract!ANext
<1>3. CASE \/ ClearPending \/ SignalDone \/ Frame \/ Woken \/ WaitTimeout \/ StepWake
           \/ (\E s \in Sites : NoJob(s)) \/ UNCHANGED vars
  BY <1>3 DEF Abstract!avars, ClearPending, SignalDone, Frame, Woken, WaitTimeout, StepWake,
     NoJob, AfterService, Sites, vars, callerVars, gameVars
<1>4. QED
  BY <1>1, <1>2, <1>3 DEF GameStep, FinishJob

(* The mailbox keeps every promise GameThreadCall states: each step of the  *)
(* detailed protocol is a step of the abstract one or changes nothing in it.*)
THEOREM Refinement == Spec => ImplementsCall
<1>1. Init => Abstract!AInit
  BY DEF Init, Abstract!AInit, callStage
<1>2. IInv /\ IInv' /\ [Next]_vars => [Abstract!ANext]_Abstract!avars
  BY CallerRefines, GameRefines DEF Next
<1>3. QED
  BY <1>1, <1>2, Invariance, PTL DEF Spec, ImplementsCall, Abstract!ASpec
=============================================================================
