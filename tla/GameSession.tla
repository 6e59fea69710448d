----------------------------- MODULE GameSession -----------------------------
(***************************************************************************)
(* wc3env.GameSession (session.py): one session owns at most one game      *)
(* process at a time, plays episodes in it, replaces it when an operation  *)
(* failed or it has served its episodes, and may be closed from any thread *)
(* in the middle of all that.                                              *)
(*                                                                         *)
(* Rounds (reset, step, debug) hold the session's _lock, so one round runs *)
(* at a time; close() takes only _state_lock.  A request to the process is *)
(* one step: it is answered, it fails with or without having taken effect  *)
(* (a timeout), or the program is interrupted in it (KeyboardInterrupt,    *)
(* which "except Exception" does not catch).                               *)
(*                                                                         *)
(* Definitions named after another one and a slip in it (DetachShared,    *)
(* RecycleIgnoringFault, ...) are no part of the specification: they are   *)
(* what the code must not do, kept to show which property would notice.    *)
(***************************************************************************)
EXTENDS Integers, Sequences

CONSTANTS
  Modes,       \* values of config.mode to consider
  Limit,       \* config.max_episodes_per_process; 0 for None
  Settings,    \* values of a tuning op (speed, waitfloor, render)
  Default,     \* its value in a process that was just launched
  StepLen,     \* length of a step
  Interrupts,  \* whether the program may be interrupted: the cases to consider
  MaxTime,     \* bound: game time of an episode
  MaxSteps,    \* bound: steps of an episode
  MaxEpisodes, \* bound: episodes of a process
  MaxProcs     \* bound: processes launched

NoSetting == "unset"

ASSUME ConstantsAssumption ==
  /\ Modes \subseteq {"stepping", "realtime"} /\ Interrupts \subseteq BOOLEAN
  /\ {Limit, MaxTime, MaxSteps, MaxEpisodes, MaxProcs} \subseteq Nat /\ StepLen \in Nat \ {0}
  /\ Default \in Settings /\ NoSetting \notin Settings

VARIABLES
  \* how the session was configured: its mode, and whether its map is a recording;
  \* whether the program may be interrupted
  mode, replay, interrupts,
  \* the session
  closed, game,  \* _closed, and _game: a process or 0 for None
  faulted,       \* _faulted
  count,         \* _episodes_in_process
  tuning,        \* _tuning: a setting, or Nothing
  seen,          \* observations: which episode's, and its time; Nothing when empty
  steps, done,
  \* the round that holds _lock, and its locals
  pc, local, created,
  \* close(), in another thread: the process it has detached
  closing,
  \* the processes, in the order of their launch
  procs,
  \* history: the setting of the last successful debug
  wish

session == <<closed, game, faulted, count, tuning, seen, steps, done>>
round == <<pc, local, created>>
config == <<mode, replay, interrupts>>
vars == <<config, session, round, closing, procs, wish>>

Stepping == mode = "stepping"

Nothing == [proc |-> 0, episode |-> 0, time |-> 0]
Procs == DOMAIN procs
Running == {"release", "ensure", "launch", "publish", "discard", "restart", "create",
            "tune", "observe", "abandon", "dispose", "act", "step", "step_observe"}
Process ==
  [alive : BOOLEAN, status : {"launched", "in_game", "ended"}, time : 0..MaxTime,
   episode : Nat,                                   \* episodes created in it
   set : Settings, known : Settings \cup {NoSetting}, \* its setting; rpc.tuning
   open : BOOLEAN,                                  \* Game.close has not run
   closes : Nat,                                    \* history: calls of Game.close
   suspect : BOOLEAN,                               \* history: an operation of a round failed on it
   unsure : BOOLEAN]                                \* history: a debug failed on it

TypeOK ==
  /\ mode \in Modes /\ replay \in BOOLEAN /\ interrupts \in Interrupts
  /\ closed \in BOOLEAN /\ faulted \in BOOLEAN /\ done \in BOOLEAN /\ created \in BOOLEAN
  /\ {game, local, closing} \subseteq Procs \cup {0}
  /\ closed => game = 0
  /\ {count, steps} \subseteq Nat
  /\ tuning \in Settings \cup {NoSetting} /\ wish \in Settings \cup {NoSetting}
  /\ seen \in [proc : Procs \cup {0}, episode : Nat, time : 0..MaxTime]
  /\ pc \in Running \cup {"idle"}
  /\ procs \in Seq(Process)

Init ==
  /\ mode \in Modes /\ replay \in BOOLEAN /\ interrupts \in Interrupts
  /\ closed = FALSE /\ game = 0 /\ faulted = FALSE /\ count = 0 /\ tuning = NoSetting
  /\ seen = Nothing /\ steps = 0 /\ done = FALSE
  /\ pc = "idle" /\ local = 0 /\ created = FALSE
  /\ closing = 0 /\ procs = <<>> /\ wish = NoSetting
-----------------------------------------------------------------------------
(* A process, seen from outside. *)

\* launch: the hook holds the map at its fixed start, time 0 here.
Launched ==
  [alive |-> TRUE, status |-> "launched", time |-> 0, episode |-> 0, set |-> Default,
   known |-> NoSetting, open |-> TRUE, closes |-> 0, suspect |-> FALSE, unsure |-> FALSE]

\* Game.close: the process is terminated, and nothing of it is read again.
Closed(p) ==
  [procs EXCEPT ![p] = [Launched EXCEPT !.alive = FALSE, !.open = FALSE,
                                        !.closes = procs[p].closes + 1]]

\* A request that leaves process p as new.  It is served only if it can be.
Served(p, can, new) == procs[p].alive /\ can /\ procs' = [procs EXCEPT ![p] = new]

Mark(proc, mark) == IF mark = "suspect" THEN [proc EXCEPT !.suspect = TRUE]
                    ELSE [proc EXCEPT !.unsure = TRUE]

\* It fails: refused, or the pipe is closed, or no answer came in time.
Fails(p, can, new, mark) ==
  \/ procs' = [procs EXCEPT ![p] = Mark(@, mark)]
  \/ Served(p, can, Mark(new, mark))

\* The program is interrupted in it, which is nobody's failure.
Interrupted(p, can, new) == interrupts /\ (UNCHANGED procs \/ Served(p, can, new))

\* The process dies, or realtime play decides the game, between two requests.
Crash(p) ==
  /\ procs[p].alive
  /\ procs' = [procs EXCEPT ![p].alive = FALSE]
  /\ UNCHANGED <<session, round, closing, wish>>

GameEnds(p) ==
  /\ procs[p].alive /\ procs[p].status = "in_game" /\ ~Stepping
  /\ procs' = [procs EXCEPT ![p].status = "ended"]
  /\ UNCHANGED <<session, round, closing, wish>>
-----------------------------------------------------------------------------
(* _release_game: the process is detached under _state_lock, its tuning kept, *)
(* and then it is closed.                                                     *)

LearnedNothing(p) == tuning
Learned(p) == IF p = 0 \/ procs[p].known = NoSetting THEN tuning ELSE procs[p].known

DetachShared == UNCHANGED game /\ local' = game /\ tuning' = Learned(game)
Detach == game' = 0 /\ local' = game /\ tuning' = Learned(game)

CloseLocal ==
  /\ local' = 0
  /\ procs' = IF local = 0 THEN procs ELSE Closed(local)

(* reset. *)

LimitReached == Limit # 0 /\ count >= Limit
LimitPassed == Limit # 0 /\ count > Limit
RecycleIgnoringFault == (replay /\ game # 0) \/ LimitReached
RecycleOneLate == (replay /\ game # 0) \/ faulted \/ LimitPassed
Recycle == (replay /\ game # 0) \/ faulted \/ LimitReached

Reset ==
  /\ pc = "idle" /\ ~closed
  /\ game # 0 => procs[game].episode < MaxEpisodes
  /\ IF Recycle THEN pc' = "release" /\ Detach
               ELSE pc' = "ensure" /\ UNCHANGED <<local, game, tuning>>
  /\ UNCHANGED <<closed, faulted, count, seen, steps, done, created, closing, procs, wish>>

Release ==
  /\ pc = "release"
  /\ CloseLocal
  /\ pc' = "ensure"
  /\ UNCHANGED <<session, created, closing, wish>>

\* A new episode begins with nothing observed, whatever becomes of it.
ForgetEpisode == seen' = Nothing /\ steps' = 0 /\ done' = FALSE /\ faulted' = FALSE

\* _ensure_game finds the process of the episode before, or must launch one.
Ensure ==
  /\ pc = "ensure"
  /\ ForgetEpisode
  /\ IF closed THEN pc' = "abandon" /\ UNCHANGED <<local, created>>
     ELSE IF game # 0 THEN pc' = "restart" /\ local' = game /\ created' = FALSE
     ELSE pc' = "launch" /\ UNCHANGED <<local, created>>
  /\ UNCHANGED <<closed, game, count, tuning, closing, procs, wish>>

Launch ==
  /\ pc = "launch" /\ Len(procs) < MaxProcs
  /\ procs' = Append(procs, Launched)
  /\ pc' = "publish" /\ local' = Len(procs) + 1
  /\ UNCHANGED <<session, created, closing, wish>>

\* The launcher cleans up after an error, not after an interruption.
LaunchFails ==
  /\ pc = "launch"
  /\ pc' = "abandon"
  /\ UNCHANGED <<session, local, created, closing, procs, wish>>

LaunchInterrupted ==
  /\ interrupts /\ pc = "launch" /\ Len(procs) < MaxProcs
  /\ procs' = Append(procs, Launched)
  /\ pc' = "idle"
  /\ UNCHANGED <<session, local, created, closing, wish>>

\* A new process is published only to a session that is still open.
PublishAnyway ==
  /\ pc = "publish"
  /\ game' = local /\ created' = TRUE /\ count' = 0 /\ pc' = "create"
  /\ UNCHANGED <<closed, faulted, tuning, seen, steps, done, local, closing, procs, wish>>

Publish ==
  /\ pc = "publish"
  /\ IF closed THEN pc' = "discard" /\ UNCHANGED <<game, created, count>>
     ELSE game' = local /\ created' = TRUE /\ count' = 0 /\ pc' = "create"
  /\ UNCHANGED <<closed, faulted, tuning, seen, steps, done, local, closing, procs, wish>>

Discard ==
  /\ pc = "discard"
  /\ CloseLocal
  /\ pc' = "abandon"
  /\ UNCHANGED <<session, created, closing, wish>>

\* One request of reset: answered it goes on, failed the round is abandoned,
\* interrupted it simply ends.
ResetCall(at, can, new, next) ==
  /\ pc = at
  /\ \/ Served(local, can, new) /\ pc' = next
     \/ Fails(local, can, new, "suspect") /\ pc' = "abandon"
     \/ Interrupted(local, can, new) /\ pc' = "idle"
  /\ UNCHANGED <<local, created, closing, wish>>

Restart ==
  /\ LET p == procs[local] IN
       ResetCall("restart", p.status # "launched",
                 [p EXCEPT !.status = "launched", !.time = 0], "create")
  /\ UNCHANGED session

CreateGame ==
  /\ LET p == procs[local] IN
       ResetCall("create", p.status # "in_game",
                 [p EXCEPT !.status = "in_game", !.time = 0, !.episode = @ + 1],
                 IF created /\ tuning # NoSetting THEN "tune" ELSE "observe")
  /\ UNCHANGED session

Tune ==
  /\ LET p == procs[local] IN
       ResetCall("tune", p.status = "in_game",
                 [p EXCEPT !.set = tuning, !.known = tuning], "observe")
  /\ UNCHANGED session

\* _publish: what was observed, and whether the game is over, from the last
\* reply of the process the session owns.
View(p) == [proc |-> p, episode |-> procs[p].episode, time |-> procs[p].time]
DoneIf(p) == procs[p].status = "ended"

\* The configured features and the first observations, of the process the
\* session owns: none once close() has taken it.
Observe ==
  /\ pc = "observe"
  /\ LET p == procs[local] can == p.status # "launched" IN
     \/ /\ game # 0
        /\ Served(local, can, p)
        /\ seen' = View(local) /\ done' = DoneIf(local) /\ count' = count + 1
        /\ pc' = "idle"
     \/ /\ Fails(local, can, p, "suspect")
        /\ pc' = "abandon" /\ UNCHANGED <<seen, done, count>>
     \/ /\ Interrupted(local, can, p)
        /\ pc' = "idle" /\ UNCHANGED <<seen, done, count>>
  /\ UNCHANGED <<closed, game, faulted, tuning, steps, local, created, closing, wish>>

\* The except clause of reset.
Abandon ==
  /\ pc = "abandon"
  /\ Detach
  /\ pc' = "dispose"
  /\ UNCHANGED <<closed, faulted, count, seen, steps, done, created, closing, procs, wish>>

Dispose ==
  /\ pc = "dispose"
  /\ CloseLocal
  /\ seen' = Nothing
  /\ pc' = "idle"
  /\ UNCHANGED <<closed, game, faulted, count, tuning, steps, done, created, closing, wish>>
-----------------------------------------------------------------------------
(* step.  Any exception leaves the session faulted; an interruption does not. *)

stepOnly == <<closed, game, count, tuning, local, created, closing, wish>>

Ends(fault) == pc' = "idle" /\ faulted' = fault /\ UNCHANGED <<seen, steps, done>>
GoesOn == pc' = "step_observe" /\ UNCHANGED <<faulted, seen, steps, done>>

\* In realtime only batches that are not empty are sent.
Step ==
  /\ pc = "idle" /\ ~closed
  /\ seen # Nothing /\ ~faulted /\ ~done
  /\ steps < MaxSteps
  /\ pc' \in (IF Stepping THEN {"step"} ELSE {"act", "step_observe"})
  /\ UNCHANGED <<session, local, created, closing, procs, wish>>

\* Between two requests of a step close() may have taken the process away.
GameGone ==
  /\ pc \in {"act", "step", "step_observe"} /\ game = 0
  /\ Ends(TRUE)
  /\ UNCHANGED <<stepOnly, procs>>

\* "bad_status" with status "ended": the game was over before the request.
FoundOver == procs[game].alive /\ procs[game].status = "ended" /\ GoesOn /\ UNCHANGED procs

Act ==
  /\ pc = "act" /\ game # 0
  /\ LET p == procs[game] can == p.status = "in_game" IN
     \/ Served(game, can, p) /\ GoesOn
     \/ FoundOver
     \/ Fails(game, can, p, "suspect") /\ Ends(TRUE)
     \/ Interrupted(game, can, p) /\ Ends(faulted)
  /\ UNCHANGED stepOnly

\* What a step makes of a process: all its time passes, or the game ends in it,
\* or the host stalls.
Advanced(p) ==
  IF p.time + StepLen <= MaxTime THEN {[p EXCEPT !.time = @ + StepLen]} ELSE {}
Until(p, last) == {t \in 0..MaxTime : p.time <= t /\ t <= last}
Over(p) == {[p EXCEPT !.time = t, !.status = "ended"] : t \in Until(p, p.time + StepLen)}
Stalled(p) == {[p EXCEPT !.time = t] : t \in Until(p, p.time + StepLen - 1)}

StepCall ==
  /\ pc = "step" /\ game # 0
  /\ LET p == procs[game] can == p.status = "in_game" IN
     \/ \E new \in Advanced(p) \cup Over(p) : Served(game, can, new) /\ GoesOn
     \/ FoundOver
     \/ \E new \in Stalled(p) : Served(game, can, Mark(new, "suspect")) /\ Ends(TRUE)
     \/ \E new \in Advanced(p) \cup Over(p) \cup Stalled(p) :
          \/ Fails(game, can, new, "suspect") /\ Ends(TRUE)
          \/ Interrupted(game, can, new) /\ Ends(faulted)
  /\ UNCHANGED stepOnly

\* In stepping mode a step that leaves the game running took exactly its time.
SkewUnseen(p) == FALSE
SkewedAtEnd(p) == Stepping /\ procs[p].time - seen.time # StepLen
Skewed(p) == Stepping /\ ~DoneIf(p) /\ procs[p].time - seen.time # StepLen

StepObserve ==
  /\ pc = "step_observe" /\ game # 0
  /\ LET p == procs[game] can == p.status # "launched" IN
     \/ /\ Served(game, can, p)
        /\ seen' = View(game) /\ done' = DoneIf(game)
        /\ pc' = "idle"
        /\ IF Skewed(game) THEN faulted' = TRUE /\ UNCHANGED steps
           ELSE steps' = steps + 1 /\ UNCHANGED faulted
     \/ Fails(game, can, p, "suspect") /\ Ends(TRUE)
     \/ Interrupted(game, can, p) /\ Ends(faulted)
  /\ UNCHANGED stepOnly

(* debug: a failure is the caller's to handle, and not a fault.              *)
Debug(new) ==
  /\ pc = "idle" /\ ~closed /\ game # 0
  /\ LET can == procs[game].status = "in_game" IN
     \/ Served(game, can, [new EXCEPT !.known = new.set]) /\ wish' = new.set
     \/ Fails(game, can, new, "unsure") /\ UNCHANGED wish
  /\ UNCHANGED <<session, round, closing>>

Tuning(v) == game # 0 /\ Debug([procs[game] EXCEPT !.set = v])

\* Staging may decide the game.
Staging ==
  /\ pc = "idle" /\ ~closed /\ game # 0
  /\ LET p == procs[game] new == [p EXCEPT !.status = "ended"] IN
     Served(game, p.status = "in_game", new) \/ Fails(game, p.status = "in_game", new, "unsure")
  /\ UNCHANGED <<session, round, closing, wish>>
-----------------------------------------------------------------------------
(* close, from any thread at any time. *)

Close ==
  /\ ~closed
  /\ closed' = TRUE
  /\ game' = 0 /\ closing' = game
  /\ UNCHANGED <<faulted, count, tuning, seen, steps, done, round, procs, wish>>

CloseProcess ==
  /\ closing # 0
  /\ procs' = Closed(closing)
  /\ closing' = 0
  /\ UNCHANGED <<session, round, wish>>
-----------------------------------------------------------------------------
Call == Reset \/ Step \/ Staging \/ \E v \in Settings : Tuning(v)
RoundStep ==
  /\ UNCHANGED config
  /\ \/ Release \/ Ensure \/ Launch \/ LaunchFails \/ LaunchInterrupted \/ Publish \/ Discard
     \/ Restart \/ CreateGame \/ Tune \/ Observe \/ Abandon \/ Dispose
     \/ GameGone \/ Act \/ StepCall \/ StepObserve
CloseEnds == UNCHANGED config /\ CloseProcess
Environment == \E p \in Procs : Crash(p) \/ GameEnds(p)

Next == RoundStep \/ CloseEnds \/ (UNCHANGED config /\ (Call \/ Close \/ Environment))

Spec == Init /\ [][Next]_vars

\* Python runs its threads, and every request is answered or times out.
FairSpec == Spec /\ WF_vars(RoundStep) /\ WF_vars(CloseEnds)
-----------------------------------------------------------------------------
(* Correctness. *)

Held == {"publish", "discard", "release", "dispose"}

(* No process is left running: one that has not been closed belongs to the  *)
(* open session, to the round that is about to publish or close it, or to   *)
(* the close() that has taken it (close: "An in-flight launch disposes its  *)
(* result on return").  A launch that is interrupted may leave one.         *)
EachOwned ==
  \A p \in Procs :
    procs[p].open => \/ p = game /\ ~closed
                     \/ p = closing
                     \/ p = local /\ pc \in Held
NoLeak == ~interrupts => EachOwned

(* A process is closed by one of the round and close(), never by both: its  *)
(* handle is given back once.                                               *)
ClosedOnce == \A p \in Procs : procs[p].closes <= 1
HandlesOwned == NoLeak /\ ClosedOnce

(* No episode is played on a process on which a reset or a step has failed  *)
(* ("a partially submitted round must not be retried").                     *)
SuspectNeverPlays ==
  [][(steps' > steps \/ count' > count) => ~procs'[game].suspect]_vars

(* While an episode is played, its process has the settings of the last     *)
(* successful debug, though it was launched after that: "Replacement        *)
(* preserves ... successful RpcClient.debug speed, wait-floor and rendering *)
(* settings" (protocol.md).  A debug that failed leaves this open.          *)
TuningKept ==
  pc = "idle" /\ game # 0 /\ seen # Nothing /\ ~procs[game].unsure =>
    procs[game].set = (IF wish = NoSetting THEN Default ELSE wish)

(* It does when no reset is interrupted.                                    *)
TuningSurvives == ~interrupts => TuningKept

(* Without interruptions a process serves no more episodes than the         *)
(* configuration allows, and a recording is played back in a process of its *)
(* own (protocol.md).                                                       *)
EpisodeLimit ==
  ~interrupts =>
    \A p \in Procs :
      /\ Limit # 0 => procs[p].episode <= Limit
      /\ replay => procs[p].episode <= 1

(* What the client holds is of the episode that its process plays, and all  *)
(* time that passed in a stepped episode was asked for: interrupted steps   *)
(* that took effect are noticed before the next one counts.                 *)
ViewOfThisEpisode ==
  pc = "idle" /\ ~closed /\ ~faulted /\ seen # Nothing =>
    seen.proc = game /\ seen.episode = procs[game].episode
TimeTold ==
  Stepping /\ ~faulted /\ ~done /\ seen # Nothing => seen.time = steps * StepLen
ViewIsTrue == ViewOfThisEpisode /\ TimeTold

(* An end of the game is never taken for a fault, whether realtime play or  *)
(* staging brought it before a request of the step, the step ran into it,   *)
(* or it cost the step some of its time: without interruptions the session  *)
(* gives up its process only after an operation has failed on it.           *)
FaultHasCause ==
  ~interrupts /\ pc = "idle" /\ ~closed /\ faulted => game # 0 /\ procs[game].suspect

(* Once close() was called, no process stays alive, unless a launch was     *)
(* interrupted.                                                             *)
CloseEndsAll == closed /\ ~interrupts ~> \A p \in Procs : ~procs[p].alive
=============================================================================
