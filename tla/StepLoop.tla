------------------------------ MODULE StepLoop ------------------------------
(***************************************************************************)
(* The lifecycle of an episode inside the hook: the hold at a fixed start, *)
(* create_game, step, reset and the end of a game (wc3hook/step.c, the     *)
(* handlers m_step, m_reset and m_create_game of wc3hook/rpc.c).           *)
(*                                                                         *)
(* Three threads share unlocked globals: the pipe thread runs the          *)
(* handlers, the game thread runs the frame loop with GameUpdate_hook in   *)
(* every frame, and the host thread produces the network turns the         *)
(* simulation consumes.  Time is counted in network turns of 25 ms.        *)
(*                                                                         *)
(* Jobs the pipe thread runs on the game thread are taken as               *)
(* GameThreadCall promises them: run once or not at all, while the pipe    *)
(* thread waits.                                                           *)
(*                                                                         *)
(* A definition named after another and a slip in it (StepThawMissing,     *)
(* VerdictEarly, ...) is no part of the specification: it is what the code *)
(* must not do, kept to show which property would notice.                  *)
(***************************************************************************)
EXTENDS Integers

CONSTANTS
  HoldAt,        \* HOLD_AT_MS in turns
  StepTurns,     \* step lengths a client asks for, in turns
  ProduceMax,    \* most turns one host call supplies (400 ms)
  StallFrames,   \* frames without progress in STEP_STALL_S
  Recordings,    \* lengths of recordings that may be played; 0 for a live game
  Troubles,      \* what may go wrong in steps: "late", one outlasts its request's
                 \* 120 s; "closes", the game tears its simulation down
  Agents,        \* players configured as agents: with all their results the game ends
  MaxTime,       \* bound: turns of one simulation
  MaxSims        \* bound: simulations of one process

ASSUME ConstantsAssumption ==
  /\ HoldAt \in Nat \ {0, 1} /\ StepTurns \subseteq Nat \ {0}
  /\ ProduceMax \in Nat \ {0} /\ StallFrames \in Nat \ {0}
  /\ Recordings \subseteq Nat /\ MaxTime \in Nat /\ MaxSims \in Nat \ {0}
  /\ Troubles \subseteq {"none", "late", "closes"}

VARIABLES
  \* the episode, as rpc.c keeps it
  status,         \* g_status
  mode,           \* g_mode
  finished,       \* agents with a result in g_result_of
  stepped,        \* g_stepped, a manual-reset event
  \* step mode, as step.c keeps it
  stepmode, stepping, held, holding, endRequested, restarting,
  game,           \* g_game: the simulation it points to, 0 for NULL
  target,         \* g_step_target
  produceTarget,  \* g_produce_target
  progress,       \* g_progress_time
  stalled,        \* frames since g_step_started
  reason,         \* g_step_reason
  frozen,         \* clock_freeze: the virtual clock stands still
  sent,           \* g_sent_ms
  \* the native game
  recording,      \* turns of the recording this process plays; 0 for a live game
  trouble,        \* what may go wrong here: how a game restarts a simulation it has
                  \* torn down is not known, so only one of them
  sim, simTime,   \* the simulation loaded and its game time
  reload,         \* RestartGame has scheduled a map reload
  fresh,          \* the host's native packet counter is 0
  pending,        \* turns GameUpdate may still consume in this frame
  \* the threads
  gt, why,        \* the game thread, and step_finish's argument
  due,            \* a frame was already due when the clock froze
  host, produce,  \* the host thread, and g_produce_ms
  pipe, req,      \* the pipe thread, and its request
  job,            \* its job on the game thread
  orders,         \* history: orders queued and not yet flushed
  owed,           \* history: the step in flight came with them and found the host quiet
  late,           \* history: a step of this episode has outlasted its request
  reply           \* history: the last reply

episode == <<status, mode, finished, stepped>>
stepVars == <<stepmode, stepping, held, holding, endRequested, restarting, game,
              target, produceTarget, progress, stalled, reason, frozen>>
simVars == <<sim, simTime, reload, fresh, pending>>
gameThread == <<gt, why, due>>
hostVars == <<host, produce, sent>>
pipeVars == <<pipe, req, reply>>
orderVars == <<orders, owed, late>>
vars == <<episode, stepVars, simVars, gameThread, hostVars, pipeVars, job, orderVars,
          recording, trouble>>

Reasons == {"running", "target", "game_over", "stalled", "replay_end",
            "simulation_closed"}
PipePc == {"idle", "acts", "reset", "request", "thaw", "wait", "restart", "restart_held", "create_restart", "create_restart_held",
           "create_held", "create"}
GamePc == {"pacing", "update", "service", "feed", "orig", "after", "judge", "freeze",
           "report"}
Replies == {"none", "error", "step", "reset", "create"}
NoReply == [kind |-> "none", asked |-> 0, elapsed |-> 0, reason |-> "target"]
Error == [NoReply EXCEPT !.kind = "error"]

IsReplay == recording > 0
Smaller(a, b) == IF a < b THEN a ELSE b
GameTime == IF game = 0 THEN 0 ELSE simTime   \* game_time()

TypeOK ==
  /\ status \in {"launched", "in_game", "ended"} /\ mode \in {"none", "stepping", "realtime"}
  /\ finished \subseteq Agents
  /\ {stepped, stepmode, stepping, held, holding, endRequested, restarting, frozen,
      reload, fresh, due, orders, owed, late} \subseteq BOOLEAN
  /\ recording \in Recordings /\ trouble \in Troubles /\ game \in {0, sim} /\ sim \in 1..MaxSims
  /\ {target, produceTarget, progress, simTime, pending, sent, produce} \subseteq Nat
  /\ stalled \in 0..StallFrames
  /\ reason \in Reasons /\ why \in Reasons
  /\ gt \in GamePc /\ host \in {"idle", "send"} /\ pipe \in PipePc
  /\ req \in [ms : StepTurns \cup {0}, before : Nat]
  /\ job \in {"none", "acts", "restart", "create_stepping", "create_realtime",
              "ran", "failed"}
  /\ reply \in [kind : Replies, asked : Nat, elapsed : Int, reason : Reasons]

\* The hook is in place before the suspended process runs.
Init ==
  /\ status = "launched" /\ mode = "none" /\ finished = {} /\ stepped = FALSE
  /\ stepmode = FALSE /\ stepping = FALSE /\ held = FALSE /\ holding = FALSE
  /\ endRequested = FALSE /\ restarting = FALSE /\ game = 0
  /\ target = 0 /\ produceTarget = 0 /\ progress = 0 /\ stalled = 0
  /\ reason = "target" /\ frozen = FALSE
  /\ recording \in Recordings /\ trouble \in Troubles /\ sim = 1 /\ simTime = 0 /\ sent = 0
  /\ reload = FALSE /\ fresh = TRUE /\ pending = 0
  /\ gt = "pacing" /\ why = "target" /\ due = FALSE /\ host = "idle" /\ produce = 0
  /\ pipe = "idle" /\ req = [ms |-> 0, before |-> 0] /\ job = "none"
  /\ orders = FALSE /\ owed = FALSE /\ late = FALSE /\ reply = NoReply
-----------------------------------------------------------------------------
(* The pipe thread. *)

pipeOnly == <<episode, stepVars, simVars, gameThread, hostVars, orderVars>>

Answer(r) == pipe' = "idle" /\ reply' = r

\* m_step up to the job that queues its orders.
Step(ms, acts) ==
  /\ pipe = "idle" /\ status = "in_game" /\ mode = "stepping"
  /\ simTime + ms <= MaxTime
  /\ acts => ~IsReplay
  /\ req' = [ms |-> ms, before |-> 0]
  /\ IF acts THEN pipe' = "acts" /\ job' = "acts"
             ELSE pipe' = "reset" /\ job' = "none"
  /\ UNCHANGED <<reply, pipeOnly>>

ActsQueued ==
  /\ pipe = "acts" /\ job = "ran"
  /\ pipe' = "reset" /\ job' = "none"
  /\ UNCHANGED <<req, reply, pipeOnly>>

\* run_on_game_thread gave up: withdrawn, or run too late to be reported.
JobLate ==
  /\ pipe \in {"acts", "restart", "create_restart", "create"}
  /\ Answer(Error)
  /\ job' = "none"
  /\ UNCHANGED <<req, pipeOnly>>

ResetStepped ==
  /\ pipe = "reset"
  /\ stepped' = FALSE
  /\ req' = [req EXCEPT !.before = GameTime]
  /\ pipe' = "request"
  /\ UNCHANGED <<reply, job, status, mode, finished, stepVars, simVars, gameThread, hostVars, orderVars>>

\* step_request's refusals.
StepRefused ==
  /\ pipe = "request"
  /\ ~stepmode \/ game = 0 \/ stepping
  /\ Answer(Error)
  /\ UNCHANGED <<req, job, pipeOnly>>

\* Nothing the host did or may do before this step is left over: it neither sends nor
\* has a budget to send.  Otherwise after a step that stalled, and after the host ran
\* freely while the map loaded.
HostQuiet == host = "idle" /\ produceTarget <= (IF fresh THEN 0 ELSE sent)

\* A step asked of a recording ends with it.
TargetUnclamped(ms) == GameTime + ms
Target(ms) ==
  IF IsReplay THEN Smaller(GameTime + ms, recording) ELSE GameTime + ms

\* step_request and step_to up to g_stepping = 1.
StepRequest ==
  /\ pipe = "request"
  /\ stepmode /\ game # 0 /\ ~stepping
  /\ target' = Target(req.ms)
  /\ progress' = GameTime
  /\ stalled' = 0
  /\ reason' = "running"
  /\ stepping' = TRUE
  /\ owed' = (orders /\ HostQuiet)
  /\ pipe' = "thaw"
  /\ UNCHANGED <<stepmode, held, holding, endRequested, restarting, game, produceTarget,
                 frozen, req, reply, job, episode, simVars, gameThread, hostVars, orders, late>>

StepThawMissing ==
  /\ pipe = "thaw"
  /\ pipe' = "wait"
  /\ UNCHANGED <<stepVars, req, reply, job, episode, simVars, gameThread, hostVars, orderVars>>

\* the end of step_to: the clock starts and the pacing wait is woken.
StepThaw ==
  /\ pipe = "thaw"
  /\ frozen' = FALSE
  /\ pipe' = "wait"
  /\ UNCHANGED <<stepmode, stepping, held, holding, endRequested, restarting, game,
                 target, produceTarget, progress, stalled, reason, req, reply, job,
                 episode, simVars, gameThread, hostVars, orderVars>>

StepAnswer ==
  /\ pipe = "wait" /\ stepped
  /\ Answer(IF reason = "simulation_closed" THEN Error
            ELSE [kind |-> "step", asked |-> req.ms,
                  elapsed |-> GameTime - req.before, reason |-> reason])
  /\ UNCHANGED <<req, job, pipeOnly>>

StepTimeout ==
  /\ trouble = "late"
  /\ pipe = "wait" /\ ~stepped
  /\ Answer(Error)
  /\ late' = TRUE
  /\ UNCHANGED <<req, job, episode, stepVars, simVars, gameThread, hostVars, orders, owed>>

\* m_reset, and create_game from ended: restart_job, then the wait for g_held.
Reset ==
  /\ pipe = "idle" /\ status # "launched"
  /\ sim < MaxSims
  /\ pipe' = "restart" /\ job' = "restart"
  /\ UNCHANGED <<req, reply, pipeOnly>>

CreateAfterEnd ==
  /\ pipe = "idle" /\ status = "ended"
  /\ sim < MaxSims
  /\ pipe' = "create_restart" /\ job' = "restart"
  /\ UNCHANGED <<req, reply, pipeOnly>>

Restarted ==
  /\ pipe \in {"restart", "create_restart"} /\ job \in {"ran", "failed"}
  /\ job' = "none"
  /\ IF job = "failed" THEN Answer(Error)
     ELSE /\ pipe' = IF pipe = "restart" THEN "restart_held" ELSE "create_restart_held"
          /\ UNCHANGED reply
  /\ UNCHANGED <<req, pipeOnly>>

ResetHeld ==
  /\ pipe = "restart_held" /\ held
  /\ Answer([NoReply EXCEPT !.kind = "reset"])
  /\ UNCHANGED <<req, job, pipeOnly>>

\* create_game from launched, and after its restart.
CreateLaunched ==
  /\ \/ pipe = "idle" /\ status = "launched"
     \/ pipe = "create_restart_held" /\ held
  /\ pipe' = "create_held"
  /\ UNCHANGED <<req, reply, job, pipeOnly>>

CreateHeld ==
  /\ pipe = "create_held" /\ held
  /\ pipe' = "create"
  /\ job' \in {"create_stepping", "create_realtime"}
  /\ UNCHANGED <<req, reply, pipeOnly>>

Created ==
  /\ pipe = "create" /\ job \in {"ran", "failed"}
  /\ job' = "none"
  /\ Answer(IF job = "failed" THEN Error ELSE [NoReply EXCEPT !.kind = "create"])
  /\ late' = (late /\ job = "failed")
  /\ UNCHANGED <<req, episode, stepVars, simVars, gameThread, hostVars, orders, owed>>

\* The map did not start in time (30 s after a restart, 120 s otherwise).
HeldTimeout ==
  /\ pipe \in {"restart_held", "create_restart_held", "create_held"} /\ ~held
  /\ Answer(Error)
  /\ UNCHANGED <<req, job, pipeOnly>>

Playing == UNCHANGED <<recording, trouble>>

PipeStep ==
  /\ Playing
  /\ \/ ActsQueued \/ ResetStepped \/ StepRefused \/ StepRequest \/ StepThaw \/ StepAnswer
     \/ Restarted \/ ResetHeld \/ (pipe # "idle" /\ CreateLaunched) \/ CreateHeld \/ Created
Request ==
  /\ Playing
  /\ \/ \E ms \in StepTurns, acts \in BOOLEAN : Step(ms, acts)
     \/ Reset \/ CreateAfterEnd \/ (pipe = "idle" /\ CreateLaunched)
PipeTimeout == Playing /\ (JobLate \/ StepTimeout \/ HeldTimeout)
-----------------------------------------------------------------------------
(* Jobs, run by the game thread from its pacing wait, from the render hook or *)
(* from GameUpdate_hook.                                                      *)

JobEnds(end) == job' = end /\ UNCHANGED <<simTime, sim, fresh, pending, hostVars, pipeVars,
                                          finished, stepped, gameThread, target, progress,
                                          stalled, reason>>

atService == gt \in {"pacing", "service"}

RunActs ==
  /\ atService /\ job = "acts"
  /\ orders' = TRUE
  /\ JobEnds("ran")
  /\ UNCHANGED <<status, mode, owed, late, stepmode, stepping, held, holding, endRequested,
                 restarting, game, produceTarget, frozen, reload>>

\* restart_job with results_clear, act_clear and step_restart.
RunRestart ==
  /\ atService /\ job = "restart" /\ ~IsReplay
  /\ job' = "ran"
  /\ reload' = TRUE
  /\ orders' = FALSE /\ owed' = FALSE /\ finished' = {}
  /\ status' = "launched" /\ mode' = "none"
  /\ stepmode' = FALSE /\ stepping' = FALSE /\ frozen' = FALSE
  /\ held' = FALSE /\ holding' = FALSE /\ endRequested' = FALSE
  /\ restarting' = TRUE /\ produceTarget' = 0 /\ game' = 0
  /\ UNCHANGED <<simTime, sim, fresh, pending, hostVars, pipeVars, stepped, gameThread,
                 target, progress, stalled, reason, late>>

\* create_job; realtime releases the game from the hold.
RunCreate ==
  /\ atService /\ job \in {"create_stepping", "create_realtime"}
  /\ status' = "in_game"
  /\ mode' = IF job = "create_stepping" THEN "stepping" ELSE "realtime"
  /\ IF job = "create_realtime"
       THEN stepmode' = FALSE /\ stepping' = FALSE /\ frozen' = FALSE
       ELSE UNCHANGED <<stepmode, stepping, frozen>>
  /\ JobEnds("ran")
  /\ UNCHANGED <<orderVars, held, holding, endRequested, restarting, game,
                 produceTarget, reload>>

\* restart_job on a replay, create_job with an unsupported setup.
JobFails ==
  /\ atService
  /\ \/ job = "restart" /\ IsReplay
     \/ job \in {"create_stepping", "create_realtime"}
  /\ JobEnds("failed")
  /\ UNCHANGED <<status, mode, orderVars, stepmode, stepping, held, holding, endRequested,
                 restarting, game, produceTarget, frozen, reload>>

RunJob == Playing /\ (RunActs \/ RunRestart \/ RunCreate \/ JobFails)
-----------------------------------------------------------------------------
(* The game thread: one pass of the frame loop. *)

\* Frames come due only while the virtual clock moves.
BeginFrame ==
  /\ gt = "pacing" /\ (~frozen \/ due)
  /\ gt' = "update" /\ due' = FALSE
  /\ UNCHANGED <<why, episode, stepVars, simVars, hostVars, pipeVars, job, orderVars>>

\* The scheduled map reload replaces the simulation and its host.
Reload ==
  /\ gt = "pacing" /\ ~frozen /\ reload
  /\ host = "idle" /\ sim < MaxSims
  /\ sim' = sim + 1 /\ simTime' = 0 /\ fresh' = TRUE /\ reload' = FALSE
  /\ UNCHANGED <<pending, episode, stepVars, gameThread, hostVars, pipeVars, job, orderVars>>

\* Time passes natively, without step mode: as much as the turns allow.
FreeRunning == pending' = MaxTime

\* GameUpdate_hook: after a restart, the old simulation is not ours any more.
OldNotTold == FALSE
OldSimulation == restarting /\ simTime > 1

UpdateOld ==
  /\ gt = "update" /\ OldSimulation
  /\ FreeRunning /\ gt' = "orig"
  /\ UNCHANGED <<why, due, sim, simTime, reload, fresh, episode, stepVars, hostVars, pipeVars,
                 job, orderVars>>

Update ==
  /\ gt = "update" /\ ~OldSimulation
  /\ restarting' = FALSE
  /\ game' = sim
  /\ gt' = "service"
  /\ UNCHANGED <<why, due, episode, stepmode, stepping, held, holding, endRequested, target,
                 produceTarget, progress, stalled, reason, frozen, simVars, hostVars,
                 pipeVars, job, orderVars>>

\* The job just serviced was a restart.
UpdateRestarted ==
  /\ gt = "service" /\ restarting
  /\ game' = 0
  /\ FreeRunning /\ gt' = "orig"
  /\ UNCHANGED <<why, due, sim, simTime, reload, fresh, episode, stepmode, stepping, held, holding,
                 endRequested, restarting, target, produceTarget, progress, stalled,
                 reason, frozen, hostVars, pipeVars, job, orderVars>>

\* An ended game stands still: this frame does nothing.
UpdateEnded ==
  /\ gt = "service" /\ ~restarting
  /\ status = "ended" /\ stepmode /\ ~stepping
  /\ gt' = "pacing"
  /\ UNCHANGED <<why, due, episode, stepVars, simVars, hostVars, pipeVars, job, orderVars>>

\* act_flush, and on the first update of a simulation step_mode(1) with the
\* step to the hold.
Flush ==
  /\ gt = "service" /\ ~restarting
  /\ ~(status = "ended" /\ stepmode /\ ~stepping)
  /\ orders' = FALSE /\ owed' = FALSE
  /\ gt' = "feed"
  /\ IF stepmode \/ held
       THEN UNCHANGED <<stepmode, stepping, frozen, held, holding, target, progress,
                        stalled, reason>>
       ELSE /\ stepmode' = TRUE
            /\ IF simTime < HoldAt
                 THEN /\ holding' = TRUE /\ stepping' = TRUE /\ frozen' = FALSE
                      /\ target' = HoldAt /\ progress' = simTime /\ stalled' = 0
                      /\ reason' = "running"
                      /\ UNCHANGED held
                 ELSE /\ held' = TRUE /\ stepping' = FALSE /\ frozen' = TRUE
                      /\ UNCHANGED <<holding, target, progress, stalled, reason>>
  /\ UNCHANGED <<why, due, endRequested, restarting, game, produceTarget, episode, simVars,
                 hostVars, pipeVars, job, late>>

\* GAME_PENDING_MS: exactly the turns owed to the step, none between steps.
OwedBetweenSteps == IF target > simTime THEN target - simTime ELSE 0
Owed == IF stepping /\ target > simTime THEN target - simTime ELSE 0

Feed ==
  /\ gt = "feed"
  /\ gt' = "orig"
  /\ IF stepmode
       THEN pending' = Owed
       ELSE FreeRunning
  /\ UNCHANGED <<why, due, sim, simTime, reload, fresh, episode, stepVars, hostVars, pipeVars,
                 job, orderVars>>

\* Turns supplied and not consumed.
Credit == IF fresh THEN 0 ELSE sent - simTime

\* step_end_after_turn: the turn that ends the game is the frame's last.
PendingAfterEnd == IF game = 0 THEN pending - 1 ELSE 0

\* result_set for the agents a turn decided: the last agent's result ends the
\* game, and the frame with it (step_end_after_turn).
ResultSet(decided) ==
  IF status = "launched" \/ decided = {}
    THEN pending' = pending - 1 /\ UNCHANGED <<finished, status, endRequested>>
    ELSE /\ finished' = finished \cup decided
         /\ IF finished' = Agents
              THEN /\ status' = "ended" /\ endRequested' = TRUE
                   /\ pending' = PendingAfterEnd
              ELSE pending' = pending - 1 /\ UNCHANGED <<status, endRequested>>

\* GameUpdate_orig consumes a turn; RemovePlayer is called in it for some agents.
Turn(decided) ==
  /\ gt = "orig" /\ pending > 0 /\ Credit > 0
  /\ simTime < MaxTime
  /\ simTime' = simTime + 1
  /\ ResultSet(decided)
  /\ UNCHANGED <<mode, stepped, stepmode, stepping, held, holding, restarting, game,
                 target, produceTarget, progress, stalled, reason, frozen, sim, reload,
                 fresh, gameThread, hostVars, pipeVars, job, orderVars>>

\* Replay EOF or a map's EndGame tears the simulation down in a turn of a step.
\* What the game does after a teardown in realtime play is left out.
Close ==
  /\ trouble = "closes" /\ stepmode /\ stepping /\ ~holding
  /\ gt = "orig" /\ pending > 0 /\ simTime > 0 /\ ~fresh
  /\ simTime' = 0 /\ pending' = 0 /\ fresh' = TRUE
  /\ gt' = "after"
  /\ UNCHANGED <<why, due, sim, reload, episode, stepVars, hostVars, pipeVars, job, orderVars>>

\* GameUpdate_orig consumes whatever it may; free running it is paced by time.
UpdateReturns ==
  /\ gt = "orig"
  /\ pending = 0 \/ Credit <= 0 \/ simTime = MaxTime \/ ~stepmode
  /\ gt' = "after"
  /\ UNCHANGED <<why, due, episode, stepVars, simVars, hostVars, pipeVars, job, orderVars>>

\* The tail of GameUpdate_hook, and step_finish.
NoStep ==
  /\ gt = "after" /\ ~(stepmode /\ stepping)
  /\ gt' = "pacing"
  /\ UNCHANGED <<why, due, episode, stepVars, simVars, hostVars, pipeVars, job, orderVars>>

Closed == ~holding /\ simTime < progress

CloseStep ==
  /\ gt = "after" /\ stepmode /\ stepping /\ Closed
  /\ stepping' = FALSE
  /\ gt' = "freeze" /\ why' = "simulation_closed"
  /\ UNCHANGED <<due, episode, stepmode, held, holding, endRequested, restarting, game, target,
                 produceTarget, progress, stalled, reason, frozen, simVars, hostVars,
                 pipeVars, job, orderVars>>

\* Progress restarts the stall guard; only now may the host supply the step's
\* turns.
Publish ==
  /\ gt = "after" /\ stepmode /\ stepping /\ ~Closed
  /\ progress' = simTime
  /\ stalled' = IF simTime # progress THEN 0 ELSE Smaller(stalled + 1, StallFrames)
  /\ produceTarget' = target
  /\ gt' = "judge"
  /\ UNCHANGED <<why, due, episode, stepmode, stepping, held, holding, endRequested, restarting,
                 game, target, reason, frozen, simVars, hostVars, pipeVars, job, orderVars>>

ReplayOver == ~holding /\ IsReplay /\ simTime >= recording

VerdictEarly ==
  IF endRequested THEN "game_over"
  ELSE IF simTime + 1 >= target THEN "target"
  ELSE IF ~holding /\ stalled = StallFrames THEN "stalled" ELSE "running"
Verdict ==
  IF endRequested THEN "game_over"
  ELSE IF simTime >= target THEN "target"
  ELSE IF ~holding /\ stalled = StallFrames THEN "stalled" ELSE "running"

StepGoesOn ==
  /\ gt = "judge" /\ Verdict = "running"
  /\ gt' = "pacing"
  /\ UNCHANGED <<why, due, episode, stepVars, simVars, hostVars, pipeVars, job, orderVars>>

StatusAfter == IF ReplayOver /\ status = "in_game" THEN "ended" ELSE status

StepOver ==
  /\ gt = "judge" /\ Verdict # "running"
  /\ endRequested' = FALSE
  /\ stepping' = FALSE
  /\ status' = StatusAfter
  /\ why' = IF ReplayOver THEN "replay_end" ELSE Verdict
  /\ gt' = "freeze"
  /\ UNCHANGED <<due, mode, finished, stepped, stepmode, held, holding, restarting, game, target,
                 produceTarget, progress, stalled, reason, frozen, simVars, hostVars,
                 pipeVars, job, orderVars>>

Freeze ==
  /\ gt = "freeze"
  /\ frozen' = TRUE
  /\ gt' = "report"
  /\ due' \in BOOLEAN
  /\ UNCHANGED <<why, stepmode, stepping, held, holding, endRequested, restarting, game,
                 target, produceTarget, progress, stalled, reason, episode, simVars,
                 hostVars, pipeVars, job, orderVars>>

Report ==
  /\ gt = "report"
  /\ reason' = why
  /\ IF holding
       THEN holding' = FALSE /\ held' = TRUE /\ UNCHANGED <<status, stepped>>
       ELSE /\ stepped' = TRUE
            /\ IF why = "simulation_closed"
                 THEN held' = FALSE /\ status' = "launched"
                 ELSE UNCHANGED <<held, status>>
            /\ UNCHANGED holding
  /\ gt' = "pacing"
  /\ UNCHANGED <<why, due, mode, finished, stepmode, stepping, endRequested, restarting, game,
                 target, produceTarget, progress, stalled, frozen, simVars, hostVars,
                 pipeVars, job, orderVars>>

GameStep ==
  /\ Playing
  /\ \/ BeginFrame \/ UpdateOld \/ Update \/ UpdateRestarted \/ UpdateEnded \/ Flush \/ Feed
     \/ Close \/ UpdateReturns \/ NoStep \/ CloseStep \/ Publish
     \/ StepGoesOn \/ StepOver \/ Freeze \/ Report
     \/ \E decided \in SUBSET (Agents \ finished) : Turn(decided)
-----------------------------------------------------------------------------
(* The host thread: TurnProducer_hook and TurnTime_hook. *)

hostOnly == <<episode, stepVars, sim, simTime, reload, pending, gameThread, pipeVars, job,
              orderVars>>

\* What the host has sent to this simulation.
SentNow == IF fresh THEN 0 ELSE sent

\* In step mode the host supplies the published budget and stops.
BudgetOfRequest == target
Budget == produceTarget

HasBudgetWrapped == stepping /\ Budget # SentNow
HasBudget == stepping /\ Budget > SentNow

ProducerIdles ==
  /\ host = "idle" /\ stepmode /\ ~HasBudget
  /\ sent # SentNow
  /\ sent' = SentNow
  /\ UNCHANGED <<host, produce, fresh, hostOnly>>

Produce ==
  /\ host = "idle"
  /\ stepmode => HasBudget
  /\ SentNow < MaxTime
  /\ produce' = IF stepmode THEN Smaller(Budget - SentNow, ProduceMax) ELSE 1
  /\ sent' = SentNow
  /\ host' = "send"
  /\ UNCHANGED <<fresh, hostOnly>>

Send ==
  /\ host = "send"
  /\ sent' = sent + produce
  /\ fresh' = FALSE
  /\ host' = "idle" /\ produce' = 0
  /\ UNCHANGED hostOnly

HostStep == Playing /\ (ProducerIdles \/ Produce \/ Send)
-----------------------------------------------------------------------------
Next ==
  \/ Request \/ PipeStep \/ PipeTimeout \/ RunJob \/ GameStep \/ (Playing /\ Reload)
  \/ HostStep

Spec == Init /\ [][Next]_vars

\* Threads are scheduled: the pipe thread's own steps, the frame loop, jobs.
\* The host need not be: a game that stops producing turns is stalled.
Fairness ==
  WF_vars(PipeStep) /\ WF_vars(GameStep) /\ WF_vars(RunJob)

FairSpec == Spec /\ Fairness
-----------------------------------------------------------------------------
(* Correctness. *)

(* In an episode no step of which has outlasted its request: steps are      *)
(* exact ("Uninterrupted steps advance exactly the requested time",         *)
(* protocol.md); a reply's reason is the finished step's, its time never    *)
(* negative and never more than asked ("never wrapped elapsed time"); and a *)
(* client that steps learns of the end of its game, by a result or by the   *)
(* end of the recording, from the step it happened in, and is told of no    *)
(* end that did not happen.  After a step that was late the next one may be *)
(* answered by its signal: StepExact does not hold then.                    *)
StepExact ==
  reply.kind = "step" /\ reply.reason = "target" /\ ~IsReplay =>
    reply.elapsed = reply.asked
ReplyIsFinal ==
  reply.kind = "step" =>
    reply.reason \notin {"running", "simulation_closed"} /\ reply.elapsed \in 0..reply.asked
EndIsReported ==
  mode = "stepping" /\ pipe = "idle" /\ reply.kind = "step" =>
    (status = "ended" <=> reply.reason \in {"game_over", "replay_end"})
ReplyTruthful == ~late => StepExact /\ ReplyIsFinal /\ EndIsReported

(* A stepped episode stands still while its client is not waiting for a     *)
(* step: what it observes between steps is one state.                       *)
StillBetweenSteps ==
  [][simTime' # simTime /\ mode = "stepping" /\ ~late =>
       pipe \in {"thaw", "wait"}]_vars

(* A step that finds the host quiet gets no turn sent before the orders     *)
(* that came with it are flushed, or they would execute a turn late         *)
(* (design.md: "Publish the producer budget after actions flush").          *)
OrdersBeforeTurns ==
  [][sent' > sent /\ stepmode => ~owed]_vars

(* In step mode the simulation runs no turn past the step it was asked for, *)
(* none past the recorded duration of a playback (protocol.md), and none    *)
(* after the last agent's result: results are observed on the turn that     *)
(* decided the game.  (A step accepted while a late one ends may run on.)   *)
TurnsInBounds ==
  [][simTime' > simTime /\ stepmode =>
       /\ stepping /\ simTime' <= target
       /\ IsReplay => simTime' <= recording
       /\ late \/ status # "ended"]_vars

(* A game held for create_game is the one that was loaded last, at the      *)
(* start it is held at, without a result or an end of the game before it,   *)
(* whatever that simulation still did while it was torn down; and an        *)
(* episode runs in the simulation loaded last: none is about to replace it. *)
HeldAtStart ==
  /\ held /\ status = "launched" =>
       /\ game = sim /\ ~reload /\ ~restarting /\ frozen /\ simTime = HoldAt
       /\ finished = {} /\ ~endRequested
  /\ status = "in_game" => game = sim /\ ~reload /\ ~restarting

(* Every step is answered: the clock never stands still under a step that   *)
(* waits for frames, and a game that stops producing turns is stalled.      *)
StepAnswered == pipe = "wait" ~> pipe = "idle"
=============================================================================
