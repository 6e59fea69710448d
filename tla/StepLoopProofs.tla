--------------------------- MODULE StepLoopProofs ---------------------------
(***************************************************************************)
(* Machine-checked proofs about StepLoop, for every hold, length of step,  *)
(* budget, recording and bound: type correctness, where an episode starts, *)
(* which turns a step runs, and what its reply says.                       *)
(*                                                                         *)
(* What makes them true is a partition of the hook's life: a simulation    *)
(* that loads (Loading), runs to the hold (holding), is held, is played    *)
(* (Live) or was torn down.  Between steps of an episode the game thread   *)
(* is AtRest; a step that is waited for is InFlight, Ending or Over.       *)
(***************************************************************************)
EXTENDS StepLoop, TLAPS

Loading == ~stepmode /\ ~held
Live == status # "launched"
Serving == pipe \in {"thaw", "wait"}

\* No step runs or is being finished, and this frame consumes no turn.
AtRest ==
  /\ ~stepping
  /\ gt \in {"pacing", "update", "service", "feed", "orig", "after"}
  /\ gt = "orig" => pending = 0

\* A restarted process waits for its reload with the old simulation, which has run
\* past its first turn, and ignores it; a new one starts from nothing.
LoadInv ==
  /\ restarting => Loading /\ game = 0
  /\ reload => restarting /\ simTime > 1
  /\ restarting /\ ~reload => simTime = 0 /\ gt \in {"pacing", "update"}
  /\ Loading =>
       /\ status = "launched" /\ mode = "none" /\ finished = {}
       /\ ~stepping /\ ~holding /\ ~endRequested
       /\ gt \notin {"feed", "judge", "freeze", "report"}
  /\ Loading /\ ~restarting => simTime = 0 /\ gt \in {"pacing", "update", "service"}
  /\ ~restarting /\ (gt = "service" \/ ~Loading) => game = sim

\* Every simulation runs to the hold before anything else.
HoldInv ==
  /\ holding =>
       /\ stepmode /\ ~held /\ ~Live /\ mode = "none" /\ finished = {} /\ ~endRequested
       /\ target = HoldAt /\ simTime <= HoldAt
       /\ IF gt \in {"freeze", "report"}
            THEN ~stepping /\ simTime = HoldAt /\ (gt = "report" => frozen)
            ELSE stepping
  /\ held /\ ~Live =>
       /\ stepmode /\ ~holding /\ AtRest /\ mode = "none" /\ finished = {} /\ ~endRequested
       /\ frozen /\ simTime = HoldAt
  /\ Live =>
       /\ held /\ ~holding
       /\ mode = IF stepmode THEN "stepping" ELSE "realtime"
       /\ ~stepmode => ~stepping
  /\ stepmode /\ ~held /\ ~holding => AtRest /\ ~Live /\ mode = "stepping"

\* What a frame may consume in step mode is within the step.
PendingInv ==
  gt = "orig" /\ stepmode /\ pending > 0 => stepping /\ simTime + pending <= target

\* The simulation of a live episode has passed the hold, or is being torn down under
\* the step its client waits for.
Tearing ==
  /\ trouble = "closes" /\ simTime = 0 /\ status = "in_game" /\ ~endRequested
  /\ stepmode /\ Serving /\ ~stepped
  /\ \/ gt = "after" /\ stepping
     \/ gt \in {"freeze", "report"} /\ ~stepping /\ why = "simulation_closed"

ProgressInv ==
  /\ Live => simTime > 1 \/ Tearing
  /\ Live /\ stepping => progress > 1 /\ (simTime < progress => Tearing)
  /\ Live /\ stepping /\ IsReplay => target <= recording
  /\ Live /\ gt \in {"freeze", "report"} /\ why = "simulation_closed" => Tearing
  /\ gt \in {"judge", "freeze", "report"} => stepmode
  /\ gt = "judge" => stepping
  /\ endRequested => status = "ended"
  /\ late => trouble = "late"

\* Which job belongs to which position of the pipe thread, and what the position knows.
PipeInv ==
  /\ job # "none" => pipe \in {"acts", "restart", "create_restart", "create"}
  /\ job = "acts" => pipe = "acts"
  /\ job = "restart" => pipe \in {"restart", "create_restart"} /\ Live
  /\ job \in {"create_stepping", "create_realtime"} => pipe = "create" /\ held /\ ~Live
  /\ pipe \in {"acts", "reset", "request"} => Live /\ mode = "stepping"
  /\ Serving => mode = "stepping"
  /\ pipe \in {"create_restart_held", "create_held"} => ~Live
  /\ pipe \in {"restart", "create_restart"} /\ job = "ran" => ~Live
  /\ pipe = "create" => job # "none"

\* Orders wait for the next flush of a live episode.
OrderInv ==
  /\ orders => Live /\ gt \in {"pacing", "update", "service"}
  /\ owed => orders /\ stepmode /\ HostQuiet

\* No step of the episode has outlasted its request.
Punctual == ~late \/ (pipe = "create" /\ job = "ran")

\* The step that is waited for: it runs; it has run and its signal is to come; it is over.
InFlight ==
  /\ stepping /\ ~stepped /\ Live /\ gt \notin {"freeze", "report"}
  /\ target = IF IsReplay THEN Smaller(req.before + req.ms, recording)
                          ELSE req.before + req.ms
  /\ status = "ended" =>
       endRequested /\ gt \in {"orig", "after", "judge"} /\ (gt = "orig" => pending = 0)
  /\ Tearing \/ (req.before <= simTime /\ (simTime <= target \/ simTime = req.before))
EndedWith(v) ==
  v # "simulation_closed" =>
    /\ Live /\ v # "running"
    /\ simTime \in req.before .. req.before + req.ms
    /\ v = "target" /\ ~IsReplay => simTime = req.before + req.ms
    /\ status = "ended" <=> v \in {"game_over", "replay_end"}
Ending == ~stepping /\ ~stepped /\ gt \in {"freeze", "report"} /\ Live /\ EndedWith(why)
Over == stepped /\ AtRest /\ EndedWith(reason)

BetweenInv ==
  /\ Live /\ stepmode /\ ~Serving => AtRest
  /\ pipe \in {"acts", "reset", "request"} => status = "in_game"
  /\ pipe = "request" => ~stepped /\ req.before = simTime
ServeInv == Serving => InFlight \/ Ending \/ Over
PunctualInv == Punctual => BetweenInv /\ ServeInv

IInv ==
  /\ TypeOK /\ LoadInv /\ HoldInv /\ PendingInv /\ ProgressInv /\ PipeInv /\ OrderInv
  /\ PunctualInv /\ ReplyTruthful
-----------------------------------------------------------------------------
(* What the steps of a thread leave alone. *)

\* A frame moves on, and nothing else.
FrameMovesOn ==
  /\ BeginFrame \/ UpdateEnded \/ UpdateReturns \/ NoStep \/ StepGoesOn
  /\ Playing

LEMMA PipeLeaves ==
  ASSUME Request \/ PipeStep \/ PipeTimeout
  PROVE  /\ UNCHANGED <<status, mode, finished, stepmode, held, holding, endRequested,
                        restarting, game, produceTarget, simVars, gameThread, hostVars,
                        orders, recording, trouble>>
         /\ StepRequest \/ UNCHANGED <<stepping, target, progress, stalled, reason, owed>>
         /\ StepThaw \/ UNCHANGED frozen
         /\ ResetStepped \/ UNCHANGED stepped
         /\ StepTimeout \/ Created \/ UNCHANGED late
<1>1. CASE Request
  BY <1>1 DEF Request, Step, Reset, CreateAfterEnd, CreateLaunched, Playing, pipeOnly,
     episode, stepVars, simVars, gameThread, hostVars, orderVars
<1>2. CASE PipeTimeout
  BY <1>2 DEF PipeTimeout, JobLate, StepTimeout, HeldTimeout, Playing, pipeOnly,
     episode, stepVars, simVars, gameThread, hostVars, orderVars
<1>3. CASE PipeStep
  BY <1>3 DEF PipeStep, ActsQueued, ResetStepped, StepRefused, StepRequest, StepThaw,
     StepAnswer, Restarted, ResetHeld, CreateLaunched, CreateHeld, Created, Playing,
     pipeOnly, episode, stepVars, simVars, gameThread, hostVars, orderVars
<1> QED BY <1>1, <1>2, <1>3

LEMMA HostLeaves ==
  ASSUME HostStep
  PROVE  UNCHANGED <<hostOnly, recording, trouble>>
BY DEF HostStep, ProducerIdles, Produce, Send, Playing, hostOnly

LEMMA FrameLeaves ==
  ASSUME FrameMovesOn
  PROVE  UNCHANGED <<why, episode, stepVars, simVars, hostVars, pipeVars, job, orderVars,
                     recording, trouble>>
BY DEF FrameMovesOn, BeginFrame, UpdateEnded, UpdateReturns, NoStep, StepGoesOn, Playing

LEMMA GameCases ==
  ASSUME GameStep
  PROVE  /\ \/ FrameMovesOn \/ UpdateOld \/ Update \/ UpdateRestarted \/ Flush \/ Feed
            \/ Close \/ CloseStep \/ Publish \/ StepOver \/ Freeze \/ Report
            \/ \E decided \in SUBSET (Agents \ finished) : Turn(decided)
         /\ Playing
BY DEF GameStep, FrameMovesOn
-----------------------------------------------------------------------------
(* Types, each group of variables by itself. *)

EpisodeTypes ==
  /\ status \in {"launched", "in_game", "ended"} /\ mode \in {"none", "stepping", "realtime"}
  /\ finished \subseteq Agents /\ stepped \in BOOLEAN
  /\ recording \in Recordings /\ trouble \in Troubles
  /\ orders \in BOOLEAN /\ owed \in BOOLEAN /\ late \in BOOLEAN
StepFlags ==
  /\ stepmode \in BOOLEAN /\ stepping \in BOOLEAN /\ held \in BOOLEAN
  /\ holding \in BOOLEAN /\ endRequested \in BOOLEAN /\ restarting \in BOOLEAN
  /\ frozen \in BOOLEAN
StepTypes ==
  /\ StepFlags
  /\ target \in Nat /\ produceTarget \in Nat /\ progress \in Nat
  /\ stalled \in 0..StallFrames /\ reason \in Reasons
SimTypes ==
  /\ game \in {0, sim} /\ sim \in 1..MaxSims /\ simTime \in Nat /\ pending \in Nat
  /\ reload \in BOOLEAN
GameThreadTypes == why \in Reasons /\ gt \in GamePc /\ due \in BOOLEAN
HostTypes == host \in {"idle", "send"} /\ sent \in Nat /\ produce \in Nat /\ fresh \in BOOLEAN
PipeTypes ==
  /\ pipe \in PipePc /\ req \in [ms : StepTurns \cup {0}, before : Nat]
  /\ job \in {"none", "acts", "restart", "create_stepping", "create_realtime",
              "ran", "failed"}
  /\ reply \in [kind : Replies, asked : Nat, elapsed : Int, reason : Reasons]
Types ==
  /\ EpisodeTypes /\ StepTypes /\ SimTypes /\ GameThreadTypes /\ HostTypes /\ PipeTypes

LEMMA TypesApart == TypeOK <=> Types
BY DEF TypeOK, Types, EpisodeTypes, StepFlags, StepTypes, SimTypes, GameThreadTypes, HostTypes, PipeTypes

LEMMA TypesApartNext == TypeOK' <=> Types'
BY DEF TypeOK, Types, EpisodeTypes, StepFlags, StepTypes, SimTypes, GameThreadTypes, HostTypes, PipeTypes

LEMMA TargetIsTime ==
  ASSUME TypeOK, NEW ms \in Nat
  PROVE  GameTime \in Nat /\ Target(ms) \in Nat
<1>1. simTime \in Nat /\ recording \in Nat
  BY ConstantsAssumption DEF TypeOK
<1> QED
  BY <1>1 DEF GameTime, Target, IsReplay, Smaller

LEMMA TypeInit == Init => TypeOK
<1> SUFFICES ASSUME Init PROVE Types
  BY TypesApart
<1>1. EpisodeTypes /\ GameThreadTypes /\ HostTypes
  BY DEF Init, EpisodeTypes, GameThreadTypes, HostTypes, Reasons, GamePc
<1>3. StepFlags
  BY DEF Init, StepFlags
<1>4. StepTypes /\ SimTypes
  <2>1. StallFrames \in Nat /\ MaxSims \in Nat /\ MaxSims # 0
    BY ConstantsAssumption
  <2>2. StepTypes
    BY <1>3, <2>1 DEF Init, StepTypes, Reasons
  <2>3. SimTypes
    <3>1. game = 0 /\ sim = 1 /\ simTime = 0 /\ pending = 0 /\ reload = FALSE
      BY DEF Init
    <3>2. 1 \in 1..MaxSims
      BY <2>1
    <3> QED
      BY <3>1, <3>2 DEF SimTypes
  <2> QED
    BY <2>2, <2>3
<1>2. PipeTypes
  BY DEF Init, PipeTypes, NoReply, PipePc, Replies, Reasons
<1> QED
  BY <1>1, <1>2, <1>4 DEF Types

LEMMA RequestIsTime ==
  ASSUME Types
  PROVE  /\ req.ms \in Nat /\ req.before \in Nat
         /\ GameTime \in Nat /\ Target(req.ms) \in Nat
<1>1. req.ms \in Nat /\ req.before \in Nat
  <2>1. \A ms \in StepTurns \cup {0} : ms \in Nat
    BY ConstantsAssumption
  <2>2. req \in [ms : StepTurns \cup {0}, before : Nat]
    BY DEF Types, PipeTypes
  <2>3. req.ms \in StepTurns \cup {0} /\ req.before \in Nat
    BY <2>2
  <2> QED
    BY <2>1, <2>3
<1>2. TypeOK
  BY TypesApart
<1> QED
  BY <1>1, <1>2, TargetIsTime

\* The pipe thread and its requests.
LEMMA PipeTypesKept ==
  ASSUME Types, Request \/ PipeStep \/ PipeTimeout
  PROVE  PipeTypes'
<1> USE DEF PipePc
<1>1. CASE Request
  BY <1>1 DEF Request, Step, Reset, CreateAfterEnd, CreateLaunched, Types, PipeTypes
<1>2. Error \in [kind : Replies, asked : Nat, elapsed : Int, reason : Reasons]
  BY DEF Error, NoReply, Replies, Reasons
<1>3. [NoReply EXCEPT !.kind = "reset"]
        \in [kind : Replies, asked : Nat, elapsed : Int, reason : Reasons]
  BY DEF NoReply, Replies, Reasons
<1>4. [NoReply EXCEPT !.kind = "create"]
        \in [kind : Replies, asked : Nat, elapsed : Int, reason : Reasons]
  BY DEF NoReply, Replies, Reasons
<1>5. CASE PipeTimeout
  BY <1>2, <1>5 DEF PipeTimeout, JobLate, StepTimeout, HeldTimeout, Answer, Types, PipeTypes
<1>6. CASE StepAnswer
  <2>1. GameTime \in Nat /\ req.ms \in Nat /\ req.before \in Nat
    BY RequestIsTime
  <2>2. [kind |-> "step", asked |-> req.ms, elapsed |-> GameTime - req.before, reason |-> reason]
          \in [kind : Replies, asked : Nat, elapsed : Int, reason : Reasons]
    BY <2>1 DEF Types, StepTypes, Replies
  <2> QED
    BY <1>2, <1>6, <2>2 DEF StepAnswer, Answer, Types, PipeTypes
<1>7. CASE ResetStepped
  <2>1. GameTime \in Nat
    BY RequestIsTime
  <2>2. req' \in [ms : StepTurns \cup {0}, before : Nat]
    BY <1>7, <2>1 DEF ResetStepped, Types, PipeTypes
  <2> QED
    BY <1>7, <2>2 DEF ResetStepped, Types, PipeTypes
<1>8. CASE ResetHeld \/ Created
  BY <1>2, <1>3, <1>4, <1>8 DEF ResetHeld, Created, Answer, Types, PipeTypes
<1>9. CASE ActsQueued \/ StepRefused \/ Restarted \/ CreateLaunched \/ CreateHeld
  BY <1>2, <1>9 DEF ActsQueued, StepRefused, Restarted, CreateLaunched, CreateHeld, Answer,
     Types, PipeTypes
<1>10. CASE StepRequest \/ StepThaw
  BY <1>10 DEF StepRequest, StepThaw, Types, PipeTypes
<1> QED
  BY <1>1, <1>5, <1>6, <1>7, <1>8, <1>9, <1>10 DEF PipeStep

LEMMA TypePipe ==
  ASSUME Types, Request \/ PipeStep \/ PipeTimeout
  PROVE  Types'
<1>1. SimTypes' /\ GameThreadTypes' /\ HostTypes'
  BY PipeLeaves DEF Types, SimTypes, GameThreadTypes, HostTypes, simVars, gameThread, hostVars
<1>2. EpisodeTypes'
  BY PipeLeaves DEF StepRequest, ResetStepped, StepTimeout, Created, HostQuiet, Types,
     EpisodeTypes
<1>3. StepTypes'
  <2>1. StepFlags'
    BY PipeLeaves DEF StepRequest, StepThaw, Types, StepTypes, StepFlags
  <2>2. CASE StepRequest
    <3>1. Target(req.ms) \in Nat /\ GameTime \in Nat
      BY RequestIsTime
    <3>2. StallFrames \in Nat
      BY ConstantsAssumption
    <3> QED
      BY <2>1, <2>2, <3>1, <3>2 DEF StepRequest, Types, StepTypes, Reasons
  <2>3. CASE ~StepRequest
    BY <2>1, <2>3, PipeLeaves DEF Types, StepTypes
  <2> QED
    BY <2>2, <2>3
<1> QED
  BY <1>1, <1>2, <1>3, PipeTypesKept DEF Types

LEMMA TypeJob ==
  ASSUME Types, RunJob
  PROVE  Types'
<1>1. GameThreadTypes' /\ HostTypes' /\ PipeTypes'
  BY DEF RunJob, RunActs, RunRestart, RunCreate, JobFails, JobEnds, hostVars, pipeVars,
     gameThread, Types, GameThreadTypes, HostTypes, PipeTypes
<1>2. EpisodeTypes'
  BY DEF RunJob, RunActs, RunRestart, RunCreate, JobFails, JobEnds, Playing, orderVars, Types,
     EpisodeTypes
<1>3. SimTypes'
  BY DEF RunJob, RunActs, RunRestart, RunCreate, JobFails, JobEnds, Types, SimTypes
<1>4. StepTypes'
  <2>1. StepFlags'
    BY DEF RunJob, RunActs, RunRestart, RunCreate, JobFails, JobEnds, Types, StepTypes,
       StepFlags
  <2>2. UNCHANGED <<target, progress, stalled, reason>> /\ produceTarget' \in {produceTarget, 0}
    BY DEF RunJob, RunActs, RunRestart, RunCreate, JobFails, JobEnds
  <2> QED
    BY <2>1, <2>2 DEF Types, StepTypes
<1> QED
  BY <1>1, <1>2, <1>3, <1>4 DEF Types

LEMMA TypeGame ==
  ASSUME Types, GameStep
  PROVE  Types'
<1>0. MaxTime \in Nat /\ HoldAt \in Nat /\ StallFrames \in Nat
  BY ConstantsAssumption
<1>1. HostTypes' /\ PipeTypes'
  <2>1. UNCHANGED <<host, sent, produce, pipe, req, job, reply>>
    BY DEF GameStep, BeginFrame, UpdateOld, Update, UpdateRestarted, UpdateEnded, Flush,
       Feed, Close, UpdateReturns, NoStep, CloseStep, Publish, StepGoesOn, StepOver, Freeze,
       Report, Turn, hostVars, pipeVars
  <2>2. UNCHANGED fresh \/ fresh' = TRUE
    BY DEF GameStep, BeginFrame, UpdateOld, Update, UpdateRestarted, UpdateEnded, Flush,
       Feed, Close, UpdateReturns, NoStep, CloseStep, Publish, StepGoesOn, StepOver, Freeze,
       Report, Turn, simVars
  <2> QED
    BY <2>1, <2>2 DEF Types, HostTypes, PipeTypes
<1>2. CASE FrameMovesOn
  <2>1. GameThreadTypes'
    BY <1>2, FrameLeaves DEF FrameMovesOn, BeginFrame, UpdateEnded, UpdateReturns, NoStep,
       StepGoesOn, Types, GameThreadTypes, GamePc
  <2>2. EpisodeTypes' /\ SimTypes'
    BY <1>2, FrameLeaves DEF episode, stepVars, simVars, orderVars, Types, EpisodeTypes, SimTypes
  <2>3. StepTypes'
    BY <1>2, FrameLeaves DEF stepVars, Types, StepTypes, StepFlags
  <2> QED
    BY <1>1, <2>1, <2>2, <2>3 DEF Types
<1>3. CASE (UpdateOld \/ Update \/ UpdateRestarted \/ Feed) /\ Playing
  <2>1. EpisodeTypes' /\ GameThreadTypes'
    BY <1>3 DEF UpdateOld, Update, UpdateRestarted, Feed, Playing, episode, orderVars, Types,
       EpisodeTypes, GameThreadTypes, GamePc
  <2>2. StepTypes'
    <3>1. StepFlags'
      BY <1>3 DEF UpdateOld, Update, UpdateRestarted, Feed, stepVars, Types, StepTypes, StepFlags
    <3>2. UNCHANGED <<target, produceTarget, progress, stalled, reason>>
      BY <1>3 DEF UpdateOld, Update, UpdateRestarted, Feed, stepVars
    <3> QED
      BY <3>1, <3>2 DEF Types, StepTypes
  <2>3. SimTypes'
    <3>1. Owed \in Nat
      BY DEF Owed, Types, SimTypes, StepTypes
    <3>2. pending' \in Nat
      BY <1>0, <1>3, <3>1 DEF UpdateOld, Update, UpdateRestarted, Feed, FreeRunning, simVars,
         Types, SimTypes
    <3> QED
      BY <1>3, <3>2 DEF UpdateOld, Update, UpdateRestarted, Feed, stepVars, simVars, Types,
         SimTypes
  <2> QED
    BY <1>1, <2>1, <2>2, <2>3 DEF Types
<1>4. CASE Flush /\ Playing
  <2>1. EpisodeTypes' /\ SimTypes' /\ GameThreadTypes'
    BY <1>4 DEF Flush, Playing, episode, simVars, Types, EpisodeTypes, SimTypes,
       GameThreadTypes, GamePc
  <2>2. StepFlags'
    BY <1>4 DEF Flush, Types, StepTypes, StepFlags
  <2>3. /\ \/ UNCHANGED <<target, progress, stalled, reason>>
           \/ /\ target' = HoldAt /\ progress' = simTime
              /\ stalled' = 0 /\ reason' = "running"
        /\ UNCHANGED produceTarget
    BY <1>4 DEF Flush
  <2> QED
    BY <1>0, <1>1, <2>1, <2>2, <2>3 DEF Types, StepTypes, SimTypes, Reasons
<1>5. CASE (Close \/ CloseStep \/ Freeze) /\ Playing
  <2>1. EpisodeTypes' /\ SimTypes'
    BY <1>5 DEF Close, CloseStep, Freeze, Playing, episode, simVars, orderVars, stepVars,
       Types, EpisodeTypes, SimTypes
  <2>2. StepFlags' /\ GameThreadTypes'
    BY <1>5 DEF Close, CloseStep, Freeze, stepVars, Types, StepTypes, StepFlags,
       GameThreadTypes, GamePc, Reasons
  <2>3. UNCHANGED <<target, produceTarget, progress, stalled, reason>>
    BY <1>5 DEF Close, CloseStep, Freeze, stepVars
  <2> QED
    BY <1>1, <2>1, <2>2, <2>3 DEF Types, StepTypes
<1>6. CASE (StepOver \/ Report) /\ Playing
  <2>1. EpisodeTypes' /\ SimTypes'
    BY <1>6 DEF StepOver, Report, StatusAfter, Playing, simVars, orderVars, Types,
       EpisodeTypes, SimTypes
  <2>2. StepFlags' /\ GameThreadTypes'
    BY <1>6 DEF StepOver, Report, Verdict, Types, StepTypes, StepFlags, GameThreadTypes,
       GamePc, Reasons
  <2>3. UNCHANGED <<target, produceTarget, progress, stalled>> /\ reason' \in {reason, why}
    BY <1>6 DEF StepOver, Report
  <2> QED
    BY <1>1, <2>1, <2>2, <2>3 DEF Types, StepTypes, GameThreadTypes
<1>7. CASE Publish /\ Playing
  <2>1. EpisodeTypes' /\ SimTypes' /\ GameThreadTypes'
    BY <1>7 DEF Publish, Playing, episode, simVars, orderVars, Types, EpisodeTypes, SimTypes,
       GameThreadTypes, GamePc
  <2>2. StepTypes'
    BY <1>0, <1>7 DEF Publish, Smaller, Types, StepTypes, StepFlags, SimTypes
  <2> QED
    BY <1>1, <2>1, <2>2 DEF Types
<1>8. ASSUME NEW decided \in SUBSET (Agents \ finished), Turn(decided), Playing
      PROVE  Types'
  <2>1. EpisodeTypes'
    BY <1>8 DEF Turn, ResultSet, Playing, orderVars, Types, EpisodeTypes
  <2>2. SimTypes' /\ GameThreadTypes'
    BY <1>8 DEF Turn, ResultSet, PendingAfterEnd, gameThread, Types, SimTypes, GameThreadTypes
  <2>3. StepTypes'
    BY <1>8 DEF Turn, ResultSet, Types, StepTypes, StepFlags
  <2> QED
    BY <1>1, <2>1, <2>2, <2>3 DEF Types
<1> QED
  BY GameCases, <1>2, <1>3, <1>4, <1>5, <1>6, <1>7, <1>8

LEMMA TypeHost ==
  ASSUME Types, HostStep
  PROVE  Types'
<1>1. EpisodeTypes' /\ StepTypes' /\ SimTypes' /\ GameThreadTypes' /\ PipeTypes'
  BY HostLeaves DEF hostOnly, episode, stepVars, gameThread, pipeVars, orderVars, Types,
     EpisodeTypes, StepTypes, StepFlags, SimTypes, GameThreadTypes, PipeTypes
<1>2. SentNow \in Nat /\ ProduceMax \in Nat /\ sent \in Nat /\ produce \in Nat
          /\ produceTarget \in Nat
  BY ConstantsAssumption DEF SentNow, Types, HostTypes, StepTypes
<1>3. CASE Produce
  <2>1. produce' \in Nat
    BY <1>2, <1>3 DEF Produce, HasBudget, Budget, Smaller
  <2> QED
    BY <1>1, <1>2, <1>3, <2>1 DEF Produce, Types, HostTypes
<1>4. CASE ProducerIdles
  BY <1>1, <1>2, <1>4 DEF ProducerIdles, hostOnly, Types, HostTypes
<1>5. CASE Send
  <2>1. sent' \in Nat
    BY <1>2, <1>5 DEF Send
  <2> QED
    BY <1>1, <1>5, <2>1 DEF Send, Types, HostTypes
<1> QED
  BY <1>3, <1>4, <1>5 DEF HostStep

LEMMA TypeNext ==
  ASSUME TypeOK, LoadInv, [Next]_vars
  PROVE  TypeOK'
<1> SUFFICES Types'
  BY TypesApartNext
<1>1. Types
  BY TypesApart
<1>2. CASE Playing /\ Reload
  <2>1. game = 0
    BY <1>2 DEF Reload, LoadInv
  <2>2. MaxSims \in Nat
    BY ConstantsAssumption
  <2> QED
    <3>1. SimTypes'
      <4>1. sim \in Nat /\ sim + 1 \in 1..MaxSims
        BY <1>1, <1>2, <2>2 DEF Reload, Types, SimTypes
      <4> QED
        BY <1>1, <1>2, <2>1, <4>1 DEF Reload, stepVars, Types, SimTypes
    <3>4. HostTypes'
      BY <1>1, <1>2 DEF Reload, hostVars, Types, HostTypes
    <3>2. EpisodeTypes' /\ GameThreadTypes' /\ PipeTypes'
      BY <1>1, <1>2 DEF Reload, Playing, episode, gameThread, pipeVars, orderVars, Types,
         EpisodeTypes, GameThreadTypes, PipeTypes
    <3>3. StepTypes'
      BY <1>1, <1>2 DEF Reload, stepVars, Types, StepTypes, StepFlags
    <3> QED
      BY <3>1, <3>2, <3>3, <3>4 DEF Types
<1>3. CASE UNCHANGED vars
  BY <1>1, <1>3 DEF vars, episode, stepVars, simVars, gameThread, hostVars, pipeVars,
     orderVars, Types, EpisodeTypes, StepTypes, StepFlags, SimTypes, GameThreadTypes,
     HostTypes, PipeTypes
<1> QED
  BY <1>1, <1>2, <1>3, TypePipe, TypeJob, TypeGame, TypeHost DEF Next
-----------------------------------------------------------------------------
(* Loading and restarting. *)

LEMMA LoadPipe ==
  ASSUME LoadInv, Request \/ PipeStep \/ PipeTimeout
  PROVE  LoadInv'
<1>1. UNCHANGED <<status, mode, finished, stepmode, held, holding, endRequested, restarting,
                  game, sim, simTime, reload, gt>>
  BY PipeLeaves DEF simVars, gameThread
<1>2. UNCHANGED stepping \/ stepmode
  BY PipeLeaves DEF StepRequest
<1> QED
  BY <1>1, <1>2 DEF LoadInv, Loading

LEMMA LoadHost ==
  ASSUME LoadInv, HostStep
  PROVE  LoadInv'
BY HostLeaves DEF hostOnly, episode, stepVars, gameThread, LoadInv, Loading

LEMMA LoadJob ==
  ASSUME TypeOK, LoadInv, HoldInv, ProgressInv, PipeInv, RunJob
  PROVE  LoadInv'
<1>1. CASE RunActs \/ JobFails
  BY <1>1 DEF RunActs, JobFails, JobEnds, gameThread, LoadInv, Loading
<1>2. CASE RunRestart
  <2>1. simTime > 1
    BY <1>2 DEF RunRestart, PipeInv, ProgressInv, Tearing, Serving
  <2> QED
    BY <1>2, <2>1 DEF RunRestart, gameThread, LoadInv, Loading, atService
<1>3. CASE RunCreate
  <2>1. held
    BY <1>3 DEF RunCreate, PipeInv
  <2> QED
    BY <1>3, <2>1 DEF RunCreate, JobEnds, gameThread, LoadInv, Loading
<1> QED
  BY <1>1, <1>2, <1>3 DEF RunJob

LEMMA LoadGame ==
  ASSUME TypeOK, LoadInv, HoldInv, ProgressInv, GameStep
  PROVE  LoadInv'
<1> USE DEF LoadInv, Loading
<1>1. CASE FrameMovesOn
  BY <1>1, FrameLeaves DEF FrameMovesOn, BeginFrame, UpdateEnded, UpdateReturns, NoStep,
     StepGoesOn, episode, stepVars, simVars
<1>2. CASE UpdateOld \/ UpdateRestarted \/ Feed
  BY <1>2 DEF UpdateOld, OldSimulation, UpdateRestarted, Feed, episode, stepVars
<1>3. CASE Update
  <2>1. simTime \in Nat
    BY DEF TypeOK
  <2> QED
    BY <1>3, <2>1 DEF Update, OldSimulation, episode, simVars
<1>4. CASE Flush
  BY <1>4 DEF Flush, episode, simVars
<1>5. CASE Close \/ CloseStep \/ Publish \/ StepOver \/ Freeze
  BY <1>5 DEF Close, CloseStep, Publish, StepOver, Freeze, episode, stepVars, simVars
<1>6. CASE Report
  BY <1>6 DEF Report, ProgressInv, simVars
<1>7. ASSUME NEW decided \in SUBSET (Agents \ finished), Turn(decided)
      PROVE  LoadInv'
  <2>1. /\ UNCHANGED <<mode, stepmode, stepping, held, holding, restarting, game, sim, reload, gt>>
        /\ gt = "orig" /\ simTime' = simTime + 1
    BY <1>7 DEF Turn, gameThread
  <2>2. Loading => UNCHANGED <<finished, status, endRequested>>
    BY <1>7 DEF Turn, ResultSet
  <2>3. simTime \in Nat
    BY DEF TypeOK
  <2> QED
    BY <2>1, <2>2, <2>3
<1> QED
  BY GameCases, <1>1, <1>2, <1>3, <1>4, <1>5, <1>6, <1>7

LEMMA LoadKept ==
  ASSUME IInv, [Next]_vars
  PROVE  LoadInv'
<1>1. TypeOK /\ LoadInv /\ HoldInv /\ ProgressInv /\ PipeInv
  BY DEF IInv
<1>2. CASE Playing /\ Reload
  BY <1>1, <1>2 DEF Reload, episode, stepVars, gameThread, LoadInv, Loading
<1>3. CASE UNCHANGED vars
  BY <1>1, <1>3 DEF vars, episode, stepVars, simVars, gameThread, LoadInv, Loading
<1> QED
  BY <1>1, <1>2, <1>3, LoadPipe, LoadHost, LoadJob, LoadGame DEF Next
-----------------------------------------------------------------------------
(* The hold. *)

LEMMA HoldPipe ==
  ASSUME HoldInv, PipeInv, Request \/ PipeStep \/ PipeTimeout
  PROVE  HoldInv'
<1>1. UNCHANGED <<status, mode, finished, stepmode, held, holding, endRequested, simTime,
                  pending, gt>>
  BY PipeLeaves DEF simVars, gameThread
<1>2. CASE UNCHANGED <<stepping, target, frozen>>
  BY <1>1, <1>2 DEF HoldInv, AtRest, Live
<1>3. CASE StepRequest
  <2>1. Live /\ stepmode /\ UNCHANGED frozen
    BY <1>3 DEF StepRequest, PipeInv
  <2> QED
    BY <1>1, <2>1 DEF HoldInv, AtRest, Live
<1>4. CASE StepThaw
  <2>1. mode = "stepping" /\ UNCHANGED <<stepping, target>>
    BY <1>4 DEF StepThaw, PipeInv, Serving
  <2> QED
    BY <1>1, <2>1 DEF HoldInv, AtRest, Live
<1> QED
  BY <1>2, <1>3, <1>4, PipeLeaves

LEMMA HoldHost ==
  ASSUME HoldInv, HostStep
  PROVE  HoldInv'
BY HostLeaves DEF hostOnly, episode, stepVars, gameThread, HoldInv, AtRest, Live

LEMMA HoldJob ==
  ASSUME HoldInv, PipeInv, RunJob
  PROVE  HoldInv'
<1>1. CASE RunActs \/ JobFails
  BY <1>1 DEF RunActs, JobFails, JobEnds, gameThread, HoldInv, AtRest, Live
<1>2. CASE RunRestart
  BY <1>2 DEF RunRestart, HoldInv, Live
<1>3. CASE RunCreate
  <2>1. held /\ ~Live
    BY <1>3 DEF RunCreate, PipeInv
  <2> QED
    BY <1>3, <2>1 DEF RunCreate, JobEnds, HoldInv, Live
<1> QED
  BY <1>1, <1>2, <1>3 DEF RunJob

LEMMA HoldGame ==
  ASSUME TypeOK, LoadInv, HoldInv, PendingInv, ProgressInv, GameStep
  PROVE  HoldInv'
<1>0. simTime \in Nat /\ pending \in Nat /\ HoldAt \in Nat /\ 0 < HoldAt
  BY ConstantsAssumption DEF TypeOK
<1>1. CASE FrameMovesOn
  BY <1>1, FrameLeaves DEF FrameMovesOn, BeginFrame, UpdateEnded, UpdateReturns, NoStep,
     StepGoesOn, episode, stepVars, simVars, HoldInv, AtRest, Live
<1>2. CASE UpdateOld \/ UpdateRestarted
  BY <1>2 DEF UpdateOld, OldSimulation, UpdateRestarted, episode, stepVars, LoadInv, Loading,
     HoldInv, AtRest, Live
<1>3. CASE Update
  BY <1>3 DEF Update, episode, simVars, HoldInv, AtRest, Live
<1>4. CASE Flush
  <2>1. CASE stepmode \/ held
    BY <1>4, <2>1 DEF Flush, episode, simVars, HoldInv, AtRest, Live
  <2>2. CASE Loading
    <3>1. simTime = 0 /\ status = "launched" /\ mode = "none" /\ finished = {} /\ ~held
            /\ ~endRequested
      BY <1>4, <2>2 DEF Flush, LoadInv, Loading
    <3>2. /\ stepmode' = TRUE /\ holding' = TRUE /\ stepping' = TRUE /\ target' = HoldAt
          /\ gt' = "feed"
          /\ UNCHANGED <<held, endRequested, episode, simVars>>
      BY <1>0, <1>4, <2>2, <3>1 DEF Flush, Loading
    <3> QED
      BY <1>0, <3>1, <3>2 DEF episode, simVars, HoldInv, Live
  <2> QED BY <2>1, <2>2 DEF Loading
<1>5. CASE Feed
  BY <1>5 DEF Feed, Owed, episode, stepVars, HoldInv, AtRest, Live
<1>6. CASE Close
  BY <1>6 DEF Close, episode, stepVars, HoldInv, AtRest, Live
<1>7. CASE CloseStep
  BY <1>7 DEF CloseStep, Closed, episode, simVars, HoldInv, AtRest, Live
<1>8. CASE Publish
  BY <1>8 DEF Publish, episode, simVars, HoldInv, AtRest, Live
<1>9. CASE StepOver
  <2>1. gt = "judge" /\ gt' = "freeze" /\ stepping' = FALSE /\ endRequested' = FALSE
    BY <1>9 DEF StepOver
  <2>2. UNCHANGED <<holding, stepmode, held, mode, finished, target, simTime, frozen>>
    BY <1>9 DEF StepOver, simVars
  <2>3. status' = status \/ (Live /\ Live')
    BY <1>9 DEF StepOver, StatusAfter, Live
  <2>4. holding => simTime = HoldAt
    BY <1>0, <1>9 DEF StepOver, Verdict, HoldInv
  <2> QED
    BY <2>1, <2>2, <2>3, <2>4 DEF HoldInv, AtRest, Live
<1>10. CASE Freeze
  BY <1>10 DEF Freeze, episode, simVars, HoldInv, AtRest, Live
<1>11. CASE Report
  <2>1. stepmode /\ UNCHANGED <<mode, finished, stepmode, stepping, endRequested, simTime, frozen>>
    BY <1>11 DEF Report, ProgressInv, simVars
  <2>2. CASE holding
    BY <1>11, <2>1, <2>2 DEF Report, HoldInv, AtRest, Live
  <2>3. CASE ~holding
    <3>1. Live
      BY <1>11, <2>1, <2>3 DEF Report, HoldInv, AtRest
    <3>2. why = "simulation_closed" => ~stepping
      BY <1>11, <3>1 DEF Report, ProgressInv, Tearing
    <3>3. held /\ mode = "stepping" /\ ~holding' /\ gt' = "pacing"
      BY <1>11, <2>1, <2>3, <3>1 DEF Report, HoldInv
    <3>4. CASE why = "simulation_closed"
      <4>1. ~held' /\ ~Live' /\ ~stepping'
        BY <1>11, <2>1, <2>3, <3>2, <3>4 DEF Report, Live
      <4> QED
        BY <2>1, <3>3, <4>1 DEF HoldInv, AtRest
    <3>5. CASE why # "simulation_closed"
      <4>1. held' /\ Live'
        BY <1>11, <2>3, <3>1, <3>3, <3>5 DEF Report, Live
      <4> QED
        BY <2>1, <3>3, <4>1 DEF HoldInv
    <3> QED BY <3>4, <3>5
  <2> QED BY <2>2, <2>3
<1>12. ASSUME NEW decided \in SUBSET (Agents \ finished), Turn(decided)
       PROVE  HoldInv'
  <2>1. /\ UNCHANGED <<mode, stepmode, stepping, held, holding, target, frozen, gt>>
        /\ gt = "orig" /\ simTime' = simTime + 1 /\ pending > 0
    BY <1>12 DEF Turn, gameThread
  <2>2. ~Live => UNCHANGED <<finished, status, endRequested>>
    BY <1>12 DEF Turn, ResultSet, Live
  <2>3. Live => Live'
    BY <1>12 DEF Turn, ResultSet, Live
  <2>4. holding => simTime + 1 <= HoldAt
    BY <1>0, <2>1 DEF PendingInv, HoldInv
  <2>5. ~AtRest
    BY <2>1, <1>0 DEF AtRest
  <2> QED
    BY <2>1, <2>2, <2>3, <2>4, <2>5 DEF HoldInv, Live
<1> QED
  BY GameCases, <1>1, <1>2, <1>3, <1>4, <1>5, <1>6, <1>7, <1>8, <1>9, <1>10, <1>11, <1>12

LEMMA HoldKept ==
  ASSUME IInv, [Next]_vars
  PROVE  HoldInv'
<1>1. TypeOK /\ LoadInv /\ HoldInv /\ PendingInv /\ ProgressInv /\ PipeInv
  BY DEF IInv
<1>2. CASE Playing /\ Reload
  BY <1>1, <1>2 DEF Reload, episode, stepVars, gameThread, LoadInv, Loading, HoldInv, AtRest,
     Live
<1>3. CASE UNCHANGED vars
  BY <1>1, <1>3 DEF vars, episode, stepVars, simVars, gameThread, HoldInv, AtRest, Live
<1> QED
  BY <1>1, <1>2, <1>3, HoldPipe, HoldHost, HoldJob, HoldGame DEF Next
-----------------------------------------------------------------------------
(* Turns owed, and progress. *)

LEMMA PendingKept ==
  ASSUME IInv, [Next]_vars
  PROVE  PendingInv'
<1>1. TypeOK /\ LoadInv /\ PendingInv
  BY DEF IInv
<1>2. simTime \in Nat /\ pending \in Nat /\ target \in Nat
  BY <1>1 DEF TypeOK
<1>3. CASE Request \/ PipeStep \/ PipeTimeout
  <2>1. UNCHANGED <<gt, stepmode, pending, simTime>>
    BY <1>3, PipeLeaves DEF simVars, gameThread
  <2>2. ~stepping \/ UNCHANGED <<stepping, target>>
    BY <1>3, PipeLeaves DEF StepRequest
  <2> QED
    BY <1>1, <2>1, <2>2 DEF PendingInv
<1>4. CASE RunJob
  BY <1>4 DEF RunJob, RunActs, RunRestart, RunCreate, JobFails, JobEnds, gameThread, atService,
     PendingInv
<1>5. CASE GameStep
  <2>1. CASE UpdateOld \/ UpdateRestarted
    BY <1>1, <2>1 DEF UpdateOld, OldSimulation, UpdateRestarted, stepVars, LoadInv, Loading,
       PendingInv
  <2>2. CASE Feed
    BY <1>2, <2>2 DEF Feed, Owed, stepVars, PendingInv
  <2>3. CASE FrameMovesOn \/ Update \/ Flush \/ Close \/ CloseStep \/ Publish \/ StepOver
             \/ Freeze \/ Report
    BY <2>3 DEF FrameMovesOn, BeginFrame, UpdateEnded, UpdateReturns, NoStep, StepGoesOn,
       Update, Flush, Close, CloseStep, Publish, StepOver, Freeze, Report, PendingInv
  <2>4. ASSUME NEW decided \in SUBSET (Agents \ finished), Turn(decided)
        PROVE  PendingInv'
    <3>1. /\ UNCHANGED <<stepmode, stepping, target, gt>>
          /\ simTime' = simTime + 1 /\ pending > 0 /\ gt = "orig"
      BY <2>4 DEF Turn, gameThread
    <3>2. pending' \in {pending - 1, 0}
      BY <2>4 DEF Turn, ResultSet, PendingAfterEnd
    <3>3. CASE pending' = 0
      BY <3>3 DEF PendingInv
    <3>4. CASE pending' = pending - 1
      <4>1. stepmode => stepping /\ simTime + pending <= target
        BY <1>1, <3>1 DEF PendingInv
      <4>2. simTime' + pending' = simTime + pending
        BY <1>2, <3>1, <3>4
      <4> QED
        BY <3>1, <4>1, <4>2 DEF PendingInv
    <3> QED BY <3>2, <3>3, <3>4
  <2> QED BY <1>5, GameCases, <2>1, <2>2, <2>3, <2>4
<1>6. CASE Playing /\ Reload
  BY <1>6 DEF Reload, gameThread, PendingInv
<1>7. CASE HostStep \/ UNCHANGED vars
  BY <1>1, <1>7, HostLeaves DEF vars, hostOnly, stepVars, gameThread, simVars, PendingInv
<1> QED
  BY <1>3, <1>4, <1>5, <1>6, <1>7 DEF Next

\* A step that is torn down stays so until its reply, whatever the pipe thread does.
LEMMA TearingKept ==
  ASSUME Tearing, Request \/ PipeStep \/ PipeTimeout
  PROVE  Tearing'
<1>1. pipe \in {"thaw", "wait"} /\ ~stepped /\ trouble = "closes"
  BY DEF Tearing, Serving
<1>2. ~Request
  BY <1>1 DEF Request, Step, Reset, CreateAfterEnd
<1>3. ~PipeTimeout
  BY <1>1 DEF PipeTimeout, JobLate, StepTimeout, HeldTimeout
<1>4. PipeStep => StepThaw
  BY <1>1 DEF PipeStep, ActsQueued, ResetStepped, StepRefused, StepRequest, StepAnswer,
     Restarted, ResetHeld, CreateLaunched, CreateHeld, Created
<1>5. StepThaw /\ PipeStep
  BY <1>2, <1>3, <1>4
<1> QED
  BY <1>5 DEF StepThaw, PipeStep, Playing, episode, simVars, gameThread, Tearing, Serving

LEMMA RequestedProgress ==
  ASSUME TypeOK, LoadInv, HoldInv, ProgressInv, PipeInv, StepRequest
  PROVE  /\ Live /\ simTime > 1 /\ ~Tearing /\ GameTime = simTime
         /\ progress' = simTime /\ stepping' = TRUE
         /\ IsReplay => target' <= recording
<1>1. pipe = "request" /\ Live
  BY DEF StepRequest, PipeInv
<1>2. ~Tearing /\ simTime > 1
  BY <1>1 DEF Tearing, Serving, ProgressInv
<1>3. GameTime = simTime
  BY DEF StepRequest, GameTime
<1>4. IsReplay => Target(req.ms) <= recording
  <2>1. simTime \in Nat /\ req.ms \in Nat /\ recording \in Nat
    BY TypesApart, RequestIsTime, ConstantsAssumption DEF Types, EpisodeTypes, SimTypes
  <2> QED
    BY <1>3, <2>1 DEF Target, Smaller
<1> QED
  BY <1>1, <1>2, <1>3, <1>4 DEF StepRequest

LEMMA ProgressPipe ==
  ASSUME TypeOK, LoadInv, HoldInv, ProgressInv, PipeInv, Request \/ PipeStep \/ PipeTimeout
  PROVE  ProgressInv'
<1>1. UNCHANGED <<status, stepmode, endRequested, simTime, gt, why, recording, trouble>>
  BY PipeLeaves DEF simVars, gameThread
<1>2. late' => trouble' = "late"
  BY <1>1, PipeLeaves DEF StepTimeout, Created, ProgressInv
<1>3. CASE UNCHANGED <<stepping, target, progress>>
  BY <1>1, <1>2, <1>3, TearingKept DEF ProgressInv, Live, IsReplay
<1>4. CASE StepRequest
  <2>1. /\ Live /\ simTime > 1 /\ ~Tearing
        /\ progress' = simTime /\ stepping' = TRUE
        /\ IsReplay => target' <= recording
    BY <1>4, RequestedProgress
  <2>2. simTime \in Nat
    BY DEF TypeOK
  <2> QED
    BY <1>1, <1>2, <2>1, <2>2 DEF ProgressInv, Live, IsReplay
<1> QED
  BY <1>3, <1>4, PipeLeaves

LEMMA ProgressJob ==
  ASSUME HoldInv, ProgressInv, PipeInv, RunJob
  PROVE  ProgressInv'
<1>1. ~Tearing /\ gt \notin {"judge", "freeze", "report"} /\ UNCHANGED <<gt, simTime, progress,
        target, recording, trouble, late>>
  BY DEF RunJob, RunActs, RunRestart, RunCreate, JobFails, JobEnds, Playing, gameThread,
     orderVars, atService, Tearing
<1>2. CASE RunActs \/ JobFails
  BY <1>1, <1>2 DEF RunActs, JobFails, JobEnds, ProgressInv, Live, IsReplay
<1>3. CASE RunRestart
  BY <1>1, <1>3 DEF RunRestart, ProgressInv, Live
<1>4. CASE RunCreate
  <2>1. held /\ ~Live
    BY <1>4 DEF RunCreate, PipeInv
  <2>2. simTime > 1 /\ ~stepping /\ ~endRequested
    BY <2>1, ConstantsAssumption DEF HoldInv, AtRest
  <2>3. ~stepping' /\ ~endRequested'
    BY <1>4, <2>2 DEF RunCreate
  <2> QED
    BY <1>1, <2>2, <2>3 DEF ProgressInv
<1> QED
  BY <1>2, <1>3, <1>4 DEF RunJob

\* A simulation is torn down only under a step that its client still waits for.
LEMMA CloseTears ==
  ASSUME TypeOK, HoldInv, ProgressInv, PunctualInv, Close, Playing
  PROVE  Live /\ Tearing'
<1>1. /\ trouble = "closes" /\ stepmode /\ stepping /\ ~holding
      /\ gt = "orig" /\ pending > 0
  BY DEF Close
<1>2. pending # 0
  BY <1>1
<1>3. Live
  BY <1>1 DEF HoldInv, AtRest
<1>4. Punctual
  BY <1>1 DEF Punctual, ProgressInv
<1>5. Serving
  BY <1>1, <1>3, <1>4 DEF PunctualInv, BetweenInv, AtRest
<1>6. InFlight
  BY <1>1, <1>4, <1>5 DEF PunctualInv, ServeInv, Ending, Over, AtRest
<1>7. ~stepped /\ status # "ended"
  BY <1>1, <1>2, <1>6 DEF InFlight
<1>8. status = "in_game" /\ ~endRequested
  BY <1>3, <1>7 DEF Live, TypeOK, ProgressInv
<1>9. /\ simTime' = 0 /\ gt' = "after"
      /\ UNCHANGED <<status, stepped, endRequested, stepmode, stepping, pipe, trouble>>
  BY DEF Close, Playing, episode, stepVars, pipeVars
<1> QED
  BY <1>1, <1>3, <1>5, <1>7, <1>8, <1>9 DEF Tearing, Serving
LEMMA ProgressGame ==
  ASSUME TypeOK, LoadInv, HoldInv, ProgressInv, PunctualInv, GameStep
  PROVE  ProgressInv'
<1>0. simTime \in Nat /\ progress \in Nat /\ UNCHANGED <<recording, trouble>>
  BY GameCases DEF TypeOK, Playing
<1>1. CASE FrameMovesOn
  <2>1. ~Tearing /\ gt \notin {"freeze", "report"} /\ gt' \notin {"judge", "freeze", "report"}
    BY <1>1 DEF FrameMovesOn, BeginFrame, UpdateEnded, UpdateReturns, NoStep, StepGoesOn,
       Tearing
  <2>2. UNCHANGED <<status, stepmode, stepping, endRequested, simTime, progress, target, late>>
    BY <1>1, FrameLeaves DEF episode, stepVars, simVars, orderVars
  <2> QED
    BY <1>0, <2>1, <2>2 DEF ProgressInv, Live, IsReplay
<1>2. CASE UpdateOld \/ UpdateRestarted
  <2>1. ~Live /\ ~endRequested
    BY <1>2 DEF UpdateOld, OldSimulation, UpdateRestarted, LoadInv, Live
  <2>2. gt' = "orig" /\ UNCHANGED <<status, endRequested, late>>
    BY <1>2 DEF UpdateOld, UpdateRestarted, episode, stepVars, orderVars
  <2> QED
    BY <1>0, <2>1, <2>2 DEF ProgressInv, Live
<1>3. CASE Update \/ Feed
  <2>1. ~Tearing /\ gt' \in {"service", "orig"}
    BY <1>3 DEF Update, Feed, Tearing
  <2>2. UNCHANGED <<status, stepmode, stepping, endRequested, simTime, progress, target, late>>
    BY <1>3 DEF Update, Feed, episode, stepVars, simVars, orderVars
  <2> QED
    BY <1>0, <2>1, <2>2 DEF ProgressInv, Live, IsReplay
<1>4. CASE Flush
  <2>1. ~Tearing /\ gt' = "feed" /\ UNCHANGED <<status, endRequested, simTime, late>>
    BY <1>4 DEF Flush, Tearing, episode, simVars
  <2>2. Live => UNCHANGED <<stepping, progress, target>>
    BY <1>4 DEF Flush, HoldInv
  <2> QED
    BY <1>0, <2>1, <2>2 DEF ProgressInv, Live, IsReplay
<1>5. CASE Close
  <2>1. Live /\ Tearing'
    BY <1>5, GameCases, CloseTears
  <2>2. gt' = "after" /\ UNCHANGED <<status, stepping, endRequested, progress, target, late>>
    BY <1>5 DEF Close, episode, stepVars, orderVars
  <2>3. stepping
    BY <1>5 DEF Close
  <2> QED
    BY <1>0, <2>1, <2>2, <2>3 DEF ProgressInv, Live, IsReplay
<1>6. CASE CloseStep
  <2>1. /\ gt = "after" /\ stepmode /\ stepping /\ ~holding /\ simTime < progress
        /\ gt' = "freeze" /\ why' = "simulation_closed" /\ stepping' = FALSE
        /\ UNCHANGED <<episode, stepmode, endRequested, simVars, pipeVars, late>>
    BY <1>6 DEF CloseStep, Closed, orderVars
  <2>2. Live
    BY <2>1 DEF HoldInv, AtRest
  <2>3. Tearing
    BY <2>1, <2>2 DEF ProgressInv
  <2>4. Tearing'
    BY <1>0, <2>1, <2>3 DEF Tearing, Serving, episode, simVars, pipeVars
  <2> QED
    BY <1>0, <2>1, <2>4 DEF ProgressInv, episode
<1>7. CASE Publish
  <2>1. /\ gt = "after" /\ stepmode /\ stepping /\ (holding \/ ~(simTime < progress))
        /\ gt' = "judge" /\ progress' = simTime
        /\ UNCHANGED <<status, stepmode, stepping, endRequested, simTime, target, late>>
    BY <1>7 DEF Publish, Closed, episode, simVars, orderVars
  <2>2. Live => simTime > 1
    BY <1>0, <2>1 DEF ProgressInv, HoldInv, Tearing
  <2> QED
    BY <1>0, <2>1, <2>2 DEF ProgressInv, Live, IsReplay
<1>8. CASE StepOver
  <2>1. /\ gt = "judge" /\ gt' = "freeze" /\ why' # "simulation_closed"
        /\ stepping' = FALSE /\ endRequested' = FALSE
        /\ UNCHANGED <<stepmode, simTime, late>>
    BY <1>8 DEF StepOver, Verdict, simVars, orderVars
  <2>2. Live' => Live
    BY <1>8 DEF StepOver, StatusAfter, Live
  <2>3. ~Tearing /\ stepmode
    BY <2>1 DEF Tearing, ProgressInv
  <2> QED
    BY <1>0, <2>1, <2>2, <2>3 DEF ProgressInv
<1>9. CASE Freeze
  <2>1. /\ gt = "freeze" /\ gt' = "report"
        /\ UNCHANGED <<episode, stepmode, stepping, endRequested, simTime, progress, target, why,
                       pipe, late>>
    BY <1>9 DEF Freeze, simVars, pipeVars, orderVars
  <2>2. Tearing => Tearing'
    BY <1>0, <2>1 DEF Tearing, Serving, episode
  <2> QED
    BY <1>0, <2>1, <2>2 DEF ProgressInv, Live, IsReplay, episode
<1>10. CASE Report
  <2>1. /\ gt = "report" /\ gt' = "pacing"
        /\ UNCHANGED <<stepmode, stepping, endRequested, simTime, progress, target, late>>
    BY <1>10 DEF Report, simVars, orderVars
  <2>2. CASE why = "simulation_closed" /\ ~holding
    <3>1. ~Live'
      BY <1>10, <2>2 DEF Report, Live
    <3>2. Live => Tearing
      BY <2>1, <2>2 DEF ProgressInv
    <3>3. ~endRequested
      BY <3>2 DEF ProgressInv, Live, Tearing
    <3> QED
      BY <1>0, <2>1, <3>1, <3>3 DEF ProgressInv
  <2>3. CASE ~(why = "simulation_closed" /\ ~holding)
    <3>1. UNCHANGED status
      BY <1>10, <2>3 DEF Report
    <3>2. Live => ~Tearing
      BY <2>1, <2>3 DEF Tearing, HoldInv
    <3> QED
      BY <1>0, <2>1, <3>1, <3>2 DEF ProgressInv, Live, IsReplay
  <2> QED BY <2>2, <2>3
<1>11. ASSUME NEW decided \in SUBSET (Agents \ finished), Turn(decided)
       PROVE  ProgressInv'
  <2>1. /\ gt = "orig" /\ simTime' = simTime + 1
        /\ UNCHANGED <<stepmode, stepping, progress, target, late, gt>>
    BY <1>11 DEF Turn, gameThread, orderVars
  <2>2. Live' => Live
    BY <1>11 DEF Turn, ResultSet, Live
  <2>3. endRequested' => status' = "ended"
    BY <1>11 DEF Turn, ResultSet, ProgressInv
  <2>4. ~Tearing
    BY <2>1 DEF Tearing
  <2> QED
    BY <1>0, <2>1, <2>2, <2>3, <2>4 DEF ProgressInv, IsReplay
<1> QED
  BY GameCases, <1>1, <1>2, <1>3, <1>4, <1>5, <1>6, <1>7, <1>8, <1>9, <1>10, <1>11

LEMMA ProgressKept ==
  ASSUME IInv, [Next]_vars
  PROVE  ProgressInv'
<1>1. TypeOK /\ LoadInv /\ HoldInv /\ ProgressInv /\ PipeInv /\ PunctualInv
  BY DEF IInv
<1>2. CASE Playing /\ Reload
  <2>1. ~Live /\ gt = "pacing" /\ UNCHANGED <<status, endRequested, late, trouble, gt>>
    BY <1>1, <1>2 DEF Reload, Playing, episode, stepVars, orderVars, gameThread, LoadInv,
       Live
  <2> QED
    BY <1>1, <2>1 DEF ProgressInv, Live
<1>3. CASE HostStep \/ UNCHANGED vars
  BY <1>1, <1>3, HostLeaves DEF vars, hostOnly, episode, stepVars, gameThread, simVars, pipeVars,
     orderVars, ProgressInv, Live, IsReplay, Tearing, Serving
<1> QED
  BY <1>1, <1>2, <1>3, ProgressPipe, ProgressJob, ProgressGame DEF Next
-----------------------------------------------------------------------------
(* The pipe thread and its jobs. *)

\* The game thread ends an episode, but neither starts nor unloads one, except when a step
\* is torn down.
LEMMA GameKeepsEpisode ==
  ASSUME LoadInv, HoldInv, ProgressInv, GameStep
  PROVE  /\ UNCHANGED <<mode, pipe, req, job, reply>>
         /\ Live' => Live
         /\ \/ Tearing /\ Report
            \/ (Live => Live') /\ (held => held')
<1> USE DEF Live
<1>1. CASE FrameMovesOn \/ UpdateOld \/ Update \/ UpdateRestarted \/ Flush \/ Feed
  BY <1>1, FrameLeaves DEF UpdateOld, Update, UpdateRestarted, Flush, Feed, episode, stepVars,
     pipeVars
<1>2. CASE Close \/ CloseStep \/ Publish \/ Freeze
  BY <1>2 DEF Close, CloseStep, Publish, Freeze, episode, stepVars, pipeVars
<1>3. CASE StepOver
  BY <1>3 DEF StepOver, StatusAfter, pipeVars
<1>4. CASE Report
  <2>1. UNCHANGED <<mode, pipe, req, job, reply>>
    BY <1>4 DEF Report, pipeVars
  <2>2. CASE why = "simulation_closed" /\ ~holding
    <3>1. Live' => Live
      BY <1>4, <2>2 DEF Report
    <3>2. Live => Tearing
      BY <1>4, <2>2 DEF Report, ProgressInv
    <3>3. Live
      BY <1>4, <2>2 DEF Report, ProgressInv, HoldInv, AtRest
    <3> QED
      BY <1>4, <2>1, <3>1, <3>2, <3>3
  <2>3. CASE ~(why = "simulation_closed" /\ ~holding)
    BY <1>4, <2>1, <2>3 DEF Report
  <2> QED BY <2>2, <2>3
<1>5. ASSUME NEW decided \in SUBSET (Agents \ finished), Turn(decided)
      PROVE  UNCHANGED <<mode, pipe, req, job, reply, held>> /\ (Live' <=> Live)
  BY <1>5 DEF Turn, ResultSet, pipeVars
<1> QED
  BY GameCases, <1>1, <1>2, <1>3, <1>4, <1>5

LEMMA PipeKept ==
  ASSUME IInv, [Next]_vars
  PROVE  PipeInv'
<1>1. LoadInv /\ HoldInv /\ ProgressInv /\ PipeInv
  BY DEF IInv
<1>2. CASE Request \/ PipeStep \/ PipeTimeout
  <2>1. UNCHANGED <<status, mode, held>>
    BY <1>2, PipeLeaves
  <2>2. CASE Request
    BY <1>1, <2>1, <2>2 DEF Request, Step, Reset, CreateAfterEnd, CreateLaunched, PipeInv, Live,
       Serving
  <2>3. CASE PipeTimeout
    BY <1>1, <2>1, <2>3 DEF PipeTimeout, JobLate, StepTimeout, HeldTimeout, Answer, PipeInv,
       Live, Serving
  <2>4. CASE ActsQueued \/ ResetStepped \/ StepRefused \/ StepRequest \/ StepThaw \/ StepAnswer
    BY <1>1, <2>1, <2>4 DEF ActsQueued, ResetStepped, StepRefused, StepRequest, StepThaw,
       StepAnswer, Answer, PipeInv, Live, Serving
  <2>5. CASE Restarted \/ ResetHeld \/ CreateLaunched \/ CreateHeld \/ Created
    BY <1>1, <2>1, <2>5 DEF Restarted, ResetHeld, CreateLaunched, CreateHeld, Created, Answer,
       PipeInv, Live, Serving
  <2> QED BY <1>2, <2>2, <2>3, <2>4, <2>5 DEF PipeStep
<1>3. CASE RunJob
  BY <1>1, <1>3 DEF RunJob, RunActs, RunRestart, RunCreate, JobFails, JobEnds, pipeVars, PipeInv,
     Live, Serving
<1>4. CASE GameStep
  <2>1. /\ UNCHANGED <<mode, pipe, job>> /\ (Live' => Live)
        /\ Tearing \/ ((Live => Live') /\ (held => held'))
    BY <1>1, <1>4, GameKeepsEpisode
  <2>2. CASE ~Tearing
    BY <1>1, <2>1, <2>2 DEF PipeInv, Serving
  <2>3. CASE Tearing
    <3>1. pipe \in {"thaw", "wait"}
      BY <2>3 DEF Tearing, Serving
    <3> QED
      BY <1>1, <2>1, <3>1 DEF PipeInv, Serving
  <2> QED BY <2>2, <2>3
<1>5. CASE (Playing /\ Reload) \/ HostStep \/ UNCHANGED vars
  BY <1>1, <1>5, HostLeaves DEF Reload, vars, hostOnly, episode, stepVars, pipeVars, PipeInv, Live,
     Serving
<1> QED
  BY <1>2, <1>3, <1>4, <1>5 DEF Next

-----------------------------------------------------------------------------
(* Orders. *)

LEMMA OrderKept ==
  ASSUME IInv, [Next]_vars
  PROVE  OrderInv'
<1>1. TypeOK /\ LoadInv /\ HoldInv /\ ProgressInv /\ PipeInv /\ OrderInv
  BY DEF IInv
<1>2. CASE Request \/ PipeStep \/ PipeTimeout
  <2>1. UNCHANGED <<status, stepmode, produceTarget, fresh, gt, host, sent, orders>>
    BY <1>2, PipeLeaves DEF simVars, gameThread, hostVars
  <2>2. UNCHANGED owed \/ (owed' => orders /\ HostQuiet /\ stepmode)
    BY <1>2, PipeLeaves DEF StepRequest
  <2> QED
    BY <1>1, <2>1, <2>2 DEF OrderInv, HostQuiet, Live
<1>3. CASE RunJob
  <2>1. CASE RunActs
    BY <1>1, <2>1 DEF RunActs, JobEnds, atService, gameThread, hostVars, PipeInv, OrderInv,
       HostQuiet, Live
  <2>2. CASE RunRestart
    BY <2>2 DEF RunRestart, OrderInv
  <2>3. CASE RunCreate
    <3>1. ~Live
      BY <1>1, <2>3 DEF RunCreate, PipeInv
    <3> QED
      BY <1>1, <2>3, <3>1 DEF RunCreate, orderVars, OrderInv
  <2>4. CASE JobFails
    BY <1>1, <2>4 DEF JobFails, JobEnds, gameThread, hostVars, orderVars, OrderInv, HostQuiet, Live
  <2> QED BY <1>3, <2>1, <2>2, <2>3, <2>4 DEF RunJob
<1>4. CASE GameStep
  <2>1. CASE FrameMovesOn
    BY <1>1, <2>1, FrameLeaves DEF FrameMovesOn, BeginFrame, UpdateEnded, UpdateReturns, NoStep,
       StepGoesOn, episode, stepVars, simVars, hostVars, orderVars, OrderInv, HostQuiet, Live
  <2>2. CASE UpdateOld \/ UpdateRestarted
    BY <1>1, <2>2 DEF UpdateOld, OldSimulation, UpdateRestarted, orderVars, LoadInv, OrderInv, Live
  <2>3. CASE Update
    BY <1>1, <2>3 DEF Update, episode, simVars, hostVars, orderVars, OrderInv, HostQuiet, Live
  <2>4. CASE Flush
    BY <2>4 DEF Flush, OrderInv
  <2>5. CASE Feed \/ Close \/ CloseStep \/ Publish \/ StepOver \/ Freeze \/ Report
    <3>1. gt \notin {"pacing", "update", "service"} /\ UNCHANGED orderVars
      BY <2>5 DEF Feed, Close, CloseStep, Publish, StepOver, Freeze, Report, orderVars
    <3> QED
      BY <1>1, <3>1 DEF orderVars, OrderInv
  <2>6. ASSUME NEW decided \in SUBSET (Agents \ finished), Turn(decided)
        PROVE  OrderInv'
    BY <1>1, <2>6 DEF Turn, orderVars, OrderInv
  <2> QED BY <1>4, GameCases, <2>1, <2>2, <2>3, <2>4, <2>5, <2>6
<1>5. CASE Playing /\ Reload
  BY <1>1, <1>5 DEF Reload, orderVars, LoadInv, OrderInv, Live
<1>6. CASE HostStep
  <2>1. UNCHANGED <<status, gt, stepmode, stepping, produceTarget, orders, owed>>
    BY <1>6, HostLeaves DEF hostOnly, episode, stepVars, gameThread, orderVars
  <2>2. CASE ~owed
    BY <1>1, <2>1, <2>2 DEF OrderInv, Live
  <2>3. CASE owed
    <3>1. host = "idle" /\ stepmode /\ produceTarget <= SentNow
      BY <1>1, <2>3 DEF OrderInv, HostQuiet, SentNow
    <3>2. ~HasBudget
      <4>1. produceTarget \in Nat /\ SentNow \in Nat
        BY <1>1 DEF TypeOK, SentNow
      <4> QED
        BY <3>1, <4>1 DEF HasBudget, Budget
    <3>3. UNCHANGED <<host, fresh>> /\ sent' = SentNow
      BY <1>6, <3>1, <3>2 DEF HostStep, ProducerIdles, Produce, Send
    <3> QED
      BY <1>1, <2>1, <3>1, <3>3 DEF OrderInv, HostQuiet, SentNow, Live
  <2> QED BY <2>2, <2>3
<1>7. CASE UNCHANGED vars
  BY <1>1, <1>7 DEF vars, episode, stepVars, simVars, gameThread, hostVars, orderVars, OrderInv,
     HostQuiet, Live
<1> QED
  BY <1>2, <1>3, <1>4, <1>5, <1>6, <1>7 DEF Next
-----------------------------------------------------------------------------
(* Steps that are answered in time. *)

LEMMA StepModeOfEpisode ==
  ASSUME LoadInv, HoldInv, mode = "stepping"
  PROVE  stepmode /\ ~holding /\ ~restarting
BY DEF LoadInv, Loading, HoldInv, Live

\* Between steps the frame loop goes round, and nothing of the episode changes.
LEMMA RestKept ==
  ASSUME TypeOK, LoadInv, stepmode, AtRest, GameStep
  PROVE  /\ AtRest'
         /\ UNCHANGED <<status, stepped, simTime, stepmode, endRequested, reason>>
<1>1. ~restarting /\ pending \in Nat
  BY DEF LoadInv, Loading, TypeOK
<1>2. CASE FrameMovesOn
  <2>1. gt' \in {"pacing", "update", "after"}
    BY <1>2 DEF FrameMovesOn, BeginFrame, UpdateEnded, UpdateReturns, NoStep, StepGoesOn
  <2>2. UNCHANGED <<status, stepped, simTime, stepmode, stepping, endRequested, reason>>
    BY <1>2, FrameLeaves DEF episode, stepVars, simVars
  <2> QED
    BY <2>1, <2>2 DEF AtRest
<1>3. CASE UpdateOld \/ UpdateRestarted
  BY <1>1, <1>3 DEF UpdateOld, OldSimulation, UpdateRestarted
<1>4. CASE Update
  BY <1>4 DEF Update, episode, simVars, AtRest
<1>5. CASE Flush
  BY <1>5 DEF Flush, episode, simVars, AtRest
<1>6. CASE Feed
  BY <1>6 DEF Feed, Owed, episode, stepVars, AtRest
<1>7. CASE Close \/ CloseStep \/ Publish \/ StepOver \/ Freeze \/ Report
  BY <1>7 DEF Close, CloseStep, Publish, StepOver, Freeze, Report, AtRest
<1>8. ASSUME NEW decided \in SUBSET (Agents \ finished), Turn(decided)
      PROVE  FALSE
  BY <1>1, <1>8 DEF Turn, AtRest
<1> QED
  BY GameCases, <1>2, <1>3, <1>4, <1>5, <1>6, <1>7, <1>8

\* Punctuality is lost by a timeout, and found by a job that creates an episode.
LEMMA PunctualBefore ==
  ASSUME PipeInv, Punctual', Request \/ PipeStep \/ PipeTimeout
  PROVE  Punctual /\ ~StepTimeout
<1>1. CASE late'
  <2>1. pipe' = "create" /\ job' = "ran"
    BY <1>1 DEF Punctual
  <2>2. ~Request /\ ~PipeTimeout
    BY <2>1 DEF Request, Step, Reset, CreateAfterEnd, CreateLaunched, PipeTimeout, JobLate,
       StepTimeout, HeldTimeout, Answer
  <2>3. ~PipeStep
    BY <2>1 DEF PipeStep, ActsQueued, ResetStepped, StepRefused, StepRequest, StepThaw, StepAnswer,
       Restarted, ResetHeld, CreateLaunched, CreateHeld, Created, Answer
  <2> QED BY <2>2, <2>3
<1>2. CASE ~late'
  <2>1. ~StepTimeout
    BY <1>2 DEF StepTimeout
  <2>2. CASE Created
    <3>1. pipe = "create" /\ job \in {"ran", "failed"} /\ ~(late /\ job = "failed")
      BY <1>2, <2>2 DEF Created
    <3> QED
      BY <2>1, <3>1 DEF Punctual
  <2>3. CASE ~Created
    BY <1>2, <2>1, <2>3, PipeLeaves DEF Punctual
  <2> QED BY <2>1, <2>2, <2>3
<1> QED BY <1>1, <1>2

\* A step begins at rest, before the end of the episode, with its signal reset.
LEMMA FlightBegins ==
  ASSUME TypeOK, LoadInv, HoldInv, ProgressInv, PipeInv, BetweenInv, StepRequest, Playing
  PROVE  InFlight'
<1>1. /\ pipe = "request" /\ stepmode /\ stepping' = TRUE /\ target' = Target(req.ms)
      /\ UNCHANGED <<status, stepped, simTime, gt, req, recording>>
  BY DEF StepRequest, Playing, episode, simVars, gameThread
<1>2. Live /\ GameTime = simTime
  BY RequestedProgress
<1>3. gt \notin {"freeze", "report"}
  BY <1>1, <1>2 DEF BetweenInv, Serving, AtRest
<1>4. status = "in_game" /\ ~stepped /\ req.before = simTime
  BY <1>1 DEF BetweenInv
<1>5. simTime \in Nat
  BY DEF TypeOK
<1>6. target' = IF IsReplay THEN Smaller(req.before + req.ms, recording) ELSE req.before + req.ms
  BY <1>1, <1>2, <1>4 DEF Target
<1> QED
  BY <1>1, <1>2, <1>3, <1>4, <1>5, <1>6 DEF InFlight, Live, IsReplay

LEMMA ServePipe ==
  ASSUME TypeOK, LoadInv, HoldInv, ProgressInv, PipeInv, Punctual, BetweenInv, ServeInv,
         Request \/ PipeStep \/ PipeTimeout, ~StepTimeout
  PROVE  BetweenInv' /\ ServeInv'
<1>1. UNCHANGED <<status, stepmode, endRequested, simTime, pending, gt, why, recording>>
  BY PipeLeaves DEF simVars, gameThread
<1>2. CASE ~Serving /\ ~Serving'
  <2>1. UNCHANGED stepping
    BY <1>2, PipeLeaves DEF StepRequest, Serving
  <2>2. Live' /\ stepmode' => AtRest'
    BY <1>1, <1>2, <2>1 DEF BetweenInv, AtRest, Live
  <2>3. pipe' \in {"acts", "reset", "request"} => status' = "in_game"
    <3>1. CASE Request
      BY <1>1, <3>1 DEF Request, Step, Reset, CreateAfterEnd, CreateLaunched
    <3>2. CASE PipeTimeout
      BY <3>2 DEF PipeTimeout, JobLate, StepTimeout, HeldTimeout, Answer
    <3>3. CASE PipeStep
      BY <1>1, <3>3 DEF PipeStep, ActsQueued, ResetStepped, StepRefused, StepRequest, StepThaw,
         StepAnswer, Restarted, ResetHeld, CreateLaunched, CreateHeld, Created, Answer, BetweenInv
    <3> QED BY <3>1, <3>2, <3>3
  <2>4. pipe' = "request" => ~stepped' /\ req'.before = simTime'
    <3>1. pipe' = "request" => ResetStepped
      BY DEF Request, Step, Reset, CreateAfterEnd, CreateLaunched, PipeTimeout, JobLate,
         StepTimeout, HeldTimeout, PipeStep, ActsQueued, StepRefused, StepRequest, StepThaw,
         StepAnswer, Restarted, ResetHeld, CreateHeld, Created, Answer
    <3>2. ResetStepped => GameTime = simTime
      <4>1. ResetStepped => Live
        BY DEF ResetStepped, PipeInv
      <4>2. Live => game = sim /\ sim # 0
        BY DEF HoldInv, LoadInv, Loading, TypeOK
      <4> QED
        BY <4>1, <4>2 DEF GameTime
    <3>3. ResetStepped => ~stepped' /\ req'.before = GameTime
      BY DEF ResetStepped, TypeOK
    <3> QED
      BY <1>1, <3>1, <3>2, <3>3
  <2> QED
    BY <1>2, <2>2, <2>3, <2>4 DEF BetweenInv, ServeInv
<1>3. CASE Serving /\ ~Serving'
  <2>1. StepAnswer
    <3>1. ~Request /\ ~PipeTimeout
      BY <1>3 DEF Request, Step, Reset, CreateAfterEnd, CreateLaunched, PipeTimeout, JobLate,
         StepTimeout, HeldTimeout, Serving
    <3>2. PipeStep => StepAnswer
      BY <1>3 DEF PipeStep, ActsQueued, ResetStepped, StepRefused, StepRequest, StepThaw,
         Restarted, ResetHeld, CreateLaunched, CreateHeld, Created, Serving
    <3> QED BY <3>1, <3>2
  <2>2. Over
    BY <1>3, <2>1 DEF StepAnswer, ServeInv, InFlight, Ending
  <2>3. pipe' = "idle" /\ UNCHANGED stepping
    BY <2>1 DEF StepAnswer, Answer, pipeOnly, stepVars
  <2>4. AtRest'
    BY <1>1, <2>2, <2>3 DEF Over, AtRest
  <2> QED
    BY <1>3, <2>3, <2>4 DEF BetweenInv, ServeInv
<1>4. CASE ~Serving /\ Serving'
  <2>1. StepRequest /\ Playing
    <3>1. ~Request /\ ~PipeTimeout
      BY <1>4 DEF Request, Step, Reset, CreateAfterEnd, CreateLaunched, PipeTimeout, JobLate,
         StepTimeout, HeldTimeout, Answer, Serving
    <3>2. PipeStep => StepRequest /\ Playing
      BY <1>4 DEF PipeStep, ActsQueued, ResetStepped, StepRefused, StepThaw, StepAnswer,
         Restarted, ResetHeld, CreateLaunched, CreateHeld, Created, Answer, Serving
    <3> QED BY <3>1, <3>2
  <2>2. InFlight'
    BY <2>1, FlightBegins
  <2>3. pipe' \notin {"acts", "reset", "request"}
    BY <1>4 DEF Serving
  <2> QED
    BY <1>4, <2>2, <2>3 DEF BetweenInv, ServeInv
<1>5. CASE Serving /\ Serving'
  <2>1. StepThaw
    <3>1. ~Request /\ ~PipeTimeout
      BY <1>5 DEF Request, Step, Reset, CreateAfterEnd, CreateLaunched, PipeTimeout, JobLate,
         StepTimeout, HeldTimeout, Answer, Serving
    <3>2. PipeStep => StepThaw
      BY <1>5 DEF PipeStep, ActsQueued, ResetStepped, StepRefused, StepRequest, StepAnswer,
         Restarted, ResetHeld, CreateLaunched, CreateHeld, Created, Answer, Serving
    <3> QED BY <3>1, <3>2
  <2>2. UNCHANGED <<stepping, stepped, target, reason, req>>
    BY <2>1 DEF StepThaw, episode
  <2>3. Tearing => Tearing'
    BY TearingKept
  <2>4. InFlight => InFlight'
    BY <1>1, <2>2, <2>3 DEF InFlight, Live, IsReplay
  <2>5. Ending => Ending'
    BY <1>1, <2>2 DEF Ending, EndedWith, Live, IsReplay
  <2>6. Over => Over'
    BY <1>1, <2>2 DEF Over, AtRest, EndedWith, Live, IsReplay
  <2>7. pipe' \notin {"acts", "reset", "request"}
    BY <1>5 DEF Serving
  <2> QED
    BY <1>5, <2>4, <2>5, <2>6, <2>7 DEF BetweenInv, ServeInv
<1> QED
  BY <1>2, <1>3, <1>4, <1>5
\* A step under way runs on, is torn down, or comes to the end its reason names.
LEMMA FlightGoesOn ==
  ASSUME TypeOK, LoadInv, HoldInv, PendingInv, ProgressInv, PunctualInv, Punctual, Serving,
         InFlight, GameStep
  PROVE  InFlight' \/ Ending'
<1>0. /\ UNCHANGED <<mode, pipe, req, recording, trouble>> /\ stepmode /\ ~holding /\ ~restarting
      /\ stepping /\ ~stepped /\ Live
  <2>1. mode = "stepping"
    BY DEF ProgressInv, HoldInv, Live, AtRest, InFlight
  <2> QED
    BY <2>1, GameCases, GameKeepsEpisode, StepModeOfEpisode DEF InFlight, Playing
<1>1. simTime \in Nat /\ target \in Nat /\ recording \in Nat /\ pending \in Nat
        /\ progress \in Nat /\ req.ms \in Nat /\ req.before \in Nat
  BY TypesApart, RequestIsTime, ConstantsAssumption DEF Types, EpisodeTypes, StepTypes, SimTypes
<1>2. CASE FrameMovesOn
  <2>1. UNCHANGED <<status, stepped, stepping, target, simTime, endRequested, pending>>
    BY <1>2, FrameLeaves DEF episode, stepVars, simVars
  <2>2. ~Tearing /\ gt' \notin {"freeze", "report", "orig"}
    BY <1>0, <1>2 DEF FrameMovesOn, BeginFrame, UpdateEnded, UpdateReturns, NoStep, StepGoesOn,
       Tearing
  <2>3. status = "ended" => gt' = "after"
    BY <1>0, <1>2 DEF FrameMovesOn, BeginFrame, UpdateEnded, UpdateReturns, NoStep, StepGoesOn,
       Verdict, InFlight
  <2> QED
    BY <1>0, <2>1, <2>2, <2>3 DEF InFlight, Live, IsReplay
<1>3. CASE UpdateOld \/ UpdateRestarted
  BY <1>0, <1>3 DEF UpdateOld, OldSimulation, UpdateRestarted
<1>4. CASE Update \/ Flush \/ Feed
  <2>1. UNCHANGED <<status, stepped, stepping, target, simTime, endRequested>>
    BY <1>0, <1>4 DEF Update, Flush, Feed, episode, stepVars, simVars
  <2>2. /\ gt \notin {"orig", "after", "judge"} /\ ~Tearing
        /\ gt' \notin {"freeze", "report"}
    BY <1>4 DEF Update, Flush, Feed, Tearing
  <2> QED
    BY <1>0, <2>1, <2>2 DEF InFlight, Live, IsReplay
<1>5. CASE Close
  <2>1. Tearing'
    BY <1>5, GameCases, CloseTears
  <2>2. gt' = "after" /\ UNCHANGED <<status, stepped, stepping, target>>
    BY <1>5 DEF Close, episode, stepVars
  <2>3. status' # "ended"
    BY <2>1 DEF Tearing
  <2> QED
    BY <1>0, <2>1, <2>2, <2>3 DEF InFlight, Live, IsReplay
<1>6. CASE CloseStep
  <2>1. /\ stepping' = FALSE /\ gt' = "freeze" /\ why' = "simulation_closed"
        /\ UNCHANGED <<status, stepped>>
    BY <1>6 DEF CloseStep, episode
  <2> QED
    BY <1>0, <2>1 DEF Ending, EndedWith, Live
<1>7. CASE Publish
  <2>1. /\ gt = "after" /\ gt' = "judge" /\ ~(simTime < progress)
        /\ UNCHANGED <<status, stepped, stepping, target, simTime, endRequested>>
    BY <1>0, <1>7 DEF Publish, Closed, episode, simVars
  <2>2. ~Tearing
    BY <1>0, <1>1, <2>1 DEF ProgressInv, Tearing
  <2> QED
    BY <1>0, <2>1, <2>2 DEF InFlight, Live, IsReplay
<1>8. CASE StepOver
  <2>1. /\ gt = "judge" /\ stepping' = FALSE /\ gt' = "freeze"
        /\ UNCHANGED <<stepped, simTime>>
    BY <1>8 DEF StepOver, simVars
  <2>2. ~Tearing
    BY <2>1 DEF Tearing
  <2>3. /\ req.before <= simTime /\ (simTime <= target \/ simTime = req.before)
        /\ target = IF IsReplay THEN Smaller(req.before + req.ms, recording)
                                ELSE req.before + req.ms
    BY <2>2 DEF InFlight
  <2>4. target <= req.before + req.ms
    BY <1>1, <2>3 DEF Smaller
  <2>5. simTime \in req.before .. req.before + req.ms
    BY <1>1, <2>3, <2>4
  <2>6. why' = (IF ReplayOver THEN "replay_end" ELSE Verdict) /\ Verdict # "running"
    BY <1>8 DEF StepOver
  <2>7. why' = "target" /\ ~IsReplay => simTime = req.before + req.ms
    <3>1. Verdict = "target" => simTime >= target
      BY DEF Verdict
    <3>2. why' = "target" => Verdict = "target"
      BY <2>6
    <3> QED
      BY <1>1, <2>3, <3>1, <3>2
  <2>8. status = "ended" <=> endRequested
    BY DEF ProgressInv, InFlight
  <2>9. Live' /\ (status' = "ended" <=> why' \in {"game_over", "replay_end"})
    <3>1. CASE ReplayOver
      BY <1>0, <1>8, <2>6, <3>1 DEF StepOver, StatusAfter, Live, TypeOK
    <3>2. CASE ~ReplayOver
      <4>1. UNCHANGED status
        BY <1>8, <3>2 DEF StepOver, StatusAfter
      <4>2. why' \in {"game_over", "replay_end"} <=> endRequested
        BY <2>6, <3>2 DEF Verdict
      <4> QED
        BY <1>0, <2>8, <4>1, <4>2 DEF Live
    <3> QED BY <3>1, <3>2
  <2>10. why' # "running"
    BY <2>6
  <2> HIDE <2>6
  <2>11. EndedWith(why)'
    BY <1>0, <2>1, <2>5, <2>7, <2>9, <2>10 DEF EndedWith, IsReplay
  <2> QED
    BY <1>0, <2>1, <2>9, <2>11 DEF Ending
<1>9. CASE Freeze \/ Report
  BY <1>9 DEF Freeze, Report, InFlight
<1>10. ASSUME NEW decided \in SUBSET (Agents \ finished), Turn(decided)
       PROVE  InFlight'
  <2>1. /\ gt = "orig" /\ pending > 0 /\ simTime' = simTime + 1
        /\ UNCHANGED <<gt, stepped, stepping, target>>
    BY <1>10 DEF Turn, gameThread
  <2>2. ~Tearing /\ simTime + pending <= target
    BY <1>0, <2>1 DEF Tearing, PendingInv
  <2>3. status # "ended"
    BY <1>1, <2>1 DEF InFlight
  <2>4. game # 0
    BY <1>0 DEF LoadInv, Loading, TypeOK
  <2>5. status' = "ended" => endRequested' /\ pending' = 0
    BY <1>10, <2>3, <2>4 DEF Turn, ResultSet, PendingAfterEnd
  <2>6. Live'
    BY <1>0, <1>10 DEF Turn, ResultSet, Live
  <2>7. req.before <= simTime' /\ simTime' <= target
    BY <1>1, <2>1, <2>2 DEF InFlight
  <2> QED
    BY <1>0, <2>1, <2>5, <2>6, <2>7 DEF InFlight, IsReplay
<1> QED
  BY GameCases, <1>2, <1>3, <1>4, <1>5, <1>6, <1>7, <1>8, <1>9, <1>10

\* A finished step is reported with the reason it finished for.
LEMMA EndingGoesOn ==
  ASSUME TypeOK, LoadInv, HoldInv, ProgressInv, Ending, GameStep
  PROVE  Ending' \/ Over'
<1>0. UNCHANGED <<req, recording>> /\ ~holding
  BY GameCases, GameKeepsEpisode DEF Playing, HoldInv, Ending
<1>1. CASE Freeze
  <2>1. gt' = "report" /\ UNCHANGED <<status, stepped, stepping, simTime, why>>
    BY <1>1 DEF Freeze, episode, simVars
  <2> QED
    BY <1>0, <2>1 DEF Ending, EndedWith, Live, IsReplay
<1>2. CASE Report
  <2>1. /\ stepped' = TRUE /\ reason' = why /\ gt' = "pacing"
        /\ UNCHANGED <<stepping, simTime>>
    BY <1>0, <1>2 DEF Report, simVars
  <2>2. why # "simulation_closed" => UNCHANGED status
    BY <1>0, <1>2 DEF Report
  <2>3. EndedWith(reason)'
    BY <1>0, <2>1, <2>2 DEF Ending, EndedWith, Live, IsReplay
  <2>4. AtRest'
    BY <2>1 DEF Ending, AtRest
  <2> QED
    BY <2>1, <2>3, <2>4 DEF Over
<1>3. ~(FrameMovesOn \/ UpdateOld \/ Update \/ UpdateRestarted \/ Flush \/ Feed \/ Close
        \/ CloseStep \/ Publish \/ StepOver)
  BY DEF FrameMovesOn, BeginFrame, UpdateEnded, UpdateReturns, NoStep, StepGoesOn, UpdateOld, Update,
     UpdateRestarted, Flush, Feed, Close, CloseStep, Publish, StepOver, Ending
<1>4. ASSUME NEW decided \in SUBSET (Agents \ finished), Turn(decided)
      PROVE  FALSE
  BY <1>4 DEF Turn, Ending
<1> QED
  BY GameCases, <1>1, <1>2, <1>3, <1>4

LEMMA ServeGame ==
  ASSUME TypeOK, LoadInv, HoldInv, PendingInv, ProgressInv, PipeInv, PunctualInv, Punctual,
         GameStep
  PROVE  BetweenInv' /\ ServeInv'
<1>0. /\ UNCHANGED <<mode, pipe, req, recording>> /\ (Live' => Live)
      /\ BetweenInv /\ ServeInv
  BY GameCases, GameKeepsEpisode DEF Playing, PunctualInv
<1>1. CASE Serving
  <2>1. stepmode
    BY <1>1, StepModeOfEpisode DEF PipeInv
  <2>2. InFlight => InFlight' \/ Ending'
    BY <1>1, FlightGoesOn
  <2>3. Ending => Ending' \/ Over'
    BY EndingGoesOn
  <2>4. Over => Over'
    <3> SUFFICES ASSUME Over PROVE Over'
      OBVIOUS
    <3>1. AtRest' /\ UNCHANGED <<status, stepped, simTime, reason>>
      BY <2>1, RestKept DEF Over
    <3> QED
      BY <1>0, <3>1 DEF Over, EndedWith, Live, IsReplay
  <2> QED
    BY <1>0, <1>1, <2>2, <2>3, <2>4 DEF BetweenInv, ServeInv, Serving
<1>2. CASE ~Serving /\ Live /\ stepmode
  <2>1. AtRest
    BY <1>0, <1>2 DEF BetweenInv
  <2>2. AtRest' /\ UNCHANGED <<status, stepped, simTime, stepmode>>
    BY <1>2, <2>1, RestKept
  <2> QED
    BY <1>0, <1>2, <2>2 DEF BetweenInv, ServeInv, Serving
<1>3. CASE ~Serving /\ ~(Live /\ stepmode)
  <2>1. ~(Live' /\ stepmode')
    <3> SUFFICES ASSUME Live, ~stepmode PROVE ~stepmode'
      BY <1>0, <1>3
    <3>1. held /\ ~stepping
      BY DEF HoldInv
    <3>2. CASE FrameMovesOn
      BY <3>2, FrameLeaves DEF stepVars
    <3>3. CASE Flush
      BY <3>1, <3>3 DEF Flush
    <3>4. CASE UpdateOld \/ Update \/ UpdateRestarted \/ Feed \/ Close \/ CloseStep \/ Publish
               \/ StepOver \/ Freeze \/ Report
      BY <3>4 DEF UpdateOld, Update, UpdateRestarted, Feed, Close, CloseStep, Publish, StepOver,
         Freeze, Report, stepVars
    <3>5. ASSUME NEW decided \in SUBSET (Agents \ finished), Turn(decided)
          PROVE  ~stepmode'
      BY <3>5 DEF Turn
    <3> QED
      BY GameCases, <3>2, <3>3, <3>4, <3>5
  <2>2. pipe \notin {"acts", "reset", "request"}
    BY <1>3 DEF PipeInv, HoldInv
  <2> QED
    BY <1>0, <1>3, <2>1, <2>2 DEF BetweenInv, ServeInv, Serving
<1> QED BY <1>1, <1>2, <1>3

LEMMA ServeJob ==
  ASSUME HoldInv, PipeInv, PunctualInv, Punctual', RunJob
  PROVE  BetweenInv' /\ ServeInv'
<1>0. pipe' \notin {"reset", "request"} /\ ~Serving /\ ~Serving' /\ UNCHANGED <<pipe, late, gt, pending>>
  BY DEF RunJob, RunActs, RunRestart, RunCreate, JobFails, JobEnds, pipeVars, orderVars, gameThread,
     PipeInv, Serving
<1>1. CASE RunActs \/ JobFails
  <2>1. pipe' # "create" \/ job' = "failed"
    BY <1>0, <1>1 DEF RunActs, JobFails, JobEnds, PipeInv
  <2>2. Punctual
    BY <1>0, <2>1 DEF Punctual
  <2>3. UNCHANGED <<status, stepmode, stepping>>
    BY <1>1 DEF RunActs, JobFails
  <2> QED
    BY <1>0, <2>2, <2>3 DEF PunctualInv, BetweenInv, ServeInv, AtRest, Live
<1>2. CASE RunRestart
  <2>1. status' = "launched" /\ pipe # "acts"
    BY <1>2 DEF RunRestart, PipeInv
  <2> QED
    BY <1>0, <2>1 DEF BetweenInv, ServeInv, Live
<1>3. CASE RunCreate
  <2>1. pipe = "create" /\ AtRest
    BY <1>3 DEF RunCreate, PipeInv, HoldInv
  <2>2. ~stepping'
    BY <1>3, <2>1 DEF RunCreate, AtRest
  <2> QED
    BY <1>0, <2>1, <2>2 DEF BetweenInv, ServeInv, AtRest
<1> QED
  BY <1>1, <1>2, <1>3 DEF RunJob

LEMMA PunctualKept ==
  ASSUME IInv, [Next]_vars
  PROVE  PunctualInv'
<1>0. /\ TypeOK /\ LoadInv /\ HoldInv /\ PendingInv /\ ProgressInv /\ PipeInv /\ PunctualInv
  BY DEF IInv
<1>1. CASE Request \/ PipeStep \/ PipeTimeout
  BY <1>0, <1>1, PunctualBefore, ServePipe DEF PunctualInv
<1>2. CASE RunJob
  BY <1>0, <1>2, ServeJob DEF PunctualInv
<1>3. CASE GameStep
  <2>1. UNCHANGED <<late, pipe, job>>
    BY <1>0, <1>3, GameKeepsEpisode DEF GameStep, BeginFrame, UpdateOld, Update, UpdateRestarted,
       UpdateEnded, Flush, Feed, Close, UpdateReturns, NoStep, CloseStep, Publish, StepGoesOn,
       StepOver, Freeze, Report, Turn, orderVars
  <2> QED
    BY <1>0, <1>3, <2>1, ServeGame DEF PunctualInv, Punctual
<1>4. CASE Playing /\ Reload
  <2>1. ~Live /\ mode = "none" /\ UNCHANGED <<status, mode, pipe>>
    BY <1>0, <1>4 DEF Reload, episode, pipeVars, LoadInv, Live
  <2> QED
    BY <1>0, <2>1 DEF PipeInv, PunctualInv, BetweenInv, ServeInv, Live, Serving
<1>5. CASE HostStep \/ UNCHANGED vars
  <2>1. UNCHANGED <<episode, stepVars, sim, simTime, pending, gameThread, pipeVars, job, orderVars,
                    recording, trouble>>
    BY <1>5, HostLeaves DEF vars, hostOnly, simVars
  <2>2. UNCHANGED <<InFlight, Ending, Over>>
    BY <2>1 DEF episode, stepVars, gameThread, pipeVars, InFlight, Ending, Over, EndedWith, AtRest,
       Live, Tearing, Serving, IsReplay
  <2> QED
    BY <1>0, <2>1, <2>2 DEF episode, stepVars, gameThread, pipeVars, orderVars, PunctualInv, Punctual,
       BetweenInv, ServeInv, AtRest, Live, Serving
<1> QED
  BY <1>1, <1>2, <1>3, <1>4, <1>5 DEF Next
-----------------------------------------------------------------------------
(* Replies. *)

LEMMA AnswerIsTrue ==
  ASSUME TypeOK, LoadInv, HoldInv, PipeInv, Over, pipe = "wait", StepAnswer, Playing
  PROVE  ReplyTruthful'
<1>1. UNCHANGED <<status, mode, recording>>
  BY DEF StepAnswer, pipeOnly, episode, Playing
<1>2. CASE reason = "simulation_closed"
  BY <1>2 DEF StepAnswer, Answer, Error, NoReply, ReplyTruthful, StepExact, ReplyIsFinal,
     EndIsReported
<1>3. CASE reason # "simulation_closed"
  <2>1. GameTime = simTime
    BY <1>3 DEF Over, EndedWith, HoldInv, LoadInv, Loading, TypeOK, GameTime
  <2>2. reply' = [kind |-> "step", asked |-> req.ms, elapsed |-> simTime - req.before,
                  reason |-> reason]
    BY <1>3, <2>1 DEF StepAnswer, Answer
  <2>3. /\ simTime \in req.before .. req.before + req.ms /\ reason # "running"
        /\ reason = "target" /\ ~IsReplay => simTime = req.before + req.ms
        /\ status = "ended" <=> reason \in {"game_over", "replay_end"}
    BY <1>3 DEF Over, EndedWith
  <2>4. req.ms \in Nat /\ req.before \in Nat /\ simTime \in Nat
    BY TypesApart, RequestIsTime DEF Types, SimTypes
  <2>5. StepExact'
    BY <1>1, <2>2, <2>3, <2>4 DEF StepExact, IsReplay
  <2>6. ReplyIsFinal'
    BY <1>3, <2>2, <2>3, <2>4 DEF ReplyIsFinal
  <2>7. EndIsReported'
    BY <1>1, <2>2, <2>3 DEF EndIsReported
  <2> QED BY <2>5, <2>6, <2>7 DEF ReplyTruthful
<1> QED BY <1>2, <1>3

LEMMA ReplyPipe ==
  ASSUME TypeOK, LoadInv, HoldInv, PipeInv, PunctualInv, ReplyTruthful,
         Request \/ PipeStep \/ PipeTimeout
  PROVE  ReplyTruthful'
<1>1. UNCHANGED recording
  BY PipeLeaves
<1>2. CASE StepAnswer /\ Playing
  <2>1. pipe = "wait" /\ stepped /\ UNCHANGED late
    BY <1>2 DEF StepAnswer, pipeOnly, orderVars
  <2>2. Over \/ late
    BY <2>1 DEF PunctualInv, Punctual, ServeInv, Serving, InFlight, Ending
  <2> QED
    BY <1>2, <2>1, <2>2, AnswerIsTrue DEF ReplyTruthful
<1>3. CASE reply'.kind # "step"
  BY <1>3 DEF ReplyTruthful, StepExact, ReplyIsFinal, EndIsReported
<1>4. CASE UNCHANGED <<reply, late>> /\ pipe' # "idle"
  BY <1>1, <1>4 DEF ReplyTruthful, StepExact, ReplyIsFinal, EndIsReported, IsReplay
<1>5. CASE Request
  <2>1. UNCHANGED <<reply, late>> /\ pipe' # "idle"
    BY <1>5 DEF Request, Step, Reset, CreateAfterEnd, CreateLaunched, pipeOnly, orderVars
  <2> QED BY <1>4, <2>1
<1>6. CASE PipeTimeout
  <2>1. reply'.kind # "step"
    BY <1>6 DEF PipeTimeout, JobLate, StepTimeout, HeldTimeout, Answer, Error, NoReply
  <2> QED BY <1>3, <2>1
<1>7. CASE StepRefused \/ ResetHeld \/ Created
  <2>1. reply'.kind # "step"
    BY <1>7 DEF StepRefused, ResetHeld, Created, Answer, Error, NoReply
  <2> QED BY <1>3, <2>1
<1>8. CASE Restarted
  <2>1. CASE job = "failed"
    <3>1. reply'.kind # "step"
      BY <1>8, <2>1 DEF Restarted, Answer, Error, NoReply
    <3> QED BY <1>3, <3>1
  <2>2. CASE job # "failed"
    <3>1. UNCHANGED <<reply, late>> /\ pipe' # "idle"
      BY <1>8, <2>2 DEF Restarted, pipeOnly, orderVars
    <3> QED BY <1>4, <3>1
  <2> QED BY <2>1, <2>2
<1>9. CASE ActsQueued \/ ResetStepped \/ StepRequest \/ StepThaw \/ CreateLaunched \/ CreateHeld
  <2>1. UNCHANGED <<reply, late>> /\ pipe' # "idle"
    BY <1>9 DEF ActsQueued, ResetStepped, StepRequest, StepThaw, CreateLaunched, CreateHeld,
       pipeOnly, orderVars
  <2> QED BY <1>4, <2>1
<1> QED
  BY <1>2, <1>5, <1>6, <1>7, <1>8, <1>9 DEF PipeStep

LEMMA ReplyKept ==
  ASSUME IInv, [Next]_vars
  PROVE  ReplyTruthful'
<1>0. /\ TypeOK /\ LoadInv /\ HoldInv /\ ProgressInv /\ PipeInv /\ PunctualInv /\ ReplyTruthful
  BY DEF IInv
<1>1. CASE Request \/ PipeStep \/ PipeTimeout
  BY <1>0, <1>1, ReplyPipe
<1>2. CASE RunJob
  <2>1. UNCHANGED <<reply, pipe, late, recording>> /\ pipe # "idle"
    BY <1>0, <1>2 DEF RunJob, RunActs, RunRestart, RunCreate, JobFails, JobEnds, Playing, pipeVars,
       orderVars, PipeInv
  <2> QED
    BY <1>0, <2>1 DEF ReplyTruthful, StepExact, ReplyIsFinal, EndIsReported, IsReplay
<1>3. CASE GameStep
  <2>1. UNCHANGED <<mode, pipe, reply, late, recording>> /\ (Live' => Live)
    BY <1>0, <1>3, GameKeepsEpisode DEF GameStep, BeginFrame, UpdateOld, Update, UpdateRestarted,
       UpdateEnded, Flush, Feed, Close, UpdateReturns, NoStep, CloseStep, Publish, StepGoesOn,
       StepOver, Freeze, Report, Turn, orderVars, Playing
  <2>2. ~late /\ pipe = "idle" /\ mode = "stepping" =>
          (status' = "ended" <=> status = "ended")
    <3> SUFFICES ASSUME ~late, pipe = "idle", mode = "stepping"
                 PROVE  status' = "ended" <=> status = "ended"
      OBVIOUS
    <3>1. CASE Live
      <4>1. stepmode
        BY <1>0, StepModeOfEpisode
      <4>2. AtRest
        BY <1>0, <3>1, <4>1 DEF PunctualInv, Punctual, BetweenInv, Serving
      <4> QED
        BY <1>0, <1>3, <4>1, <4>2, RestKept
    <3>2. CASE ~Live
      BY <2>1, <3>2 DEF Live
    <3> QED BY <3>1, <3>2
  <2> QED
    BY <1>0, <2>1, <2>2 DEF ReplyTruthful, StepExact, ReplyIsFinal, EndIsReported, IsReplay
<1>4. CASE (Playing /\ Reload) \/ HostStep \/ UNCHANGED vars
  <2>1. UNCHANGED <<mode, status, pipe, reply, late, recording>>
    BY <1>4, HostLeaves DEF Reload, Playing, vars, hostOnly, episode, pipeVars, orderVars
  <2> QED
    BY <1>0, <2>1 DEF ReplyTruthful, StepExact, ReplyIsFinal, EndIsReported, IsReplay
<1> QED
  BY <1>1, <1>2, <1>3, <1>4 DEF Next

-----------------------------------------------------------------------------
(* The theorems. *)

LEMMA InitInv == Init => IInv
<1> SUFFICES ASSUME Init PROVE IInv
  OBVIOUS
<1>1. TypeOK
  BY TypeInit
<1>2. LoadInv /\ HoldInv /\ PendingInv /\ OrderInv
  BY DEF Init, LoadInv, Loading, HoldInv, Live, PendingInv, OrderInv
<1>3. ProgressInv /\ PipeInv
  BY DEF Init, ProgressInv, PipeInv, Live, Serving
<1>4. PunctualInv
  BY DEF Init, PunctualInv, BetweenInv, ServeInv, Live, Serving
<1>5. ReplyTruthful
  BY DEF Init, NoReply, ReplyTruthful, StepExact, ReplyIsFinal, EndIsReported
<1> QED
  BY <1>1, <1>2, <1>3, <1>4, <1>5 DEF IInv

(* The invariant of the lifecycle: what a simulation that loads, is run to *)
(* the hold, is held, is played or is torn down has in step.c's globals,    *)
(* what the pipe thread may rely on at each position of a handler, and in   *)
(* which of its three stages a step that is waited for is.                  *)
THEOREM Invariance == Spec => []IInv
<1>1. Init => IInv
  BY InitInv
<1>2. IInv /\ [Next]_vars => IInv'
  <2> SUFFICES ASSUME IInv, [Next]_vars PROVE IInv'
    OBVIOUS
  <2>1. TypeOK'
    BY TypeNext DEF IInv
  <2> QED
    BY <2>1, LoadKept, HoldKept, PendingKept, ProgressKept, PipeKept, OrderKept, PunctualKept,
       ReplyKept DEF IInv
<1> QED
  BY <1>1, <1>2, PTL DEF Spec

(* Types; the simulation g_game points to is the one that is loaded.         *)
THEOREM TypeCorrect == Spec => []TypeOK
<1>1. IInv => TypeOK
  BY DEF IInv
<1> QED
  BY <1>1, Invariance, PTL

(* In an episode no step of which has outlasted its request, steps advance   *)
(* exactly what was asked, and m_step's reply tells the end of the game when *)
(* it happens and only then.                                                 *)
THEOREM RepliesAreTrue == Spec => []ReplyTruthful
<1>1. IInv => ReplyTruthful
  BY DEF IInv
<1> QED
  BY <1>1, Invariance, PTL

(* The game create_game finds held is the one loaded last, at HOLD_AT_MS and *)
(* untouched; an episode runs in the simulation that was loaded last.        *)
THEOREM EpisodesStartAtHold == Spec => []HeldAtStart
<1>1. IInv => HeldAtStart
  BY DEF IInv, LoadInv, Loading, HoldInv, Live, HeldAtStart
<1> QED
  BY <1>1, Invariance, PTL

\* A turn of step mode is the step's, and the client of a punctual one waits for it.
LEMMA TurnsAreOfSteps ==
  ASSUME IInv, NEW decided \in SUBSET (Agents \ finished), Turn(decided), stepmode
  PROVE  /\ stepping /\ simTime + 1 <= target /\ simTime' = simTime + 1
         /\ holding \/ Live
         /\ ~late /\ Live => Serving /\ status # "ended"
<1>0. TypeOK /\ HoldInv /\ PendingInv /\ PunctualInv
  BY DEF IInv
<1>1. gt = "orig" /\ pending > 0 /\ simTime' = simTime + 1
  BY DEF Turn
<1>2. pending \in Nat /\ simTime \in Nat /\ target \in Nat
  BY <1>0 DEF TypeOK
<1>3. stepping /\ simTime + 1 <= target
  BY <1>0, <1>1, <1>2 DEF PendingInv
<1>4. holding \/ Live
  BY <1>0, <1>3 DEF HoldInv, AtRest
<1>5. ASSUME ~late, Live PROVE Serving /\ status # "ended"
  <2>1. Punctual
    BY <1>5 DEF Punctual
  <2>2. Serving
    BY <1>0, <1>3, <1>5, <2>1 DEF PunctualInv, BetweenInv, AtRest
  <2>3. InFlight
    BY <1>0, <1>3, <2>1, <2>2 DEF PunctualInv, ServeInv, Ending, Over, AtRest
  <2>4. pending # 0
    BY <1>1, <1>2
  <2> QED
    BY <1>1, <2>2, <2>3, <2>4 DEF InFlight
<1> QED
  BY <1>1, <1>3, <1>4, <1>5

\* Only a turn takes a simulation forward.
LEMMA TurnsTakeForward ==
  ASSUME IInv, [Next]_vars, simTime' > simTime
  PROVE  \E decided \in SUBSET (Agents \ finished) : Turn(decided) /\ Playing
<1>0. simTime \in Nat
  BY DEF IInv, TypeOK
<1>1. simTime' # simTime /\ simTime' # 0
  BY <1>0
<1>2. ~(Request \/ PipeStep \/ PipeTimeout)
  BY <1>1, PipeLeaves DEF simVars
<1>3. ~RunJob
  BY <1>1 DEF RunJob, RunActs, RunRestart, RunCreate, JobFails, JobEnds
<1>4. ~(HostStep \/ (Playing /\ Reload) \/ UNCHANGED vars)
  BY <1>1, HostLeaves DEF hostOnly, Reload, vars, simVars
<1>5. GameStep
  BY <1>2, <1>3, <1>4 DEF Next
<1>6. ~(FrameMovesOn \/ UpdateOld \/ Update \/ UpdateRestarted \/ Flush \/ Feed \/ Close
        \/ CloseStep \/ Publish \/ StepOver \/ Freeze \/ Report)
  BY <1>1, FrameLeaves DEF UpdateOld, Update, UpdateRestarted, Flush, Feed, Close, CloseStep,
     Publish, StepOver, Freeze, Report, simVars
<1> QED
  BY <1>5, <1>6, GameCases

(* Between the steps of an episode what its client observes is one state:    *)
(* the simulation moves, or is torn down, only under a step it waits for.    *)
THEOREM EpisodesStandStill == Spec => StillBetweenSteps
<1>1. ASSUME IInv, [Next]_vars, simTime' # simTime, mode = "stepping", ~late
      PROVE  pipe \in {"thaw", "wait"}
  <2>0. LoadInv /\ HoldInv /\ ProgressInv /\ PunctualInv /\ TypeOK
    BY <1>1 DEF IInv
  <2>1. stepmode /\ ~holding /\ ~restarting
    BY <1>1, <2>0, StepModeOfEpisode
  <2>2. CASE simTime' > simTime
    <3>1. PICK decided \in SUBSET (Agents \ finished) : Turn(decided)
      BY <1>1, <2>2, TurnsTakeForward
    <3> QED
      BY <1>1, <2>1, <3>1, TurnsAreOfSteps DEF Serving
  <2>3. CASE Close /\ Playing
    BY <2>0, <2>3, CloseTears DEF Close, pipeVars, Tearing, Serving
  <2>4. CASE Reload
    BY <2>0, <2>1, <2>4 DEF Reload, LoadInv
  <2>5. simTime \in Nat
    BY <2>0 DEF TypeOK
  <2>6. CASE Request \/ PipeStep \/ PipeTimeout
    BY <1>1, <2>6, PipeLeaves DEF simVars
  <2>7. CASE RunJob \/ HostStep \/ UNCHANGED vars
    BY <1>1, <2>7, HostLeaves DEF RunJob, RunActs, RunRestart, RunCreate, JobFails, JobEnds, hostOnly,
       vars, simVars
  <2>8. CASE GameStep /\ ~Close
    <3>1. CASE \E decided \in SUBSET (Agents \ finished) : Turn(decided)
      <4>1. simTime' > simTime
        BY <2>5, <3>1 DEF Turn
      <4> QED BY <2>2, <4>1
    <3>2. ~(FrameMovesOn \/ UpdateOld \/ Update \/ UpdateRestarted \/ Flush \/ Feed
            \/ CloseStep \/ Publish \/ StepOver \/ Freeze \/ Report)
      BY <1>1, FrameLeaves DEF UpdateOld, Update, UpdateRestarted, Flush, Feed, CloseStep,
         Publish, StepOver, Freeze, Report, simVars
    <3> QED BY <2>8, <3>1, <3>2, GameCases
  <2>9. CASE GameStep /\ Close
    BY <2>3, <2>9, GameCases
  <2> QED
    BY <1>1, <2>4, <2>6, <2>7, <2>8, <2>9 DEF Next
<1>2. IInv /\ [Next]_vars =>
        [simTime' # simTime /\ mode = "stepping" /\ ~late => pipe \in {"thaw", "wait"}]_vars
  BY <1>1
<1> QED
  BY <1>2, Invariance, PTL DEF Spec, StillBetweenSteps

(* A step that finds the host quiet gets no turn sent before the orders that *)
(* came with it are flushed.                                                 *)
THEOREM OrdersPrecedeTurns == Spec => OrdersBeforeTurns
<1>1. ASSUME IInv, [Next]_vars, sent' > sent, stepmode
      PROVE  ~owed
  <2>0. TypeOK /\ OrderInv
    BY <1>1 DEF IInv
  <2>1. sent' # sent /\ sent' # 0
    BY <1>1, <2>0 DEF TypeOK
  <2>2. ~(Request \/ PipeStep \/ PipeTimeout)
    BY <2>1, PipeLeaves DEF hostVars
  <2>3. ~(RunJob \/ (Playing /\ Reload) \/ UNCHANGED vars)
    BY <2>1 DEF RunJob, RunActs, RunRestart, RunCreate, JobFails, JobEnds, Reload, vars, hostVars
  <2>4. ~GameStep
    BY <2>1 DEF GameStep, BeginFrame, UpdateOld, Update, UpdateRestarted, UpdateEnded, Flush,
       Feed, Close, UpdateReturns, NoStep, CloseStep, Publish, StepGoesOn, StepOver, Freeze,
       Report, Turn, hostVars
  <2>5. HostStep
    BY <1>1, <2>2, <2>3, <2>4 DEF Next
  <2>6. ~ProducerIdles /\ ~Produce
    BY <2>1 DEF ProducerIdles, Produce, SentNow
  <2>7. host = "send"
    BY <2>5, <2>6 DEF HostStep, Send
  <2> QED
    BY <2>0, <2>7 DEF OrderInv, HostQuiet
<1>2. IInv /\ [Next]_vars => [sent' > sent /\ stepmode => ~owed]_vars
  BY <1>1
<1> QED
  BY <1>2, Invariance, PTL DEF Spec, OrdersBeforeTurns

(* In step mode no turn runs past the step, none past the end of a recording *)
(* that reaches the hold (a shorter one is held at HOLD_AT_MS all the same), *)
(* and none after the last agent's result.                                   *)
THEOREM TurnsStayInBounds ==
  ASSUME \A r \in Recordings : r = 0 \/ r >= HoldAt
  PROVE  Spec => TurnsInBounds
<1>1. ASSUME IInv, [Next]_vars, simTime' > simTime, stepmode
      PROVE  /\ stepping /\ simTime' <= target
             /\ IsReplay => simTime' <= recording
             /\ late \/ status # "ended"
  <2>0. TypeOK /\ HoldInv /\ ProgressInv
    BY <1>1 DEF IInv
  <2>1. PICK decided \in SUBSET (Agents \ finished) : Turn(decided)
    BY <1>1, TurnsTakeForward
  <2>2. /\ stepping /\ simTime' <= target /\ simTime' = simTime + 1
        /\ holding \/ Live
        /\ ~late /\ Live => status # "ended"
    BY <1>1, <2>1, TurnsAreOfSteps
  <2>3. IsReplay => target <= recording
    <3>1. recording \in Recordings /\ recording \in Nat /\ HoldAt \in Nat
      BY <2>0, ConstantsAssumption DEF TypeOK
    <3>2. IsReplay => HoldAt <= recording
      BY <3>1 DEF IsReplay
    <3> QED
      BY <2>0, <2>2, <3>2 DEF HoldInv, ProgressInv
  <2>4. simTime \in Nat /\ target \in Nat /\ recording \in Nat
    BY <2>0, ConstantsAssumption DEF TypeOK
  <2> QED
    BY <2>0, <2>2, <2>3, <2>4 DEF HoldInv, Live
<1>2. IInv /\ [Next]_vars =>
        [simTime' > simTime /\ stepmode =>
           /\ stepping /\ simTime' <= target
           /\ IsReplay => simTime' <= recording
           /\ late \/ status # "ended"]_vars
  BY <1>1
<1> QED
  BY <1>2, Invariance, PTL DEF Spec, TurnsInBounds
=============================================================================
