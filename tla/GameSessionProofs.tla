------------------------- MODULE GameSessionProofs -------------------------
(***************************************************************************)
(* Machine-checked proofs about GameSession, for every limit, length of a  *)
(* step, number of processes, episodes, settings and bound: type           *)
(* correctness, who owns a process, what the client is told and which      *)
(* process plays.  A step is a request to a process, or closes one, or     *)
(* launches one, or leaves them alone; ownership passes between the        *)
(* session, the round and close() only in the last three kinds, and the    *)
(* record of one process at most changes, the round's (local) or the       *)
(* session's (game).                                                       *)
(*                                                                         *)
(* The last part is about VectorSession, the host of many games.           *)
(***************************************************************************)
EXTENDS GameSession, SequenceTheorems, TLAPS

Requesting == {"restart", "create", "tune", "observe"}

\* The round talks to the process it was given, while the session has it, and
\* launches one only for a session that has none.
LocalInv ==
  /\ pc \in Requesting \cup {"publish"} => local # 0
  /\ pc \in Requesting => game \in {0, local}
  /\ pc = "tune" => tuning \in Settings
  /\ pc \in {"launch", "publish"} => game = 0

\* Game.close has been called of the processes that are not open, once.
HandleInv == \A p \in Procs : procs[p].closes = IF procs[p].open THEN 0 ELSE 1

\* The three places that own a process are disjoint, and own open ones only.
OwnInv ==
  /\ game # 0 => procs[game].open /\ game # closing
  /\ closing # 0 => procs[closing].open
  /\ local # 0 /\ pc \in Held => procs[local].open /\ local # game /\ local # closing
  /\ ~closed => closing = 0

IInv == TypeOK /\ LocalInv /\ HandleInv /\ OwnInv

-----------------------------------------------------------------------------
(* Requests. *)

\* A request to p changes its record, but not who has closed it.
Requested(p) ==
  \E new \in Process :
    /\ procs' = [procs EXCEPT ![p] = new]
    /\ new.open = procs[p].open /\ new.closes = procs[p].closes

(* Whatever becomes of a request, the processes are the same afterwards and *)
(* none was closed.                                                         *)
LEMMA RequestKeeps ==
  ASSUME procs \in Seq(Process), NEW p \in Procs, Requested(p)
  PROVE  /\ procs' \in Seq(Process) /\ DOMAIN procs' = DOMAIN procs
         /\ \A q \in Procs : /\ procs'[q].open = procs[q].open
                             /\ procs'[q].closes = procs[q].closes
<1>1. PICK new \in Process : /\ procs' = [procs EXCEPT ![p] = new]
                             /\ new.open = procs[p].open /\ new.closes = procs[p].closes
  BY DEF Requested
<1>2. DOMAIN procs = 1..Len(procs) /\ p \in 1..Len(procs)
  BY LenProperties DEF Procs
<1>3. /\ procs' \in Seq(Process) /\ Len(procs') = Len(procs)
      /\ \A q \in 1..Len(procs) : procs'[q] = IF q = p THEN new ELSE procs[q]
  BY <1>1, <1>2, ExceptSeq
<1>4. DOMAIN procs' = 1..Len(procs')
  BY <1>3, LenProperties
<1>5. QED
  BY <1>1, <1>2, <1>3, <1>4 DEF Procs

(* A mark keeps a process a process, and its handle.                        *)
LEMMA MarkType ==
  ASSUME NEW proc \in Process, NEW mark
  PROVE  /\ Mark(proc, mark) \in Process
         /\ Mark(proc, mark).open = proc.open /\ Mark(proc, mark).closes = proc.closes
BY DEF Mark, Process

(* Processes that do not change are changed at p by what p is already.      *)
LEMMA FunctionKept ==
  ASSUME procs \in Seq(Process), NEW p \in Procs
  PROVE  procs = [procs EXCEPT ![p] = procs[p]]
BY DEF Procs

(* A request that is served, or fails, is Requested.                        *)
LEMMA RequestEffect ==
  ASSUME procs \in Seq(Process), NEW p \in Procs, NEW can, NEW mark, NEW new \in Process,
         new.open = procs[p].open, new.closes = procs[p].closes,
         Served(p, can, new) \/ Fails(p, can, new, mark) \/ Interrupted(p, can, new)
  PROVE  Requested(p)
<1>1. procs[p] \in Process
  BY LenProperties, ElementOfSeq DEF Procs
<1>2. CASE procs' = [procs EXCEPT ![p] = new]
  BY <1>2 DEF Requested
<1>3. CASE procs' = [procs EXCEPT ![p] = Mark(new, mark)]
  <2>1. /\ Mark(new, mark) \in Process
        /\ Mark(new, mark).open = procs[p].open /\ Mark(new, mark).closes = procs[p].closes
    BY MarkType
  <2>2. QED
    BY <1>3, <2>1, Zenon DEF Requested
<1>4. CASE procs' = [procs EXCEPT ![p] = Mark(@, mark)]
  BY <1>1, <1>4, MarkType DEF Requested
<1>5. CASE UNCHANGED procs
  <2>1. procs' = [procs EXCEPT ![p] = procs[p]]
    BY <1>5, FunctionKept DEF Procs
  <2>2. QED
    BY <1>1, <2>1 DEF Requested
<1>6. QED
  BY <1>2, <1>3, <1>4, <1>5 DEF Served, Fails, Interrupted

(* A process the session knows is a record.                                 *)
LEMMA ProcessType ==
  ASSUME procs \in Seq(Process), NEW p \in Procs
  PROVE  procs[p] \in Process
BY LenProperties, ElementOfSeq DEF Procs

RequestStep == Restart \/ CreateGame \/ Tune \/ Observe \/ Act \/ StepCall \/ StepObserve

\* The steps that reach a process, or that a process takes.
ProcessStep ==
  \/ RequestStep \/ Staging \/ \E v \in Settings : Tuning(v)
  \/ \E p \in Procs : Crash(p) \/ GameEnds(p)

(* Every one of them is a request to one process, whose record stays one.   *)
LEMMA ProcessStepRequests ==
  ASSUME IInv, ProcessStep
  PROVE  \E p \in Procs : Requested(p)
<1> USE ConstantsAssumption
<1>1. procs \in Seq(Process) /\ {game, local} \subseteq Procs \cup {0}
  BY DEF IInv, TypeOK
<1>0. MaxTime \in Nat /\ 0 \in 0..MaxTime
  BY DEF ConstantsAssumption
<1>2. CASE Restart
  <2>1. local \in Procs
    BY <1>1, <1>2 DEF IInv, LocalInv, Requesting, Restart, ResetCall
  <2> DEFINE new == [procs[local] EXCEPT !.status = "launched", !.time = 0]
  <2>5. procs[local] \in Process
    BY <1>1, <2>1, ProcessType
  <2>2. new \in Process /\ new.open = procs[local].open /\ new.closes = procs[local].closes
    BY <1>0, <2>5 DEF Process
  <2>3. \E can : Served(local, can, new) \/ Fails(local, can, new, "suspect")
                  \/ Interrupted(local, can, new)
    BY <1>2 DEF Restart, ResetCall
  <2>4. QED
    BY <1>1, <2>1, <2>2, <2>3, RequestEffect
<1>3. CASE CreateGame
  <2>1. local \in Procs
    BY <1>1, <1>3 DEF IInv, LocalInv, Requesting, CreateGame, ResetCall
  <2> DEFINE new == [procs[local] EXCEPT !.status = "in_game", !.time = 0, !.episode = @ + 1]
  <2>5. procs[local] \in Process
    BY <1>1, <2>1, ProcessType
  <2>6. procs[local].episode + 1 \in Nat
    BY <2>5 DEF Process
  <2>2. new \in Process /\ new.open = procs[local].open /\ new.closes = procs[local].closes
    BY <1>0, <2>5, <2>6 DEF Process
  <2>3. \E can : Served(local, can, new) \/ Fails(local, can, new, "suspect")
                  \/ Interrupted(local, can, new)
    BY <1>3 DEF CreateGame, ResetCall
  <2>4. QED
    BY <1>1, <2>1, <2>2, <2>3, RequestEffect
<1>4. CASE Tune
  <2>1. local \in Procs /\ tuning \in Settings
    BY <1>1, <1>4 DEF IInv, LocalInv, Requesting, Tune, ResetCall
  <2> DEFINE new == [procs[local] EXCEPT !.set = tuning, !.known = tuning]
  <2>2. new \in Process /\ new.open = procs[local].open /\ new.closes = procs[local].closes
    <3>1. procs[local] \in Process
      BY <1>1, <2>1, ProcessType
    <3>2. QED
      BY <2>1, <3>1 DEF Process
  <2>3. \E can : Served(local, can, new) \/ Fails(local, can, new, "suspect")
                  \/ Interrupted(local, can, new)
    BY <1>4 DEF Tune, ResetCall
  <2>4. QED
    BY <1>1, <2>1, <2>2, <2>3, RequestEffect
<1>5. CASE Observe
  <2>1. local \in Procs
    BY <1>1, <1>5 DEF IInv, LocalInv, Requesting, Observe
  <2>2. \E can : \/ Served(local, can, procs[local])
                 \/ Fails(local, can, procs[local], "suspect")
                 \/ Interrupted(local, can, procs[local])
    BY <1>5 DEF Observe
  <2>3. QED
    BY <1>1, <2>1, <2>2, ProcessType, RequestEffect
<1>6. CASE Act \/ StepObserve
  <2>1. game \in Procs
    BY <1>1, <1>6 DEF Act, StepObserve
  <2>2. CASE \E can : \/ Served(game, can, procs[game])
                      \/ Fails(game, can, procs[game], "suspect")
                      \/ Interrupted(game, can, procs[game])
    BY <1>1, <2>1, <2>2, ProcessType, RequestEffect
  <2>3. CASE UNCHANGED procs
    BY <1>1, <2>1, <2>3, ProcessType DEF Requested
  <2>4. QED
    BY <1>6, <2>2, <2>3 DEF Act, StepObserve, FoundOver
<1>7. CASE StepCall
  <2>1. game \in Procs
    BY <1>1, <1>7 DEF StepCall
  <2> DEFINE News == Advanced(procs[game]) \cup Over(procs[game]) \cup Stalled(procs[game])
  <2>2. \A new \in News : /\ new \in Process
                          /\ new.open = procs[game].open /\ new.closes = procs[game].closes
    <3>1. procs[game] \in Process
      BY <1>1, <2>1, ProcessType
    <3>2. \A new \in Advanced(procs[game]) : /\ new \in Process
            /\ new.open = procs[game].open /\ new.closes = procs[game].closes
      BY <3>1 DEF Advanced, Process
    <3>3. \A new \in Over(procs[game]) \cup Stalled(procs[game]) : /\ new \in Process
            /\ new.open = procs[game].open /\ new.closes = procs[game].closes
      <4>1. \A t \in 0..MaxTime :
              LET over == [procs[game] EXCEPT !.time = t, !.status = "ended"]
                  stalled == [procs[game] EXCEPT !.time = t]
              IN  /\ over \in Process /\ stalled \in Process
                  /\ over.open = procs[game].open /\ over.closes = procs[game].closes
                  /\ stalled.open = procs[game].open /\ stalled.closes = procs[game].closes
        BY <3>1 DEF Process
      <4>2. QED
        BY <4>1 DEF Over, Stalled, Until
    <3>4. QED
      BY <3>2, <3>3
  <2>3. CASE \E new \in News : \E can : \/ Served(game, can, new)
                                   \/ Fails(game, can, new, "suspect")
                                   \/ Interrupted(game, can, new)
    BY <1>1, <2>1, <2>2, <2>3, RequestEffect
  <2>4. CASE \E new \in News : \E can : Served(game, can, Mark(new, "suspect"))
    <3>1. PICK new \in News : \E can : Served(game, can, Mark(new, "suspect"))
      BY <2>4
    <3>2. /\ Mark(new, "suspect") \in Process
          /\ Mark(new, "suspect").open = procs[game].open
          /\ Mark(new, "suspect").closes = procs[game].closes
      BY <2>2, <3>1, MarkType
    <3>3. QED
      BY <1>1, <2>1, <3>1, <3>2, RequestEffect
  <2>5. CASE UNCHANGED procs
    BY <1>1, <2>1, <2>5, ProcessType DEF Requested
  <2>6. QED
    BY <1>7, <2>3, <2>4, <2>5 DEF StepCall, FoundOver
<1>8. CASE Staging \/ \E v \in Settings : Tuning(v)
  <2>1. game \in Procs
    BY <1>1, <1>8 DEF Staging, Tuning
  <2>2. procs[game] \in Process
    BY <1>1, <2>1, ProcessType
  <2>3. CASE Staging
    <3> DEFINE new == [procs[game] EXCEPT !.status = "ended"]
    <3>1. new \in Process /\ new.open = procs[game].open /\ new.closes = procs[game].closes
      BY <2>2 DEF Process
    <3>2. \E can : Served(game, can, new) \/ Fails(game, can, new, "unsure")
      BY <2>3 DEF Staging
    <3>3. QED
      BY <1>1, <2>1, <3>1, <3>2, RequestEffect
  <2>4. CASE \E v \in Settings : Tuning(v)
    <3>1. PICK v \in Settings : Tuning(v)
      BY <2>4
    <3> DEFINE new == [procs[game] EXCEPT !.set = v]
               known == [new EXCEPT !.known = new.set]
    <3>2. new \in Process /\ new.open = procs[game].open /\ new.closes = procs[game].closes
      BY <2>2 DEF Process
    <3>3. known \in Process /\ known.open = procs[game].open /\ known.closes = procs[game].closes
      BY <2>2, <3>2 DEF Process
    <3>4. \E can : Served(game, can, known) \/ Fails(game, can, new, "unsure")
      BY <3>1 DEF Tuning, Debug
    <3>5. QED
      BY <1>1, <2>1, <3>2, <3>3, <3>4, RequestEffect
  <2>5. QED
    BY <1>8, <2>3, <2>4
<1>9. ASSUME NEW p \in Procs, Crash(p) \/ GameEnds(p)
      PROVE  Requested(p)
  <2>1. procs[p] \in Process
    BY <1>1, <1>9, ProcessType
  <2>2. CASE Crash(p)
    <3> DEFINE new == [procs[p] EXCEPT !.alive = FALSE]
    <3>1. new \in Process /\ new.open = procs[p].open /\ new.closes = procs[p].closes
      BY <2>1 DEF Process
    <3>2. procs' = [procs EXCEPT ![p] = new]
      BY <2>2 DEF Crash
    <3>3. QED
      BY <3>1, <3>2 DEF Requested
  <2>3. CASE GameEnds(p)
    <3> DEFINE new == [procs[p] EXCEPT !.status = "ended"]
    <3>1. new \in Process /\ new.open = procs[p].open /\ new.closes = procs[p].closes
      BY <2>1 DEF Process
    <3>2. procs' = [procs EXCEPT ![p] = new]
      BY <2>3 DEF GameEnds
    <3>3. QED
      BY <3>1, <3>2 DEF Requested
  <2>4. QED
    BY <1>9, <2>2, <2>3
<1>10. QED
  BY <1>2, <1>3, <1>4, <1>5, <1>6, <1>7, <1>8, <1>9 DEF ProcessStep, RequestStep
-----------------------------------------------------------------------------
(* The other steps. *)

\* Steps that leave the processes alone, that close one, that launch one.
Bookkeeping ==
  Reset \/ Ensure \/ LaunchFails \/ Publish \/ Abandon \/ Step \/ GameGone \/ Close
Disposing == Release \/ Discard \/ Dispose
Launching == Launch \/ LaunchInterrupted

(* Every step is of one of these kinds.                                     *)
LEMMA Steps ==
  ASSUME [Next]_vars
  PROVE  /\ UNCHANGED config
         /\ \/ ProcessStep \/ Bookkeeping \/ Disposing \/ Launching \/ CloseProcess
            \/ UNCHANGED vars
BY DEF Next, RoundStep, CloseEnds, Call, Environment, ProcessStep, RequestStep,
       Bookkeeping, Disposing, Launching, vars

(* Closing an open process closes it, for the first time, and no other.     *)
LEMMA ClosedKeeps ==
  ASSUME procs \in Seq(Process), NEW p \in Procs, procs[p].closes = 0, procs' = Closed(p)
  PROVE  /\ procs' \in Seq(Process) /\ DOMAIN procs' = DOMAIN procs
         /\ ~procs'[p].open /\ procs'[p].closes = 1
         /\ \A q \in Procs : q # p => procs'[q] = procs[q]
<1> DEFINE new == [Launched EXCEPT !.alive = FALSE, !.open = FALSE, !.closes = procs[p].closes + 1]
<1>1. 0 \in 0..MaxTime /\ Default \in Settings
  BY ConstantsAssumption DEF ConstantsAssumption
<1>7. Launched \in Process
  BY <1>1 DEF Launched, Process
<1>2. new \in Process /\ ~new.open /\ new.closes = 1
  <2>1. procs[p].closes + 1 = 1
    OBVIOUS
  <2> HIDE DEF Launched
  <2>2. \A l \in Process :
          LET c == [l EXCEPT !.alive = FALSE, !.open = FALSE, !.closes = 1]
          IN  c \in Process /\ ~c.open /\ c.closes = 1
    BY DEF Process
  <2>3. QED
    BY <1>7, <2>1, <2>2
<1>3. DOMAIN procs = 1..Len(procs) /\ p \in 1..Len(procs)
  BY LenProperties DEF Procs
<1>4. /\ procs' \in Seq(Process) /\ Len(procs') = Len(procs)
      /\ \A q \in 1..Len(procs) : procs'[q] = IF q = p THEN new ELSE procs[q]
  BY <1>2, <1>3, ExceptSeq DEF Closed
<1>5. DOMAIN procs' = 1..Len(procs')
  BY <1>4, LenProperties
<1>6. QED
  BY <1>2, <1>3, <1>4, <1>5 DEF Procs

(* A launch adds one, open and never closed.                                *)
LEMMA LaunchKeeps ==
  ASSUME procs \in Seq(Process), procs' = Append(procs, Launched)
  PROVE  /\ procs' \in Seq(Process) /\ Len(procs) + 1 \notin DOMAIN procs
         /\ DOMAIN procs' = DOMAIN procs \cup {Len(procs) + 1} /\ 0 \notin DOMAIN procs
         /\ \A q \in Procs : procs'[q] = procs[q]
         /\ procs'[Len(procs) + 1].open /\ procs'[Len(procs) + 1].closes = 0
<1>1. 0 \in 0..MaxTime /\ Default \in Settings
  BY ConstantsAssumption DEF ConstantsAssumption
<1>2. Launched \in Process /\ Launched.open /\ Launched.closes = 0
  BY <1>1 DEF Launched, Process
<1>3. DOMAIN procs = 1..Len(procs) /\ Len(procs) \in Nat
  BY LenProperties DEF Procs
<1>4. /\ procs' \in Seq(Process) /\ Len(procs') = Len(procs) + 1
      /\ \A q \in 1..Len(procs) : procs'[q] = procs[q]
      /\ procs'[Len(procs) + 1] = Launched
  BY <1>2, <1>3, AppendProperties
<1>5. DOMAIN procs' = 1..Len(procs')
  BY <1>4, LenProperties
<1>6. QED
  BY <1>2, <1>3, <1>4, <1>5 DEF Procs

(* What a disposing round closes is the process it holds, if any.           *)
LEMMA DisposeCloses ==
  ASSUME IInv, Disposing
  PROVE  /\ local' = 0 /\ UNCHANGED <<game, closed, closing>>
         /\ \/ local = 0 /\ UNCHANGED procs
            \/ local \in Procs /\ procs[local].closes = 0 /\ procs' = Closed(local)
<1>1. local' = 0 /\ procs' = IF local = 0 THEN procs ELSE Closed(local)
  BY DEF Disposing, Release, Discard, Dispose, CloseLocal
<1>2. UNCHANGED <<game, closed, closing>> /\ pc \in Held
  BY DEF Disposing, Release, Discard, Dispose, session, Held
<1>3. local # 0 => local \in Procs /\ procs[local].closes = 0
  BY <1>2 DEF IInv, TypeOK, OwnInv, HandleInv
<1>4. QED
  BY <1>1, <1>2, <1>3

(* close() closes the process it has detached.                              *)
LEMMA CloseCloses ==
  ASSUME IInv, CloseProcess
  PROVE  closing \in Procs /\ procs[closing].closes = 0 /\ procs' = Closed(closing)
BY DEF CloseProcess, IInv, TypeOK, OwnInv, HandleInv
-----------------------------------------------------------------------------
(* Processes stay, stay records, and are closed once. *)
LEMMA ProcsKept ==
  ASSUME IInv, [Next]_vars
  PROVE  procs' \in Seq(Process) /\ Procs \subseteq Procs' /\ HandleInv'
<1>1. procs \in Seq(Process) /\ HandleInv
  BY DEF IInv, TypeOK
<1>2. CASE ProcessStep
  <2>1. PICK p \in Procs : Requested(p)
    BY <1>2, ProcessStepRequests
  <2>2. QED
    BY <1>1, <2>1, RequestKeeps DEF HandleInv, Procs
<1>3. CASE UNCHANGED procs
  BY <1>1, <1>3 DEF HandleInv, Procs
<1>4. ASSUME NEW p \in Procs, procs[p].closes = 0, procs' = Closed(p)
      PROVE  procs' \in Seq(Process) /\ Procs \subseteq Procs' /\ HandleInv'
  BY <1>1, <1>4, ClosedKeeps DEF HandleInv, Procs
<1>5. CASE Launching
  <2>1. procs' = Append(procs, Launched)
    BY <1>5 DEF Launching, Launch, LaunchInterrupted
  <2>2. QED
    BY <1>1, <2>1, LaunchKeeps DEF HandleInv, Procs
<1>6. CASE Disposing
  BY <1>3, <1>4, <1>6, DisposeCloses
<1>7. CASE CloseProcess
  BY <1>4, <1>7, CloseCloses
<1>8. CASE Bookkeeping
  BY <1>3, <1>8 DEF Bookkeeping, Reset, Ensure, LaunchFails, Publish, Abandon, Step, GameGone, Close
<1>9. QED
  BY <1>2, <1>3, <1>5, <1>6, <1>7, <1>8, Steps DEF vars

(* The session's own variables keep their types.                            *)
LEMMA TypesKept ==
  ASSUME IInv, [Next]_vars
  PROVE  TypeOK'
<1> USE DEF ProcessStep, RequestStep, Bookkeeping, Disposing, Launching,
            Reset, Ensure, LaunchFails, Publish, Abandon, Step, GameGone, Close,
            Release, Discard, Dispose, Launch, LaunchInterrupted, CloseProcess,
            Restart, CreateGame, Tune, ResetCall, Observe, Act, StepCall, StepObserve,
            Staging, Tuning, Debug, Crash, GameEnds, session, round, stepOnly,
            Detach, ForgetEpisode, CloseLocal, Ends, GoesOn, FoundOver
<1>1. mode' \in Modes /\ replay' \in BOOLEAN /\ interrupts' \in Interrupts
  BY Steps DEF IInv, TypeOK, config
<1>2. closed' \in BOOLEAN
  BY Steps DEF IInv, TypeOK, vars
<1>3. created' \in BOOLEAN
  BY Steps DEF IInv, TypeOK, vars
<1>4. steps' \in Nat
  <2>1. steps \in Nat /\ steps + 1 \in Nat
    BY DEF IInv, TypeOK
  <2>2. steps' \in {0, steps, steps + 1}
    BY Steps DEF vars
  <2>3. QED
    BY <2>1, <2>2
<1>5. count' \in Nat
  <2>1. count \in Nat /\ count + 1 \in Nat
    BY DEF IInv, TypeOK
  <2>2. count' \in {0, count, count + 1}
    BY Steps DEF vars
  <2>3. QED
    BY <2>1, <2>2
<1>6. faulted' \in BOOLEAN
  <2>1. faulted \in BOOLEAN
    BY DEF IInv, TypeOK
  <2>2. faulted' \in {TRUE, FALSE, faulted}
    BY Steps DEF vars
  <2>3. QED
    BY <2>1, <2>2
<1>7. pc' \in Running \cup {"idle"}
  BY Steps DEF IInv, TypeOK, vars, Running
<1>8. \A p \in Procs : procs[p] \in Process
  BY ProcessType DEF IInv, TypeOK
<1>9. done' \in BOOLEAN
  <2>1. done \in BOOLEAN
    BY DEF IInv, TypeOK
  <2>2. done' \in {TRUE, FALSE, done}
    BY Steps DEF vars, DoneIf
  <2>3. QED
    BY <2>1, <2>2
<1>10. game' \in {0, game, local} /\ closing' \in {0, closing, game}
  BY Steps DEF vars
<1>11. local' \in {0, local, game} \/ Launch
  BY Steps DEF vars
<1>12. {game', local', closing'} \subseteq Procs' \cup {0}
  <2>1. {game, local, closing} \subseteq Procs \cup {0} /\ Procs \subseteq Procs'
    BY ProcsKept DEF IInv, TypeOK
  <2>2. CASE Launch
    <3>1. local' \in Procs'
      BY <2>2, LaunchKeeps DEF IInv, TypeOK, Procs
    <3>2. QED
      BY <1>10, <2>1, <3>1
  <2>3. QED
    BY <1>10, <1>11, <2>1, <2>2
<1>13. closed' => game' = 0
  BY Steps DEF IInv, TypeOK, vars
<1>14. wish' \in Settings \cup {NoSetting}
  <2>1. wish \in Settings \cup {NoSetting}
    BY DEF IInv, TypeOK
  <2>2. CASE \E v \in Settings : Tuning(v)
    <3>1. PICK v \in Settings : Tuning(v)
      BY <2>2
    <3>2. game \in Procs
      BY <3>1 DEF IInv, TypeOK
    <3>3. [procs[game] EXCEPT !.set = v].set = v
      BY <1>8, <3>2 DEF Process
    <3>4. QED
      BY <2>1, <3>1, <3>3
  <2>3. CASE UNCHANGED wish
    BY <2>1, <2>3
  <2>4. QED
    BY <2>2, <2>3, Steps DEF vars
<1>15. tuning' \in Settings \cup {NoSetting}
  <2>1. Learned(game) \in Settings \cup {NoSetting} /\ tuning \in Settings \cup {NoSetting}
    BY <1>8 DEF IInv, TypeOK, Learned, Process
  <2>2. tuning' \in {tuning, Learned(game)}
    BY Steps DEF vars
  <2>3. QED
    BY <2>1, <2>2
<1>16. seen' \in [proc : Procs' \cup {0}, episode : Nat, time : 0..MaxTime]
  <2>1. /\ seen \in [proc : Procs \cup {0}, episode : Nat, time : 0..MaxTime]
        /\ Procs \subseteq Procs'
    BY ProcsKept DEF IInv, TypeOK
  <2>2. CASE UNCHANGED seen
    BY <2>1, <2>2
  <2>3. CASE seen' = Nothing
    <3>1. 0 \in 0..MaxTime
      BY ConstantsAssumption DEF ConstantsAssumption
    <3>2. QED
      BY <2>3, <3>1 DEF Nothing
  <2>4. ASSUME NEW p \in Procs, seen' = View(p)
        PROVE  seen' \in [proc : Procs' \cup {0}, episode : Nat, time : 0..MaxTime]
    <3>1. procs[p].episode \in Nat /\ procs[p].time \in 0..MaxTime
      BY <1>8, <2>4 DEF Process
    <3>2. QED
      BY <2>1, <2>4, <3>1 DEF View
  <2>5. \/ seen' \in {seen, Nothing}
        \/ seen' = View(game) /\ game # 0
        \/ seen' = View(local) /\ pc = "observe"
    BY Steps DEF vars
  <2>6. {game, local} \subseteq Procs \cup {0} /\ (pc = "observe" => local # 0)
    BY DEF IInv, TypeOK, LocalInv, Requesting
  <2>7. QED
    BY <2>2, <2>3, <2>4, <2>5, <2>6
<1>17. procs' \in Seq(Process)
  BY ProcsKept
<1>18. QED
  BY <1>1, <1>2, <1>3, <1>4, <1>5, <1>6, <1>7, <1>9, <1>12, <1>13, <1>14, <1>15, <1>16, <1>17
     DEF TypeOK, Procs
-----------------------------------------------------------------------------
(* Who owns a process. *)

(* A request of a step leads to the last one or ends the step.              *)
LEMMA StepsGoTo ==
  ASSUME Act \/ StepCall \/ StepObserve
  PROVE  pc \in {"act", "step", "step_observe"} /\ pc' \in {"step_observe", "idle"}
<1>1. CASE Act
  BY <1>1 DEF Act, Ends, GoesOn, FoundOver
<1>2. CASE StepCall
  BY <1>2 DEF StepCall, Ends, GoesOn, FoundOver
<1>3. CASE StepObserve
  BY <1>3 DEF StepObserve, Ends
<1>4. QED
  BY <1>1, <1>2, <1>3

(* Outside a round neither a debug nor a process changes the session.       *)
LEMMA QuietSteps ==
  ASSUME Staging \/ (\E v \in Settings : Tuning(v)) \/ \E p \in Procs : Crash(p) \/ GameEnds(p)
  PROVE  UNCHANGED <<session, round, closing>>
<1>1. CASE Staging
  BY <1>1 DEF Staging
<1>2. ASSUME NEW v \in Settings, Tuning(v)
      PROVE  UNCHANGED <<session, round, closing>>
  BY <1>2 DEF Tuning, Debug
<1>3. ASSUME NEW p \in Procs, Crash(p) \/ GameEnds(p)
      PROVE  UNCHANGED <<session, round, closing>>
  BY <1>3 DEF Crash, GameEnds
<1>4. QED
  BY <1>1, <1>2, <1>3

(* A request leaves ownership alone, and the round outside its four stages  *)
(* of holding a process.                                                    *)
LEMMA ProcessStepHolds ==
  ASSUME IInv, ProcessStep
  PROVE  /\ UNCHANGED <<game, local, closing, closed>>
         /\ pc' = pc \/ (pc \notin Held /\ pc' \notin Held)
         /\ DOMAIN procs' = DOMAIN procs
         /\ \A p \in Procs : procs'[p].open = procs[p].open
<1>1. UNCHANGED <<game, local, closing, closed>>
  BY DEF ProcessStep, RequestStep, Restart, CreateGame, Tune, ResetCall, Observe, Act,
         StepCall, StepObserve, Staging, Tuning, Debug, Crash, GameEnds, session, round, stepOnly
<1>2. pc' = pc \/ (pc \notin Held /\ pc' \notin Held)
  <2>1. CASE Restart \/ CreateGame \/ Tune \/ Observe
    BY <2>1 DEF Restart, CreateGame, Tune, ResetCall, Observe, Held
  <2>2. CASE Act \/ StepCall \/ StepObserve
    BY <2>2, StepsGoTo DEF Held
  <2>3. CASE Staging \/ (\E v \in Settings : Tuning(v)) \/ \E p \in Procs : Crash(p) \/ GameEnds(p)
    <3>1. UNCHANGED <<session, round, closing>>
      BY <2>3, QuietSteps
    <3>2. pc' = pc
      BY <3>1 DEF round
    <3>3. QED
      BY <3>2
  <2>4. QED
    <3>1. \/ Restart \/ CreateGame \/ Tune \/ Observe
          \/ Act \/ StepCall \/ StepObserve
          \/ Staging \/ (\E v \in Settings : Tuning(v)) \/ \E p \in Procs : Crash(p) \/ GameEnds(p)
      BY DEF ProcessStep, RequestStep
    <3>2. QED
      BY <2>1, <2>2, <2>3, <3>1
<1>3. PICK p \in Procs : Requested(p)
  BY ProcessStepRequests
<1>4. QED
  BY <1>1, <1>2, <1>3, RequestKeeps DEF IInv, TypeOK

(* The round is given a process before it talks to one.                     *)
LEMMA LocalKept ==
  ASSUME IInv, [Next]_vars
  PROVE  LocalInv'
<1> USE DEF LocalInv, Requesting
<1>1. game \in Procs \cup {0} /\ tuning \in Settings \cup {NoSetting} /\ procs \in Seq(Process)
  BY DEF IInv, TypeOK
<1>2. CASE ProcessStep
  <2>1. UNCHANGED <<game, local>>
    BY <1>2, ProcessStepHolds
  <2>2. CASE Restart \/ CreateGame \/ Tune
    <3>1. UNCHANGED tuning /\ pc \in Requesting
      BY <2>2 DEF Restart, CreateGame, Tune, ResetCall, session
    <3>2. pc' \in {"create", "tune", "observe", "abandon", "idle"}
      BY <2>2 DEF Restart, CreateGame, Tune, ResetCall
    <3>3. pc' = "tune" => tuning # NoSetting
      BY <2>2 DEF Restart, CreateGame, Tune, ResetCall
    <3>4. QED
      BY <1>1, <2>1, <3>1, <3>2, <3>3 DEF IInv
  <2>6. CASE Observe
    BY <2>1, <2>6 DEF Observe
  <2>3. CASE Act \/ StepCall \/ StepObserve
    BY <2>1, <2>3, StepsGoTo
  <2>4. CASE Staging \/ (\E v \in Settings : Tuning(v)) \/ \E p \in Procs : Crash(p) \/ GameEnds(p)
    BY <2>1, <2>4, QuietSteps DEF IInv, round, session
  <2>5. QED
    BY <1>2, <2>2, <2>3, <2>4, <2>6 DEF ProcessStep, RequestStep
<1>3. CASE Bookkeeping
  <2>1. CASE Reset \/ LaunchFails \/ Abandon \/ Step \/ GameGone
    BY <2>1 DEF Reset, LaunchFails, Abandon, Step, GameGone, Ends
  <2>2. CASE Ensure
    BY <2>2 DEF Ensure
  <2>3. CASE Publish
    BY <2>3 DEF IInv, Publish
  <2>4. CASE Close
    BY <2>4 DEF IInv, Close, round
  <2>5. QED
    BY <1>3, <2>1, <2>2, <2>3, <2>4 DEF Bookkeeping
<1>4. CASE Disposing
  BY <1>4 DEF Disposing, Release, Discard, Dispose
<1>5. CASE Launching
  <2>1. Len(procs) + 1 # 0
    BY <1>1, LenProperties
  <2>2. CASE Launch
    BY <1>1, <2>1, <2>2 DEF IInv, Launch, session
  <2>3. CASE LaunchInterrupted
    BY <2>3 DEF LaunchInterrupted
  <2>4. QED
    BY <1>5, <2>2, <2>3 DEF Launching
<1>6. CASE CloseProcess \/ UNCHANGED vars
  BY <1>6 DEF IInv, CloseProcess, session, round, vars
<1>7. QED
  BY <1>2, <1>3, <1>4, <1>5, <1>6, Steps

(* The owners stay disjoint, and each owns an open process.                 *)
LEMMA OwnersKept ==
  ASSUME IInv, [Next]_vars
  PROVE  OwnInv'
<1> USE DEF OwnInv, Held
<1>1. OwnInv /\ HandleInv /\ procs \in Seq(Process)
      /\ {game, local, closing} \subseteq Procs \cup {0}
  BY DEF IInv, TypeOK
<1>2. CASE ProcessStep
  BY <1>1, <1>2, ProcessStepHolds
<1>3. CASE Bookkeeping
  <2>1. CASE Reset \/ Abandon
    BY <1>1, <2>1 DEF Reset, Abandon, Detach
  <2>2. CASE LaunchFails \/ Step \/ GameGone \/ Ensure
    BY <1>1, <2>2 DEF LaunchFails, Step, GameGone, Ensure, Ends, session, stepOnly
  <2>3. CASE Publish
    BY <1>1, <2>3 DEF Publish
  <2>4. CASE Close
    BY <1>1, <2>4 DEF Close, round
  <2>5. QED
    BY <1>3, <2>1, <2>2, <2>3, <2>4 DEF Bookkeeping
<1>4. CASE Disposing
  <2>1. pc \in Held /\ UNCHANGED <<game, closed, closing>> /\ local' = 0
    BY <1>4, DisposeCloses DEF Disposing, Release, Discard, Dispose
  <2>2. CASE UNCHANGED procs
    BY <1>1, <2>1, <2>2
  <2>3. CASE local \in Procs /\ procs[local].closes = 0 /\ procs' = Closed(local)
    <3>1. \A q \in Procs : q # local => procs'[q] = procs[q]
      BY <1>1, <2>3, ClosedKeeps
    <3>2. local # 0
      BY <1>1, <2>3, LenProperties DEF Procs
    <3>3. QED
      BY <1>1, <2>1, <3>1, <3>2
  <2>4. QED
    BY <1>4, <2>2, <2>3, DisposeCloses
<1>5. CASE Launching
  <2>1. procs' = Append(procs, Launched) /\ UNCHANGED <<game, closed, closing>>
    BY <1>5 DEF Launching, Launch, LaunchInterrupted, session
  <2>2. /\ \A q \in Procs : procs'[q] = procs[q] /\ q # Len(procs) + 1
        /\ procs'[Len(procs) + 1].open
    BY <1>1, <2>1, LaunchKeeps DEF Procs
  <2>3. CASE Launch
    <3>1. local' = Len(procs) + 1 /\ Len(procs) + 1 # 0
      BY <1>1, <2>3, LenProperties DEF Launch
    <3>2. game # Len(procs) + 1 /\ closing # Len(procs) + 1
      BY <1>1, <2>2, <3>1
    <3>3. /\ game # 0 => procs'[game].open
          /\ closing # 0 => procs'[closing].open
      BY <1>1, <2>2
    <3>4. QED
      BY <1>1, <2>1, <2>2, <3>1, <3>2, <3>3
  <2>4. CASE LaunchInterrupted
    <3>1. pc' = "idle"
      BY <2>4 DEF LaunchInterrupted
    <3>2. QED
      BY <1>1, <2>1, <2>2, <3>1
  <2>5. QED
    BY <1>5, <2>3, <2>4 DEF Launching
<1>6. CASE CloseProcess
  <2>1. /\ closing' = 0 /\ UNCHANGED <<game, local, pc, closed>>
        /\ \A q \in Procs : q # closing => procs'[q] = procs[q]
    BY <1>1, <1>6, CloseCloses, ClosedKeeps DEF CloseProcess, session, round
  <2>2. QED
    BY <1>1, <2>1
<1>7. CASE UNCHANGED vars
  BY <1>1, <1>7 DEF vars, session, round
<1>8. QED
  BY <1>2, <1>3, <1>4, <1>5, <1>6, <1>7, Steps
-----------------------------------------------------------------------------
(* At the start nothing was launched.                                       *)
LEMMA InitInv == Init => IInv
<1> SUFFICES ASSUME Init PROVE IInv
  OBVIOUS
<1>1. procs \in Seq(Process) /\ Procs = {}
  BY EmptySeq DEF Init, Procs
<1>2. seen \in [proc : Procs \cup {0}, episode : Nat, time : 0..MaxTime]
  <2>1. 0 \in 0..MaxTime
    BY ConstantsAssumption DEF ConstantsAssumption
  <2>2. QED
    BY <2>1 DEF Init, Nothing
<1>3. TypeOK
  <2>1. "idle" \in Running \cup {"idle"} /\ 0 \in Nat
    OBVIOUS
  <2>2. mode \in Modes /\ replay \in BOOLEAN /\ interrupts \in Interrupts /\ pc = "idle" /\ game = 0 /\ local = 0 /\ closing = 0
        /\ closed = FALSE /\ faulted = FALSE /\ done = FALSE /\ created = FALSE
        /\ count = 0 /\ steps = 0 /\ tuning = NoSetting /\ wish = NoSetting
    BY DEF Init
  <2>3. QED
    BY <1>1, <1>2, <2>1, <2>2 DEF TypeOK
<1>4. LocalInv /\ OwnInv /\ HandleInv
  BY <1>1 DEF Init, LocalInv, Requesting, OwnInv, Held, HandleInv
<1>5. QED
  BY <1>3, <1>4 DEF IInv

(* The inductive invariant holds in every reachable state.                  *)
THEOREM Invariance == Spec => []IInv
<1>1. IInv /\ [Next]_vars => IInv'
  BY ProcsKept, TypesKept, LocalKept, OwnersKept DEF IInv
<1>2. QED
  BY InitInv, <1>1, PTL DEF Spec

(* The session's variables keep their types.                                *)
THEOREM TypeCorrect == Spec => []TypeOK
BY Invariance, PTL DEF IInv

(* The handle of a process is given back once, whoever closes it.           *)
LEMMA HandlesClosedOnce == Spec => []ClosedOnce
<1>1. IInv => ClosedOnce
  <2>1. ASSUME IInv, NEW p \in Procs PROVE procs[p].closes <= 1
    BY <2>1 DEF IInv, HandleInv
  <2>2. QED
    BY <2>1 DEF ClosedOnce
<1>2. QED
  BY Invariance, <1>1, PTL

(* No step of a program that is not interrupted loses a process.            *)
LEMMA LeaksNothing ==
  ASSUME ~interrupts, IInv, EachOwned, [Next]_vars
  PROVE  EachOwned'
<1> USE DEF EachOwned, Held
<1>1. procs \in Seq(Process) /\ (closed => game = 0)
      /\ {game, local, closing} \subseteq Procs \cup {0} /\ OwnInv
  BY DEF IInv, TypeOK
<1>2. CASE ProcessStep
  BY <1>2, ProcessStepHolds DEF Procs
<1>3. CASE Bookkeeping
  <2>1. CASE Reset \/ Abandon
    BY <1>1, <2>1 DEF Reset, Abandon, Detach, Procs
  <2>2. CASE LaunchFails \/ Step \/ GameGone \/ Ensure
    BY <1>1, <2>2 DEF LaunchFails, Step, GameGone, Ensure, Ends, session, stepOnly, Procs
  <2>3. CASE Publish
    <3>1. pc = "publish" /\ UNCHANGED <<procs, closed, closing, local>>
      BY <2>3 DEF Publish
    <3>2. CASE closed
      BY <2>3, <3>1, <3>2 DEF Publish, Procs
    <3>3. CASE ~closed
      <4>1. game' = local /\ closing = 0
        BY <1>1, <2>3, <3>3 DEF Publish, OwnInv
      <4>2. \A p \in Procs : procs[p].open => p = local
        BY <1>1, <3>1, <4>1, LenProperties DEF IInv, LocalInv, Procs
      <4>3. QED
        BY <3>1, <3>3, <4>1, <4>2 DEF Procs
    <3>4. QED
      BY <3>2, <3>3
  <2>4. CASE Close
    BY <1>1, <2>4 DEF Close, round, Procs, OwnInv
  <2>5. QED
    BY <1>3, <2>1, <2>2, <2>3, <2>4 DEF Bookkeeping
<1>4. CASE Disposing
  <2>1. UNCHANGED <<game, closed, closing>>
    BY <1>4, DisposeCloses
  <2>2. CASE local = 0 /\ UNCHANGED procs
    BY <1>1, <2>1, <2>2, LenProperties DEF Procs
  <2>3. CASE local \in Procs /\ procs[local].closes = 0 /\ procs' = Closed(local)
    <3>1. /\ ~procs'[local].open /\ DOMAIN procs' = DOMAIN procs
          /\ \A q \in Procs : q # local => procs'[q] = procs[q]
      BY <1>1, <2>3, ClosedKeeps
    <3>2. QED
      BY <2>1, <3>1 DEF Procs
  <2>4. QED
    BY <1>4, <2>2, <2>3, DisposeCloses
<1>5. CASE Launching
  <2>1. Launch
    BY <1>5 DEF Launching, LaunchInterrupted
  <2>2. procs' = Append(procs, Launched) /\ UNCHANGED <<game, closed, closing>>
        /\ pc = "launch" /\ pc' = "publish" /\ local' = Len(procs) + 1
    BY <2>1 DEF Launch, session
  <2>3. /\ DOMAIN procs' = DOMAIN procs \cup {Len(procs) + 1}
        /\ \A q \in Procs : procs'[q] = procs[q]
    BY <1>1, <2>2, LaunchKeeps
  <2>4. QED
    BY <2>2, <2>3 DEF Procs
<1>6. CASE CloseProcess
  <2>1. /\ UNCHANGED <<game, local, pc, closed>> /\ ~procs'[closing].open
        /\ DOMAIN procs' = DOMAIN procs
        /\ \A q \in Procs : q # closing => procs'[q] = procs[q]
    BY <1>1, <1>6, CloseCloses, ClosedKeeps DEF CloseProcess, session, round
  <2>2. QED
    BY <2>1 DEF Procs
<1>7. CASE UNCHANGED vars
  BY <1>7 DEF vars, session, round, Procs
<1>8. QED
  BY <1>2, <1>3, <1>4, <1>5, <1>6, <1>7, Steps

(* Without interruptions no process is left running.                        *)
LEMMA NothingLeaks == Spec => []NoLeak
<1>1. Init => NoLeak
  BY DEF Init, NoLeak, EachOwned, Procs
<1>2. ASSUME IInv, NoLeak, [Next]_vars PROVE NoLeak'
  <2>1. interrupts' = interrupts
    BY <1>2, Steps DEF config
  <2>2. QED
    BY <1>2, <2>1, LeaksNothing DEF NoLeak
<1>3. QED
  BY Invariance, <1>1, <1>2, PTL DEF Spec

(* Each process has one owner while it runs, and is closed once.            *)
THEOREM ProcessesAreOwned == Spec => []HandlesOwned
BY HandlesClosedOnce, NothingLeaks, PTL DEF HandlesOwned
-----------------------------------------------------------------------------
(* What the client is told, and which process plays: which fields of the    *)
(* record may change, step by step.                                         *)

Asking == {"act", "step", "step_observe"}
Fresh == {"launch", "publish"} \cup Requesting

\* A reset starts from nothing, and a step from a running episode.
StageInv ==
  /\ pc \in Fresh => seen = Nothing /\ steps = 0 /\ ~done /\ ~faulted
  /\ pc \in Asking => seen # Nothing /\ ~done /\ ~faulted

\* A process on which an operation failed is kept only until the round that failed has
\* disposed of it, or the next reset, which sees the fault.
SuspectInv ==
  /\ game # 0 /\ procs[game].suspect => pc = "abandon" \/ (pc = "idle" /\ faulted)
  /\ pc = "publish" => ~procs[local].suspect

\* What the client has seen is of the session's process, and no time passes untold.
SeenInv ==
  pc \in Asking \cup {"idle"} /\ ~closed /\ seen # Nothing =>
    game # 0 /\ seen.proc = game /\ seen.episode = procs[game].episode
TimeInv ==
  /\ TimeTold
  /\ pc \in {"tune", "observe"} => procs[local].time = 0

PlayInv == StageInv /\ SuspectInv /\ SeenInv /\ TimeInv

\* The count of episodes is ahead of the process's own, and below the limit when
\* another one is asked for.
CountInv ==
  /\ pc \in {"release", "dispose"} => game = 0
  /\ game # 0 /\ pc \in Asking \cup {"idle", "ensure"} => procs[game].episode <= count
  /\ game # 0 /\ pc = "ensure" => ~replay /\ (Limit # 0 => count < Limit)
  /\ pc = "publish" => procs[local].episode = 0
  /\ pc \in Requesting =>
       /\ replay => count = 0
       /\ Limit # 0 => count < Limit
       /\ pc \in {"restart", "create"} => procs[local].episode <= count
       /\ pc \in {"tune", "observe"} => procs[local].episode <= count + 1

\* The setting last asked for is known to the process, or kept for the next one, and the
\* process has it outside the round that is to set it.
Wanted == IF wish = NoSetting THEN Default ELSE wish
Tuned(p) == ~procs[p].unsure => procs[p].set = Wanted
Untuned(p) == procs[p].known = NoSetting /\ (~procs[p].unsure => procs[p].set = Default)
TuneInv ==
  /\ ~closed => Learned(game) = wish
  /\ pc = "restart" => ~created
  /\ pc = "tune" => procs[local].known = NoSetting
  /\ pc = "publish" \/ (pc = "create" /\ created) => Untuned(local)
  /\ game # 0 /\ pc \in Asking \cup {"idle", "ensure", "restart", "observe"} => Tuned(game)
  /\ game # 0 /\ pc = "create" /\ ~created => Tuned(game)

\* These need that no reset is interrupted.
UncutInv == ~interrupts => CountInv /\ TuneInv /\ EpisodeLimit

-----------------------------------------------------------------------------
(* What becomes of the record of a process. *)

Tied(new, old) ==
  /\ new.episode = old.episode /\ new.known = old.known
  /\ ~new.unsure => ~old.unsure /\ new.set = old.set
Kept(new, old) == Tied(new, old) /\ new.time = old.time /\ (new.suspect => old.suspect)
Wiped(new) ==
  /\ new.episode = 0 /\ new.time = 0
  /\ new.known = NoSetting /\ new.set = Default /\ ~new.suspect

(* A mark changes nothing else.                                             *)
LEMMA Marked ==
  ASSUME NEW proc \in Process, NEW mark
  PROVE  /\ Tied(Mark(proc, mark), proc) /\ Mark(proc, mark).time = proc.time
         /\ mark # "suspect" => Kept(Mark(proc, mark), proc)
<1>1. /\ [proc EXCEPT !.suspect = TRUE].episode = proc.episode
      /\ [proc EXCEPT !.suspect = TRUE].known = proc.known
      /\ [proc EXCEPT !.suspect = TRUE].set = proc.set
      /\ [proc EXCEPT !.suspect = TRUE].time = proc.time
      /\ [proc EXCEPT !.suspect = TRUE].unsure = proc.unsure
  BY DEF Process
<1>2. /\ [proc EXCEPT !.unsure = TRUE].episode = proc.episode
      /\ [proc EXCEPT !.unsure = TRUE].known = proc.known
      /\ [proc EXCEPT !.unsure = TRUE].time = proc.time
      /\ [proc EXCEPT !.unsure = TRUE].suspect = proc.suspect
      /\ [proc EXCEPT !.unsure = TRUE].unsure = TRUE
  BY DEF Process
<1>3. CASE mark = "suspect"
  BY <1>1, <1>3 DEF Mark, Tied
<1>4. CASE mark # "suspect"
  BY <1>2, <1>4 DEF Mark, Tied, Kept
<1>5. QED
  BY <1>3, <1>4

(* Only the record of the process asked changes: to new, or marked.         *)
LEMMA RequestMakes ==
  ASSUME procs \in Seq(Process), NEW p \in Procs, NEW can, NEW mark, NEW new
  PROVE  /\ Served(p, can, new) =>
              procs'[p] = new /\ \A q \in Procs : q # p => procs'[q] = procs[q]
         /\ Fails(p, can, new, mark) =>
              /\ procs'[p] \in {Mark(procs[p], mark), Mark(new, mark)}
              /\ \A q \in Procs : q # p => procs'[q] = procs[q]
         /\ Interrupted(p, can, new) =>
              /\ interrupts /\ procs'[p] \in {procs[p], new}
              /\ \A q \in Procs : q # p => procs'[q] = procs[q]
BY DEF Served, Fails, Interrupted, Procs

(* Where nothing but records changes, and those of the session's process    *)
(* and the round's as little as they may, the invariant stays.              *)
LEMMA QuietKeeps ==
  ASSUME IInv, PlayInv, UncutInv, UNCHANGED <<config, session, round, wish>>,
         game # 0 => Kept(procs'[game], procs[game]),
         local # 0 => Kept(procs'[local], procs[local]) \/ (Wiped(procs'[local]) /\ local # game),
         pc = "publish" => Kept(procs'[local], procs[local])
  PROVE  PlayInv' /\ (~interrupts => CountInv' /\ TuneInv')
<1> USE DEF Kept, Tied, Wiped, Requesting, config, session, round
<1>1. StageInv'
  BY DEF PlayInv, StageInv, Asking, Fresh, Nothing
<1>2. SuspectInv'
  BY DEF PlayInv, SuspectInv, IInv, LocalInv
<1>3. SeenInv'
  BY DEF PlayInv, SeenInv, Asking, Nothing
<1>4. TimeInv'
  BY DEF PlayInv, TimeInv, TimeTold, IInv, LocalInv, Stepping, Nothing
<1>5. ASSUME ~interrupts PROVE CountInv'
  <2>1. count \in Nat
    BY DEF IInv, TypeOK
  <2>2. QED
    BY <1>5, <2>1 DEF UncutInv, CountInv, IInv, LocalInv, Asking
<1>6. ASSUME ~interrupts PROVE TuneInv'
  BY <1>6 DEF UncutInv, TuneInv, IInv, LocalInv, Asking, Learned, Tuned, Untuned, Wanted
<1>7. QED
  BY <1>1, <1>2, <1>3, <1>4, <1>5, <1>6 DEF PlayInv
-----------------------------------------------------------------------------
(* Steps that change no process. *)

(* A reset recycles a process that must not play on, and keeps its setting; *)
(* the round that follows begins with nothing seen, and publishes only a    *)
(* process that is new; failed steps leave a fault.                         *)
LEMMA BookkeepingKeeps ==
  ASSUME IInv, PlayInv, UncutInv, Bookkeeping, UNCHANGED config
  PROVE  PlayInv' /\ (~interrupts => CountInv' /\ TuneInv')
<1> USE DEF config, stepOnly
<1>1. procs' = procs /\ interrupts' = interrupts /\ wish' = wish
  BY DEF Bookkeeping, Reset, Ensure, LaunchFails, Publish, Abandon, Step, GameGone, Close, Ends
<1>2. count \in Nat /\ (game # 0 => ~closed) /\ (game # 0 => procs[game].episode \in Nat)
  BY ProcessType DEF IInv, TypeOK, Process
<1>3. StageInv'
  <2> USE DEF PlayInv, StageInv, Fresh, Asking, Requesting
  <2>1. CASE Reset
    BY <2>1 DEF Reset
  <2>2. CASE Ensure
    BY <2>2 DEF Ensure, ForgetEpisode
  <2>3. CASE LaunchFails \/ Publish \/ Abandon
    BY <2>3 DEF LaunchFails, Publish, Abandon, session
  <2>4. CASE Step \/ GameGone
    BY <2>4 DEF Step, GameGone, Ends, session
  <2>5. CASE Close
    BY <2>5 DEF Close, round
  <2>6. QED
    BY <2>1, <2>2, <2>3, <2>4, <2>5 DEF Bookkeeping
<1>4. SuspectInv'
  <2> USE <1>1 DEF PlayInv, SuspectInv
  <2>1. CASE Reset
    BY <2>1 DEF Reset, Detach, Recycle
  <2>2. CASE Ensure
    BY <2>2 DEF Ensure, ForgetEpisode
  <2>3. CASE LaunchFails \/ Publish \/ Abandon
    BY <2>3 DEF LaunchFails, Publish, Abandon, Detach, session, IInv, LocalInv
  <2>4. CASE Step \/ GameGone
    BY <2>4 DEF Step, GameGone, Ends, session, StageInv, Asking
  <2>5. CASE Close
    BY <2>5 DEF Close, round
  <2>6. QED
    BY <2>1, <2>2, <2>3, <2>4, <2>5 DEF Bookkeeping
<1>5. SeenInv'
  <2> USE <1>1 DEF PlayInv, SeenInv, Asking
  <2>1. CASE Reset \/ Ensure \/ LaunchFails \/ Publish \/ Abandon
    BY <2>1 DEF Reset, Ensure, LaunchFails, Publish, Abandon
  <2>2. CASE Step \/ GameGone
    BY <2>2 DEF Step, GameGone, Ends, session
  <2>3. CASE Close
    BY <2>3 DEF Close, round
  <2>4. QED
    BY <2>1, <2>2, <2>3 DEF Bookkeeping
<1>6. TimeInv'
  <2> USE <1>1 DEF PlayInv, TimeInv, TimeTold, Stepping
  <2>1. CASE Reset
    BY <2>1 DEF Reset
  <2>2. CASE Ensure
    BY <2>2 DEF Ensure, ForgetEpisode
  <2>3. CASE LaunchFails \/ Publish \/ Abandon
    BY <2>3 DEF LaunchFails, Publish, Abandon, session
  <2>4. CASE Step \/ GameGone
    BY <2>4 DEF Step, GameGone, Ends, session
  <2>5. CASE Close
    BY <2>5 DEF Close, round
  <2>6. QED
    BY <2>1, <2>2, <2>3, <2>4, <2>5 DEF Bookkeeping
<1>7. ASSUME ~interrupts PROVE CountInv'
  <2> USE <1>1, <1>2, <1>7 DEF UncutInv, CountInv, Requesting, Asking
  <2>1. CASE Reset
    BY <2>1, ConstantsAssumption DEF Reset, Detach, Recycle, LimitReached, ConstantsAssumption
  <2>2. CASE Ensure
    BY <2>2 DEF Ensure
  <2>3. CASE LaunchFails \/ Abandon
    BY <2>3 DEF LaunchFails, Abandon, Detach, session
  <2>4. CASE Publish
    BY <2>4, ConstantsAssumption DEF Publish, ConstantsAssumption
  <2>5. CASE Step \/ GameGone
    BY <2>5 DEF Step, GameGone, Ends, session
  <2>6. CASE Close
    BY <2>6 DEF Close, round
  <2>7. QED
    BY <2>1, <2>2, <2>3, <2>4, <2>5, <2>6 DEF Bookkeeping
<1>8. ASSUME ~interrupts PROVE TuneInv'
  <2> USE <1>1, <1>2, <1>8 DEF UncutInv, TuneInv, Asking, Learned, Tuned, Untuned, Wanted
  <2>1. CASE Reset
    BY <2>1 DEF Reset, Detach
  <2>2. CASE Ensure
    BY <2>2 DEF Ensure
  <2>3. CASE LaunchFails \/ Abandon
    BY <2>3 DEF LaunchFails, Abandon, Detach, session
  <2>4. CASE Publish
    BY <2>4 DEF Publish, IInv, LocalInv
  <2>5. CASE Step \/ GameGone
    BY <2>5 DEF Step, GameGone, Ends, session
  <2>6. CASE Close
    BY <2>6 DEF Close, round
  <2>7. QED
    BY <2>1, <2>2, <2>3, <2>4, <2>5, <2>6 DEF Bookkeeping
<1>9. QED
  BY <1>3, <1>4, <1>5, <1>6, <1>7, <1>8 DEF PlayInv
-----------------------------------------------------------------------------
(* Steps that close a process or launch one. *)

(* A closed process' record is as good as new.                              *)
LEMMA ClosedIsWiped ==
  ASSUME procs \in Seq(Process), NEW p \in Procs, procs' = Closed(p)
  PROVE  Wiped(procs'[p]) /\ \A q \in Procs : q # p => procs'[q] = procs[q]
BY DEF Closed, Wiped, Launched, Procs

(* A process that is left alone is kept.                                    *)
LEMMA SameIsKept == ASSUME NEW proc \in Process PROVE Kept(proc, proc)
BY DEF Kept, Tied

(* What the round disposes of is no longer the session's.                   *)
LEMMA DisposingKeeps ==
  ASSUME IInv, PlayInv, UncutInv, Disposing, UNCHANGED config
  PROVE  PlayInv' /\ (~interrupts => CountInv' /\ TuneInv')
<1>1. /\ local' = 0 /\ UNCHANGED <<game, closed, created, wish, count, tuning, faulted, steps, done>>
      /\ pc \in {"release", "discard", "dispose"} /\ pc' \in {"ensure", "abandon", "idle"}
      /\ (pc = "dispose" <=> pc' = "idle") /\ (pc = "release" <=> pc' = "ensure")
      /\ (seen' = seen \/ seen' = Nothing) /\ (pc' = "idle" => seen' = Nothing)
  BY DEF Disposing, Release, Discard, Dispose, CloseLocal, session
<1>2. game # 0 => procs'[game] = procs[game] /\ ~closed
  <2>1. procs \in Seq(Process) /\ {game, local} \subseteq Procs \cup {0}
        /\ (game # 0 => ~closed)
    BY DEF IInv, TypeOK
  <2>2. local # 0 => local # game
    BY <1>1 DEF IInv, OwnInv, Held
  <2>3. procs' = IF local = 0 THEN procs ELSE Closed(local)
    BY DEF Disposing, Release, Discard, Dispose, CloseLocal
  <2>4. QED
    BY <2>1, <2>2, <2>3, ClosedIsWiped
<1>3. StageInv'
  BY <1>1 DEF StageInv, Fresh, Asking, Requesting
<1>4. SuspectInv'
  <2>1. game # 0 => ~procs[game].suspect
    BY <1>1 DEF PlayInv, SuspectInv
  <2>2. QED
    BY <1>1, <1>2, <2>1 DEF SuspectInv
<1>5. SeenInv'
  BY <1>1 DEF SeenInv, Asking
<1>6. TimeInv'
  <2>1. CASE seen' = seen
    BY <1>1, <2>1 DEF PlayInv, TimeInv, TimeTold, Stepping, config
  <2>2. CASE seen' = Nothing
    BY <1>1, <2>2 DEF TimeInv, TimeTold, Nothing
  <2>3. QED
    BY <1>1, <2>1, <2>2
<1>7. ASSUME ~interrupts PROVE CountInv'
  BY <1>1, <1>7 DEF UncutInv, CountInv, Requesting, Asking
<1>8. ASSUME ~interrupts PROVE TuneInv'
  BY <1>1, <1>2, <1>7, <1>8 DEF UncutInv, CountInv, TuneInv, Asking, Learned
<1>9. QED
  BY <1>3, <1>4, <1>5, <1>6, <1>7, <1>8 DEF PlayInv

(* close() closes what it took from the session.                            *)
LEMMA CloseKeeps ==
  ASSUME IInv, PlayInv, UncutInv, CloseProcess, UNCHANGED config
  PROVE  PlayInv' /\ (~interrupts => CountInv' /\ TuneInv')
<1>1. /\ closing \in Procs /\ procs' = Closed(closing) /\ procs \in Seq(Process)
      /\ {game, local} \subseteq Procs \cup {0}
  BY CloseCloses DEF IInv, TypeOK
<1>2. Wiped(procs'[closing]) /\ \A q \in Procs : q # closing => procs'[q] = procs[q]
  BY <1>1, ClosedIsWiped
<1>3. game # closing /\ (pc = "publish" => local # closing)
  BY DEF IInv, OwnInv, LocalInv, CloseProcess, Held
<1>4. game # 0 => Kept(procs'[game], procs[game])
  BY <1>1, <1>2, <1>3, SameIsKept, ProcessType
<1>5. local # 0 => Kept(procs'[local], procs[local]) \/ (Wiped(procs'[local]) /\ local # game)
  BY <1>1, <1>2, <1>3, SameIsKept, ProcessType
<1>6. pc = "publish" => Kept(procs'[local], procs[local])
  BY <1>1, <1>2, <1>3, SameIsKept, ProcessType DEF IInv, LocalInv
<1>7. UNCHANGED <<config, session, round, wish>>
  BY DEF CloseProcess
<1>8. QED
  BY <1>4, <1>5, <1>6, <1>7, QuietKeeps

(* A new process has served nothing, and was not tuned.                     *)
LEMMA LaunchingKeeps ==
  ASSUME IInv, PlayInv, UncutInv, Launching, UNCHANGED config
  PROVE  PlayInv' /\ (~interrupts => CountInv' /\ TuneInv')
<1>1. /\ UNCHANGED <<session, created, closing, wish>>
      /\ pc = "launch" /\ game = 0 /\ seen = Nothing
      /\ \/ pc' = "publish" /\ local' = Len(procs) + 1
         \/ pc' = "idle" /\ interrupts
  BY DEF Launching, Launch, LaunchInterrupted, IInv, LocalInv, PlayInv, StageInv, Fresh
<1>2. pc' = "publish" => procs'[local'] = Launched
  <2>1. procs' = Append(procs, Launched) /\ procs \in Seq(Process)
    BY DEF Launching, Launch, LaunchInterrupted, IInv, TypeOK
  <2>2. Launched \in Process
    <3>1. 0 \in 0..MaxTime /\ Default \in Settings
      BY ConstantsAssumption DEF ConstantsAssumption
    <3>2. QED
      BY <3>1 DEF Launched, Process
  <2>3. QED
    BY <1>1, <2>1, <2>2, AppendProperties
<1>3. Launched.episode = 0 /\ Launched.known = NoSetting /\ Launched.set = Default /\ ~Launched.suspect
  BY DEF Launched
<1>4. StageInv'
  BY <1>1 DEF PlayInv, StageInv, Fresh, Asking, session
<1>5. SuspectInv' /\ SeenInv'
  BY <1>1, <1>2, <1>3 DEF SuspectInv, SeenInv, session
<1>6. TimeInv'
  BY <1>1 DEF PlayInv, TimeInv, TimeTold, Stepping, session, config
<1>7. ASSUME ~interrupts PROVE CountInv' /\ TuneInv'
  BY <1>1, <1>2, <1>3, <1>7 DEF UncutInv, CountInv, TuneInv, Untuned, Learned, Requesting, session
<1>8. QED
  BY <1>4, <1>5, <1>6, <1>7 DEF PlayInv
-----------------------------------------------------------------------------
(* The requests of a reset. *)

(* One that was answered leaves the process as new.  One that failed, or    *)
(* was interrupted, ends the round and keeps the invariant.                 *)
LEMMA ResetCallKeeps ==
  ASSUME IInv, PlayInv, UncutInv, NEW at \in Requesting, NEW can, NEW new \in Process, NEW next,
         ResetCall(at, can, new, next), UNCHANGED <<config, session>>,
         new.suspect => procs[local].suspect,
         new.known = procs[local].known \/ (at = "tune" /\ new.known = tuning)
  PROVE  \/ PlayInv' /\ (~interrupts => CountInv' /\ TuneInv')
         \/ /\ pc = at /\ pc' = next /\ procs'[local] = new
            /\ local \in Procs /\ procs[local] \in Process
            /\ UNCHANGED <<local, created, wish>> /\ game \in {0, local} /\ local # 0
            /\ seen = Nothing /\ steps = 0 /\ ~done /\ ~faulted
            /\ game # 0 => ~procs[local].suspect
<1>1. /\ pc = at /\ UNCHANGED <<local, created, wish>> /\ local # 0 /\ game \in {0, local}
      /\ procs \in Seq(Process) /\ local \in Procs /\ (game # 0 => ~closed)
  BY DEF ResetCall, IInv, LocalInv, TypeOK
<1>2. procs[local] \in Process
  BY <1>1, ProcessType
<1>3. /\ seen = Nothing /\ steps = 0 /\ ~done /\ ~faulted
      /\ game # 0 => ~procs[local].suspect
  BY <1>1 DEF PlayInv, StageInv, SuspectInv, Fresh, Requesting
<1>4. CASE Served(local, can, new) /\ pc' = next
  BY <1>1, <1>2, <1>3, <1>4, RequestMakes
<1>5. CASE Fails(local, can, new, "suspect") /\ pc' = "abandon"
  <2>1. procs'[local].known \in {procs[local].known, new.known}
    BY <1>1, <1>2, <1>5, RequestMakes, Marked DEF Tied
  <2>2. StageInv' /\ SuspectInv' /\ SeenInv'
    BY <1>5 DEF StageInv, SuspectInv, SeenInv, Fresh, Requesting, Asking
  <2>3. TimeInv'
    BY <1>3, <1>5 DEF TimeInv, TimeTold, session
  <2>4. CountInv'
    BY <1>5 DEF CountInv, Requesting, Asking
  <2>5. ASSUME ~interrupts PROVE TuneInv'
    <3>1. (~closed => Learned(game) = wish) /\ (pc = "tune" => procs[local].known = NoSetting)
      BY <2>5 DEF UncutInv, TuneInv
    <3>2. pc = "tune" => tuning \in Settings
      BY DEF IInv, LocalInv
    <3>3. ~closed => Learned(game)' = wish
      BY <1>1, <2>1, <3>1, <3>2, ConstantsAssumption DEF Learned, session, ConstantsAssumption
    <3>4. QED
      BY <1>1, <1>5, <3>3 DEF TuneInv, Asking, session
  <2>6. QED
    BY <2>2, <2>3, <2>4, <2>5 DEF PlayInv
<1>6. CASE Interrupted(local, can, new) /\ pc' = "idle"
  <2>1. interrupts /\ procs'[local] \in {procs[local], new}
    BY <1>1, <1>6, RequestMakes
  <2>2. game # 0 => ~procs'[local].suspect
    BY <1>3, <2>1
  <2>3. StageInv' /\ SeenInv'
    BY <1>3, <1>6 DEF StageInv, SeenInv, Fresh, Requesting, Asking, session
  <2>4. SuspectInv'
    BY <1>1, <1>6, <2>2 DEF SuspectInv, session
  <2>5. TimeInv'
    BY <1>3, <1>6 DEF TimeInv, TimeTold, session
  <2>6. QED
    BY <2>1, <2>3, <2>4, <2>5 DEF PlayInv
<1>7. QED
  BY <1>4, <1>5, <1>6 DEF ResetCall

(* An answered request leads to the next, with nothing seen yet.            *)
LEMMA ResetGoesOn ==
  ASSUME PlayInv, pc' \in Requesting, UNCHANGED <<config, session, local>>,
         seen = Nothing, steps = 0, ~done, ~faulted, game \in {0, local},
         game # 0 => ~procs'[local].suspect,
         pc' \in {"tune", "observe"} => procs'[local].time = 0
  PROVE  PlayInv'
<1>1. StageInv' /\ SeenInv'
  BY DEF StageInv, SeenInv, Fresh, Requesting, Asking, session
<1>2. SuspectInv'
  BY DEF SuspectInv, Requesting, session
<1>3. TimeInv'
  BY DEF TimeInv, TimeTold, session
<1>4. QED
  BY <1>1, <1>2, <1>3 DEF PlayInv

(* A restarted process plays no episode yet, with the setting it had.       *)
LEMMA RestartKeeps ==
  ASSUME IInv, PlayInv, UncutInv, Restart, UNCHANGED config
  PROVE  PlayInv' /\ (~interrupts => CountInv' /\ TuneInv')
<1> DEFINE new == [procs[local] EXCEPT !.status = "launched", !.time = 0]
<1>1. procs[local] \in Process
  BY ProcessType DEF IInv, TypeOK, LocalInv, Requesting, Restart, ResetCall
<1>2. /\ new \in Process /\ new.episode = procs[local].episode /\ new.known = procs[local].known
      /\ new.set = procs[local].set
      /\ new.unsure = procs[local].unsure /\ new.suspect = procs[local].suspect
  <2>1. 0 \in 0..MaxTime
    BY ConstantsAssumption DEF ConstantsAssumption
  <2>2. QED
    BY <1>1, <2>1 DEF Process
<1>3. UNCHANGED session /\ \E can : ResetCall("restart", can, new, "create")
  BY DEF Restart
<1>4. "restart" \in Requesting
  BY DEF Requesting
<1> HIDE DEF new
<1>5. CASE /\ pc = "restart" /\ pc' = "create" /\ procs'[local] = new
           /\ local \in Procs /\ procs[local] \in Process
           /\ UNCHANGED <<local, created, wish>> /\ game \in {0, local} /\ local # 0
           /\ seen = Nothing /\ steps = 0 /\ ~done /\ ~faulted
           /\ game # 0 => ~procs[local].suspect
  <2>1. PlayInv'
    BY <1>2, <1>3, <1>5, ResetGoesOn DEF Requesting
  <2>2. ASSUME ~interrupts PROVE CountInv'
    BY <1>2, <1>3, <1>5, <2>2 DEF UncutInv, CountInv, Requesting, Asking, session, config
  <2>3. ASSUME ~interrupts PROVE TuneInv'
    BY <1>2, <1>3, <1>5, <2>3 DEF UncutInv, TuneInv, Learned, Tuned, Wanted, Asking, session
  <2>4. QED
    BY <2>1, <2>2, <2>3
<1>6. QED
  BY <1>2, <1>3, <1>4, <1>5, ResetCallKeeps

(* One more episode begins, within the limit.                               *)
LEMMA CreateGameKeeps ==
  ASSUME IInv, PlayInv, UncutInv, CreateGame, UNCHANGED config
  PROVE  PlayInv' /\ (~interrupts => CountInv' /\ TuneInv')
<1> DEFINE new == [procs[local] EXCEPT !.status = "in_game", !.time = 0, !.episode = @ + 1]
           next == IF created /\ tuning # NoSetting THEN "tune" ELSE "observe"
<1>1. procs[local] \in Process
  BY ProcessType DEF IInv, TypeOK, LocalInv, Requesting, CreateGame, ResetCall
<1>2. /\ new \in Process /\ new.episode = procs[local].episode + 1 /\ new.known = procs[local].known
      /\ new.set = procs[local].set /\ new.time = 0
      /\ new.unsure = procs[local].unsure /\ new.suspect = procs[local].suspect
  <2>1. 0 \in 0..MaxTime /\ procs[local].episode + 1 \in Nat
    BY <1>1, ConstantsAssumption DEF ConstantsAssumption, Process
  <2>2. QED
    BY <1>1, <2>1 DEF Process
<1>3. UNCHANGED session /\ \E can : ResetCall("create", can, new, next)
  BY DEF CreateGame
<1>4. "create" \in Requesting
  BY DEF Requesting
<1> HIDE DEF new
<1>5. CASE /\ pc = "create" /\ pc' = next /\ procs'[local] = new
           /\ local \in Procs /\ procs[local] \in Process
           /\ UNCHANGED <<local, created, wish>> /\ game \in {0, local} /\ local # 0
           /\ seen = Nothing /\ steps = 0 /\ ~done /\ ~faulted
           /\ game # 0 => ~procs[local].suspect
  <2>1. pc' \in {"tune", "observe"} /\ (pc' = "tune" <=> created /\ tuning # NoSetting)
    BY <1>5
  <2>2. PlayInv'
    BY <1>2, <1>3, <1>5, <2>1, ResetGoesOn DEF Requesting
  <2>3. ASSUME ~interrupts PROVE CountInv'
    <3>1. procs[local].episode \in Nat /\ count \in Nat
      BY <1>1 DEF Process, IInv, TypeOK
    <3>2. QED
      BY <1>2, <1>3, <1>5, <2>1, <2>3, <3>1 DEF UncutInv, CountInv, Requesting, Asking, session, config
  <2>4. ASSUME ~interrupts PROVE TuneInv'
    <3>1. game # 0 => ~closed
      BY DEF IInv, TypeOK
    <3>2. QED
      BY <1>2, <1>3, <1>5, <2>1, <2>4, <3>1
         DEF UncutInv, TuneInv, Learned, Tuned, Untuned, Wanted, Asking, session
  <2>5. QED
    BY <2>2, <2>3, <2>4
<1>6. QED
  BY <1>2, <1>3, <1>4, <1>5, ResetCallKeeps

(* The process has the setting that was kept for it.                        *)
LEMMA TuneKeeps ==
  ASSUME IInv, PlayInv, UncutInv, Tune, UNCHANGED config
  PROVE  PlayInv' /\ (~interrupts => CountInv' /\ TuneInv')
<1> DEFINE new == [procs[local] EXCEPT !.set = tuning, !.known = tuning]
<1>1. procs[local] \in Process /\ tuning \in Settings
  BY ProcessType DEF IInv, TypeOK, LocalInv, Requesting, Tune, ResetCall
<1>2. /\ new \in Process /\ new.episode = procs[local].episode /\ new.known = tuning
      /\ new.set = tuning /\ new.time = procs[local].time
      /\ new.suspect = procs[local].suspect
  BY <1>1 DEF Process
<1>3. UNCHANGED session /\ \E can : ResetCall("tune", can, new, "observe")
  BY DEF Tune
<1>4. "tune" \in Requesting
  BY DEF Requesting
<1> HIDE DEF new
<1>5. CASE /\ pc = "tune" /\ pc' = "observe" /\ procs'[local] = new
           /\ local \in Procs /\ procs[local] \in Process
           /\ UNCHANGED <<local, created, wish>> /\ game \in {0, local} /\ local # 0
           /\ seen = Nothing /\ steps = 0 /\ ~done /\ ~faulted
           /\ game # 0 => ~procs[local].suspect
  <2>1. PlayInv'
    BY <1>2, <1>3, <1>5, ResetGoesOn DEF Requesting, PlayInv, TimeInv
  <2>2. ASSUME ~interrupts PROVE CountInv'
    BY <1>2, <1>3, <1>5, <2>2 DEF UncutInv, CountInv, Requesting, Asking, session, config
  <2>3. ASSUME ~interrupts PROVE TuneInv'
    <3>1. (game # 0 => ~closed) /\ tuning # NoSetting
      BY <1>1, ConstantsAssumption DEF IInv, TypeOK, ConstantsAssumption
    <3>2. QED
      BY <1>2, <1>3, <1>5, <2>3, <3>1 DEF UncutInv, TuneInv, Learned, Tuned, Wanted, Asking, session
  <2>4. QED
    BY <2>1, <2>2, <2>3
<1>6. QED
  BY <1>2, <1>3, <1>4, <1>5, ResetCallKeeps
(* The first observations are of the process that plays, at its start.      *)
LEMMA ObserveKeeps ==
  ASSUME IInv, PlayInv, UncutInv, Observe, UNCHANGED config
  PROVE  PlayInv' /\ (~interrupts => CountInv' /\ TuneInv')
<1>1. /\ pc = "observe" /\ local # 0 /\ local \in Procs /\ game \in {0, local}
      /\ procs \in Seq(Process) /\ procs[local] \in Process /\ count \in Nat
  BY ProcessType DEF Observe, IInv, LocalInv, TypeOK, Requesting
<1>2. UNCHANGED <<closed, game, faulted, tuning, steps, local, created, closing, wish>>
  BY DEF Observe
<1>3. CASE UNCHANGED session /\ \E can : ResetCall("observe", can, procs[local], "nowhere")
  <2>1. pc' # "nowhere"
    BY DEF Observe
  <2>2. "observe" \in Requesting
    BY DEF Requesting
  <2>3. QED
    BY <1>1, <1>3, <2>1, <2>2, ResetCallKeeps
<1>4. CASE /\ game # 0 /\ seen' = View(local) /\ done' = DoneIf(local) /\ count' = count + 1
           /\ pc' = "idle" /\ procs' = [procs EXCEPT ![local] = procs[local]]
  <2>1. game = local /\ procs' = procs /\ ~closed
    BY <1>1, <1>4, FunctionKept DEF IInv, TypeOK
  <2>2. steps = 0 /\ ~procs[local].suspect /\ procs[local].time = 0
    BY <1>1, <2>1 DEF PlayInv, StageInv, SuspectInv, TimeInv, Fresh, Requesting
  <2>3. seen'.proc = local /\ seen'.episode = procs[local].episode /\ seen'.time = 0
    BY <1>4, <2>2 DEF View
  <2>4. StageInv'
    BY <1>4 DEF StageInv, Fresh, Asking, Requesting
  <2>5. SuspectInv'
    BY <1>2, <1>4, <2>1, <2>2 DEF SuspectInv
  <2>6. SeenInv'
    BY <1>1, <1>2, <2>1, <2>3 DEF SeenInv
  <2>7. TimeInv'
    BY <1>2, <1>4, <2>2, <2>3, ConstantsAssumption DEF TimeInv, TimeTold, ConstantsAssumption
  <2>8. ASSUME ~interrupts PROVE CountInv'
    BY <1>1, <1>2, <1>4, <2>1, <2>8 DEF UncutInv, CountInv, Requesting
  <2>9. ASSUME ~interrupts PROVE TuneInv'
    BY <1>1, <1>2, <1>4, <2>1, <2>9 DEF UncutInv, TuneInv, Learned, Tuned, Wanted
  <2>10. QED
    BY <2>4, <2>5, <2>6, <2>7, <2>8, <2>9 DEF PlayInv
<1>5. QED
  BY <1>1, <1>2, <1>3, <1>4 DEF Observe, Served, ResetCall, session
-----------------------------------------------------------------------------
(* The requests of a step. *)

(* All that a step may make of a process is of the same episode.            *)
LEMMA StepMakes ==
  ASSUME NEW p \in Process, NEW new \in Advanced(p) \cup Over(p) \cup Stalled(p)
  PROVE  new \in Process /\ Tied(new, p) /\ (new.suspect => p.suspect)
<1>1. \A t \in 0..MaxTime :
        LET n == [p EXCEPT !.time = t, !.status = "ended"]
            m == [p EXCEPT !.time = t]
        IN  /\ n \in Process /\ Tied(n, p) /\ (n.suspect => p.suspect)
            /\ m \in Process /\ Tied(m, p) /\ (m.suspect => p.suspect)
  BY DEF Process, Tied
<1>2. CASE new \in Advanced(p)
  <2>1. p.time + StepLen \in 0..MaxTime /\ new = [p EXCEPT !.time = p.time + StepLen]
    BY <1>2, ConstantsAssumption DEF Advanced, Process, ConstantsAssumption
  <2>2. QED
    BY <1>1, <2>1
<1>3. CASE new \in Over(p) \cup Stalled(p)
  BY <1>1, <1>3 DEF Over, Stalled, Until
<1>4. QED
  BY <1>2, <1>3

(* A request of a step that does not end it, or ends it with a fault,       *)
(* leaves what was seen, and the process in its episode.                    *)
LEMMA StepGoesOn ==
  ASSUME IInv, PlayInv, UncutInv, UNCHANGED config, UNCHANGED stepOnly, UNCHANGED <<seen, steps, done>>,
         pc \in Asking, game # 0,
         Tied(procs'[game], procs[game]), procs'[game].suspect => faulted' /\ pc' = "idle",
         pc' = "idle" \/ (pc' = "step_observe" /\ UNCHANGED faulted)
  PROVE  PlayInv' /\ (~interrupts => CountInv' /\ TuneInv')
<1> USE DEF stepOnly, config, Asking, Requesting
<1>1. seen # Nothing /\ ~faulted /\ ~done
  BY DEF PlayInv, StageInv
<1>2. StageInv'
  BY <1>1 DEF StageInv, Fresh, Nothing
<1>3. SuspectInv'
  BY DEF SuspectInv
<1>4. SeenInv'
  BY DEF PlayInv, SeenInv, Tied, Nothing
<1>5. TimeInv'
  BY <1>1 DEF PlayInv, TimeInv, TimeTold, Stepping, Nothing
<1>6. ASSUME ~interrupts PROVE CountInv'
  BY <1>6 DEF UncutInv, CountInv, Tied
<1>7. ASSUME ~interrupts PROVE TuneInv'
  BY <1>7 DEF UncutInv, TuneInv, Tied, Tuned, Wanted, Learned
<1>8. QED
  BY <1>2, <1>3, <1>4, <1>5, <1>6, <1>7 DEF PlayInv

(* Whatever becomes of one, the process stays in its episode, and is        *)
(* suspect only if the session has a fault.                                 *)
LEMMA StepRequestKeeps ==
  ASSUME IInv, PlayInv, UncutInv, UNCHANGED config, UNCHANGED stepOnly,
         pc \in Asking, game # 0, NEW can, NEW new \in Process,
         Tied(new, procs[game]), new.suspect => procs[game].suspect,
         \/ Served(game, can, new) /\ GoesOn
         \/ FoundOver
         \/ Served(game, can, Mark(new, "suspect")) /\ Ends(TRUE)
         \/ Fails(game, can, new, "suspect") /\ Ends(TRUE)
         \/ Interrupted(game, can, new) /\ Ends(faulted)
  PROVE  PlayInv' /\ (~interrupts => CountInv' /\ TuneInv')
<1> USE DEF GoesOn, Ends, FoundOver
<1>1. game \in Procs /\ procs \in Seq(Process) /\ procs[game] \in Process
  BY ProcessType DEF IInv, TypeOK
<1>2. ~procs[game].suspect /\ Tied(procs[game], procs[game])
  BY DEF PlayInv, SuspectInv, Asking, Tied
<1>3. /\ Tied(Mark(procs[game], "suspect"), procs[game])
      /\ Tied(Mark(new, "suspect"), procs[game])
  BY <1>1, Marked DEF Tied
<1>4. Tied(procs'[game], procs[game]) /\ UNCHANGED <<seen, steps, done>>
  <2>1. procs'[game] \in {new, procs[game], Mark(new, "suspect"), Mark(procs[game], "suspect")}
    <3>1. CASE Served(game, can, new)
      BY <3>1, <1>1, RequestMakes
    <3>2. CASE FoundOver
      BY <3>2
    <3>3. CASE Served(game, can, Mark(new, "suspect"))
      BY <3>3, <1>1, RequestMakes
    <3>4. CASE Fails(game, can, new, "suspect")
      BY <3>4, <1>1, RequestMakes
    <3>5. CASE Interrupted(game, can, new)
      BY <3>5, <1>1, RequestMakes
    <3>6. QED
      BY <3>1, <3>2, <3>3, <3>4, <3>5
  <2>2. Tied(procs'[game], procs[game])
    BY <2>1, <1>2, <1>3
  <2>3. UNCHANGED <<seen, steps, done>>
    OBVIOUS
  <2>4. QED
    BY <2>2, <2>3
<1>5. procs'[game].suspect => faulted' /\ pc' = "idle"
  BY <1>1, <1>2, RequestMakes
<1>6. pc' = "idle" \/ (pc' = "step_observe" /\ UNCHANGED faulted)
  OBVIOUS
<1>7. QED
  BY <1>4, <1>5, <1>6, StepGoesOn

(* So it is with the actions of a step, and with the step itself.           *)
LEMMA ActKeeps ==
  ASSUME IInv, PlayInv, UncutInv, Act \/ StepCall, UNCHANGED config
  PROVE  PlayInv' /\ (~interrupts => CountInv' /\ TuneInv')
<1>1. pc \in Asking /\ game # 0 /\ UNCHANGED stepOnly
  BY DEF Act, StepCall, Asking
<1>2. procs[game] \in Process
  BY <1>1, ProcessType DEF IInv, TypeOK
<1>3. Tied(procs[game], procs[game])
  BY DEF Tied
<1>4. CASE Act
  <2>1. \E can : \/ Served(game, can, procs[game]) /\ GoesOn
                 \/ FoundOver
                 \/ Fails(game, can, procs[game], "suspect") /\ Ends(TRUE)
                 \/ Interrupted(game, can, procs[game]) /\ Ends(faulted)
    BY <1>4 DEF Act
  <2>2. QED
    BY <1>1, <1>2, <1>3, <2>1, StepRequestKeeps
<1>5. CASE StepCall
  <2>1. CASE FoundOver
    BY <1>1, <1>2, <1>3, <2>1, StepRequestKeeps
  <2>2. CASE ~FoundOver
    <3>1. \E new \in Advanced(procs[game]) \cup Over(procs[game]) \cup Stalled(procs[game]) : \E can :
            \/ Served(game, can, new) /\ GoesOn
            \/ Served(game, can, Mark(new, "suspect")) /\ Ends(TRUE)
            \/ Fails(game, can, new, "suspect") /\ Ends(TRUE)
            \/ Interrupted(game, can, new) /\ Ends(faulted)
      BY <1>5, <2>2 DEF StepCall
    <3>2. QED
      BY <1>1, <1>2, <3>1, StepMakes, StepRequestKeeps
  <2>3. QED
    BY <2>1, <2>2
<1>6. QED
  BY <1>4, <1>5

(* The step's own observations tell of all the time that passed, unless     *)
(* they are a fault.                                                        *)
LEMMA StepObserveKeeps ==
  ASSUME IInv, PlayInv, UncutInv, StepObserve, UNCHANGED config
  PROVE  PlayInv' /\ (~interrupts => CountInv' /\ TuneInv')
<1>1. pc \in Asking /\ game # 0 /\ UNCHANGED stepOnly
  BY DEF StepObserve, Asking
<1>2. /\ game \in Procs /\ procs \in Seq(Process) /\ procs[game] \in Process
      /\ steps \in Nat /\ seen.time \in Nat /\ procs[game].time \in Nat
  <2>1. game \in Procs /\ procs \in Seq(Process) /\ procs[game] \in Process
    BY <1>1, ProcessType DEF IInv, TypeOK
  <2>2. steps \in Nat /\ seen.time \in Nat
    BY DEF IInv, TypeOK
  <2>3. QED
    BY <2>1, <2>2 DEF Process
<1>3. Tied(procs[game], procs[game])
  BY DEF Tied
<1>4. CASE \E can : \/ Fails(game, can, procs[game], "suspect") /\ Ends(TRUE)
                    \/ Interrupted(game, can, procs[game]) /\ Ends(faulted)
  BY <1>1, <1>2, <1>3, <1>4, StepRequestKeeps
<1>5. CASE /\ procs' = [procs EXCEPT ![game] = procs[game]]
           /\ seen' = View(game) /\ done' = DoneIf(game) /\ pc' = "idle"
           /\ IF Skewed(game) THEN faulted' = TRUE /\ UNCHANGED steps
              ELSE steps' = steps + 1 /\ UNCHANGED faulted
  <2>1. procs' = procs
    BY <1>2, <1>5, FunctionKept
  <2>2. ~procs[game].suspect /\ ~faulted /\ ~done /\ seen # Nothing
    BY <1>1 DEF PlayInv, SuspectInv, StageInv, Asking
  <2>3. seen'.proc = game /\ seen'.episode = procs[game].episode /\ seen'.time = procs[game].time
    BY <1>5 DEF View
  <2>4. StageInv'
    BY <1>5 DEF StageInv, Fresh, Asking, Requesting
  <2>5. SuspectInv'
    BY <1>1, <1>5, <2>1, <2>2 DEF SuspectInv, stepOnly
  <2>6. SeenInv'
    BY <1>1, <2>1, <2>3 DEF SeenInv, stepOnly
  <2>7. TimeInv'
    <3>1. ASSUME Stepping, ~faulted', ~done' PROVE seen'.time = steps' * StepLen
      <4>1. steps' = steps + 1 /\ procs[game].time - seen.time = StepLen
        BY <1>5, <3>1 DEF Skewed
      <4>2. seen.time = steps * StepLen
        BY <2>2, <3>1 DEF PlayInv, TimeInv, TimeTold
      <4>3. StepLen \in Nat
        BY ConstantsAssumption DEF ConstantsAssumption
      <4>4. (steps + 1) * StepLen = steps * StepLen + StepLen
        BY <1>2, <4>3
      <4>5. QED
        BY <1>2, <2>3, <4>1, <4>2, <4>3, <4>4
    <3>2. QED
      BY <1>5, <3>1 DEF TimeInv, TimeTold, Stepping, config
  <2>8. ASSUME ~interrupts PROVE CountInv'
    BY <1>1, <1>5, <2>1, <2>8 DEF UncutInv, CountInv, Requesting, Asking, stepOnly
  <2>9. ASSUME ~interrupts PROVE TuneInv'
    BY <1>1, <1>5, <2>1, <2>9 DEF UncutInv, TuneInv, Learned, Tuned, Wanted, Asking, stepOnly
  <2>10. QED
    BY <2>4, <2>5, <2>6, <2>7, <2>8, <2>9 DEF PlayInv
<1>6. QED
  BY <1>4, <1>5 DEF StepObserve, Served
-----------------------------------------------------------------------------
(* The other requests, and what a process does by itself. *)

(* Staging, a failed debug and the process leave what the session relies on.*)
LEMMA StagingKeeps ==
  ASSUME IInv, PlayInv, UncutInv, Staging, UNCHANGED config
  PROVE  PlayInv' /\ (~interrupts => CountInv' /\ TuneInv')
<1> DEFINE new == [procs[game] EXCEPT !.status = "ended"]
<1>1. game \in Procs /\ procs \in Seq(Process) /\ procs[game] \in Process
      /\ local \in Procs \cup {0} /\ pc = "idle"
  BY ProcessType DEF Staging, IInv, TypeOK
<1>2. new \in Process /\ Kept(new, procs[game])
  BY <1>1 DEF Process, Kept, Tied
<1>3. \E can : Served(game, can, new) \/ Fails(game, can, new, "unsure")
  BY DEF Staging
<1> HIDE DEF new
<1>4. /\ Kept(procs'[game], procs[game])
      /\ \A q \in Procs : q # game => procs'[q] = procs[q]
  <2>1. \A proc \in {procs[game], new} : Kept(Mark(proc, "unsure"), procs[game])
    BY <1>1, <1>2, Marked, SameIsKept DEF Kept, Tied
  <2>2. PICK can : Served(game, can, new) \/ Fails(game, can, new, "unsure")
    BY <1>3
  <2>3. /\ procs'[game] \in {new, Mark(procs[game], "unsure"), Mark(new, "unsure")}
        /\ \A q \in Procs : q # game => procs'[q] = procs[q]
    <3>1. CASE Served(game, can, new)
      BY <1>1, <3>1, RequestMakes
    <3>2. CASE Fails(game, can, new, "unsure")
      BY <1>1, <3>2, RequestMakes
    <3>3. QED
      BY <2>2, <3>1, <3>2
  <2>4. QED
    BY <1>2, <2>1, <2>3
<1>5. local # 0 => Kept(procs'[local], procs[local])
  BY <1>1, <1>4, SameIsKept, ProcessType
<1>6. UNCHANGED <<session, round, wish>>
  BY DEF Staging
<1>7. QED
  BY <1>1, <1>4, <1>5, <1>6, QuietKeeps

(* A debug that succeeds sets what is wanted from now on.                   *)
LEMMA TuningKeeps ==
  ASSUME IInv, PlayInv, UncutInv, NEW v \in Settings, Tuning(v), UNCHANGED config
  PROVE  PlayInv' /\ (~interrupts => CountInv' /\ TuneInv')
<1> DEFINE new == [procs[game] EXCEPT !.set = v]
           known == [new EXCEPT !.known = new.set]
<1>1. game \in Procs /\ procs \in Seq(Process) /\ procs[game] \in Process
      /\ local \in Procs \cup {0} /\ pc = "idle" /\ UNCHANGED <<session, round>>
  BY ProcessType DEF Tuning, Debug, IInv, TypeOK
<1>2. /\ new \in Process /\ new.set = v /\ new.episode = procs[game].episode
      /\ new.time = procs[game].time /\ new.known = procs[game].known
      /\ new.suspect = procs[game].suspect
  BY <1>1 DEF Process
<1>3. /\ known \in Process /\ known.set = v /\ known.episode = procs[game].episode
      /\ known.time = procs[game].time /\ known.known = v /\ known.suspect = procs[game].suspect
  BY <1>1, <1>2 DEF Process
<1>4. \E can : \/ Served(game, can, known) /\ wish' = v
               \/ Fails(game, can, new, "unsure") /\ UNCHANGED wish
  BY <1>2 DEF Tuning, Debug
<1> HIDE DEF new, known
<1>5. CASE \E can : Fails(game, can, new, "unsure") /\ UNCHANGED wish
  <2>1. \A proc \in {procs[game], new} :
          Kept(Mark(proc, "unsure"), procs[game])
    <3>1. \A proc \in Process : Mark(proc, "unsure").unsure
      BY DEF Mark, Process
    <3>2. \A proc \in Process : Kept(Mark(proc, "unsure"), proc)
      BY Marked
    <3>3. QED
      BY <1>1, <1>2, <3>1, <3>2 DEF Kept, Tied
  <2>2. /\ Kept(procs'[game], procs[game])
        /\ \A q \in Procs : q # game => procs'[q] = procs[q]
    BY <1>1, <1>5, <2>1, RequestMakes
  <2>3. local # 0 => Kept(procs'[local], procs[local])
    BY <1>1, <2>2, SameIsKept, ProcessType
  <2>4. QED
    BY <1>1, <1>5, <2>2, <2>3, QuietKeeps
<1>6. CASE \E can : Served(game, can, known) /\ wish' = v
  <2>1. procs'[game] = known /\ wish' = v
    BY <1>1, <1>6, RequestMakes
  <2>2. StageInv'
    BY <1>1 DEF PlayInv, StageInv, Fresh, Requesting, Asking, session, round, Nothing
  <2>3. SuspectInv'
    BY <1>1, <1>3, <2>1 DEF PlayInv, SuspectInv, session, round
  <2>4. SeenInv'
    BY <1>1, <1>3, <2>1 DEF PlayInv, SeenInv, session, round, Nothing
  <2>5. TimeInv'
    BY <1>1 DEF PlayInv, TimeInv, TimeTold, Stepping, session, round, config, Nothing
  <2>6. ASSUME ~interrupts PROVE CountInv'
    BY <1>1, <1>3, <2>1, <2>6 DEF UncutInv, CountInv, Requesting, session, round
  <2>7. ASSUME ~interrupts PROVE TuneInv'
    <3>1. v # NoSetting
      BY ConstantsAssumption DEF ConstantsAssumption
    <3>2. game' = game /\ closed' = closed /\ pc' = "idle" /\ tuning' = tuning /\ game # 0
      BY <1>1 DEF session, round, Tuning
    <3>3. Learned(game)' = v /\ Tuned(game)'
      BY <1>3, <2>1, <3>1, <3>2 DEF Learned, Tuned, Wanted
    <3>4. QED
      BY <2>1, <3>2, <3>3 DEF TuneInv
  <2>8. QED
    BY <2>2, <2>3, <2>4, <2>5, <2>6, <2>7 DEF PlayInv
<1>7. QED
  BY <1>4, <1>5, <1>6

(* A process that dies, or ends its game, is no other for the session.      *)
LEMMA EnvironmentKeeps ==
  ASSUME IInv, PlayInv, UncutInv, NEW p \in Procs, Crash(p) \/ GameEnds(p), UNCHANGED config
  PROVE  PlayInv' /\ (~interrupts => CountInv' /\ TuneInv')
<1>1. procs \in Seq(Process) /\ {game, local} \subseteq Procs \cup {0} /\ procs[p] \in Process
  BY ProcessType DEF IInv, TypeOK
<1>2. \A q \in Procs : Kept(procs'[q], procs[q])
  <2>1. /\ Kept([procs[p] EXCEPT !.alive = FALSE], procs[p])
        /\ Kept([procs[p] EXCEPT !.status = "ended"], procs[p])
    BY <1>1 DEF Process, Kept, Tied
  <2>2. /\ procs'[p] \in {[procs[p] EXCEPT !.alive = FALSE], [procs[p] EXCEPT !.status = "ended"]}
        /\ \A q \in Procs : q # p => procs'[q] = procs[q]
    BY <1>1 DEF Crash, GameEnds, Procs
  <2>3. QED
    BY <1>1, <2>1, <2>2, SameIsKept, ProcessType
<1>3. UNCHANGED <<session, round, wish>>
  BY DEF Crash, GameEnds
<1>4. QED
  BY <1>1, <1>2, <1>3, QuietKeeps DEF IInv, LocalInv
-----------------------------------------------------------------------------
(* Episodes are only ever added to by create_game. *)

NotMore(q) == procs'[q].episode \in {0, procs[q].episode}

(* A request other than create_game adds none, whatever becomes of it.      *)
LEMMA RequestAddsNone ==
  ASSUME procs \in Seq(Process), NEW p \in Procs, NEW can, NEW mark, NEW new \in Process,
         new.episode = procs[p].episode,
         Served(p, can, new) \/ Fails(p, can, new, mark) \/ Interrupted(p, can, new)
  PROVE  \A q \in Procs : NotMore(q)
<1>1. procs[p] \in Process
  BY ProcessType
<1>2. /\ Mark(procs[p], mark).episode = procs[p].episode
      /\ Mark(new, mark).episode = procs[p].episode
  BY <1>1, Marked DEF Tied
<1>3. /\ procs'[p] \in {procs[p], new, Mark(procs[p], mark), Mark(new, mark)}
      /\ \A q \in Procs : q # p => procs'[q] = procs[q]
  <2>1. CASE Served(p, can, new)
    BY <2>1, RequestMakes
  <2>2. CASE Fails(p, can, new, mark)
    BY <2>2, RequestMakes
  <2>3. CASE Interrupted(p, can, new)
    BY <2>3, RequestMakes
  <2>4. QED
    BY <2>1, <2>2, <2>3
<1>4. procs'[p].episode = procs[p].episode
  BY <1>2, <1>3
<1>5. QED
  BY <1>3, <1>4 DEF NotMore

(* So a process serves one more only in create_game.                        *)
LEMMA EpisodesAdded ==
  ASSUME IInv, [Next]_vars
  PROVE  /\ \A q \in Procs : NotMore(q) \/ (CreateGame /\ q = local)
         /\ \A q \in Procs' \ Procs : procs'[q].episode = 0
<1>1. procs \in Seq(Process) /\ {game, local, closing} \subseteq Procs \cup {0}
      /\ \A q \in Procs : procs[q] \in Process
  BY ProcessType DEF IInv, TypeOK
<1>2. CASE ProcessStep
  <2>1. Procs' = Procs
    BY <1>2, ProcessStepHolds DEF Procs
  <2>2. CASE CreateGame
    <3>1. \A q \in Procs : q # local => procs'[q] = procs[q]
      BY <1>1, <2>2, RequestMakes DEF CreateGame, ResetCall, IInv, LocalInv, Requesting
    <3>2. QED
      BY <2>1, <2>2, <3>1 DEF NotMore
  <2>3. CASE Restart \/ Tune \/ Observe
    <3>1. local \in Procs
      BY <1>1, <2>3 DEF Restart, Tune, Observe, ResetCall, IInv, LocalInv, Requesting
    <3>2. CASE Restart
      <4> DEFINE new == [procs[local] EXCEPT !.status = "launched", !.time = 0]
      <4>0. 0 \in 0..MaxTime
        BY ConstantsAssumption DEF ConstantsAssumption
      <4>1. new \in Process /\ new.episode = procs[local].episode
        BY <1>1, <3>1, <4>0 DEF Process
      <4>2. \E can : Served(local, can, new) \/ Fails(local, can, new, "suspect")
                      \/ Interrupted(local, can, new)
        BY <3>2 DEF Restart, ResetCall
      <4>3. QED
        BY <1>1, <2>1, <3>1, <4>1, <4>2, RequestAddsNone
    <3>3. CASE Tune
      <4> DEFINE new == [procs[local] EXCEPT !.set = tuning, !.known = tuning]
      <4>1. new \in Process /\ new.episode = procs[local].episode
        BY <1>1, <3>1, <3>3 DEF Process, Tune, ResetCall, IInv, LocalInv
      <4>2. \E can : Served(local, can, new) \/ Fails(local, can, new, "suspect")
                      \/ Interrupted(local, can, new)
        BY <3>3 DEF Tune, ResetCall
      <4>3. QED
        BY <1>1, <2>1, <3>1, <4>1, <4>2, RequestAddsNone
    <3>4. CASE Observe
      <4>1. \E can : Served(local, can, procs[local]) \/ Fails(local, can, procs[local], "suspect")
                      \/ Interrupted(local, can, procs[local])
        BY <3>4 DEF Observe
      <4>2. QED
        BY <1>1, <2>1, <3>1, <4>1, RequestAddsNone
    <3>5. QED
      BY <2>3, <3>2, <3>3, <3>4
  <2>4. CASE Act \/ StepCall \/ StepObserve
    <3>1. game \in Procs
      BY <1>1, <2>4 DEF Act, StepCall, StepObserve
    <3>2. CASE UNCHANGED procs
      BY <2>1, <3>2 DEF NotMore
    <3>3. CASE \E can, new : /\ new \in Process /\ new.episode = procs[game].episode
                             /\ \/ Served(game, can, new) \/ Fails(game, can, new, "suspect")
                                \/ Interrupted(game, can, new)
      BY <1>1, <2>1, <3>1, <3>3, RequestAddsNone
    <3>4. \A new \in Advanced(procs[game]) \cup Over(procs[game]) \cup Stalled(procs[game]) :
            /\ new \in Process /\ new.episode = procs[game].episode
            /\ Mark(new, "suspect") \in Process
            /\ Mark(new, "suspect").episode = procs[game].episode
      BY <1>1, <3>1, StepMakes, Marked, MarkType DEF Tied
    <3>5. CASE Act \/ StepObserve
      BY <1>1, <3>1, <3>2, <3>3, <3>5 DEF Act, StepObserve, FoundOver
    <3>6. CASE StepCall
      BY <3>2, <3>3, <3>4, <3>6 DEF StepCall, FoundOver
    <3>7. QED
      BY <2>4, <3>5, <3>6
  <2>5. CASE Staging
    <3> DEFINE new == [procs[game] EXCEPT !.status = "ended"]
    <3>1. game \in Procs
      BY <1>1, <2>5 DEF Staging
    <3>2. new \in Process /\ new.episode = procs[game].episode
      BY <1>1, <3>1 DEF Process
    <3>3. \E can : Served(game, can, new) \/ Fails(game, can, new, "unsure")
      BY <2>5 DEF Staging
    <3>4. QED
      BY <1>1, <2>1, <3>1, <3>2, <3>3, RequestAddsNone
  <2>6. ASSUME NEW v \in Settings, Tuning(v) PROVE \A q \in Procs : NotMore(q)
    <3> DEFINE new == [procs[game] EXCEPT !.set = v]
               known == [new EXCEPT !.known = new.set]
    <3>1. game \in Procs
      BY <1>1, <2>6 DEF Tuning
    <3>2. new \in Process /\ new.episode = procs[game].episode /\ new.set = v
      BY <1>1, <3>1 DEF Process
    <3>3. known \in Process /\ known.episode = procs[game].episode
      BY <3>2 DEF Process
    <3>4. \E can : Served(game, can, known) \/ Fails(game, can, new, "unsure")
      BY <2>6 DEF Tuning, Debug
    <3>5. QED
      BY <1>1, <3>1, <3>2, <3>3, <3>4, RequestAddsNone
  <2>7. ASSUME NEW p \in Procs, Crash(p) \/ GameEnds(p) PROVE \A q \in Procs : NotMore(q)
    <3>1. /\ [procs[p] EXCEPT !.alive = FALSE].episode = procs[p].episode
          /\ [procs[p] EXCEPT !.status = "ended"].episode = procs[p].episode
      BY <1>1 DEF Process
    <3>2. QED
      BY <1>1, <2>7, <3>1 DEF Crash, GameEnds, NotMore, Procs
  <2>8. QED
    BY <1>2, <2>1, <2>2, <2>3, <2>4, <2>5, <2>6, <2>7 DEF ProcessStep, RequestStep
<1>3. CASE UNCHANGED procs
  BY <1>3 DEF NotMore, Procs
<1>4. ASSUME NEW p \in Procs, procs[p].closes = 0, procs' = Closed(p)
      PROVE  Procs' = Procs /\ \A q \in Procs : NotMore(q)
  BY <1>1, <1>4, ClosedIsWiped, ClosedKeeps DEF NotMore, Wiped, Procs
<1>5. CASE Disposing
  BY <1>3, <1>4, <1>5, DisposeCloses
<1>6. CASE CloseProcess
  BY <1>4, <1>6, CloseCloses
<1>7. CASE Launching
  <2>1. procs' = Append(procs, Launched)
    BY <1>7 DEF Launching, Launch, LaunchInterrupted
  <2>2. /\ \A q \in Procs : procs'[q] = procs[q]
        /\ Procs' = Procs \cup {Len(procs) + 1}
    BY <1>1, <2>1, LaunchKeeps DEF Procs
  <2>3. procs'[Len(procs) + 1] = Launched
    <3>1. 0 \in 0..MaxTime /\ Default \in Settings
      BY ConstantsAssumption DEF ConstantsAssumption
    <3>2. Launched \in Process
      BY <3>1 DEF Launched, Process
    <3>3. QED
      BY <1>1, <2>1, <3>2, AppendProperties
  <2>4. Launched.episode = 0
    BY DEF Launched
  <2>5. QED
    BY <2>2, <2>3, <2>4 DEF NotMore
<1>8. CASE Bookkeeping
  BY <1>3, <1>8 DEF Bookkeeping, Reset, Ensure, LaunchFails, Publish, Abandon, Step, GameGone, Close
<1>9. QED
  BY <1>2, <1>3, <1>5, <1>6, <1>7, <1>8, Steps DEF vars
-----------------------------------------------------------------------------
(* No process serves more than the limit, of which the count knows.         *)
LEMMA LimitKept ==
  ASSUME IInv, PlayInv, UncutInv, ~interrupts, [Next]_vars
  PROVE  EpisodeLimit'
<1>1. UNCHANGED config
  BY Steps
<1>2. EpisodeLimit /\ CountInv
  BY DEF UncutInv
<1>3. /\ \A q \in Procs : NotMore(q) \/ (CreateGame /\ q = local)
      /\ \A q \in Procs' \ Procs : procs'[q].episode = 0
  BY EpisodesAdded
<1>4. Limit \in Nat
  BY ConstantsAssumption DEF ConstantsAssumption
<1>5. ASSUME CreateGame
      PROVE  /\ Limit # 0 => procs'[local].episode <= Limit
             /\ replay => procs'[local].episode <= 1
  <2> DEFINE new == [procs[local] EXCEPT !.status = "in_game", !.time = 0, !.episode = @ + 1]
  <2>1. /\ pc = "create" /\ local \in Procs /\ procs \in Seq(Process) /\ procs[local] \in Process
        /\ procs[local].episode \in Nat /\ count \in Nat
    <3>1. pc = "create" /\ local \in Procs /\ procs \in Seq(Process) /\ count \in Nat
      BY <1>5 DEF CreateGame, ResetCall, IInv, TypeOK, LocalInv, Requesting
    <3>2. QED
      BY <3>1, ProcessType DEF Process
  <2>2. /\ replay => procs[local].episode + 1 <= 1
        /\ Limit # 0 => procs[local].episode + 1 <= Limit
    BY <1>2, <1>4, <2>1 DEF CountInv, Requesting
  <2>3. new \in Process /\ new.episode = procs[local].episode + 1
    <3>1. 0 \in 0..MaxTime /\ procs[local].episode + 1 \in Nat
      BY <2>1, ConstantsAssumption DEF ConstantsAssumption
    <3>2. QED
      BY <2>1, <3>1 DEF Process
  <2> HIDE DEF new
  <2>4. procs'[local] \in {procs[local], new, Mark(procs[local], "suspect"), Mark(new, "suspect")}
    <3>1. \E can : \/ Served(local, can, new) \/ Fails(local, can, new, "suspect")
                   \/ Interrupted(local, can, new)
      BY <1>5 DEF CreateGame, ResetCall, new
    <3>2. QED
      <4>1. ASSUME NEW can, Served(local, can, new) PROVE procs'[local] = new
        BY <2>1, <4>1, RequestMakes
      <4>2. ASSUME NEW can, Fails(local, can, new, "suspect")
            PROVE  procs'[local] \in {Mark(procs[local], "suspect"), Mark(new, "suspect")}
        BY <2>1, <4>2, RequestMakes
      <4>3. ASSUME NEW can, Interrupted(local, can, new) PROVE procs'[local] \in {procs[local], new}
        BY <2>1, <4>3, RequestMakes
      <4>4. QED
        BY <3>1, <4>1, <4>2, <4>3
  <2>5. procs'[local].episode \in {procs[local].episode, procs[local].episode + 1}
    BY <2>1, <2>3, <2>4, Marked DEF Tied
  <2>6. QED
    BY <1>4, <2>1, <2>2, <2>5
<1>6. ASSUME NEW p \in Procs'
      PROVE  /\ Limit # 0 => procs'[p].episode <= Limit
             /\ replay => procs'[p].episode <= 1
  BY <1>2, <1>3, <1>4, <1>5 DEF EpisodeLimit, NotMore
<1>7. QED
  BY <1>1, <1>6 DEF EpisodeLimit, config

(* At the start nothing was asked of any process.                           *)
LEMMA PlayInit == Init => PlayInv /\ UncutInv
<1> SUFFICES ASSUME Init PROVE PlayInv /\ UncutInv
  OBVIOUS
<1>1. PlayInv
  BY DEF Init, PlayInv, StageInv, SuspectInv, SeenInv, TimeInv, TimeTold, Fresh, Requesting, Asking
<1>2. CountInv /\ TuneInv
  BY DEF Init, CountInv, TuneInv, Learned, Requesting
<1>3. Procs = {}
  BY DEF Init, Procs
<1>4. EpisodeLimit
  BY <1>3 DEF EpisodeLimit
<1>5. QED
  BY <1>1, <1>2, <1>4 DEF UncutInv

(* Each step keeps the invariants.                                          *)
LEMMA PlayKept ==
  ASSUME IInv, PlayInv, UncutInv, [Next]_vars
  PROVE  PlayInv' /\ UncutInv'
<1>1. UNCHANGED config
  BY Steps
<1>2. PlayInv' /\ (~interrupts => CountInv' /\ TuneInv')
  <2>1. CASE RequestStep
    BY <1>1, <2>1, RestartKeeps, CreateGameKeeps, TuneKeeps, ObserveKeeps, ActKeeps, StepObserveKeeps
       DEF RequestStep
  <2>2. CASE ProcessStep /\ ~RequestStep
    BY <1>1, <2>2, StagingKeeps, TuningKeeps, EnvironmentKeeps DEF ProcessStep
  <2>3. CASE UNCHANGED vars
    <3>1. ASSUME NEW p \in Procs PROVE Kept(procs'[p], procs[p])
      BY <2>3, SameIsKept, ProcessType DEF IInv, TypeOK, vars
    <3>2. UNCHANGED <<config, session, round, wish>>
      BY <2>3 DEF vars
    <3>3. {game, local} \subseteq Procs \cup {0} /\ (pc = "publish" => local # 0)
      BY DEF IInv, TypeOK, LocalInv
    <3>4. QED
      BY <3>1, <3>2, <3>3, QuietKeeps
  <2>4. QED
    BY <1>1, <2>1, <2>2, <2>3, Steps, BookkeepingKeeps, DisposingKeeps, CloseKeeps, LaunchingKeeps
<1>3. ~interrupts => EpisodeLimit'
  BY LimitKept
<1>4. QED
  BY <1>1, <1>2, <1>3 DEF UncutInv, config
-----------------------------------------------------------------------------
(* The inductive invariants hold in every reachable state.                  *)
THEOREM PlayInvariance == Spec => [](IInv /\ PlayInv /\ UncutInv)
<1>1. IInv /\ PlayInv /\ UncutInv /\ [Next]_vars => (PlayInv /\ UncutInv)'
  BY PlayKept
<1>2. QED
  BY PlayInit, Invariance, <1>1, PTL DEF Spec

(* What the client was told is of the episode its process plays, and tells  *)
(* of all the time that passed in it.                                       *)
THEOREM TheViewIsTrue == Spec => []ViewIsTrue
<1>1. PlayInv => ViewIsTrue
  BY DEF PlayInv, SeenInv, TimeInv, ViewIsTrue, ViewOfThisEpisode, Asking
<1>2. QED
  BY PlayInvariance, <1>1, PTL

(* Without interruptions no process serves more episodes than it may.       *)
THEOREM EpisodesAreLimited == Spec => []EpisodeLimit
<1>1. UncutInv => EpisodeLimit
  BY DEF UncutInv, EpisodeLimit
<1>2. QED
  BY PlayInvariance, <1>1, PTL

(* Without interruptions a process that plays has the settings last asked   *)
(* for, over any number of replacements.                                    *)
THEOREM SettingsSurvive == Spec => []TuningSurvives
<1>1. UncutInv => TuningSurvives
  BY DEF UncutInv, TuneInv, TuningSurvives, TuningKept, Tuned, Wanted, Asking
<1>2. QED
  BY PlayInvariance, <1>1, PTL

(* A step of the session that counts is an answer of the process it plays.  *)
LEMMA CountedSteps ==
  ASSUME IInv, PlayInv, [Next]_vars
  PROVE  steps' > steps \/ count' > count => ~procs'[game].suspect
<1>1. steps \in Nat /\ count \in Nat /\ procs \in Seq(Process) /\ game \in Procs \cup {0}
  BY DEF IInv, TypeOK
<1>2. CASE Observe /\ count' = count + 1
  <2>1. game # 0 /\ game = local /\ procs' = [procs EXCEPT ![local] = procs[local]]
        /\ steps' = steps /\ pc = "observe"
    BY <1>1, <1>2 DEF Observe, Served, IInv, LocalInv, Requesting
  <2>2. procs' = procs /\ ~procs[game].suspect
    BY <1>1, <2>1, FunctionKept DEF PlayInv, SuspectInv
  <2>3. QED
    BY <1>1, <2>1, <2>2
<1>3. CASE StepObserve /\ steps' = steps + 1
  <2>1. game # 0 /\ procs' = [procs EXCEPT ![game] = procs[game]]
        /\ count' = count /\ pc = "step_observe"
    BY <1>1, <1>3 DEF StepObserve, Served, Ends, stepOnly
  <2>2. procs' = procs /\ ~procs[game].suspect
    BY <1>1, <2>1, FunctionKept DEF PlayInv, SuspectInv
  <2>3. QED
    BY <2>1, <2>2
<1>4. CASE steps' \in {0, steps} /\ count' \in {0, count}
  BY <1>1, <1>4
<1>5. \/ Observe /\ count' = count + 1
      \/ StepObserve /\ steps' = steps + 1
      \/ steps' \in {0, steps} /\ count' \in {0, count}
  <2>1. CASE RequestStep
    BY <2>1 DEF RequestStep, Restart, CreateGame, Tune, Observe, Act, StepCall, StepObserve,
                FoundOver, Ends, GoesOn, session, stepOnly
  <2>2. CASE ProcessStep /\ ~RequestStep
    BY <2>2, QuietSteps DEF ProcessStep, session
  <2>3. CASE Bookkeeping
    BY <2>3 DEF Bookkeeping, Reset, Ensure, LaunchFails, Publish, Abandon, Step, GameGone, Close,
                ForgetEpisode, Ends, session, stepOnly
  <2>4. CASE Disposing \/ Launching \/ CloseProcess \/ UNCHANGED vars
    BY <2>4 DEF Disposing, Release, Discard, Dispose, Launching, Launch, LaunchInterrupted,
                CloseProcess, session, vars
  <2>5. QED
    BY <2>1, <2>2, <2>3, <2>4, Steps
<1>6. QED
  BY <1>2, <1>3, <1>4, <1>5

(* No episode is begun or played on a process that failed an operation.     *)
THEOREM SuspectsNeverPlay == Spec => SuspectNeverPlays
<1>1. IInv /\ PlayInv /\ [Next]_vars =>
        [(steps' > steps \/ count' > count) => ~procs'[game].suspect]_vars
  BY CountedSteps
<1>2. QED
  BY PlayInvariance, <1>1, PTL DEF Spec, SuspectNeverPlays
-----------------------------------------------------------------------------
(* What a fault stands for. *)

Unfaulted == Fresh \cup Asking \cup {"discard", "abandon", "dispose"}

\* The session's process has been played for time t, or its game is over.
OnTime(t) == procs[game].status = "ended" \/ procs[game].time = t

\* Without interruptions the client knows how long its process has been played, between
\* steps and until the observation that ends one, so only a failure is a fault.
FaultInv ==
  /\ pc \in Unfaulted => ~faulted
  /\ pc = "act" => ~Stepping
  /\ FaultHasCause
  /\ ~interrupts /\ Stepping /\ game # 0 =>
       /\ pc \in {"idle", "step"} /\ seen # Nothing /\ ~procs[game].suspect => OnTime(seen.time)
       /\ pc = "step_observe" => OnTime(seen.time + StepLen)

\* A record whose game may have ended since, or on which a request has failed.
OnlyEnds(new, old) ==
  /\ new.time = old.time /\ new.status \in {old.status, "ended"}
  /\ old.suspect => new.suspect

(* Where only records change, the invariant stays.                          *)
LEMMA FaultStays ==
  ASSUME FaultInv, UNCHANGED <<config, session, round>>,
         game # 0 => OnlyEnds(procs'[game], procs[game])
  PROVE  FaultInv'
<1> USE DEF config, session, round
<1>1. (pc \in Unfaulted => ~faulted)' /\ (pc = "act" => ~Stepping)'
  BY DEF FaultInv, Stepping
<1>2. FaultHasCause'
  BY DEF FaultInv, FaultHasCause, OnlyEnds
<1>3. ASSUME NEW t, game # 0, OnTime(t)
      PROVE  OnTime(t)'
  BY <1>3 DEF OnTime, OnlyEnds
<1>4. ASSUME ~interrupts, Stepping, game # 0
      PROVE  /\ pc \in {"idle", "step"} /\ seen # Nothing /\ ~procs'[game].suspect => OnTime(seen.time)'
             /\ pc = "step_observe" => OnTime(seen.time + StepLen)'
  BY <1>3, <1>4 DEF FaultInv, OnlyEnds
<1>5. QED
  BY <1>1, <1>2, <1>4 DEF FaultInv, Stepping, OnTime, Nothing

(* A mark is no play.                                                       *)
LEMMA MarkedOnlyEnds ==
  ASSUME NEW proc \in Process, NEW mark
  PROVE  /\ OnlyEnds(Mark(proc, mark), proc)
         /\ mark = "suspect" => Mark(proc, mark).suspect
BY DEF Mark, OnlyEnds, Process

(* What a process does by itself, and what a debug does to it.              *)
LEMMA QuietFaults ==
  ASSUME IInv, FaultInv, ProcessStep, ~RequestStep, UNCHANGED config
  PROVE  FaultInv'
<1>1. procs \in Seq(Process) /\ game \in Procs \cup {0}
  BY DEF IInv, TypeOK
<1>2. UNCHANGED <<session, round>>
  BY QuietSteps DEF ProcessStep
<1>3. \A old \in Process : OnlyEnds(old, old)
  BY DEF OnlyEnds
<1>4. CASE Staging
  <2> DEFINE new == [procs[game] EXCEPT !.status = "ended"]
  <2>1. game \in Procs /\ procs[game] \in Process
    BY <1>1, <1>4, ProcessType DEF Staging
  <2>2. new \in Process /\ OnlyEnds(new, procs[game])
    BY <2>1 DEF Process, OnlyEnds
  <2>3. \E can : Served(game, can, new) \/ Fails(game, can, new, "unsure")
    BY <1>4 DEF Staging
  <2> HIDE DEF new
  <2>4. procs'[game] \in {new, Mark(procs[game], "unsure"), Mark(new, "unsure")}
    <3>1. PICK can : Served(game, can, new) \/ Fails(game, can, new, "unsure")
      BY <2>3
    <3>2. CASE Served(game, can, new)
      BY <1>1, <2>1, <3>2, RequestMakes
    <3>3. CASE Fails(game, can, new, "unsure")
      BY <1>1, <2>1, <3>3, RequestMakes
    <3>4. QED
      BY <3>1, <3>2, <3>3
  <2>5. OnlyEnds(Mark(procs[game], "unsure"), procs[game]) /\ OnlyEnds(Mark(new, "unsure"), new)
    BY <2>1, <2>2, MarkedOnlyEnds
  <2>6. OnlyEnds(procs'[game], procs[game])
    BY <2>2, <2>4, <2>5 DEF OnlyEnds
  <2>7. QED
    BY <1>2, <2>6, FaultStays
<1>5. ASSUME NEW v \in Settings, Tuning(v) PROVE FaultInv'
  <2> DEFINE new == [procs[game] EXCEPT !.set = v]
             known == [new EXCEPT !.known = new.set]
  <2>1. game \in Procs /\ procs[game] \in Process
    BY <1>1, <1>5, ProcessType DEF Tuning
  <2>2. new \in Process /\ OnlyEnds(new, procs[game])
    BY <2>1 DEF Process, OnlyEnds
  <2>3. OnlyEnds(known, procs[game])
    BY <2>1 DEF Process, OnlyEnds
  <2>4. \E can : Served(game, can, known) \/ Fails(game, can, new, "unsure")
    BY <1>5 DEF Tuning, Debug
  <2> HIDE DEF new, known
  <2>5. procs'[game] \in {known, Mark(procs[game], "unsure"), Mark(new, "unsure")}
    <3>1. PICK can : Served(game, can, known) \/ Fails(game, can, new, "unsure")
      BY <2>4
    <3>2. CASE Served(game, can, known)
      BY <1>1, <2>1, <3>2, RequestMakes
    <3>3. CASE Fails(game, can, new, "unsure")
      BY <1>1, <2>1, <3>3, RequestMakes
    <3>4. QED
      BY <3>1, <3>2, <3>3
  <2>6. OnlyEnds(Mark(procs[game], "unsure"), procs[game]) /\ OnlyEnds(Mark(new, "unsure"), new)
    BY <2>1, <2>2, MarkedOnlyEnds
  <2>7. OnlyEnds(procs'[game], procs[game])
    BY <2>2, <2>3, <2>5, <2>6 DEF OnlyEnds
  <2>8. QED
    BY <1>2, <2>7, FaultStays
<1>6. ASSUME NEW p \in Procs, Crash(p) \/ GameEnds(p) PROVE FaultInv'
  <2>1. procs[p] \in Process
    BY <1>1, ProcessType
  <2>2. /\ OnlyEnds([procs[p] EXCEPT !.alive = FALSE], procs[p])
        /\ OnlyEnds([procs[p] EXCEPT !.status = "ended"], procs[p])
    BY <2>1 DEF Process, OnlyEnds
  <2>3. /\ procs'[p] \in {[procs[p] EXCEPT !.alive = FALSE], [procs[p] EXCEPT !.status = "ended"]}
        /\ \A q \in Procs : q # p => procs'[q] = procs[q]
    BY <1>1, <1>6 DEF Crash, GameEnds, Procs
  <2>4. game # 0 => OnlyEnds(procs'[game], procs[game])
    BY <1>1, <1>3, <2>2, <2>3, ProcessType
  <2>5. QED
    BY <1>2, <2>4, FaultStays
<1>7. QED
  BY <1>4, <1>5, <1>6 DEF ProcessStep

(* Requests of a reset: nothing is seen before the last, which sees all.    *)
LEMMA ResetFaults ==
  ASSUME IInv, PlayInv, FaultInv, Restart \/ CreateGame \/ Tune \/ Observe, UNCHANGED config
  PROVE  FaultInv'
<1> USE DEF config
<1>1. pc \in Requesting /\ ~faulted /\ faulted' = faulted /\ game' = game /\ closed' = closed
  BY DEF FaultInv, Unfaulted, Fresh, Requesting, Restart, CreateGame, Tune, Observe, ResetCall, session
<1>2. CASE pc' \in {"create", "tune", "observe", "abandon"}
  BY <1>1, <1>2 DEF FaultInv, FaultHasCause
<1>3. CASE interrupts /\ pc' = "idle"
  BY <1>1, <1>3 DEF FaultInv, FaultHasCause, Unfaulted, Fresh, Asking, Requesting
<1>4. CASE /\ Observe /\ pc' = "idle" /\ seen' = View(local) /\ game # 0
           /\ procs' = [procs EXCEPT ![local] = procs[local]]
  <2>1. game = local /\ local \in Procs /\ procs \in Seq(Process)
    BY <1>1, <1>4 DEF IInv, LocalInv, TypeOK
  <2>2. procs' = procs
    BY <1>4, <2>1, FunctionKept
  <2>3. seen'.time = procs[game].time
    BY <1>4, <2>1 DEF View
  <2>4. QED
    BY <1>1, <1>4, <2>2, <2>3 DEF FaultInv, FaultHasCause, OnTime, Unfaulted, Fresh, Asking, Requesting
<1>5. CASE Restart \/ CreateGame \/ Tune
  <2>1. pc' \in {"create", "tune", "observe", "abandon"} \/ (interrupts /\ pc' = "idle")
    BY <1>5 DEF Restart, CreateGame, Tune, ResetCall, Interrupted
  <2>2. QED
    BY <1>2, <1>3, <2>1
<1>6. CASE Observe
  BY <1>2, <1>3, <1>4, <1>6 DEF Observe, Served, Interrupted
<1>7. QED
  BY <1>5, <1>6

(* A request of a step that fails leaves a mark beside the fault.           *)
LEMMA FailedFaults ==
  ASSUME IInv, FaultInv, UNCHANGED <<config, stepOnly>>, game # 0, Ends(TRUE), procs'[game].suspect
  PROVE  FaultInv'
BY DEF FaultInv, FaultHasCause, Ends, stepOnly, Unfaulted, Fresh, Asking, Requesting

(* One that is interrupted is no matter here.                               *)
LEMMA CutFaults ==
  ASSUME FaultInv, interrupts, UNCHANGED <<config, stepOnly>>, Ends(faulted)
  PROVE  FaultInv'
BY DEF FaultInv, FaultHasCause, config, Ends, Unfaulted, Fresh, Asking, Requesting

(* A step that is over in time, or early with the game, goes on to observe. *)
LEMMA StepFaults ==
  ASSUME IInv, PlayInv, FaultInv, Act \/ StepCall, UNCHANGED config
  PROVE  FaultInv'
<1>1. /\ pc \in Asking /\ game \in Procs /\ game # 0 /\ procs \in Seq(Process) /\ procs[game] \in Process
      /\ UNCHANGED <<config, stepOnly>> /\ ~faulted /\ ~procs[game].suspect /\ seen # Nothing
      /\ seen.time \in Nat
  <2>1. pc \in Asking /\ game # 0 /\ UNCHANGED stepOnly
    BY DEF Act, StepCall, Asking
  <2>2. game \in Procs /\ procs \in Seq(Process) /\ procs[game] \in Process /\ seen.time \in Nat
    BY <2>1, ProcessType DEF IInv, TypeOK
  <2>3. ~faulted /\ ~procs[game].suspect /\ seen # Nothing
    BY <2>1 DEF PlayInv, StageInv, SuspectInv, Asking
  <2>4. QED
    BY <2>1, <2>2, <2>3
<1>2. ASSUME GoesOn, ~Stepping \/ procs'[game].status = "ended" \/ procs'[game].time = seen.time + StepLen
      PROVE  FaultInv'
  BY <1>1, <1>2 DEF FaultInv, FaultHasCause, OnTime, GoesOn, config, stepOnly, Stepping, Unfaulted, Fresh, Asking, Requesting
<1>3. ASSUME FoundOver PROVE FaultInv'
  BY <1>2, <1>3 DEF FoundOver
<1>4. ASSUME NEW can, NEW new \in Process,
             \/ Served(game, can, Mark(new, "suspect")) /\ Ends(TRUE)
             \/ Fails(game, can, new, "suspect") /\ Ends(TRUE)
             \/ Interrupted(game, can, new) /\ Ends(faulted)
      PROVE  FaultInv'
  <2>1. Mark(procs[game], "suspect").suspect /\ Mark(new, "suspect").suspect
    BY <1>1, <1>4, MarkedOnlyEnds
  <2>2. CASE Served(game, can, Mark(new, "suspect")) /\ Ends(TRUE)
    BY <1>1, <2>1, <2>2, RequestMakes, FailedFaults
  <2>3. CASE Fails(game, can, new, "suspect") /\ Ends(TRUE)
    <3>1. procs'[game] \in {Mark(procs[game], "suspect"), Mark(new, "suspect")}
      BY <1>1, <2>3, RequestMakes
    <3>2. QED
      BY <1>1, <2>1, <2>3, <3>1, FailedFaults
  <2>4. CASE Interrupted(game, can, new) /\ Ends(faulted)
    BY <1>1, <2>4, CutFaults DEF Interrupted
  <2>5. QED
    BY <1>4, <2>2, <2>3, <2>4
<1>5. CASE Act
  <2>1. ~Stepping
    BY <1>5 DEF Act, FaultInv
  <2>2. QED
    BY <1>1, <1>2, <1>3, <1>4, <1>5, <2>1 DEF Act
<1>6. CASE StepCall
  <2>1. ASSUME NEW new \in Advanced(procs[game]) \cup Over(procs[game]) \cup Stalled(procs[game])
        PROVE  new \in Process
    BY <1>1, <2>1, StepMakes
  <2>2. ASSUME NEW new \in Advanced(procs[game]) \cup Over(procs[game]), NEW can, Served(game, can, new), GoesOn
        PROVE  FaultInv'
    <3>1. procs'[game] = new
      BY <1>1, <2>2, RequestMakes
    <3>2. interrupts \/ ~Stepping \/ OnTime(seen.time)
      BY <1>1, <1>6 DEF FaultInv, StepCall
    <3>3. CASE new.status = "ended"
      BY <1>2, <2>2, <3>1, <3>3
    <3>4. CASE new \in Advanced(procs[game])
      <4>1. new.time = procs[game].time + StepLen /\ new.status = procs[game].status
        BY <1>1, <3>4 DEF Advanced, Process
      <4>2. CASE interrupts
        BY <1>1, <2>2, <4>2 DEF FaultInv, FaultHasCause, GoesOn, config, stepOnly, Stepping, Unfaulted, Fresh, Asking, Requesting
      <4>3. CASE ~Stepping \/ procs'[game].status = "ended" \/ procs'[game].time = seen.time + StepLen
        BY <1>2, <2>2, <4>3
      <4>4. QED
        BY <3>1, <3>2, <4>1, <4>2, <4>3 DEF OnTime
    <3>5. CASE new \in Over(procs[game])
      <4>1. new.status = "ended"
        BY <1>1, <3>5 DEF Over, Process
      <4>2. QED
        BY <3>3, <4>1
    <3>6. QED
      BY <2>2, <3>4, <3>5
  <2>3. QED
    BY <1>3, <1>4, <1>6, <2>1, <2>2 DEF StepCall
<1>7. QED
  BY <1>5, <1>6

(* The time that an observation tells is right, or the game is over.        *)
LEMMA ObservedFaults ==
  ASSUME IInv, PlayInv, FaultInv, StepObserve, UNCHANGED config
  PROVE  FaultInv'
<1>1. /\ pc = "step_observe" /\ game \in Procs /\ game # 0 /\ procs \in Seq(Process) /\ procs[game] \in Process
      /\ UNCHANGED <<config, stepOnly>> /\ ~faulted /\ StepLen \in Nat /\ seen.time \in Nat
      /\ procs[game].time \in Nat
  <2>1. pc = "step_observe" /\ game # 0 /\ UNCHANGED stepOnly
    BY DEF StepObserve
  <2>2. game \in Procs /\ procs \in Seq(Process) /\ procs[game] \in Process /\ seen.time \in Nat
    BY <2>1, ProcessType DEF IInv, TypeOK
  <2>3. ~faulted
    BY <2>1 DEF PlayInv, StageInv, Asking
  <2>4. StepLen \in Nat
    BY ConstantsAssumption DEF ConstantsAssumption
  <2>5. QED
    BY <2>1, <2>2, <2>3, <2>4 DEF Process
<1>2. CASE \E can : \/ Fails(game, can, procs[game], "suspect") /\ Ends(TRUE)
                    \/ Interrupted(game, can, procs[game]) /\ Ends(faulted)
  <2>1. Mark(procs[game], "suspect").suspect
    BY <1>1, MarkedOnlyEnds
  <2>2. PICK can : \/ Fails(game, can, procs[game], "suspect") /\ Ends(TRUE)
                   \/ Interrupted(game, can, procs[game]) /\ Ends(faulted)
    BY <1>2
  <2>3. CASE Fails(game, can, procs[game], "suspect") /\ Ends(TRUE)
    BY <1>1, <2>1, <2>3, RequestMakes, FailedFaults
  <2>4. CASE Interrupted(game, can, procs[game]) /\ Ends(faulted)
    BY <1>1, <2>4, CutFaults DEF Interrupted
  <2>5. QED
    BY <2>2, <2>3, <2>4
<1>3. CASE /\ procs' = [procs EXCEPT ![game] = procs[game]]
           /\ seen' = View(game) /\ pc' = "idle"
           /\ IF Skewed(game) THEN faulted' = TRUE /\ UNCHANGED steps
              ELSE steps' = steps + 1 /\ UNCHANGED faulted
  <2>1. procs' = procs /\ seen'.time = procs[game].time /\ UNCHANGED <<game, closed>>
    BY <1>1, <1>3, FunctionKept DEF View, stepOnly
  <2>2. ~interrupts => ~Skewed(game)
    <3>1. ~interrupts /\ Stepping => OnTime(seen.time + StepLen)
      BY <1>1 DEF FaultInv
    <3>2. QED
      BY <1>1, <3>1 DEF Skewed, DoneIf, OnTime
  <2>3. QED
    BY <1>1, <1>3, <2>1, <2>2 DEF FaultInv, FaultHasCause, OnTime, config, Unfaulted, Fresh, Asking, Requesting
<1>4. QED
  BY <1>2, <1>3 DEF StepObserve, Served

(* The round's own bookkeeping.                                             *)
LEMMA BookkeepingFaults ==
  ASSUME IInv, PlayInv, FaultInv, Bookkeeping, UNCHANGED config
  PROVE  FaultInv'
<1> USE DEF config, Unfaulted, Fresh, Asking, Requesting
<1>1. procs' = procs
  BY DEF Bookkeeping, Reset, Ensure, LaunchFails, Publish, Abandon, Step, GameGone, Close, Ends
<1>2. CASE Reset
  BY <1>2 DEF FaultInv, Reset, FaultHasCause
<1>3. CASE Ensure
  BY <1>3 DEF FaultInv, Ensure, ForgetEpisode, FaultHasCause
<1>4. CASE LaunchFails \/ Publish \/ Abandon
  BY <1>4 DEF FaultInv, LaunchFails, Publish, Abandon, session, FaultHasCause
<1>5. CASE Step
  BY <1>1, <1>5 DEF FaultInv, Step, session, FaultHasCause, OnTime, Stepping, PlayInv, SuspectInv
<1>6. CASE GameGone
  <2>1. closed /\ game = 0 /\ pc \in Asking
    BY <1>6 DEF GameGone, PlayInv, StageInv, SeenInv
  <2>2. QED
    BY <1>6, <2>1 DEF FaultInv, GameGone, Ends, stepOnly, FaultHasCause, Stepping
<1>7. CASE Close
  BY <1>7 DEF FaultInv, Close, round, FaultHasCause, Stepping
<1>8. QED
  BY <1>2, <1>3, <1>4, <1>5, <1>6, <1>7 DEF Bookkeeping

(* Closing and launching.                                                   *)
LEMMA OwnersFaults ==
  ASSUME IInv, PlayInv, FaultInv, Disposing \/ Launching \/ CloseProcess, UNCHANGED config
  PROVE  FaultInv'
<1> USE DEF config
<1>1. CASE Disposing
  BY <1>1 DEF FaultInv, FaultHasCause, Disposing, Release, Discard, Dispose, session, Unfaulted, Fresh, Asking, Requesting
<1>2. CASE Launching
  BY <1>2 DEF FaultInv, FaultHasCause, Launching, Launch, LaunchInterrupted, session, Unfaulted, Fresh, Asking, Requesting
<1>3. CASE CloseProcess
  <2>1. /\ closing \in Procs /\ procs' = Closed(closing) /\ procs \in Seq(Process)
        /\ game \in Procs \cup {0} /\ game # closing
    BY <1>3, CloseCloses DEF IInv, TypeOK, OwnInv, CloseProcess
  <2>2. game # 0 => procs'[game] = procs[game]
    BY <2>1, ClosedIsWiped
  <2>3. game # 0 => OnlyEnds(procs'[game], procs[game])
    BY <2>2 DEF OnlyEnds
  <2>4. UNCHANGED <<session, round>>
    BY <1>3 DEF CloseProcess
  <2>5. QED
    BY <2>3, <2>4, FaultStays
<1>4. QED
  BY <1>1, <1>2, <1>3

LEMMA FaultKept ==
  ASSUME IInv, PlayInv, FaultInv, [Next]_vars
  PROVE  FaultInv'
<1>1. UNCHANGED config
  BY Steps
<1>2. CASE RequestStep
  BY <1>1, <1>2, ResetFaults, StepFaults, ObservedFaults DEF RequestStep
<1>3. CASE ProcessStep /\ ~RequestStep
  BY <1>1, <1>3, QuietFaults
<1>4. CASE Bookkeeping
  BY <1>1, <1>4, BookkeepingFaults
<1>5. CASE Disposing \/ Launching \/ CloseProcess
  BY <1>1, <1>5, OwnersFaults
<1>6. CASE UNCHANGED vars
  <2>1. UNCHANGED <<config, session, round>> /\ OnlyEnds(procs'[game], procs[game])
    BY <1>6 DEF vars, OnlyEnds
  <2>2. QED
    BY <2>1, FaultStays
<1>7. QED
  BY <1>2, <1>3, <1>4, <1>5, <1>6, Steps

(* Without interruptions the session gives up a process only after an       *)
(* operation has failed on it: never because a game ended, whenever it did. *)
THEOREM FaultsHaveCauses == Spec => []FaultHasCause
<1>1. Init => FaultInv
  BY DEF Init, FaultInv, FaultHasCause, Unfaulted, Fresh, Asking, Requesting, Nothing
<1>2. IInv /\ PlayInv /\ FaultInv /\ [Next]_vars => FaultInv'
  BY FaultKept
<1>3. FaultInv => FaultHasCause
  BY DEF FaultInv, FaultHasCause
<1>4. QED
  BY <1>1, <1>2, <1>3, PlayInvariance, PTL DEF Spec
-----------------------------------------------------------------------------
(***************************************************************************)
(* VectorSession, the host of many games, for every number of games, size  *)
(* of their groups, kind of worker and bound: types, and that a call takes *)
(* the answer to its own message.  The invariant follows each message: for *)
(* a game that is not busy nothing is on its way, and for a busy one the   *)
(* message it was sent last, or the answer to it, in one place of the way  *)
(* to the worker and back (mailbox, pipe, queue).  What VectorSession      *)
(* assumes of its constants is a hypothesis of each theorem.               *)
(***************************************************************************)
CONSTANTS NGames, GroupSizes, Remotes, MaxAsked, Torn
VARIABLES groupSize, remote, busy, replies, call, up, out, drain, inbox, asked, mixed, lost

V == INSTANCE VectorSession

\* The answers to a game that the host has, and those its worker has written.
AnswersTo(i) == {k \in DOMAIN replies : replies[k].kind # "exited" /\ replies[k].game = i}
WrittenFor(i) == {k \in DOMAIN out[V!Where(i)] : out[V!Where(i)][k] # Torn /\ out[V!Where(i)][k].game = i}

VectorTypes ==
  /\ groupSize \in GroupSizes /\ remote \in Remotes
  /\ busy \subseteq V!Games /\ replies \in Seq(V!Reply) /\ call \in V!Call
  /\ up \in [V!Workers -> BOOLEAN] /\ out \in [V!Workers -> Seq(V!Reply \cup {Torn})]
  /\ drain \in [V!Workers -> {"reads", "over", "failed"}]
  /\ inbox \in [V!Games -> Seq(V!Message)]
  /\ asked \in [V!Games -> 0 .. MaxAsked] /\ mixed \in BOOLEAN /\ lost \subseteq V!Games

\* Messages are where their game is; a dead worker handles none, and its drain
\* thread ends after its last reply.
PlaceInv ==
  /\ \A i \in V!Games : \A k \in DOMAIN inbox[i] : inbox[i][k].game = i
  /\ \A w \in V!Workers : \A k \in DOMAIN out[w] :
       out[w][k] # Torn => V!Where(out[w][k].game) = w /\ out[w][k].kind # "exited"
  /\ \A i \in V!Games : ~up[V!Where(i)] => inbox[i] = <<>>
  /\ \A w \in V!Workers : drain[w] # "reads" => ~up[w] /\ out[w] = <<>>

\* The end of a worker is the last that is told of its games.
EndInv ==
  \A k \in DOMAIN replies : replies[k].kind = "exited" =>
    /\ drain[V!Where(replies[k].game)] = "over"
    /\ \A j \in DOMAIN replies : j > k /\ replies[j].game = replies[k].game => replies[j].kind = "exited"

\* What the call under way says of the games.
CallInv ==
  /\ call.op = "recv" => busy # {}
  /\ call.op = "take" => mixed \/ call.game \in busy
  /\ call.op \in {"send_all", "take_all"} => call.kind = "reset"
  /\ call.op = "send_all" => \A i \in V!Games : i < call.game => i \in busy
  /\ call.op = "take_all" => mixed \/ \A i \in V!Games : i \in busy <=> i >= call.game

\* For a game that is not busy nothing is on its way; for a busy one, one message
\* or its answer, in one place.
AwayOf(i) ==
  /\ i \notin busy => AnswersTo(i) = {} /\ WrittenFor(i) = {} /\ inbox[i] = <<>>
  /\ AnswersTo(i) = {} \/ WrittenFor(i) = {}
  /\ inbox[i] = <<>> \/ (AnswersTo(i) = {} /\ WrittenFor(i) = {})
  /\ Len(inbox[i]) <= 1
  /\ \A j, k \in AnswersTo(i) : j = k
  /\ \A j, k \in WrittenFor(i) : j = k

\* The kind of the message a busy game was sent last.
Due(i) ==
  IF call.op = "take_all" \/ (call.op = "send_all" /\ i < call.game) THEN "reset"
  ELSE IF call.op = "take" /\ i = call.game THEN call.kind
  ELSE "step"

\* What is on its way is of the last message to its game.
Current(m, i) == m.number = asked[i] /\ m.kind = Due(i)
SentOf(i) ==
  /\ \A k \in AnswersTo(i) : Current(replies[k], i)
  /\ \A k \in WrittenFor(i) : Current(out[V!Where(i)][k], i)
  /\ \A k \in DOMAIN inbox[i] : Current(inbox[i][k], i)

TrafficInv == \A i \in V!Games : AwayOf(i) /\ SentOf(i)

VectorInv == VectorTypes /\ PlaceInv /\ EndInv /\ CallInv /\ (~mixed => TrafficInv)
(* What the operators on sequences make.                                   *)
LEMMA AppendMakes ==
  ASSUME NEW S, NEW s \in Seq(S), NEW e \in S
  PROVE  /\ Append(s, e) \in Seq(S) /\ Len(Append(s, e)) = Len(s) + 1
         /\ DOMAIN Append(s, e) = 1 .. Len(s) + 1 /\ DOMAIN s = 1 .. Len(s) /\ Len(s) \in Nat
         /\ \A j \in 1 .. Len(s) + 1 : Append(s, e)[j] = IF j <= Len(s) THEN s[j] ELSE e
OBVIOUS

LEMMA TailMakes ==
  ASSUME NEW S, NEW s \in Seq(S), s # <<>>
  PROVE  /\ Tail(s) \in Seq(S) /\ Head(s) = s[1] /\ s[1] \in S /\ 1 \in DOMAIN s
         /\ DOMAIN Tail(s) = 1 .. Len(s) - 1 /\ DOMAIN s = 1 .. Len(s) /\ Len(s) \in Nat
         /\ Len(Tail(s)) = Len(s) - 1
         /\ \A j \in 1 .. Len(s) - 1 : Tail(s)[j] = s[j + 1]
OBVIOUS

LEMMA WithoutMakes ==
  ASSUME replies \in Seq(V!Reply), NEW k \in DOMAIN replies
  PROVE  /\ V!Without(k) \in Seq(V!Reply) /\ DOMAIN V!Without(k) = 1 .. Len(replies) - 1
         /\ \A j \in 1 .. Len(replies) - 1 : V!Without(k)[j] = replies[IF j < k THEN j ELSE j + 1]
<1> DEFINE s == SubSeq(replies, 1, k - 1)
           t == SubSeq(replies, k + 1, Len(replies))
<1>1. k \in 1 .. Len(replies) /\ Len(replies) \in Nat
  OBVIOUS
<1>2. s \in Seq(V!Reply) /\ Len(s) = k - 1 /\ \A j \in 1 .. k - 1 : s[j] = replies[j]
  <2>1. \A j \in 1 .. k - 1 : replies[j] \in V!Reply
    BY <1>1
  <2>2. QED
    BY <1>1, <2>1, SubSeqProperties
<1>3. t \in Seq(V!Reply) /\ Len(t) = Len(replies) - k /\ \A j \in 1 .. Len(replies) - k : t[j] = replies[k + j]
  <2>1. \A j \in k + 1 .. Len(replies) : replies[j] \in V!Reply
    BY <1>1
  <2>2. QED
    BY <1>1, <2>1, SubSeqProperties
<1> HIDE DEF s, t
<1>4. /\ s \o t \in Seq(V!Reply) /\ Len(s \o t) = Len(replies) - 1
      /\ \A j \in 1 .. Len(replies) - 1 : (s \o t)[j] = IF j <= k - 1 THEN s[j] ELSE t[j - (k - 1)]
  <2>1. /\ s \o t \in Seq(V!Reply) /\ Len(s \o t) = Len(s) + Len(t)
        /\ \A j \in 1 .. Len(s) + Len(t) : (s \o t)[j] = IF j <= Len(s) THEN s[j] ELSE t[j - Len(s)]
    BY <1>2, <1>3, ConcatProperties
  <2>2. Len(s) + Len(t) = Len(replies) - 1
    BY <1>1, <1>2, <1>3
  <2>3. QED
    BY <1>2, <2>1, <2>2
<1>5. ASSUME NEW j \in 1 .. Len(replies) - 1
      PROVE  (s \o t)[j] = replies[IF j < k THEN j ELSE j + 1]
  <2>1. CASE j < k
    BY <1>1, <1>2, <1>4, <2>1
  <2>2. CASE ~(j < k)
    <3>1. j - (k - 1) \in 1 .. Len(replies) - k /\ k + (j - (k - 1)) = j + 1 /\ ~(j <= k - 1)
      BY <1>1, <2>2
    <3>2. QED
      BY <1>3, <1>4, <2>2, <3>1
  <2>3. QED
    BY <2>1, <2>2
<1>6. DOMAIN (s \o t) = 1 .. Len(replies) - 1
  BY <1>4
<1>7. V!Without(k) = s \o t
  BY DEF s, t, V!Without
<1>8. QED
  BY <1>4, <1>5, <1>6, <1>7

(* The workers of a session stay as they were made.                        *)
LEMMA WorkersStay ==
  ASSUME UNCHANGED V!config
  PROVE  V!Workers' = V!Workers /\ \A i : V!Where(i)' = V!Where(i)
BY DEF V!config, V!Workers, V!Where

LEMMA GamesHaveWorkers == \A i \in V!Games : V!Where(i) \in V!Workers
BY DEF V!Workers

(* What does not touch the replies, the workers or the messages leaves     *)
(* what is on its way.                                                     *)
LEMMA AwayStays ==
  ASSUME VectorInv, UNCHANGED <<V!config, replies, up, out, drain, inbox>>
  PROVE  /\ PlaceInv' /\ EndInv'
         /\ \A i : AnswersTo(i)' = AnswersTo(i) /\ WrittenFor(i)' = WrittenFor(i)
BY WorkersStay DEF VectorInv, PlaceInv, EndInv, AnswersTo, WrittenFor

(* Types.                                                                  *)
LEMMA SendTypes ==
  ASSUME V!ConstantsAssumption, VectorTypes, NEW i \in V!Games, NEW kind \in V!Kinds, V!SendTo(i, kind),
         call' \in V!Call, mixed' \in BOOLEAN
  PROVE  VectorTypes'
<1>1. UNCHANGED <<V!config, replies, up, out, drain>> /\ V!Workers' = V!Workers
  BY WorkersStay DEF V!SendTo
<1>2. asked[i] \in 0 .. MaxAsked /\ asked[i] < MaxAsked /\ MaxAsked \in Nat
  BY DEF V!ConstantsAssumption, VectorTypes, V!SendTo
<1>3. asked' \in [V!Games -> 0 .. MaxAsked]
  BY <1>2 DEF VectorTypes, V!SendTo
<1>4. inbox' \in [V!Games -> Seq(V!Message)]
  <2> DEFINE m == [game |-> i, number |-> asked[i] + 1, kind |-> kind]
  <2>1. m \in V!Message
    BY <1>2 DEF V!Message
  <2>2. Append(inbox[i], m) \in Seq(V!Message)
    BY <2>1 DEF VectorTypes
  <2>3. inbox' = [inbox EXCEPT ![i] = Append(inbox[i], m)] \/ inbox' = inbox
    BY DEF V!SendTo
  <2> HIDE DEF m
  <2>4. QED
    BY <2>2, <2>3 DEF VectorTypes
<1>5. busy' \subseteq V!Games /\ lost' \subseteq V!Games
  BY DEF VectorTypes, V!SendTo
<1>6. QED
  BY <1>1, <1>3, <1>4, <1>5 DEF VectorTypes, V!config

LEMMA TypesStay ==
  ASSUME VectorTypes, UNCHANGED <<V!config, up, out, drain, inbox, asked, lost>>,
         busy' \subseteq V!Games, replies' \in Seq(V!Reply), call' \in V!Call, mixed' \in BOOLEAN
  PROVE  VectorTypes'
BY WorkersStay DEF VectorTypes, V!config

(* A game that a step does not touch: its answers may move, in the host's  *)
(* replies (by f) and in its worker's pipe (by g).                         *)
LEMMA GameStays ==
  ASSUME NEW i \in V!Games, NEW f, NEW g, AwayOf(i), SentOf(i),
         inbox'[i] = inbox[i], asked'[i] = asked[i], i \in busy' <=> i \in busy,
         i \in busy => Due(i)' = Due(i),
         \A k \in AnswersTo(i)' :
           f[k] \in AnswersTo(i) /\ replies'[k] = replies[f[k]] /\ \A n \in AnswersTo(i)' : f[n] = f[k] => n = k,
         \A k \in WrittenFor(i)' :
           /\ g[k] \in WrittenFor(i) /\ out'[V!Where(i)'][k] = out[V!Where(i)][g[k]]
           /\ \A n \in WrittenFor(i)' : g[n] = g[k] => n = k
  PROVE  AwayOf(i)' /\ SentOf(i)'
<1>1. AwayOf(i)'
  BY DEF AwayOf
<1>2. CASE i \in busy
  <2>1. \A k \in AnswersTo(i)' : Current(replies[k], i)'
    BY <1>2 DEF SentOf, Current
  <2>2. \A k \in WrittenFor(i)' : Current(out[V!Where(i)][k], i)'
    BY <1>2 DEF SentOf, Current
  <2>3. \A k \in DOMAIN inbox'[i] : Current(inbox[i][k], i)'
    BY <1>2 DEF SentOf, Current
  <2>4. QED
    BY <1>1, <2>1, <2>2, <2>3 DEF SentOf, Current
<1>3. CASE i \notin busy
  <2>1. AnswersTo(i)' = {} /\ WrittenFor(i)' = {} /\ inbox'[i] = <<>>
    BY <1>1, <1>3 DEF AwayOf
  <2>2. DOMAIN inbox'[i] = {}
    BY <2>1
  <2>3. QED
    BY <1>1, <2>1, <2>2 DEF SentOf, Current
<1>4. QED
  BY <1>1, <1>2, <1>3

(* A message to a game that was not busy, in the mailbox of its worker if  *)
(* that runs, keeps everything in its place.                               *)
LEMMA SendKeeps ==
  ASSUME V!ConstantsAssumption, VectorInv, NEW i \in V!Games, NEW kind \in V!Kinds, V!SendTo(i, kind),
         VectorTypes', CallInv',
         ~mixed' => /\ ~mixed /\ i \notin busy
                    /\ up[V!Where(i)] => Due(i)' = kind
                    /\ \A j \in busy : Due(j)' = Due(j)
  PROVE  VectorInv'
<1> DEFINE m == [game |-> i, number |-> asked[i] + 1, kind |-> kind]
           q == Append(inbox[i], m)
<1>1. /\ UNCHANGED <<V!config, replies, up, out, drain>>
      /\ V!Workers' = V!Workers /\ \A j : V!Where(j)' = V!Where(j)
  BY WorkersStay DEF V!SendTo
<1>2. /\ \A j \in V!Games \ {i} : inbox'[j] = inbox[j] /\ asked'[j] = asked[j]
      /\ asked'[i] = asked[i] + 1 /\ busy' = busy \cup {i}
      /\ up[V!Where(i)] => inbox'[i] = q
      /\ ~up[V!Where(i)] => inbox'[i] = inbox[i]
  BY DEF VectorInv, VectorTypes, V!SendTo
<1>3. m \in V!Message /\ inbox[i] \in Seq(V!Message)
  <2>1. asked[i] + 1 \in Nat
    BY DEF V!ConstantsAssumption, VectorInv, VectorTypes
  <2>2. m \in V!Message
    BY <2>1 DEF V!Message
  <2>3. QED
    BY <2>2 DEF VectorInv, VectorTypes
<1>4. /\ q \in Seq(V!Message) /\ Len(q) = Len(inbox[i]) + 1
      /\ DOMAIN q = 1 .. Len(inbox[i]) + 1 /\ DOMAIN inbox[i] = 1 .. Len(inbox[i])
      /\ Len(inbox[i]) \in Nat
      /\ \A j \in 1 .. Len(inbox[i]) + 1 : q[j] = IF j <= Len(inbox[i]) THEN inbox[i][j] ELSE m
  <2> HIDE DEF m
  <2>1. QED
    BY <1>3, AppendMakes DEF q
<1>5. m.game = i /\ m.number = asked[i] + 1 /\ m.kind = kind
  OBVIOUS
<1> HIDE DEF m, q
<1>6. PlaceInv'
  <2>1. \A j \in V!Games : \A k \in DOMAIN inbox'[j] : inbox'[j][k].game = j
    <3>1. \A k \in DOMAIN inbox'[i] : inbox'[i][k].game = i
      <4>1. \A k \in DOMAIN inbox[i] : inbox[i][k].game = i
        BY DEF VectorInv, PlaceInv
      <4>2. CASE up[V!Where(i)]
        <5>1. inbox'[i] = q /\ DOMAIN inbox'[i] = 1 .. Len(inbox[i]) + 1
          BY <1>2, <1>4, <4>2
        <5> SUFFICES ASSUME NEW k \in 1 .. Len(inbox[i]) + 1
                     PROVE  q[k].game = i
          BY <5>1
        <5>0. q[k] = IF k <= Len(inbox[i]) THEN inbox[i][k] ELSE m
          BY <1>4
        <5>2. CASE k <= Len(inbox[i])
          <6>1. k \in DOMAIN inbox[i]
            BY <1>4, <5>2
          <6>2. QED
            BY <4>1, <5>0, <5>2, <6>1
        <5>3. CASE ~(k <= Len(inbox[i]))
          BY <1>5, <5>0, <5>3
        <5>4. QED
          BY <5>2, <5>3
      <4>3. CASE ~up[V!Where(i)]
        BY <1>2, <4>1, <4>3
      <4>4. QED
        BY <4>2, <4>3
    <3>2. QED
      BY <1>2, <3>1 DEF VectorInv, PlaceInv
  <2>2. \A j \in V!Games : ~up[V!Where(j)] => inbox'[j] = <<>>
    BY <1>2 DEF VectorInv, PlaceInv
  <2>3. QED
    BY <1>1, <2>1, <2>2 DEF VectorInv, PlaceInv
<1>7. EndInv'
  BY <1>1 DEF VectorInv, EndInv
<1>8. \A j : AnswersTo(j)' = AnswersTo(j) /\ WrittenFor(j)' = WrittenFor(j)
  BY <1>1 DEF AnswersTo, WrittenFor
<1>9. ASSUME ~mixed', NEW j \in V!Games
      PROVE  AwayOf(j)' /\ SentOf(j)'
  <2>1. ~mixed /\ i \notin busy /\ \A n \in V!Games : AwayOf(n) /\ SentOf(n)
    BY <1>9 DEF VectorInv, TrafficInv
  <2>2. CASE j = i
    <3>1. AnswersTo(i) = {} /\ WrittenFor(i) = {} /\ inbox[i] = <<>>
      BY <2>1 DEF AwayOf
    <3>2. Len(inbox[i]) = 0
      BY <3>1
    <3>3. CASE up[V!Where(i)]
      <4>1. inbox'[i] = q /\ Len(inbox'[i]) = 1 /\ DOMAIN inbox'[i] = {1} /\ inbox'[i][1] = m
        BY <1>2, <1>4, <3>2, <3>3
      <4>2. Due(i)' = kind
        BY <1>9, <3>3
      <4>3. AwayOf(i)'
        BY <1>2, <1>8, <3>1, <4>1 DEF AwayOf
      <4>4. SentOf(i)'
        BY <1>2, <1>5, <1>8, <3>1, <4>1, <4>2 DEF SentOf, Current
      <4>5. QED
        BY <2>2, <4>3, <4>4
    <3>4. CASE ~up[V!Where(i)]
      <4>1. inbox'[i] = <<>> /\ Len(inbox'[i]) = 0 /\ DOMAIN inbox'[i] = {}
        BY <1>2, <3>1, <3>2, <3>4
      <4>2. AwayOf(i)'
        BY <1>8, <3>1, <4>1 DEF AwayOf
      <4>3. SentOf(i)'
        BY <1>8, <3>1, <4>1 DEF SentOf
      <4>4. QED
        BY <2>2, <4>2, <4>3
    <3>5. QED
      BY <3>3, <3>4
  <2>3. CASE j # i
    <3> DEFINE f == [k \in DOMAIN replies |-> k]
               g == [k \in DOMAIN out[V!Where(j)] |-> k]
    <3>1. \A k \in AnswersTo(j) : f[k] = k
      BY DEF AnswersTo
    <3>2. \A k \in WrittenFor(j) : g[k] = k
      BY DEF WrittenFor
    <3>3. inbox'[j] = inbox[j] /\ asked'[j] = asked[j] /\ (j \in busy' <=> j \in busy)
      BY <1>2, <2>3
    <3>4. j \in busy => Due(j)' = Due(j)
      BY <1>9
    <3> HIDE DEF f, g
    <3>5. \A k \in AnswersTo(j)' :
            f[k] \in AnswersTo(j) /\ replies'[k] = replies[f[k]] /\ \A n \in AnswersTo(j)' : f[n] = f[k] => n = k
      BY <1>1, <1>8, <3>1
    <3>6. \A k \in WrittenFor(j)' :
            /\ g[k] \in WrittenFor(j) /\ out'[V!Where(j)'][k] = out[V!Where(j)][g[k]]
            /\ \A n \in WrittenFor(j)' : g[n] = g[k] => n = k
      BY <1>1, <1>8, <3>2
    <3>7. QED
      BY <2>1, <3>3, <3>4, <3>5, <3>6, GameStays
  <2>4. QED
    BY <2>2, <2>3
<1>10. V!Games' = V!Games
  BY DEF V!Games
<1>11. QED
  BY <1>6, <1>7, <1>9, <1>10 DEF VectorInv, TrafficInv

(* A step that only moves the call on, with what busy games owe the same.  *)
LEMMA CallMoves ==
  ASSUME VectorInv, UNCHANGED <<V!config, busy, replies, V!workers, V!history>>, call' \in V!Call, CallInv',
         \A j \in busy : Due(j)' = Due(j)
  PROVE  VectorInv'
<1>1. VectorTypes'
  BY TypesStay DEF VectorInv, VectorTypes, V!workers, V!history, V!config
<1>2. PlaceInv' /\ EndInv' /\ \A i : AnswersTo(i)' = AnswersTo(i) /\ WrittenFor(i)' = WrittenFor(i)
  BY AwayStays DEF V!workers
<1>3. ASSUME ~mixed', NEW i \in V!Games
      PROVE  AwayOf(i)' /\ SentOf(i)'
  <2>1. AwayOf(i) /\ SentOf(i)
    BY <1>3 DEF VectorInv, TrafficInv, V!history
  <2>2. AwayOf(i)'
    BY <1>2, <2>1 DEF AwayOf, V!workers
  <2>3. V!Where(i)' = V!Where(i)
    BY DEF V!Where, V!config
  <2>4. CASE i \in busy
    <3>1. Due(i)' = Due(i)
      BY <2>4
    <3>2. SentOf(i)'
      BY <1>2, <2>1, <2>3, <3>1 DEF SentOf, Current, V!workers, V!history
    <3>3. QED
      BY <2>2, <3>2
  <2>5. CASE i \notin busy
    <3>1. AnswersTo(i)' = {} /\ WrittenFor(i)' = {} /\ inbox'[i] = <<>>
      BY <1>2, <2>1, <2>5 DEF AwayOf, V!workers
    <3>2. DOMAIN inbox'[i] = {}
      BY <3>1
    <3>3. QED
      BY <2>2, <3>1, <3>2 DEF SentOf
  <2>6. QED
    BY <2>4, <2>5
<1>4. V!Games' = V!Games
  BY DEF V!Games
<1>5. QED
  BY <1>1, <1>2, <1>3, <1>4 DEF VectorInv, TrafficInv

(* Calls that start, and a recv that finds nothing.                        *)
LEMMA StartKeeps ==
  ASSUME V!ConstantsAssumption, VectorInv, V!Reset \/ V!Recv \/ V!Close \/ V!RecvNone
  PROVE  VectorInv'
<1>1. 0 \in V!Games /\ "reset" \in V!Kinds
  BY DEF V!ConstantsAssumption, V!Games, V!Kinds
<1>2. \A j \in V!Games : ~(j < 0)
  BY DEF V!ConstantsAssumption, V!Games
<1>3. busy \subseteq V!Games
  BY DEF VectorInv, VectorTypes
<1>4. UNCHANGED <<V!config, busy, replies, V!workers, V!history>>
  BY DEF V!Reset, V!Recv, V!Close, V!RecvNone, V!Start
<1>5. V!NoCall \in V!Call /\ V!NoCall.op = "none" /\ V!NoCall.kind = "reset" /\ V!NoCall.game = 0
  BY <1>1 DEF V!NoCall, V!Call
<1>6. CASE V!Reset
  <2>1. call.op = "none" /\ call'.op = "send_all" /\ call'.game = 0 /\ call'.kind = "reset" /\ call' \in V!Call
    BY <1>1, <1>6 DEF V!Reset, V!Idle, V!Start, V!NoCall, V!Call
  <2>2. CallInv'
    BY <1>2, <2>1 DEF CallInv, V!Games
  <2>3. \A j \in busy : Due(j)' = Due(j)
    BY <1>2, <1>3, <2>1 DEF Due
  <2>4. QED
    BY <1>4, <2>1, <2>2, <2>3, CallMoves
<1>7. CASE V!Recv \/ V!Close
  <2>1. call.op = "none" /\ call'.op \in {"recv", "close"} /\ call' \in V!Call
    BY <1>1, <1>7 DEF V!Recv, V!Close, V!Idle, V!Start, V!NoCall, V!Call
  <2>2. call'.op = "recv" => busy' # {}
    BY <1>4, <1>7 DEF V!Recv, V!Close, V!Start, V!NoCall
  <2>3. CallInv'
    BY <2>1, <2>2 DEF CallInv
  <2>4. \A j \in busy : Due(j)' = Due(j)
    BY <2>1 DEF Due
  <2>5. QED
    BY <1>4, <2>1, <2>3, <2>4, CallMoves
<1>8. CASE V!RecvNone
  <2>1. call.op = "recv" /\ call' = V!NoCall
    BY <1>8 DEF V!RecvNone
  <2>2. CallInv'
    BY <1>5, <2>1 DEF CallInv
  <2>3. \A j \in busy : Due(j)' = Due(j)
    BY <1>5, <2>1 DEF Due
  <2>4. QED
    BY <1>4, <1>5, <2>1, <2>2, <2>3, CallMoves
<1>9. QED
  BY <1>6, <1>7, <1>8

(* send.                                                                   *)
LEMMA SendingKeeps ==
  ASSUME V!ConstantsAssumption, VectorInv, NEW i \in V!Games, V!Send(i)
  PROVE  VectorInv'
<1>1. /\ call' = call /\ mixed' = mixed /\ call.op = "none" /\ i \notin busy /\ V!SendTo(i, "step")
      /\ "step" \in V!Kinds
  BY DEF V!Send, V!Idle, V!Kinds
<1>2. VectorTypes'
  BY <1>1, SendTypes DEF VectorInv, VectorTypes
<1>3. CallInv'
  BY <1>1 DEF CallInv
<1>4. \A j : Due(j)' = Due(j) /\ Due(j) = "step"
  BY <1>1 DEF Due
<1>5. QED
  BY <1>1, <1>2, <1>3, <1>4, SendKeeps

(* debug, save_replay, reset_one: the answer is waited for, unless the     *)
(* worker is known to be gone.                                             *)
LEMMA AskingKeeps ==
  ASSUME V!ConstantsAssumption, VectorInv, NEW i \in V!Games, NEW kind \in V!Kinds, V!SendAndTake(i, kind),
         mixed' = (mixed \/ i \in busy)
  PROVE  VectorInv'
<1>1. call.op = "none" /\ V!SendTo(i, kind) /\ busy' = busy \cup {i}
  BY DEF V!SendAndTake, V!Idle, V!SendTo
<1>2. V!NoCall \in V!Call /\ V!NoCall.op = "none"
  BY DEF V!ConstantsAssumption, V!NoCall, V!Call, V!Games, V!Kinds
<1>3. \/ call' = [op |-> "take", game |-> i, kind |-> kind]
      \/ call' = V!NoCall /\ ~up[V!Where(i)]
  BY DEF V!SendAndTake, V!Outcomes
<1>4. call' \in V!Call /\ mixed' \in BOOLEAN
  BY <1>2, <1>3 DEF V!Call, VectorInv, VectorTypes
<1>5. VectorTypes'
  BY <1>1, <1>4, SendTypes DEF VectorInv
<1>6. CASE call' = [op |-> "take", game |-> i, kind |-> kind]
  <2>1. call'.op = "take" /\ call'.game = i /\ call'.kind = kind
    BY <1>6
  <2>2. CallInv'
    BY <1>1, <2>1 DEF CallInv
  <2>3. Due(i)' = kind /\ \A j : j # i => Due(j)' = Due(j)
    BY <1>1, <2>1 DEF Due
  <2>4. QED
    BY <1>1, <1>5, <2>2, <2>3, SendKeeps
<1>7. CASE call' = V!NoCall /\ ~up[V!Where(i)]
  <2>1. CallInv'
    BY <1>2, <1>7 DEF CallInv
  <2>2. \A j : Due(j)' = Due(j)
    BY <1>1, <1>2, <1>7 DEF Due
  <2>3. QED
    BY <1>1, <1>5, <1>7, <2>1, <2>2, SendKeeps
<1>8. QED
  BY <1>3, <1>6, <1>7

(* reset, one game after another.                                          *)
LEMMA ResetSendKeeps ==
  ASSUME V!ConstantsAssumption, VectorInv, V!ResetSend
  PROVE  VectorInv'
<1>0. PICK i \in V!Games : i = call.game
  BY DEF VectorInv, VectorTypes, V!Call
<1>1. call.op = "send_all" /\ call.game = i /\ V!SendTo(i, "reset") /\ busy' = busy \cup {i} /\ "reset" \in V!Kinds
  BY <1>0 DEF V!ResetSend, V!SendTo, V!Kinds
<1>2. V!NoCall \in V!Call /\ V!NoCall.op = "none"
  BY DEF V!ConstantsAssumption, V!NoCall, V!Call, V!Games, V!Kinds
<1>3. PICK ok \in V!Outcomes(i) :
        /\ mixed' = (mixed \/ i \in busy \/ (~ok /\ busy # {}))
        /\ call' = IF ~ok THEN V!NoCall
                   ELSE IF i + 1 \in V!Games THEN [call EXCEPT !.game = i + 1]
                   ELSE [call EXCEPT !.op = "take_all", !.game = 0]
  BY <1>0 DEF V!ResetSend
<1>4. ok \in BOOLEAN /\ (~ok => ~up[V!Where(i)])
  BY DEF V!Outcomes, VectorInv, VectorTypes
<1>5. call \in V!Call /\ call.kind = "reset" /\ \A j \in V!Games : j < i => j \in busy
  BY <1>1 DEF VectorInv, VectorTypes, CallInv
<1>6. /\ V!Games = 0 .. NGames - 1 /\ NGames \in Nat \ {0} /\ i \in Int /\ 0 \in V!Games
      /\ busy \subseteq V!Games /\ mixed \in BOOLEAN
  BY <1>1 DEF V!ConstantsAssumption, V!Games, VectorInv, VectorTypes
<1>7. CASE ~ok
  <2>1. call' = V!NoCall /\ ~up[V!Where(i)]
    BY <1>3, <1>4, <1>7
  <2>2. VectorTypes'
    BY <1>1, <1>2, <1>3, <1>6, <2>1, SendTypes DEF VectorInv
  <2>3. CallInv'
    BY <1>2, <2>1 DEF CallInv
  <2>4. ~mixed' => ~mixed /\ busy = {}
    BY <1>3, <1>7
  <2>5. QED
    BY <1>1, <2>1, <2>2, <2>3, <2>4, SendKeeps
<1>8. CASE ok /\ i + 1 \in V!Games
  <2>1. /\ call'.op = "send_all" /\ call'.game = i + 1 /\ call'.kind = "reset" /\ call' \in V!Call
    BY <1>1, <1>3, <1>5, <1>8 DEF V!Call
  <2>2. VectorTypes'
    BY <1>1, <1>3, <1>6, <2>1, SendTypes DEF VectorInv
  <2>3. \A j \in V!Games : j < i + 1 <=> j < i \/ j = i
    BY <1>6
  <2>4. CallInv'
    BY <1>1, <1>5, <2>1, <2>3 DEF CallInv, V!Games
  <2>5. \A j \in V!Games : j # i => Due(j)' = Due(j)
    BY <1>1, <2>1, <2>3 DEF Due
  <2>6. Due(i)' = "reset"
    BY <1>1, <2>1, <2>3 DEF Due
  <2>7. ~mixed' => ~mixed /\ i \notin busy
    BY <1>3
  <2>8. QED
    BY <1>1, <1>6, <2>2, <2>4, <2>5, <2>6, <2>7, SendKeeps
<1>9. CASE ok /\ i + 1 \notin V!Games
  <2>1. /\ call'.op = "take_all" /\ call'.game = 0 /\ call'.kind = "reset" /\ call' \in V!Call
    BY <1>1, <1>3, <1>5, <1>6, <1>9 DEF V!Call
  <2>2. VectorTypes'
    BY <1>1, <1>3, <1>6, <2>1, SendTypes DEF VectorInv
  <2>3. \A j \in V!Games : j >= 0 /\ (j < i \/ j = i)
    BY <1>1, <1>6, <1>9
  <2>4. CallInv'
    BY <1>1, <1>5, <1>6, <2>1, <2>3 DEF CallInv, V!Games
  <2>5. Due(i)' = "reset" /\ \A j \in V!Games : j # i => Due(j)' = Due(j)
    BY <1>1, <2>1, <2>3 DEF Due
  <2>6. ~mixed' => ~mixed /\ i \notin busy
    BY <1>3
  <2>7. QED
    BY <1>1, <1>6, <2>2, <2>4, <2>5, <2>6, SendKeeps
<1>10. QED
  BY <1>4, <1>7, <1>8, <1>9

(* Steps of the workers and the drain threads leave the call as it is.     *)
LEMMA CallStays ==
  ASSUME VectorInv, UNCHANGED <<V!config, busy, call, V!history>>
  PROVE  /\ CallInv' /\ V!Games' = V!Games /\ V!Workers' = V!Workers
         /\ \A i : V!Where(i)' = V!Where(i) /\ Due(i)' = Due(i)
         /\ busy' = busy /\ asked' = asked /\ mixed' = mixed
<1>1. UNCHANGED <<busy, call, mixed, asked>>
  BY DEF V!history
<1>2. V!Games' = V!Games
  BY DEF V!Games
<1>3. V!Workers' = V!Workers /\ \A i : V!Where(i)' = V!Where(i)
  BY WorkersStay
<1>4. CallInv'
  BY <1>1, <1>2 DEF VectorInv, CallInv
<1>5. \A i : Due(i)' = Due(i)
  BY <1>1 DEF Due
<1>6. QED
  BY <1>1, <1>2, <1>3, <1>4, <1>5

(* A worker that stops, at its end of input or in the middle of a reply,   *)
(* takes the messages with it and no answer.                               *)
LEMMA StopKeeps ==
  ASSUME V!ConstantsAssumption, VectorInv, NEW w \in V!Workers, up[w],
         UNCHANGED <<V!config, V!host, drain, V!history>>,
         up' = [up EXCEPT ![w] = FALSE],
         inbox' = [i \in V!Games |-> IF V!Where(i) = w THEN <<>> ELSE inbox[i]],
         out' = out \/ out' = [out EXCEPT ![w] = Append(out[w], Torn)]
  PROVE  VectorInv'
<1>1. /\ CallInv' /\ V!Games' = V!Games /\ V!Workers' = V!Workers
      /\ \A i : V!Where(i)' = V!Where(i) /\ Due(i)' = Due(i)
      /\ busy' = busy /\ asked' = asked /\ mixed' = mixed
  BY CallStays DEF V!host
<1> DEFINE p == Append(out[w], Torn)
<1>2. /\ p \in Seq(V!Reply \cup {Torn}) /\ DOMAIN p = 1 .. Len(out[w]) + 1 /\ DOMAIN out[w] = 1 .. Len(out[w])
      /\ Len(out[w]) \in Nat
      /\ \A k \in 1 .. Len(out[w]) + 1 : p[k] = IF k <= Len(out[w]) THEN out[w][k] ELSE Torn
  <2>1. out[w] \in Seq(V!Reply \cup {Torn}) /\ Torn \in V!Reply \cup {Torn}
    BY DEF VectorInv, VectorTypes
  <2>2. QED
    BY <2>1, AppendMakes
<1> HIDE DEF p
<1>3. \A v \in V!Workers : out'[v] = out[v] \/ (v = w /\ out'[v] = p)
  BY DEF VectorInv, VectorTypes, p
<1>4. \A v \in V!Workers : \A k \in DOMAIN out'[v] :
        out'[v][k] # Torn => k \in DOMAIN out[v] /\ out'[v][k] = out[v][k]
  <2> SUFFICES ASSUME NEW v \in V!Workers, NEW k \in DOMAIN out'[v], out'[v][k] # Torn
               PROVE  k \in DOMAIN out[v] /\ out'[v][k] = out[v][k]
    OBVIOUS
  <2>1. CASE out'[v] = out[v]
    BY <2>1
  <2>2. CASE v = w /\ out'[v] = p
    <3>1. k \in 1 .. Len(out[w]) + 1 /\ k <= Len(out[w])
      BY <1>2, <2>2
    <3>2. QED
      BY <1>2, <2>2, <3>1
  <2>3. QED
    BY <1>3, <2>1, <2>2
<1>5. VectorTypes'
  <2>1. up' \in [V!Workers -> BOOLEAN]
    BY DEF VectorInv, VectorTypes
  <2>2. out' \in [V!Workers -> Seq(V!Reply \cup {Torn})]
    <3>1. CASE out' = out
      BY <3>1 DEF VectorInv, VectorTypes
    <3>2. CASE out' = [out EXCEPT ![w] = p]
      BY <1>2, <3>2 DEF VectorInv, VectorTypes
    <3>3. QED
      BY <3>1, <3>2 DEF p
  <2>3. inbox' \in [V!Games -> Seq(V!Message)]
    <3>1. <<>> \in Seq(V!Message)
      OBVIOUS
    <3>2. QED
      BY <3>1 DEF VectorInv, VectorTypes
  <2>4. QED
    BY <1>1, <2>1, <2>2, <2>3 DEF VectorInv, VectorTypes, V!config, V!host, V!history
<1>6. PlaceInv'
  <2>1. \A i \in V!Games : \A k \in DOMAIN inbox'[i] : inbox'[i][k].game = i
    <3>1. DOMAIN <<>> = {}
      OBVIOUS
    <3>2. QED
      BY <3>1 DEF VectorInv, PlaceInv
  <2>2. \A v \in V!Workers : \A k \in DOMAIN out'[v] :
          out'[v][k] # Torn => V!Where(out'[v][k].game) = v /\ out'[v][k].kind # "exited"
    BY <1>4 DEF VectorInv, PlaceInv
  <2>3. \A i \in V!Games : ~up'[V!Where(i)] => inbox'[i] = <<>>
    BY GamesHaveWorkers DEF VectorInv, VectorTypes, PlaceInv
  <2>4. \A v \in V!Workers : drain'[v] # "reads" => ~up'[v] /\ out'[v] = <<>>
    BY <1>3 DEF VectorInv, VectorTypes, PlaceInv
  <2>5. QED
    BY <1>1, <2>1, <2>2, <2>3, <2>4 DEF PlaceInv
<1>7. EndInv' /\ \A i : AnswersTo(i)' = AnswersTo(i)
  BY <1>1 DEF VectorInv, EndInv, AnswersTo, V!host
<1>8. ASSUME ~mixed', NEW i \in V!Games
      PROVE  AwayOf(i)' /\ SentOf(i)'
  <2>1. AwayOf(i) /\ SentOf(i)
    BY <1>1, <1>8 DEF VectorInv, TrafficInv
  <2>2. V!Where(i) \in V!Workers
    BY GamesHaveWorkers
  <2>3. \A k \in WrittenFor(i)' : k \in WrittenFor(i) /\ out'[V!Where(i)][k] = out[V!Where(i)][k]
    BY <1>1, <1>4, <2>2 DEF WrittenFor
  <2>4. inbox'[i] = <<>> \/ inbox'[i] = inbox[i]
    OBVIOUS
  <2>5. Len(inbox'[i]) <= 1
    <3>1. CASE inbox'[i] = <<>>
      BY <3>1
    <3>2. QED
      BY <2>1, <2>4, <3>1 DEF AwayOf
  <2>6. AwayOf(i)'
    BY <1>1, <1>7, <2>1, <2>3, <2>4, <2>5 DEF AwayOf
  <2>7. \A k \in DOMAIN inbox'[i] : k \in DOMAIN inbox[i] /\ inbox'[i][k] = inbox[i][k]
    <3>1. CASE inbox'[i] = <<>>
      BY <3>1
    <3>2. QED
      BY <2>4, <3>1
  <2>8. replies' = replies
    BY DEF V!host
  <2>9. SentOf(i)'
    BY <1>1, <1>7, <2>1, <2>3, <2>7, <2>8 DEF SentOf, Current
  <2>10. QED
    BY <2>6, <2>9
<1>9. QED
  BY <1>1, <1>5, <1>6, <1>7, <1>8 DEF VectorInv, TrafficInv

(* Close's kill, a death, and an exit at the end of the input.             *)
LEMMA StopsKeep ==
  ASSUME V!ConstantsAssumption, VectorInv, NEW w \in V!Workers, V!Kill(w) \/ V!Dies(w) \/ V!Exits(w)
  PROVE  VectorInv'
<1>1. CASE V!Kill(w)
  BY <1>1, StopKeeps DEF V!Kill
<1>2. CASE V!Dies(w)
  <2>1. out' = out \/ out' = [out EXCEPT ![w] = Append(out[w], Torn)]
    BY <1>2 DEF V!Dies
  <2>2. QED
    BY <1>2, <2>1, StopKeeps DEF V!Dies
<1>3. CASE V!Exits(w)
  <2> DEFINE r == [i \in V!Games |-> IF V!Where(i) = w THEN <<>> ELSE inbox[i]]
  <2>1. inbox \in [V!Games -> Seq(V!Message)]
    BY DEF VectorInv, VectorTypes
  <2>2. \A i \in V!Games : r[i] = inbox[i]
    BY <1>3 DEF V!Exits, V!Group
  <2>3. r = inbox
    BY <2>1, <2>2
  <2>4. inbox' = r
    BY <1>3, <2>3 DEF V!Exits
  <2>5. QED
    BY <1>3, <2>4, StopKeeps DEF V!Exits
<1>4. QED
  BY <1>1, <1>2, <1>3

(* A game's thread answers its message: what was in the mailbox is in the  *)
(* pipe.                                                                   *)
LEMMA ServeKeeps ==
  ASSUME V!ConstantsAssumption, VectorInv, NEW i \in V!Games, NEW ok \in BOOLEAN, V!Serve(i, ok)
  PROVE  VectorInv'
<1> DEFINE w == V!Where(i)
           m == inbox[i][1]
           a == V!Answer(m, ok)
           p == Append(out[w], a)
<1>1. /\ CallInv' /\ V!Games' = V!Games /\ V!Workers' = V!Workers
      /\ \A j : V!Where(j)' = V!Where(j) /\ Due(j)' = Due(j)
      /\ busy' = busy /\ asked' = asked /\ mixed' = mixed
  BY CallStays DEF V!Serve, V!host
<1>2. /\ replies' = replies /\ UNCHANGED <<V!config, call, lost>> /\ up' = up /\ drain' = drain /\ up[w] /\ w \in V!Workers
  BY GamesHaveWorkers DEF V!Serve, V!host, V!history
<1>3. /\ Tail(inbox[i]) \in Seq(V!Message) /\ m \in V!Message /\ 1 \in DOMAIN inbox[i] /\ Head(inbox[i]) = m
      /\ DOMAIN inbox[i] = 1 .. Len(inbox[i]) /\ Len(inbox[i]) \in Nat
      /\ DOMAIN Tail(inbox[i]) = 1 .. Len(inbox[i]) - 1
      /\ \A j \in 1 .. Len(inbox[i]) - 1 : Tail(inbox[i])[j] = inbox[i][j + 1]
  <2>1. inbox[i] \in Seq(V!Message) /\ inbox[i] # <<>>
    BY DEF VectorInv, VectorTypes, V!Serve
  <2>2. QED
    BY <2>1, TailMakes
<1>4. m.game = i
  BY <1>3 DEF VectorInv, PlaceInv
<1>5. /\ a \in V!Reply /\ a # Torn /\ a.game = i /\ a.number = m.number /\ a.kind = m.kind /\ a.kind # "exited"
  <2>1. /\ a \in V!Reply /\ a.game = i /\ a.number = m.number /\ a.kind = m.kind /\ a.kind # "exited"
    BY <1>3, <1>4 DEF V!Answer, V!Message, V!Reply, V!Kinds
  <2>2. QED
    BY <2>1 DEF V!ConstantsAssumption
<1>6. inbox' = [inbox EXCEPT ![i] = Tail(inbox[i])] /\ out' = [out EXCEPT ![w] = p]
  BY <1>3 DEF V!Serve
<1> HIDE DEF a, m
<1>7. /\ p \in Seq(V!Reply \cup {Torn}) /\ DOMAIN p = 1 .. Len(out[w]) + 1 /\ DOMAIN out[w] = 1 .. Len(out[w])
      /\ Len(out[w]) \in Nat
      /\ \A k \in 1 .. Len(out[w]) + 1 : p[k] = IF k <= Len(out[w]) THEN out[w][k] ELSE a
  <2>1. out[w] \in Seq(V!Reply \cup {Torn}) /\ a \in V!Reply \cup {Torn}
    BY <1>2, <1>5 DEF VectorInv, VectorTypes
  <2>2. QED
    BY <2>1, AppendMakes
<1> HIDE DEF p, w
<1>8. /\ \A v \in V!Workers : out'[v] = IF v = w THEN p ELSE out[v]
      /\ \A j \in V!Games : inbox'[j] = IF j = i THEN Tail(inbox[i]) ELSE inbox[j]
  BY <1>6 DEF VectorInv, VectorTypes
<1>9. VectorTypes'
  <2>1. out' \in [V!Workers -> Seq(V!Reply \cup {Torn})] /\ inbox' \in [V!Games -> Seq(V!Message)]
    BY <1>3, <1>6, <1>7 DEF VectorInv, VectorTypes
  <2>2. QED
    BY <1>1, <1>2, <2>1 DEF VectorInv, VectorTypes, V!config
<1>10. PlaceInv'
  <2>1. \A j \in V!Games : \A k \in DOMAIN inbox'[j] : inbox'[j][k].game = j
    <3>1. \A k \in DOMAIN inbox[i] : inbox[i][k].game = i
      BY DEF VectorInv, PlaceInv
    <3>2. \A k \in 1 .. Len(inbox[i]) - 1 : Tail(inbox[i])[k].game = i
      BY <1>3, <3>1
    <3>3. \A k \in DOMAIN inbox'[i] : inbox'[i][k].game = i
      BY <1>3, <1>8, <3>2
    <3>4. \A j \in V!Games \ {i} : \A k \in DOMAIN inbox'[j] : inbox'[j][k].game = j
      BY <1>8 DEF VectorInv, PlaceInv
    <3>5. QED
      BY <3>3, <3>4
  <2>2. ASSUME NEW v \in V!Workers, NEW k \in DOMAIN out'[v], out'[v][k] # Torn
        PROVE  V!Where(out'[v][k].game) = v /\ out'[v][k].kind # "exited"
    <3>1. CASE v # w
      BY <1>8, <2>2, <3>1 DEF VectorInv, PlaceInv
    <3>2. CASE v = w /\ k <= Len(out[w])
      <4>1. k \in DOMAIN out[w] /\ out'[v][k] = out[w][k]
        BY <1>7, <1>8, <2>2, <3>2
      <4>2. QED
        BY <2>2, <3>2, <4>1 DEF VectorInv, PlaceInv
    <3>3. CASE v = w /\ ~(k <= Len(out[w]))
      <4>1. out'[v][k] = a
        BY <1>7, <1>8, <2>2, <3>3
      <4>2. QED
        BY <1>5, <3>3, <4>1 DEF w
    <3>4. QED
      BY <3>1, <3>2, <3>3
  <2>3. \A j \in V!Games : ~up'[V!Where(j)] => inbox'[j] = <<>>
    BY <1>2, <1>8 DEF VectorInv, PlaceInv, w
  <2>4. \A v \in V!Workers : drain'[v] # "reads" => ~up'[v] /\ out'[v] = <<>>
    BY <1>2, <1>8 DEF VectorInv, PlaceInv
  <2>5. QED
    BY <1>1, <2>1, <2>2, <2>3, <2>4 DEF PlaceInv
<1>11. EndInv' /\ \A j : AnswersTo(j)' = AnswersTo(j)
  BY <1>1, <1>2 DEF VectorInv, EndInv, AnswersTo
<1>12. ASSUME ~mixed', NEW j \in V!Games
       PROVE  AwayOf(j)' /\ SentOf(j)'
  <2>1. AwayOf(j) /\ SentOf(j)
    BY <1>1, <1>12 DEF VectorInv, TrafficInv
  <2>2. CASE j = i
    <3>1. AnswersTo(i) = {} /\ WrittenFor(i) = {} /\ Len(inbox[i]) = 1 /\ i \in busy
      <4>0. inbox[i] # <<>>
        BY DEF V!Serve
      <4>1. Len(inbox[i]) >= 1
        BY <1>3
      <4>2. Len(inbox[i]) <= 1 /\ Len(inbox[i]) \in Nat
        BY <1>3, <2>1, <2>2 DEF AwayOf
      <4>3. QED
        <5>1. Len(inbox[i]) = 1
          <6> DEFINE n == Len(inbox[i])
          <6>1. n >= 1 /\ n <= 1 /\ n \in Nat
            BY <4>1, <4>2
          <6> HIDE DEF n
          <6>2. n = 1
            BY <6>1
          <6>3. QED
            BY <6>2 DEF n
        <5>2. QED
          BY <2>1, <2>2, <4>0, <5>1 DEF AwayOf
    <3>2. DOMAIN inbox'[i] = {} /\ inbox'[i] = <<>> /\ Len(inbox'[i]) = 0
      <4>1. Tail(inbox[i]) = <<>>
        BY <1>3, <3>1
      <4>2. DOMAIN <<>> = {} /\ Len(<<>>) = 0
        OBVIOUS
      <4>3. QED
        BY <1>8, <4>1, <4>2
    <3>3. m.number = asked[i] /\ m.kind = Due(i)
      BY <1>3, <2>1, <2>2 DEF SentOf, Current, m
    <3>4. \A k \in WrittenFor(i)' : k = Len(out[w]) + 1 /\ out'[w][k] = a
      <4> SUFFICES ASSUME NEW k \in DOMAIN out'[w], out'[w][k] # Torn, out'[w][k].game = i
                   PROVE  k = Len(out[w]) + 1 /\ out'[w][k] = a
        BY <1>1 DEF WrittenFor, w
      <4>1. k \in 1 .. Len(out[w]) + 1 /\ out'[w] = p
        BY <1>2, <1>7, <1>8
      <4>2. CASE k <= Len(out[w])
        <5>1. k \in DOMAIN out[w] /\ out[w][k] = out'[w][k]
          BY <1>7, <4>1, <4>2
        <5>2. k \in WrittenFor(i)
          BY <5>1 DEF WrittenFor, w
        <5>3. QED
          BY <3>1, <5>2
      <4>3. CASE ~(k <= Len(out[w]))
        BY <1>7, <4>1, <4>3
      <4>4. QED
        BY <4>2, <4>3
    <3>5. AwayOf(i)'
      BY <1>1, <1>11, <3>1, <3>2, <3>4 DEF AwayOf
    <3>6. SentOf(i)'
      <4>1. \A k \in WrittenFor(i)' : out'[w][k].number = asked[i] /\ out'[w][k].kind = Due(i)
        BY <1>5, <3>3, <3>4
      <4>2. QED
        BY <1>1, <1>11, <3>1, <3>2, <4>1 DEF SentOf, Current, w
    <3>7. QED
      BY <2>2, <3>5, <3>6
  <2>3. CASE j # i
    <3> DEFINE f == [k \in DOMAIN replies |-> k]
               g == [k \in DOMAIN out[V!Where(j)] |-> k]
    <3>1. \A k \in AnswersTo(j) : f[k] = k
      BY DEF AnswersTo
    <3>2. \A k \in WrittenFor(j) : g[k] = k
      BY DEF WrittenFor
    <3> HIDE DEF f, g
    <3>3. \A k \in AnswersTo(j)' :
            f[k] \in AnswersTo(j) /\ replies'[k] = replies[f[k]] /\ \A n \in AnswersTo(j)' : f[n] = f[k] => n = k
      BY <1>2, <1>11, <3>1
    <3>4. \A k \in WrittenFor(j)' : k \in WrittenFor(j) /\ out'[V!Where(j)][k] = out[V!Where(j)][k]
      <4> SUFFICES ASSUME NEW k \in DOMAIN out'[V!Where(j)], out'[V!Where(j)][k] # Torn, out'[V!Where(j)][k].game = j
                   PROVE  k \in DOMAIN out[V!Where(j)] /\ out'[V!Where(j)][k] = out[V!Where(j)][k]
        BY <1>1 DEF WrittenFor
      <4>1. CASE V!Where(j) # w
        BY <1>8, <4>1, GamesHaveWorkers
      <4>2. CASE V!Where(j) = w
        <5>1. k \in 1 .. Len(out[w]) + 1 /\ out'[w] = p
          BY <1>2, <1>7, <1>8, <4>2
        <5>2. k <= Len(out[w])
          BY <1>5, <1>7, <2>3, <4>2, <5>1
        <5>3. QED
          BY <1>7, <4>2, <5>1, <5>2
      <4>3. QED
        BY <4>1, <4>2
    <3>5. \A k \in WrittenFor(j)' :
            /\ g[k] \in WrittenFor(j) /\ out'[V!Where(j)'][k] = out[V!Where(j)][g[k]]
            /\ \A n \in WrittenFor(j)' : g[n] = g[k] => n = k
      BY <1>1, <3>2, <3>4
    <3>6. inbox'[j] = inbox[j] /\ asked'[j] = asked[j] /\ (j \in busy' <=> j \in busy)
      BY <1>1, <1>8, <2>3
    <3>7. QED
      BY <1>1, <2>1, <3>3, <3>5, <3>6, GameStays
  <2>4. QED
    BY <2>2, <2>3
<1>13. QED
  BY <1>1, <1>9, <1>10, <1>11, <1>12 DEF VectorInv, TrafficInv

(* A drain thread: what was first in the pipe is the host's last reply.    *)
LEMMA DrainKeeps ==
  ASSUME V!ConstantsAssumption, VectorInv, NEW w \in V!Workers, V!Drain(w)
  PROVE  VectorInv'
<1> DEFINE r == out[w][1]
           p == Append(replies, r)
           t == Tail(out[w])
<1>1. /\ CallInv' /\ V!Games' = V!Games /\ V!Workers' = V!Workers
      /\ \A j : V!Where(j)' = V!Where(j) /\ Due(j)' = Due(j)
      /\ busy' = busy /\ asked' = asked /\ mixed' = mixed
  BY CallStays DEF V!Drain
<1>2. /\ UNCHANGED <<V!config, call, lost>> /\ up' = up /\ drain' = drain /\ inbox' = inbox /\ drain[w] = "reads"
  BY DEF V!Drain, V!history
<1>3. /\ t \in Seq(V!Reply \cup {Torn}) /\ r \in V!Reply \cup {Torn} /\ 1 \in DOMAIN out[w] /\ Head(out[w]) = r
      /\ DOMAIN out[w] = 1 .. Len(out[w]) /\ Len(out[w]) \in Nat
      /\ DOMAIN t = 1 .. Len(out[w]) - 1
      /\ \A j \in 1 .. Len(out[w]) - 1 : t[j] = out[w][j + 1]
  <2>1. out[w] \in Seq(V!Reply \cup {Torn}) /\ out[w] # <<>>
    BY DEF VectorInv, VectorTypes, V!Drain
  <2>2. QED
    BY <2>1, TailMakes
<1>4. r # Torn /\ r \in V!Reply /\ V!Where(r.game) = w /\ r.kind # "exited" /\ r.game \in V!Games
  <2>1. r # Torn
    BY <1>3 DEF V!Drain
  <2>2. V!Where(r.game) = w /\ r.kind # "exited"
    BY <1>3, <2>1 DEF VectorInv, PlaceInv
  <2>3. r \in V!Reply
    BY <1>3, <2>1
  <2>4. r.game \in V!Games
    BY <2>3 DEF V!Reply
  <2>5. QED
    BY <2>1, <2>2, <2>3, <2>4
<1>5. replies' = p /\ out' = [out EXCEPT ![w] = t]
  BY <1>3 DEF V!Drain
<1> HIDE DEF r
<1>6. /\ p \in Seq(V!Reply) /\ DOMAIN p = 1 .. Len(replies) + 1 /\ DOMAIN replies = 1 .. Len(replies)
      /\ Len(replies) \in Nat
      /\ \A k \in 1 .. Len(replies) + 1 : p[k] = IF k <= Len(replies) THEN replies[k] ELSE r
  <2>1. replies \in Seq(V!Reply)
    BY DEF VectorInv, VectorTypes
  <2>2. QED
    BY <1>4, <2>1, AppendMakes
<1> HIDE DEF p, t
<1>7. \A v \in V!Workers : out'[v] = IF v = w THEN t ELSE out[v]
  BY <1>5 DEF VectorInv, VectorTypes
<1>8. VectorTypes'
  <2>1. out' \in [V!Workers -> Seq(V!Reply \cup {Torn})]
    BY <1>3, <1>5 DEF VectorInv, VectorTypes
  <2>2. replies' \in Seq(V!Reply)
    BY <1>5, <1>6
  <2>3. QED
    BY <1>1, <1>2, <2>1, <2>2 DEF VectorInv, VectorTypes, V!config
<1>9. PlaceInv'
  <2>1. ASSUME NEW v \in V!Workers, NEW k \in DOMAIN out'[v], out'[v][k] # Torn
        PROVE  V!Where(out'[v][k].game) = v /\ out'[v][k].kind # "exited"
    <3>1. CASE v # w
      BY <1>7, <2>1, <3>1 DEF VectorInv, PlaceInv
    <3>2. CASE v = w
      <4>1. k + 1 \in DOMAIN out[w] /\ out'[v][k] = out[w][k + 1]
        <5>1. out'[v] = t /\ k \in 1 .. Len(out[w]) - 1
          BY <1>3, <1>7, <2>1, <3>2
        <5>2. t[k] = out[w][k + 1]
          BY <1>3, <5>1
        <5>3. Len(out[w]) \in Nat /\ DOMAIN out[w] = 1 .. Len(out[w])
          BY <1>3
        <5>4. k + 1 \in 1 .. Len(out[w])
          BY <5>1, <5>3
        <5>5. QED
          BY <5>1, <5>2, <5>3, <5>4
      <4>2. QED
        BY <2>1, <3>2, <4>1 DEF VectorInv, PlaceInv
    <3>3. QED
      BY <3>1, <3>2
  <2>2. \A v \in V!Workers : drain'[v] # "reads" => ~up'[v] /\ out'[v] = <<>>
    BY <1>2, <1>7 DEF VectorInv, PlaceInv
  <2>3. QED
    BY <1>1, <1>2, <2>1, <2>2 DEF VectorInv, PlaceInv
<1>10. EndInv'
  <2> SUFFICES ASSUME NEW k \in 1 .. Len(replies) + 1, p[k].kind = "exited"
               PROVE  /\ drain[V!Where(p[k].game)] = "over"
                      /\ \A j \in 1 .. Len(replies) + 1 : j > k /\ p[j].game = p[k].game => p[j].kind = "exited"
    BY <1>1, <1>2, <1>5, <1>6 DEF EndInv
  <2>1. k \in DOMAIN replies /\ p[k] = replies[k]
    BY <1>4, <1>6
  <2>2. drain[V!Where(p[k].game)] = "over"
    BY <2>1 DEF VectorInv, EndInv
  <2>3. ASSUME NEW j \in 1 .. Len(replies) + 1, j > k, p[j].game = p[k].game
        PROVE  p[j].kind = "exited"
    <3>1. CASE j <= Len(replies)
      <4>1. j \in DOMAIN replies /\ p[j] = replies[j]
        BY <1>6, <3>1
      <4>2. QED
        BY <2>1, <2>3, <4>1 DEF VectorInv, EndInv
    <3>2. CASE ~(j <= Len(replies))
      <4>1. p[j] = r
        BY <1>6, <3>2
      <4>2. QED
        BY <1>2, <1>4, <2>2, <2>3, <4>1
    <3>3. QED
      BY <3>1, <3>2
  <2>4. QED
    BY <2>2, <2>3
<1>11. ASSUME ~mixed', NEW j \in V!Games
       PROVE  AwayOf(j)' /\ SentOf(j)'
  <2>1. AwayOf(j) /\ SentOf(j)
    BY <1>1, <1>11 DEF VectorInv, TrafficInv
  <2>2. ASSUME NEW k \in WrittenFor(j)'
        PROVE  \/ V!Where(j) # w /\ k \in WrittenFor(j) /\ out'[V!Where(j)][k] = out[V!Where(j)][k]
               \/ V!Where(j) = w /\ k + 1 \in WrittenFor(j) /\ out'[V!Where(j)][k] = out[V!Where(j)][k + 1]
    <3>1. /\ k \in DOMAIN out'[V!Where(j)] /\ out'[V!Where(j)][k] # Torn /\ out'[V!Where(j)][k].game = j
          /\ V!Where(j) \in V!Workers
      BY <1>1, <2>2, GamesHaveWorkers DEF WrittenFor
    <3>2. CASE V!Where(j) # w
      BY <1>7, <3>1, <3>2 DEF WrittenFor
    <3>3. CASE V!Where(j) = w
      <4>1. k + 1 \in DOMAIN out[w] /\ out'[w][k] = out[w][k + 1]
        <5>1. out'[w] = t /\ k \in 1 .. Len(out[w]) - 1
          BY <1>3, <1>7, <3>1, <3>3
        <5>2. t[k] = out[w][k + 1]
          BY <1>3, <5>1
        <5>3. Len(out[w]) \in Nat /\ DOMAIN out[w] = 1 .. Len(out[w])
          BY <1>3
        <5>4. k + 1 \in 1 .. Len(out[w])
          BY <5>1, <5>3
        <5>5. QED
          BY <5>1, <5>2, <5>3, <5>4
      <4>2. QED
        BY <3>1, <3>3, <4>1 DEF WrittenFor
    <3>4. QED
      BY <3>2, <3>3
  <2>3. \A k : k \in WrittenFor(j)' \/ k \in WrittenFor(j) => k \in Nat /\ k >= 1
    <3>1. out[V!Where(j)] \in Seq(V!Reply \cup {Torn}) /\ out'[V!Where(j)] \in Seq(V!Reply \cup {Torn})
      BY <1>1, <1>8, GamesHaveWorkers DEF VectorInv, VectorTypes
    <3>2. DOMAIN out[V!Where(j)] \subseteq Nat \ {0} /\ DOMAIN out'[V!Where(j)] \subseteq Nat \ {0}
      BY <3>1
    <3>3. QED
      BY <1>1, <3>2 DEF WrittenFor
  <2>4. CASE j = r.game
    <3>1. 1 \in WrittenFor(j)
      BY <1>3, <1>4, <2>4 DEF WrittenFor, r
    <3>2. AnswersTo(j) = {} /\ inbox[j] = <<>> /\ j \in busy /\ \A k \in WrittenFor(j) : k = 1
      BY <2>1, <3>1 DEF AwayOf
    <3>3. WrittenFor(j)' = {}
      <4> SUFFICES ASSUME NEW k \in WrittenFor(j)' PROVE FALSE
        OBVIOUS
      <4>1. k + 1 \in WrittenFor(j) /\ k \in Nat /\ k >= 1
        BY <1>4, <2>2, <2>3, <2>4
      <4>2. k + 1 = 1
        BY <3>2, <4>1
      <4>3. QED
        BY <4>1, <4>2
    <3>4. r.number = asked[j] /\ r.kind = Due(j)
      BY <1>4, <2>1, <2>4, <3>1 DEF SentOf, Current, r
    <3>5. \A k \in AnswersTo(j)' : k = Len(replies) + 1 /\ replies'[k] = r
      <4> SUFFICES ASSUME NEW k \in 1 .. Len(replies) + 1, p[k].kind # "exited", p[k].game = j
                   PROVE  k = Len(replies) + 1 /\ p[k] = r
        BY <1>5, <1>6 DEF AnswersTo
      <4>1. CASE k <= Len(replies)
        <5>1. k \in DOMAIN replies /\ p[k] = replies[k]
          BY <1>6, <4>1
        <5>2. k \in AnswersTo(j)
          BY <5>1 DEF AnswersTo
        <5>3. QED
          BY <3>2, <5>2
      <4>2. CASE ~(k <= Len(replies))
        BY <1>6, <4>2
      <4>3. QED
        BY <4>1, <4>2
    <3>6. AwayOf(j)'
      BY <1>1, <1>2, <2>1, <3>2, <3>3, <3>5 DEF AwayOf
    <3>7. DOMAIN inbox'[j] = {}
      BY <1>2, <3>2
    <3>8. SentOf(j)'
      BY <1>1, <3>3, <3>4, <3>5, <3>7 DEF SentOf, Current
    <3>9. QED
      BY <3>6, <3>8
  <2>5. CASE j # r.game
    <3> DEFINE f == [k \in DOMAIN replies |-> k]
               g == [k \in Nat |-> IF V!Where(j) = w THEN k + 1 ELSE k]
    <3>1. \A k \in AnswersTo(j) : f[k] = k
      BY DEF AnswersTo
    <3>2. \A k \in Nat : g[k] = IF V!Where(j) = w THEN k + 1 ELSE k
      OBVIOUS
    <3> HIDE DEF f, g
    <3>3. \A k \in AnswersTo(j)' : k \in AnswersTo(j) /\ replies'[k] = replies[k]
      <4> SUFFICES ASSUME NEW k \in 1 .. Len(replies) + 1, p[k].kind # "exited", p[k].game = j
                   PROVE  k \in AnswersTo(j) /\ p[k] = replies[k]
        BY <1>5, <1>6 DEF AnswersTo
      <4>1. k <= Len(replies)
        BY <1>6, <2>5
      <4>2. k \in DOMAIN replies /\ p[k] = replies[k]
        BY <1>6, <4>1
      <4>3. QED
        BY <4>2 DEF AnswersTo
    <3>4. \A k \in AnswersTo(j)' :
            f[k] \in AnswersTo(j) /\ replies'[k] = replies[f[k]] /\ \A n \in AnswersTo(j)' : f[n] = f[k] => n = k
      BY <3>1, <3>3
    <3>5. \A k, n \in Nat : g[k] = g[n] => k = n
      BY <3>2
    <3>6. \A k \in WrittenFor(j)' : k \in Nat /\ g[k] \in WrittenFor(j) /\ out'[V!Where(j)'][k] = out[V!Where(j)][g[k]]
      BY <1>1, <2>2, <2>3, <3>2
    <3>7. \A k \in WrittenFor(j)' :
            /\ g[k] \in WrittenFor(j) /\ out'[V!Where(j)'][k] = out[V!Where(j)][g[k]]
            /\ \A n \in WrittenFor(j)' : g[n] = g[k] => n = k
      BY <3>5, <3>6
    <3>8. inbox'[j] = inbox[j] /\ asked'[j] = asked[j] /\ (j \in busy' <=> j \in busy)
      BY <1>1, <1>2
    <3>9. QED
      BY <1>1, <2>1, <3>4, <3>7, <3>8, GameStays
  <2>6. QED
    BY <2>4, <2>5
<1>12. QED
  BY <1>1, <1>8, <1>9, <1>10, <1>11 DEF VectorInv, TrafficInv

(* Games in groups of g: the ones of group w.                              *)
LEMMA GroupFirst ==
  ASSUME NEW g \in Nat \ {0}, NEW i \in Nat
  PROVE  i \div g \in Nat /\ (i \div g) * g \in Nat /\ (i \div g) * g <= i /\ i < (i \div g) * g + g
OBVIOUS

LEMMA GroupMember ==
  ASSUME NEW g \in Nat \ {0}, NEW w \in Nat, NEW n \in 0 .. g - 1
  PROVE  (w * g + n) \div g = w
OBVIOUS

(* The end of a worker is told of its games, and of no other.              *)
LEMMA FailedMakes ==
  ASSUME V!ConstantsAssumption, groupSize \in GroupSizes, NEW w \in V!Workers
  PROVE  /\ V!FailedIn(w) \in Seq(V!Reply)
         /\ \A k \in 1 .. Len(V!FailedIn(w)) : V!FailedIn(w)[k].kind = "exited" /\ V!Where(V!FailedIn(w)[k].game) = w
<1> DEFINE first == w * groupSize
           size == IF first + groupSize <= NGames THEN groupSize ELSE NGames - first
<1>1. groupSize \in Nat \ {0} /\ NGames \in Nat
  BY DEF V!ConstantsAssumption
<1>2. PICK i \in V!Games : w = i \div groupSize
  BY DEF V!Workers, V!Where
<1>3. i \in Nat /\ i < NGames
  BY <1>1, <1>2 DEF V!Games
<1>4. w \in Nat /\ first \in Nat /\ first <= i
  BY <1>1, <1>2, <1>3, GroupFirst
<1> HIDE DEF first
<1>5. size \in Nat /\ size <= groupSize /\ first + size <= NGames
  BY <1>1, <1>3, <1>4
<1> HIDE DEF size
<1>6. ASSUME NEW n \in 1 .. size
      PROVE  first + n - 1 \in V!Games /\ V!Where(first + n - 1) = w
  <2>1. first + n - 1 \in V!Games
    BY <1>1, <1>4, <1>5 DEF V!Games
  <2>2. n - 1 \in 0 .. groupSize - 1
    BY <1>1, <1>5
  <2>3. (w * groupSize + (n - 1)) \div groupSize = w
    BY <1>1, <1>4, <2>2, GroupMember
  <2>4. first + n - 1 = w * groupSize + (n - 1)
    BY <1>1, <1>4, <1>5 DEF first
  <2>5. QED
    BY <2>1, <2>3, <2>4 DEF V!Where
<1>7. V!FailedIn(w) = [n \in 1 .. size |-> V!Exited(first + n - 1)]
  BY DEF V!FailedIn, first, size
<1>8. \A n \in 1 .. size : V!Exited(first + n - 1) \in V!Reply
  BY <1>6 DEF V!Exited, V!Reply
<1>9. V!FailedIn(w) \in Seq(V!Reply) /\ Len(V!FailedIn(w)) = size
  BY <1>5, <1>7, <1>8
<1>10. \A k \in 1 .. size : V!FailedIn(w)[k].kind = "exited" /\ V!Where(V!FailedIn(w)[k].game) = w
  BY <1>6, <1>7 DEF V!Exited
<1>11. QED
  BY <1>9, <1>10

(* The end of a worker's output: each reply it has written is in the host. *)
LEMMA DrainEndsKeeps ==
  ASSUME V!ConstantsAssumption, VectorInv, NEW w \in V!Workers, V!DrainEnds(w)
  PROVE  VectorInv'
<1> DEFINE e == V!FailedIn(w)
           p == replies \o e
<1>1. /\ CallInv' /\ V!Games' = V!Games /\ V!Workers' = V!Workers
      /\ \A j : V!Where(j)' = V!Where(j) /\ Due(j)' = Due(j)
      /\ busy' = busy /\ asked' = asked /\ mixed' = mixed
  BY CallStays DEF V!DrainEnds
<1>2. /\ UNCHANGED <<V!config, call, lost>> /\ up' = up /\ out' = out /\ inbox' = inbox
      /\ ~up[w] /\ out[w] = <<>>
  BY DEF V!DrainEnds, V!AtEnd, V!history
<1>3. replies' = p /\ drain' = [drain EXCEPT ![w] = "over"]
  BY DEF V!DrainEnds
<1>4. e \in Seq(V!Reply) /\ \A k \in 1 .. Len(e) : e[k].kind = "exited" /\ V!Where(e[k].game) = w
  BY FailedMakes DEF VectorInv, VectorTypes
<1>5. replies \in Seq(V!Reply)
  BY DEF VectorInv, VectorTypes
<1> HIDE DEF e
<1>6. /\ p \in Seq(V!Reply) /\ Len(p) = Len(replies) + Len(e) /\ Len(replies) \in Nat /\ Len(e) \in Nat
      /\ DOMAIN replies = 1 .. Len(replies) /\ DOMAIN p = 1 .. Len(p)
      /\ \A k \in 1 .. Len(replies) + Len(e) : p[k] = IF k <= Len(replies) THEN replies[k] ELSE e[k - Len(replies)]
  BY <1>4, <1>5, ConcatProperties
<1> HIDE DEF p
<1>7. ASSUME NEW k \in DOMAIN p
      PROVE  \/ k \in DOMAIN replies /\ p[k] = replies[k]
             \/ k > Len(replies) /\ p[k].kind = "exited" /\ V!Where(p[k].game) = w
  <2>1. CASE k <= Len(replies)
    BY <1>6, <2>1
  <2>2. CASE ~(k <= Len(replies))
    <3>1. k - Len(replies) \in 1 .. Len(e) /\ p[k] = e[k - Len(replies)] /\ k > Len(replies)
      BY <1>6, <2>2
    <3>2. QED
      BY <1>4, <3>1
  <2>3. QED
    BY <2>1, <2>2
<1>8. DOMAIN replies \subseteq DOMAIN p /\ \A k \in DOMAIN replies : p[k] = replies[k]
  BY <1>6
<1>9. \A v \in V!Workers : drain'[v] = IF v = w THEN "over" ELSE drain[v]
  BY <1>3 DEF VectorInv, VectorTypes
<1>10. VectorTypes'
  <2>1. drain' \in [V!Workers -> {"reads", "over", "failed"}] /\ replies' \in Seq(V!Reply)
    BY <1>3, <1>6 DEF VectorInv, VectorTypes
  <2>2. QED
    BY <1>1, <1>2, <2>1 DEF VectorInv, VectorTypes, V!config
<1>11. PlaceInv'
  BY <1>1, <1>2, <1>9 DEF VectorInv, PlaceInv
<1>12. EndInv'
  <2> SUFFICES ASSUME NEW k \in DOMAIN p, p[k].kind = "exited"
               PROVE  /\ drain'[V!Where(p[k].game)] = "over"
                      /\ \A j \in DOMAIN p : j > k /\ p[j].game = p[k].game => p[j].kind = "exited"
    BY <1>1, <1>3 DEF EndInv
  <2>1. V!Where(p[k].game) \in V!Workers
    <3>1. p[k].game \in V!Games
      <4>1. p[k] \in V!Reply
        BY <1>6
      <4>2. QED
        BY <4>1 DEF V!Reply
    <3>2. QED
      BY <3>1, GamesHaveWorkers
  <2>2. CASE k \in DOMAIN replies /\ p[k] = replies[k]
    <3>1. drain'[V!Where(p[k].game)] = "over"
      BY <1>9, <2>1, <2>2 DEF VectorInv, EndInv
    <3>2. ASSUME NEW j \in DOMAIN p, j > k, p[j].game = p[k].game
          PROVE  p[j].kind = "exited"
      <4>1. CASE j \in DOMAIN replies /\ p[j] = replies[j]
        BY <2>2, <3>2, <4>1 DEF VectorInv, EndInv
      <4>2. QED
        BY <1>7, <4>1
    <3>3. QED
      BY <3>1, <3>2
  <2>3. CASE k > Len(replies) /\ V!Where(p[k].game) = w
    <3>1. \A j \in DOMAIN p : j > k => p[j].kind = "exited"
      BY <1>6, <1>7, <2>3
    <3>2. QED
      BY <1>9, <2>1, <2>3, <3>1
  <2>4. QED
    BY <1>7, <2>2, <2>3
<1>13. \A j : AnswersTo(j)' = AnswersTo(j) /\ WrittenFor(j)' = WrittenFor(j)
  <2>1. \A j : WrittenFor(j)' = WrittenFor(j)
    BY <1>1, <1>2 DEF WrittenFor
  <2>2. ASSUME NEW j PROVE AnswersTo(j)' = AnswersTo(j)
    BY <1>3, <1>7, <1>8 DEF AnswersTo
  <2>3. QED
    BY <2>1, <2>2
<1>14. ASSUME ~mixed', NEW j \in V!Games
       PROVE  AwayOf(j)' /\ SentOf(j)'
  <2>1. AwayOf(j) /\ SentOf(j)
    BY <1>1, <1>14 DEF VectorInv, TrafficInv
  <2>2. \A k \in AnswersTo(j) : replies'[k] = replies[k]
    BY <1>3, <1>8 DEF AnswersTo
  <2>3. AwayOf(j)'
    BY <1>1, <1>2, <1>13, <2>1 DEF AwayOf
  <2>4. SentOf(j)'
    BY <1>1, <1>2, <1>13, <2>1, <2>2 DEF SentOf, Current
  <2>5. QED
    BY <2>3, <2>4
<1>15. QED
  BY <1>1, <1>10, <1>11, <1>12, <1>14 DEF VectorInv, TrafficInv

(* A drain thread that fails: what its worker had written is lost.         *)
LEMMA DrainFailsKeeps ==
  ASSUME V!ConstantsAssumption, VectorInv, NEW w \in V!Workers, V!DrainFails(w)
  PROVE  VectorInv'
<1>1. /\ CallInv' /\ V!Games' = V!Games /\ V!Workers' = V!Workers
      /\ \A j : V!Where(j)' = V!Where(j) /\ Due(j)' = Due(j)
      /\ busy' = busy /\ asked' = asked /\ mixed' = mixed
  BY CallStays DEF V!DrainFails, V!host
<1>2. /\ UNCHANGED <<V!config, call, lost>> /\ up' = up /\ inbox' = inbox /\ replies' = replies
      /\ ~up[w] /\ drain[w] = "reads"
  BY DEF V!DrainFails, V!host, V!history
<1>3. \A v \in V!Workers : /\ drain'[v] = IF v = w THEN "failed" ELSE drain[v]
                         /\ out'[v] = IF v = w THEN <<>> ELSE out[v]
  BY DEF VectorInv, VectorTypes, V!DrainFails
<1>4. VectorTypes'
  <2>1. <<>> \in Seq(V!Reply \cup {Torn})
    OBVIOUS
  <2>2. drain' \in [V!Workers -> {"reads", "over", "failed"}] /\ out' \in [V!Workers -> Seq(V!Reply \cup {Torn})]
    BY <2>1 DEF VectorInv, VectorTypes, V!DrainFails
  <2>3. QED
    BY <1>1, <1>2, <2>2 DEF VectorInv, VectorTypes, V!config
<1>5. DOMAIN <<>> = {}
  OBVIOUS
<1>6. PlaceInv'
  <2>1. \A v \in V!Workers : \A k \in DOMAIN out'[v] :
          out'[v][k] # Torn => V!Where(out'[v][k].game) = v /\ out'[v][k].kind # "exited"
    BY <1>3, <1>5 DEF VectorInv, PlaceInv
  <2>2. \A v \in V!Workers : drain'[v] # "reads" => ~up'[v] /\ out'[v] = <<>>
    BY <1>2, <1>3 DEF VectorInv, PlaceInv
  <2>3. QED
    BY <1>1, <1>2, <2>1, <2>2 DEF VectorInv, PlaceInv
<1>7. EndInv'
  <2>1. \A k \in DOMAIN replies : replies[k].game \in V!Games
    <3>1. replies \in Seq(V!Reply)
      BY DEF VectorInv, VectorTypes
    <3>2. \A k \in DOMAIN replies : replies[k] \in V!Reply
      BY <3>1
    <3>3. QED
      BY <3>2 DEF V!Reply
  <2>2. \A k \in DOMAIN replies : V!Where(replies[k].game) \in V!Workers
    BY <2>1, GamesHaveWorkers
  <2>3. QED
    BY <1>1, <1>2, <1>3, <2>2 DEF VectorInv, EndInv
<1>8. ASSUME ~mixed', NEW j \in V!Games
      PROVE  AwayOf(j)' /\ SentOf(j)'
  <2>1. AwayOf(j) /\ SentOf(j)
    BY <1>1, <1>8 DEF VectorInv, TrafficInv
  <2>2. AnswersTo(j)' = AnswersTo(j)
    BY <1>2 DEF AnswersTo
  <2>3. \A k \in WrittenFor(j)' : k \in WrittenFor(j) /\ out'[V!Where(j)][k] = out[V!Where(j)][k]
    BY <1>1, <1>3, <1>5, GamesHaveWorkers DEF WrittenFor
  <2>4. AwayOf(j)'
    BY <1>1, <1>2, <2>1, <2>2, <2>3 DEF AwayOf
  <2>5. SentOf(j)'
    BY <1>1, <1>2, <2>1, <2>2, <2>3 DEF SentOf, Current
  <2>6. QED
    BY <2>4, <2>5
<1>9. QED
  BY <1>1, <1>4, <1>6, <1>7, <1>8 DEF VectorInv, TrafficInv

(* A reply that is picked: the game it is of has nothing else on its way.  *)
LEMMA TakeKeeps ==
  ASSUME V!ConstantsAssumption, VectorInv, NEW t \in DOMAIN replies, V!Take(t)
  PROVE  VectorInv'
<1> DEFINE r == replies[t]
           p == V!Without(t)
           more == r.ok /\ call.op = "take_all" /\ call.game + 1 \in V!Games
<1>1. /\ UNCHANGED V!config /\ UNCHANGED <<up, out, drain, inbox, asked, lost>>
      /\ V!Games' = V!Games /\ V!Workers' = V!Workers /\ \A j : V!Where(j)' = V!Where(j)
  BY WorkersStay DEF V!Take, V!workers, V!Games
<1>2. replies \in Seq(V!Reply) /\ call \in V!Call /\ busy \subseteq V!Games /\ mixed \in BOOLEAN
  BY DEF VectorInv, VectorTypes
<1>3. r \in V!Reply
  BY <1>2
<1>4. r.game \in V!Games
  BY <1>3 DEF V!Reply
<1>5. /\ V!Picked(t) /\ replies' = p /\ busy' = busy \ {r.game}
      /\ call' = IF more THEN [call EXCEPT !.game = call.game + 1] ELSE V!NoCall
      /\ mixed' = (mixed \/ (call.op = "take_all" /\ ~r.ok /\ busy' # {}))
  BY DEF V!Take
<1>6. /\ call.op \in {"recv", "take", "take_all"} /\ (call.op # "recv" => r.game = call.game)
      /\ \A j \in 1 .. t - 1 : replies[j].game # r.game
  BY <1>5 DEF V!Picked, V!Matches
<1>7. /\ p \in Seq(V!Reply) /\ DOMAIN p = 1 .. Len(replies) - 1 /\ DOMAIN replies = 1 .. Len(replies)
      /\ Len(replies) \in Nat /\ t \in 1 .. Len(replies)
      /\ \A j \in 1 .. Len(replies) - 1 : p[j] = replies[IF j < t THEN j ELSE j + 1]
  <2>1. /\ V!Without(t) \in Seq(V!Reply) /\ DOMAIN V!Without(t) = 1 .. Len(replies) - 1
        /\ \A j \in 1 .. Len(replies) - 1 : V!Without(t)[j] = replies[IF j < t THEN j ELSE j + 1]
    BY <1>2, WithoutMakes
  <2>2. DOMAIN replies = 1 .. Len(replies) /\ Len(replies) \in Nat /\ t \in 1 .. Len(replies)
    BY <1>2
  <2>3. QED
    BY <2>1, <2>2
<1> DEFINE f == [j \in Nat |-> IF j < t THEN j ELSE j + 1]
<1>8. /\ \A j \in DOMAIN p : f[j] \in DOMAIN replies /\ f[j] # t /\ p[j] = replies[f[j]]
      /\ \A j, n \in DOMAIN p : (j > n => f[j] > f[n]) /\ (f[j] = f[n] => j = n)
  <2> HIDE DEF p
  <2>1. \A j \in Nat : f[j] = IF j < t THEN j ELSE j + 1
    OBVIOUS
  <2> HIDE DEF f
  <2>2. ASSUME NEW j \in DOMAIN p
        PROVE  f[j] \in DOMAIN replies /\ f[j] # t /\ p[j] = replies[f[j]]
    <3>0. j \in Nat
      BY <1>7
    <3>1. j \in Nat /\ f[j] = IF j < t THEN j ELSE j + 1
      BY <2>1, <3>0
    <3>2. p[j] = replies[f[j]]
      BY <1>7, <3>1
    <3>3. QED
      BY <1>7, <3>1, <3>2
  <2>3. ASSUME NEW j \in DOMAIN p, NEW n \in DOMAIN p
        PROVE  (j > n => f[j] > f[n]) /\ (f[j] = f[n] => j = n)
    <3>1. j \in Nat /\ n \in Nat /\ t \in Nat
      BY <1>7
    <3>2. QED
      BY <2>1, <3>1
  <2>4. QED
    BY <2>2, <2>3
<1> HIDE DEF f, p, r, more
<1>9. V!NoCall \in V!Call /\ V!NoCall.op = "none"
  BY DEF V!ConstantsAssumption, V!NoCall, V!Call, V!Games, V!Kinds
<1>10. \/ /\ more /\ call'.op = "take_all" /\ call'.game = call.game + 1 /\ call'.kind = call.kind
          /\ call.op = "take_all" /\ call.game + 1 \in V!Games /\ r.ok
       \/ ~more /\ call' = V!NoCall /\ call'.op = "none"
  BY <1>2, <1>5, <1>9 DEF more, V!Call
<1>11. call' \in V!Call
  BY <1>2, <1>5, <1>9 DEF more, V!Call
<1>12. VectorTypes'
  <2>1. replies' \in Seq(V!Reply) /\ busy' \subseteq V!Games /\ mixed' \in BOOLEAN
    BY <1>2, <1>5, <1>7
  <2>2. QED
    BY <1>1, <1>11, <2>1, TypesStay DEF VectorInv
<1>13. PlaceInv'
  BY <1>1 DEF VectorInv, PlaceInv
<1>14. EndInv'
  <2> SUFFICES ASSUME NEW k \in DOMAIN p, p[k].kind = "exited"
               PROVE  /\ drain[V!Where(p[k].game)] = "over"
                      /\ \A j \in DOMAIN p : j > k /\ p[j].game = p[k].game => p[j].kind = "exited"
    BY <1>1, <1>5 DEF EndInv
  <2>1. f[k] \in DOMAIN replies /\ p[k] = replies[f[k]]
    BY <1>8
  <2>2. drain[V!Where(p[k].game)] = "over"
    BY <2>1 DEF VectorInv, EndInv
  <2>3. ASSUME NEW j \in DOMAIN p, j > k, p[j].game = p[k].game
        PROVE  p[j].kind = "exited"
    <3>1. f[j] \in DOMAIN replies /\ p[j] = replies[f[j]] /\ f[j] > f[k]
      BY <1>8, <2>3
    <3>2. QED
      BY <2>1, <2>3, <3>1 DEF VectorInv, EndInv
  <2>4. QED
    BY <2>2, <2>3
<1>15. ASSUME call.op = "take_all", ~mixed, NEW j \in V!Games
       PROVE  j \in busy <=> j >= call.game
  BY <1>15 DEF VectorInv, CallInv
<1>16. V!Games \subseteq Int /\ V!Games = 0 .. NGames - 1 /\ NGames \in Int /\ call.game \in V!Games
  BY <1>2 DEF V!ConstantsAssumption, V!Games, V!Call
<1>17. CallInv'
  <2>1. CASE more
    <3>1. call'.op = "take_all" /\ call'.kind = "reset" /\ call'.game = call.game + 1
      BY <1>10, <2>1 DEF VectorInv, CallInv
    <3>2. ASSUME ~mixed', NEW j \in V!Games
          PROVE  j \in busy' <=> j >= call.game + 1
      <4>1. j \in busy <=> j >= call.game
        BY <1>5, <1>10, <1>15, <2>1, <3>2
      <4>2. j \in busy' <=> j \in busy /\ j # call.game
        BY <1>5, <1>6, <1>10, <2>1
      <4>3. QED
        BY <1>16, <4>1, <4>2
    <3>3. QED
      BY <1>1, <3>1, <3>2 DEF CallInv
  <2>2. CASE ~more
    BY <1>10, <2>2 DEF CallInv
  <2>3. QED
    BY <2>1, <2>2
<1>18. ASSUME ~mixed', NEW j \in busy'
       PROVE  Due(j)' = Due(j)
  <2>1. ~mixed /\ j \in busy /\ j # r.game /\ j \in V!Games /\ ~(call.op = "take_all" /\ ~r.ok)
    BY <1>2, <1>5, <1>18
  <2>2. CASE call.op # "take_all"
    <3>1. call'.op = "none" /\ Due(j) = "step"
      BY <1>6, <1>10, <2>1, <2>2 DEF Due
    <3>2. QED
      BY <3>1 DEF Due
  <2>3. CASE call.op = "take_all"
    <3>1. j >= call.game /\ j # call.game
      BY <1>6, <1>15, <2>1, <2>3
    <3>2. call.game + 1 \in V!Games
      BY <1>16, <2>1, <3>1
    <3>3. more
      BY <2>1, <2>3, <3>2 DEF more
    <3>4. QED
      BY <1>10, <2>3, <3>3 DEF Due
  <2>4. QED
    BY <2>2, <2>3
<1>19. ASSUME ~mixed', NEW j \in V!Games
       PROVE  AwayOf(j)' /\ SentOf(j)'
  <2>1. AwayOf(j) /\ SentOf(j)
    BY <1>5, <1>19 DEF VectorInv, TrafficInv
  <2>2. \A k \in AnswersTo(j)' : k \in DOMAIN p /\ f[k] \in AnswersTo(j) /\ replies'[k] = replies[f[k]] /\ f[k] # t
    BY <1>5, <1>8 DEF AnswersTo
  <2>3. WrittenFor(j)' = WrittenFor(j)
    BY <1>1 DEF WrittenFor
  <2>4. CASE j = r.game
    <3>1. AnswersTo(j)' = {} /\ WrittenFor(j) = {} /\ inbox[j] = <<>>
      <4>1. CASE r.kind # "exited"
        <5>1. t \in AnswersTo(j)
          BY <2>4, <4>1 DEF AnswersTo, r
        <5>2. \A k \in AnswersTo(j) : k = t
          BY <2>1, <5>1 DEF AwayOf
        <5>3. QED
          BY <2>1, <2>2, <5>1, <5>2 DEF AwayOf
      <4>2. CASE r.kind = "exited"
        <5>1. /\ drain[V!Where(j)] = "over"
              /\ \A n \in DOMAIN replies : n > t /\ replies[n].game = j => replies[n].kind = "exited"
          BY <2>4, <4>2 DEF VectorInv, EndInv, r
        <5>2. ~up[V!Where(j)] /\ out[V!Where(j)] = <<>> /\ inbox[j] = <<>>
          BY <5>1, GamesHaveWorkers DEF VectorInv, PlaceInv
        <5>3. DOMAIN out[V!Where(j)] = {}
          BY <5>2
        <5>4. \A n \in AnswersTo(j) : n = t
          <6> SUFFICES ASSUME NEW n \in DOMAIN replies, replies[n].kind # "exited", replies[n].game = j
                       PROVE  n = t
            BY DEF AnswersTo
          <6>1. ~(n > t)
            BY <5>1
          <6>2. n \notin 1 .. t - 1
            BY <1>6, <2>4
          <6>3. QED
            BY <1>7, <6>1, <6>2
        <5>5. QED
          BY <2>2, <5>2, <5>3, <5>4 DEF WrittenFor
      <4>3. QED
        BY <4>1, <4>2
    <3>2. AwayOf(j)'
      BY <1>1, <2>1, <2>3, <3>1 DEF AwayOf
    <3>3. DOMAIN inbox'[j] = {}
      BY <1>1, <3>1
    <3>4. SentOf(j)'
      BY <2>3, <3>1, <3>3 DEF SentOf
    <3>5. QED
      BY <3>2, <3>4
  <2>5. CASE j # r.game
    <3> DEFINE g == [k \in DOMAIN out[V!Where(j)] |-> k]
    <3>1. \A k \in WrittenFor(j) : g[k] = k
      BY DEF WrittenFor
    <3> HIDE DEF g
    <3>2. \A k \in AnswersTo(j)' :
            f[k] \in AnswersTo(j) /\ replies'[k] = replies[f[k]] /\ \A n \in AnswersTo(j)' : f[n] = f[k] => n = k
      BY <1>8, <2>2
    <3>3. \A k \in WrittenFor(j)' :
            /\ g[k] \in WrittenFor(j) /\ out'[V!Where(j)'][k] = out[V!Where(j)][g[k]]
            /\ \A n \in WrittenFor(j)' : g[n] = g[k] => n = k
      BY <1>1, <2>3, <3>1
    <3>4. inbox'[j] = inbox[j] /\ asked'[j] = asked[j] /\ (j \in busy' <=> j \in busy)
      BY <1>1, <1>5, <2>5
    <3>5. j \in busy => Due(j)' = Due(j)
      BY <1>18, <1>19, <3>4
    <3>6. QED
      BY <2>1, <3>2, <3>3, <3>4, <3>5, GameStays
  <2>6. QED
    BY <2>4, <2>5
<1>20. QED
  BY <1>1, <1>12, <1>13, <1>14, <1>17, <1>19 DEF VectorInv, TrafficInv

LEMMA VectorInvInit ==
  ASSUME V!ConstantsAssumption, V!Init
  PROVE  VectorInv
<1>1. 0 \in V!Games /\ V!NoCall \in V!Call /\ V!NoCall.op = "none"
  BY DEF V!ConstantsAssumption, V!NoCall, V!Call, V!Games, V!Kinds
<1>2. <<>> \in Seq(V!Reply) /\ <<>> \in Seq(V!Message) /\ <<>> \in Seq(V!Reply \cup {Torn}) /\ DOMAIN <<>> = {} /\ Len(<<>>) = 0
  OBVIOUS
<1>3. VectorTypes
  <2>1. replies \in Seq(V!Reply) /\ inbox \in [V!Games -> Seq(V!Message)] /\ out \in [V!Workers -> Seq(V!Reply \cup {Torn})]
    BY <1>2 DEF V!Init
  <2>2. asked \in [V!Games -> 0 .. MaxAsked]
    BY DEF V!ConstantsAssumption, V!Init
  <2>3. QED
    BY <1>1, <2>1, <2>2 DEF V!Init, VectorTypes
<1>4. \A i \in V!Games : inbox[i] = <<>> /\ out[V!Where(i)] = <<>>
  BY GamesHaveWorkers DEF V!Init
<1>5. PlaceInv /\ EndInv /\ CallInv
  BY <1>1, <1>2, GamesHaveWorkers DEF V!Init, PlaceInv, EndInv, CallInv
<1>6. \A i \in V!Games : AnswersTo(i) = {} /\ WrittenFor(i) = {} /\ inbox[i] = <<>> /\ DOMAIN inbox[i] = {} /\ Len(inbox[i]) <= 1
  BY <1>2, <1>4 DEF V!Init, AnswersTo, WrittenFor
<1>7. TrafficInv
  BY <1>6 DEF TrafficInv, AwayOf, SentOf
<1>8. QED
  BY <1>3, <1>5, <1>7 DEF VectorInv

LEMMA VectorInvNext ==
  ASSUME V!ConstantsAssumption, VectorInv, [V!Next]_(V!vars)
  PROVE  VectorInv'
<1>1. CASE UNCHANGED V!vars
  <2>1. UNCHANGED <<V!config, busy, replies, V!workers, V!history>> /\ call' = call
    BY <1>1 DEF V!vars, V!host
  <2>2. CallInv'
    BY <2>1 DEF VectorInv, CallInv, V!history, V!Games
  <2>3. call' \in V!Call /\ \A j \in busy : Due(j)' = Due(j)
    BY <2>1 DEF VectorInv, VectorTypes, Due
  <2>4. QED
    BY <2>1, <2>2, <2>3, CallMoves
<1>2. ASSUME NEW i \in V!Games, V!Send(i) \/ V!Query(i) \/ V!ResetOne(i)
      PROVE  VectorInv'
  <2>1. CASE V!Send(i)
    BY <2>1, SendingKeeps
  <2>2. CASE V!Query(i)
    <3>1. V!SendAndTake(i, "query") /\ mixed' = (mixed \/ i \in busy) /\ "query" \in V!Kinds
      BY <2>2 DEF V!Query, V!Kinds, VectorInv, VectorTypes
    <3>2. QED
      BY <3>1, AskingKeeps
  <2>3. CASE V!ResetOne(i)
    <3>1. V!SendAndTake(i, "reset") /\ mixed' = (mixed \/ i \in busy) /\ "reset" \in V!Kinds
      BY <2>3 DEF V!ResetOne, V!Kinds
    <3>2. QED
      BY <3>1, AskingKeeps
  <2>4. QED
    BY <1>2, <2>1, <2>2, <2>3
<1>3. CASE V!Reset \/ V!Recv \/ V!Close \/ V!RecvNone
  BY <1>3, StartKeeps
<1>4. CASE V!ResetSend
  BY <1>4, ResetSendKeeps
<1>5. CASE V!TakeNext
  BY <1>5, TakeKeeps DEF V!TakeNext
<1>6. ASSUME NEW w \in V!Workers, V!DrainStep(w)
      PROVE  VectorInv'
  BY <1>6, DrainKeeps, DrainEndsKeeps, DrainFailsKeeps DEF V!DrainStep
<1>7. ASSUME NEW w \in V!Workers, V!Dies(w) \/ V!Exits(w) \/ V!Kill(w)
      PROVE  VectorInv'
  BY <1>7, StopsKeep
<1>8. ASSUME NEW i \in V!Games, V!ServeStep(i)
      PROVE  VectorInv'
  BY <1>8, ServeKeeps DEF V!ServeStep
<1>9. QED
  BY <1>1, <1>2, <1>3, <1>4, <1>5, <1>6, <1>7, <1>8 DEF V!Next, V!HostCall

(* A call takes the reply that answers it, and types.                      *)
LEMMA TakenAnswers ==
  ASSUME V!ConstantsAssumption, VectorInv
  PROVE  V!TypeOK /\ V!AnswersMatch
<1>1. V!TypeOK
  <2>1. call.game \in V!Games /\ call.game >= call.game
    BY DEF V!ConstantsAssumption, VectorInv, VectorTypes, V!Call, V!Games
  <2>2. call.op \in {"take", "take_all"} => mixed \/ call.game \in busy
    BY <2>1 DEF VectorInv, CallInv
  <2>3. call.op = "recv" => busy # {}
    BY DEF VectorInv, CallInv
  <2>4. VectorTypes
    BY DEF VectorInv
  <2>5. QED
    BY <2>2, <2>3, <2>4 DEF VectorTypes, V!TypeOK
<1>2. ASSUME ~mixed, NEW k \in DOMAIN replies, V!Picked(k), replies[k].kind # "exited"
      PROVE  V!Answers(replies[k])
  <2> DEFINE i == replies[k].game
  <2>1. i \in V!Games
    <3>1. replies[k] \in V!Reply
      BY DEF VectorInv, VectorTypes
    <3>2. QED
      BY <3>1 DEF V!Reply
  <2>2. AwayOf(i) /\ SentOf(i) /\ k \in AnswersTo(i)
    BY <1>2, <2>1 DEF VectorInv, TrafficInv, AnswersTo
  <2>3. i \in busy /\ replies[k].number = asked[i] /\ replies[k].kind = Due(i)
    BY <2>2 DEF AwayOf, SentOf, Current
  <2>4. call.op \in {"recv", "take", "take_all"} /\ (call.op # "recv" => i = call.game)
    BY <1>2 DEF V!Picked, V!Matches
  <2>5. Due(i) = IF call.op = "recv" THEN "step" ELSE call.kind
    BY <2>4 DEF Due, VectorInv, CallInv
  <2>6. QED
    BY <2>3, <2>5 DEF V!Answers
<1>3. QED
  BY <1>1, <1>2 DEF V!AnswersMatch, V!OwnAnswers

(* What is on its way for each game, and where, in every reachable state.  *)
THEOREM VectorInvariance == ASSUME V!ConstantsAssumption PROVE V!Spec => []VectorInv
<1>1. V!Init => VectorInv
  BY VectorInvInit
<1>2. VectorInv /\ [V!Next]_(V!vars) => VectorInv'
  BY VectorInvNext
<1>3. QED
  BY <1>1, <1>2, PTL DEF V!Spec

(* A call of VectorSession returns the answer to its own message,          *)
(* whichever games answer first and whatever workers die, until a reset    *)
(* meets or leaves a busy game; and the variables keep their types.        *)
THEOREM AnswersAreTheirOwn == ASSUME V!ConstantsAssumption PROVE V!Spec => [](V!TypeOK /\ V!AnswersMatch)
<1>1. VectorInv => V!TypeOK /\ V!AnswersMatch
  BY TakenAnswers
<1>2. QED
  BY <1>1, VectorInvariance, PTL
=============================================================================
