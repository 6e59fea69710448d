# wc3env, specified

TLA+ modules, TLC configurations and TLAPS proofs for wc3env: an environment
that lets programs and language models play Warcraft III (1.29.2) through a hook
DLL inside the game process.  `PROJECT.json` is the machine-readable index of what
follows: components, runs, mutants, the source lines behind every definition,
hazards, findings and theorems.

    tlc -workers 2 -config StepLoop.cfg MCStepLoop     # any run: cfg and MC module
    tlapm JobMailboxProofs.tla                         # any module with theorems

## 1. The system

```
 agent (wc3agent, Python)          environment (wc3env, Python)            game process (C hook)
 macro / micro players ──orders──▶ GameSession ──JSON RPC over pipe──▶ pipe thread ──mailbox──▶ game thread
 UnitControl versions  ◀──views─── RpcClient, Pipe, pools  ◀─replies──  transport.c   g_job_*     frames, turns
                                                                        clock.c: virtual time      host thread
```

Three layers with three kinds of concurrency.  Inside the game process a *pipe thread*
(one request at a time), the *game thread* (the frame loop, into which the hook is
patched) and the *host thread* (producing network turns) share unlocked globals, events
and one mailbox.  In Python, environments own processes that crash, hang and are
recycled, with `close()` arriving from other threads.  In the agent, model calls run in
worker threads and come back to a game that has moved on.

### Inventory

| part | state it keeps | operations | hard behaviour | what makes it correct |
|---|---|---|---|---|
| game-thread mailbox (`rpc.c`) | one slot: function, argument, pending, failed; `g_job_done`, `g_wake` | `run_on_game_thread`, `rpc_service_jobs` | timeout racing the start of a job whose argument is on the caller's stack; lost wakeups; reused signal | the job runs at most once and only while its caller waits |
| step lifecycle (`step.c`, handlers in `rpc.c`) | held/holding/stepping, target, published producer budget, result of every agent, status | create_game, step, reset, end of game, replay end, stall guard | three threads without locks; map reload; orders against turns; teardown inside a step | a step advances exactly what it was asked, and every episode starts at the same held instant |
| virtual clock (`clock.c`) | anchor under a seqlock, speed, freeze | freeze, speed, time hooks | readers take no lock | time is continuous and monotone |
| pipe server (`transport.c`) | buffer, pending write | connect, serve, overlapped write | client gone mid-reply, oversized line | whole requests, one reply to each, no client blocks the server |
| event rings (`events.c`) | rings, heads, cursors of observers | record, drain, clear | overflow under slow observers, unsigned wrap | every event is delivered once or counted as lost |
| order queue (`act.c`, `placement.c`) | record queue of each player, last selection, Shift-queued build sites | reserve, select, the kinds of action, flush, clear | records name no unit; refused actions; sites that outlive what they stand for | an order reaches its unit, once and in order; sites keep apart |
| players and setup (`players.c`, `setup.c`) | wire identities, start positions, seed | shuffle, resolve | slots that change on the wire | slots, colours and starts stay a permutation |
| allocator (`allocator.c`) | arenas | alloc, free, realloc | exhaustion, coalescing | blocks never overlap |
| game session (`session.py`) | process, tuning, fault, episode count, round lock, state lock | reset, step, debug, save_replay, close | failures after a request took effect; `close()` in the middle of a round; interruption | no process leaks, none is used after a failed operation |
| RPC client (`rpc.py`, `pipe.py`) | request id, buffer | call, close | a late reply after a timeout, end of stream | a call gets its own reply or an error |
| many games (`vector.py`) | `_busy`, `_waiting`, `_results`; a drain thread and a process for each worker | reset, reset_one, send, stage, debug, recv, close | replies of several games in one queue; workers that die in the middle of one | a call returns the answer to its own message, and the end of a worker is told |
| pools, relays (`pool.py`, `vector.py`) | workers, free list, relays | lend, relay, listen | workers that die while lent out | every worker is lent at most once and returned |
| agent control (`control.py`, `agent.py`) | groups and goals, deferred orders, version of each unit's commander, casts | delegate, take, touch, lose, release, the phases of an act | a late micro answer after macro took the unit | one commander for each unit; an answer is sent only for the version it was asked for |
| macro and micro players | conversations, outcomes, structure memory, calls in flight | ask, collect, follow up | answers out of order | one call in flight for each group and unit type; units are left alone after macro's casts |
| the rest | | observation builders, codecs, catalogues, launcher, front ends, HTTP clients, tools, yyjson | I/O and data conversion | not modelled, see section 6 |

Every one of these is listed under "components" in `PROJECT.json`, with its files and
status; the dangers met on the way are under "hazards", each at the line where it bites.

## 2. The modules

| module | models | kind |
|---|---|---|
| `GameThreadCall` | what a caller of `run_on_game_thread` may rely on | abstract specification |
| `JobMailbox` | `run_on_game_thread`, `rpc_service_jobs`, the pacing wait | detailed; implements `GameThreadCall` |
| `StepLoop` | hold, create_game, step, reset, ends of a game, turn producer | detailed; uses jobs as `GameThreadCall` promises |
| `ClockAnchor` | the seqlock of `clock.c`, speed, freeze, readers and waits | detailed |
| `UnitOrders` | what a client may rely on when its actions are accepted | abstract specification |
| `OrderQueue` | `act.c` from the actions of a batch to the packets, build sites | detailed; implements `UnitOrders` |
| `EventLog` | what a player is promised about events and orders | abstract specification |
| `EventRings` | `events.c`: rings, cursors, losses; the observations that consume them | detailed; implements `EventLog` |
| `RpcCall` | what a caller of `RpcClient.call` may rely on | abstract specification |
| `RpcChannel` | `rpc.py`, `pipe.py`, `transport.c` and the dispatch of `rpc.c` over a byte pipe | detailed; implements `RpcCall` |
| `GameSession` | `session.py`: rounds, faults, recycling, `close()` | detailed; its requests end as `RpcCall` lets them |
| `VectorSession` | `vector.py`: a session of many games, its drain threads, its workers | detailed |
| `AgentControl` | `control.py` and what macro, micro and the act do to it | detailed |
| `*Proofs` (`JobMailbox`, `StepLoop`, `ClockAnchor`, `OrderQueue`, `EventRings`, `RpcChannel`, `GameSession` with `VectorSession`, `AgentControl`) | theorems for every value of the constants | TLAPS |
| `MC*` | model values and symmetry of each component | TLC |

A definition named after another one and a slip in it (`VerdictEarly`, `SelectingMore`,
`MatchesAny`) is not part of any specification.  It is a plausible bug; `PROJECT.json`
pairs each property with one that it detects.

### JobMailbox

Each read or write of a shared word, event or lock in the two C functions is an action:
the caller goes `enter → reset → fill → post → wake → wait` and leaves through
`Signalled`, or through `Timeout`, `Withdraw` (the compare-and-swap 1 → 0) and perhaps
`WaitedOut`; the game thread takes the job (`TakeJob`, compare-and-swap 1 → 2), runs it
to an end or a fault, clears the word and sets the event.  It does so at three *sites*:
in a frame, just before the pacing wait, and after `g_wake` has ended that wait.  At the
last two it must know the frame's TLS table (`tls`); a restart forgets it.  The
argument is named by its caller, since it lives on the caller's stack.  `outcome`
records, as history, what became of each caller's job.  The code has one caller
thread today, but is guarded by `g_job_lock` for more: the run has two.

`GameThreadCall` is the promise: a call is run at most once, by one thread, between
being made and being answered, and "true" means that it ran to its end.  The mapping
reads the stage of a call off `pc`, `game`, `arg` and `outcome`.

### StepLoop

Time is counted in network turns (25 ms).  `pipe` is the position of the pipe thread in
`m_step`, `m_reset` or `m_create_game`, `gt` that of the game thread in one pass of the
frame loop, `host` that of the host thread in `TurnProducer_hook`/`TurnTime_hook`.  Every
global the three share is a variable of the same name: `stepping` is `g_stepping`,
`produceTarget` is `g_produce_target`, and so on; the comments at the declarations give
the names.  An action covers the statements between two points where another thread's
interference matters: `step_to` is split where it has set `g_stepping` and not yet
started the clock, `step_finish` where it has cleared it and not yet frozen the clock,
and where the clock stands and nothing is reported.  The game itself (its turn loop, the
map reload, its teardown at EndGame or replay EOF) is external and modelled by what the
hook relies on: it consumes turns it was given, within the pending time it is allowed.
Whether the process plays a live game or a recording, how long that one is, and what
may go wrong in steps (`trouble`: one outlasts its request, or the game tears its
simulation down) is chosen in `Init`, so that one run covers each case.

Jobs run as `GameThreadCall` promises: once or not at all while the pipe thread waits.
When a call gives up (`JobLate`) the job is gone, run or not, and the client gets an error.

What is idealised: the history variables `orders` and `owed` say which orders are
queued but not flushed and whether a step that came with orders found the host quiet;
`due` is a frame whose time had already come when the clock was frozen.  A simulation's
time stops at `MaxTime`.  A teardown by the game is modelled inside a step, not in
realtime play.

### ClockAnchor

A writer (`clock_set_speed`, `clock_freeze`) takes `g_clock_lock`, computes the new
anchor from the current real time (`Prepare`), makes the sequence number odd
(`BeginWrite`), writes the fields one by one in any order (`WriteField`), makes it even
again (`EndWrite`), sets or resets `g_running` (`Event`) and unlocks.  A reader takes the
sequence number, copies the fields one by one in any order, reads the real time, and accepts or tries
again (`Accepts`, `Retry`); a wait sleeps on `g_running` while the clock is frozen.  A
field copied while it is being written may have either value.  Speeds are in halves, and
times truncate as the code's conversions do.  Left out: the wrap of the sequence number
(2^31 updates during one read), the mirrors `g_speed` and `g_frozen`, the scaling of
timeouts, and the rdtsc helper.  Locals are reset on return, so that equal states are one.

### OrderQueue

A batch (`act_apply`) is one action of the model per action of the client: `Command` is every
command with one selection and one record (`what` tells apart what matters: how long the
record is, and whether it is production, which interrupts nothing), `Select`, `Buy` with its two selections, `Build` with a given or a searched
site, and the three ways out early: `Refuse` before room is made, `RefuseLate` after it,
`NoSite` when the search finds nothing.  A record is a selection mark or an order, and the order
does not name its unit: `Apply` is how the game gives it to what is selected.  `Flush` is
`act_flush` and the packets' execution.  `sites` is `g_queued`, the pending list of a batch is built at
its first build (`scanned`), and `Restart`/`Create` are what `restart_job` and
`act_configure` clear.  A unit's `plan` is the game's order queue, which the hook cannot
read.  The refinement mapping takes the orders out of the queued records (`Waiting`): in
`UnitOrders` there are no records, selections or packets, and an order is its unit's own.
Left out: the caps of the pending list (256 sites, of which 128 current builds and 64
remembered), a fault in the scan for current builds (`placement.c:132`: the batch then knows of
none), resolution of ids and names, footprints (two builds overlap if they are on the same ground),
and the log of the UI's own orders (`trace`).

### GameSession

The session's fields carry their Python names without the underscore.  `pc` is the
position of the round (`reset`, `step`, `debug`) that holds `_lock`; a request to the
process is one step, which succeeds, fails with or without having taken effect
(timeout), or is cut by a KeyboardInterrupt, which the session's
`except Exception` does not catch.  `Init` chooses whether interruptions happen
(`interrupts`), so that properties can say what holds with them and what without.  `close()` is two steps, detaching the process under
`_state_lock` and closing it, at any time.  A process may crash at any time, and its
game may end between two requests.  `procs` lists the processes in the order of their launch; a
closed one's record is reset to one value, since nothing may refer to it.  An
interrupted launch leaks its process in the code as in the model.  Left out: control
groups, replay saving, the handicap, and the shared observation mapping.

### EventRings

Everything happens on the game thread, so an action is a whole function:
`EvRecord` and `OrderRecord` put a record in the ring of each player who could see it,
`Observe` is one request for the events and orders of some players
(`events_gather`, `orders_gather`), `SetPlayers` a new game.  Heads and cursors are words
of `Word` values that wrap; slots are overwritten whether they were read or not, and a new game
leaves them as they are.  An observation moves the cursors of the players it has written before it is
known to fit: a request that fails, for this player or a later one of its list, has
consumed what it does not tell.  All that is kept of a record is who could see the second
unit it names, which is what `event_record` hides from the others.

`EventLog` has no rings or cursors: all that a player could see since the game began, how
much of it was consumed, and what an observation tells: what is new, oldest first, except
that only the latest `Cap` records are kept and those before are counted as lost.  The
mapping reads the number consumed off the log and the unread count of words.
Left out: what each trigger puts into a record, and the hook on the order dispatcher.

### RpcChannel

The pipe is a stream of bytes each way that knows nothing of requests: `toServer` holds
bytes labelled with the call that wrote them and whether they end a line; the game reads
any number of them into a buffer (`PipeRead`), handles whole lines (`RpcHandle`), and
reads on.  `Send` writes a frame; `SendTorn` is a write that is cancelled at its deadline
and leaves a part, which then spoils the line of the next request; `Unsent` is every way
to fail before a byte is written.  A reader thread (`ReadLoop`, `EndOfStream`) moves lines
to the queue the call reads (`ReadLine`, `ReadClosed`, `TimeOut`).  `Close`, `Crash`, a
client that stops reading (`RpcReply` without `sent`) and a full buffer (`Gone`) break the
connection.  `spoiled` (requests that cannot reach the game as themselves) and `upset`
(the connection was broken from outside) are history.

Serving a request and sending its reply are one step, and so is a write that is not
torn: nothing else happens on the game's pipe thread between the first two, and the game
cannot tell a frame written in pieces from one read in pieces.  Diagnostic lines of the game
are stood in for by the id-0 replies it sends to lines that are no request, which
the client skips in the same way.  Left out: attaching, the next client on the same pipe,
and a write that meets `close()` in the instant the handle is set to None.

### VectorSession

The host is one thread: `call` is the call it is in and what that waits for.  Its replies
are one sequence, since `_take` looks through `_waiting` and then takes from `_results`
one by one: the first that matches in both is the first that matches in their concatenation.  `Send` (send,
stage) returns at once; `Query` (debug, save_replay) and `ResetOne` wait for an answer;
`Reset` sends to every game (`ResetSend`) and then takes from each.  A drain thread for
each worker moves replies (`Drain`), fails the worker's games at its end (`DrainEnds`), or is itself
ended by an exception (`DrainFails`): a reply cut off in the middle cannot be unpickled,
and a connection may be reset.  In the worker, messages wait in the game's inbox
(standard input and the game's queue together) and are answered in order (`Serve`),
with an error or not.  `Dies` is the end of the process at any time, also with a part of
a reply written; `Exits` and `Kill` are its end at `close()`.

Messages are numbered per game, and a reply carries the number of its message, as history:
the code cannot tell which message a reply answers.  `mixed` says that a reset met a busy
game or raised an error that left others busy, `lost` which games were sent a message
after their worker's end had been told.  Left out: the constructor (a launch that
fails leaves the workers before it running), the timings, what a worker does
between a message and its reply (that is `GameSession`), and the relays, listener and
`StepPool` around it.

### AgentControl

`Agent.act` runs on one thread, phase by phase, and `pc` is the phase: `Observe` (memory:
deaths, summons), the lines of a macro reply (`Command`, `Group`, `Disband`,
`EndReply`), `Release` of deferred orders, `AdoptIdle`, `Micro` (what landed is collected,
follow-ups are sent, code moves units), `Ask`/`Asked`, and `Again` for play that
waits for its answers.  Models answer in threads of their own, but a reply takes effect
only where the act reads it: asynchrony is that any subset of the calls in flight
may have landed.  The content of an answer is left open; which orders of it may go is
`MayOrder`, the version check of `control.py`.  `Command` covers every kind of macro
order by what it makes (nothing, an order, a cast, an item use, something that interrupts
no order) and whether it keeps the orders that wait.

`casting`, `named` and `recent` are the entries of `Control.casting`: the units, whether the
entry has the name of an order (a spell has, an item use has not, `orders.py:236`), and whether
it is younger than `CAST_SECONDS`.  Entries grow old in `Observe`; in `Micro`, `StillCasting`
keeps those that `Control.busy` keeps (`control.py:42-46`): the observation lists the unit, and
the entry is young or the unit's order has that name.  Which units are listed and which are on
that order is the game's choice.  `held` is history: the units that `Control.cast` promises
to leave alone.

`MaxVersion` bounds how often macro changes its mind about a unit.  Left out: the
fights of `fusion.py` and the commitments they make, failures of the models, the pacing of
calls (`CALL_INTERVAL`, `committed`, `quiet`), and heroes of no group that code sends
for loot (no call is about them).

## 3. The runs

| run | question | properties | bounds |
|---|---|---|---|
| `JobMailbox` | can a job run without its caller, twice, be lost or slept through; does every call return, as promised? | `TypeOK` `JobSound` `NoLostWakeup` `CallReturns` `ImplementsCall` | 2 callers |
| `StepLoop` | are steps exact and their replies true, orders in time, ends reported, episodes started at the hold, and is every step answered? | `TypeOK` `ReplyTruthful` `HeldAtStart` `StillBetweenSteps` `OrdersBeforeTurns` `TurnsInBounds` `StepAnswered` | 2 simulations of 4 turns, a recording of 3 |
| `ClockAnchor` | can a reader act on a torn anchor, time run back, a wait be forgotten? | `TypeOK` `ReadIsWhole` `BackOnlyAfterRace` `SleepersWake` | 1 reader, 2 writers, 2 updates |
| `OrderQueue` | do records fit, do units do what they were told and no more, do builds keep apart, are their sites kept in mind? | `TypeOK` `BuffersHold` `SitesHeld` `ImplementsOrders` | 2 workers, a shop, 2 orders, 2 grounds, time 2, 1 reset |
| `OrderQueueForgets` | is a queued site remembered while its worker is to build there? (violated) | `SitesRemembered` | the same, table of 2, time 1 |
| `EventRings` | is every player told all it could see, once and in order, or how much was lost? | `TypeOK` `ImplementsLog` | 2 players, 4 records, rings of 2 and 1, words of 4 values |
| `RpcChannel` | does a call return its own answer, and none wait for one that will not come? | `TypeOK` `AnswerComes` `ImplementsCall` | 4 calls, a buffer of 5 bytes |
| `GameSession` | who owns each process, what becomes of settings, episodes and time, what is the client told, and when is a process given up, over failures, crashes, interruptions and `close()`? | `TypeOK` `HandlesOwned` `TuningSurvives` `EpisodeLimit` `ViewIsTrue` `FaultHasCause` `SuspectNeverPlays` `CloseEndsAll` | 3 processes, 3 episodes, 2 steps |
| `VectorSession` | does a call get the answer to its own message, and return although workers die? | `TypeOK` `AnswersMatch` `CallsReturn` | 2 games in one worker or two, 2 messages each |
| `VectorSessionTorn` | is the end of every worker told? (violated) | `ExitsAreTold` | the same, local workers |
| `AgentControl` | has each unit one commander, are late answers and waiting orders still wanted, are units left alone after macro's casts? | `TypeOK` `CommandStands` `AnswerStands` `CastLeftAlone` | 2 units, 2 groups, 2 calls in flight, 1 instruction |
| `AgentFollowUp` | is a cast that waits for a change of form still wanted when it is sent? (violated) | `AnswersAreCurrent` | the same, 2 instructions |

Bounds.  *JobMailbox*: two callers make every contention for `g_job_lock` and for the
shared signal happen; the proofs cover any number.  *StepLoop*: `HoldAt = 2` is the
least value where the old simulation's first turn and the hold differ (`simTime > 1`
decides between them).  Steps of 1 and 2 turns with `ProduceMax = 1` split a step over
host calls and over frames; `MaxTime = 4` leaves room for two steps after the hold, so
state left by one can hurt the next; `MaxSims = 2` is one reset; `StallFrames = 2` makes a
stall possible with and without progress in between.  *ClockAnchor*: speeds below
and above real time (1/2 and 2), two updates so that one of them may be prepared while
the other is written if the lock failed, and a reader that meets both.  *OrderQueue*:
the first order leaves 4 records, so the next action meets a queue that is neither
empty nor has room, whichever kind it is; `PacketBytes` (48) takes any record and splits every
queue of two orders; `Commands` has one of each length (stop has 15
bytes, dropping an item 39, builds have 31) and production (a move acts as a drop does, and a
revival as production, but for their length); a table of one site is full after one build; a site outlives one tick, but not two
(`SiteLife`).
Actions are independent between players (each has a queue), so one plays.
*EventRings*: rings of two and one overflow within four records, and a word of four
values wraps in them; the proof covers any sizes.  Four records of either kind over two
players leave one ring full while another is empty.  *RpcChannel*: a buffer of five takes frames of two to
four bytes, so that a frame fits alone, two fit only in turn, and a torn
frame with the next one may overflow it; four calls let one be torn, one spoiled by it,
one late and one good.
*GameSession*: a limit of 2 episodes and 3 processes let a process be replaced for its
age and for a fault, and the replacement fail too; `StepLen = 2` lets an interrupted step
be told from a whole one.  *VectorSession*: one worker for both games lets replies
interleave on one stream, two let one die alone; with two messages a game, a
reply may meet a later call.  *AgentControl*: two groups to move units between, two units to
be treated differently, three versions so that a call is asked between two changes of
mind; one line of macro reply in each act, over any number of acts.  A group's goal is a way
and an instruction: with two ways and one instruction goals already differ in what a
move is for, and `AgentFollowUp` has two.

`CHECK_DEADLOCK FALSE` is set where the system may stop: between steps the process does
nothing until a client asks (`StepLoop`); a frozen clock with every reader asleep moves
only by another update (`ClockAnchor`); a closed session does nothing more
(`GameSession`, `VectorSession`); `OrderQueue` and `RpcChannel` stop when their orders or
calls are spent.

Fairness.  `JobMailbox`: a caller inside its call is scheduled (so its timeout passes)
and a job that has started ends; nothing is asked of the frame loop outside a job.
`StepLoop`: the pipe thread, the frame loop and jobs are scheduled.  No fairness is
given to the host thread, to clients, or to the map reload.  `GameSession`: a round that
has begun goes on, each request answered or failed (every one has a deadline), and a
`close()` that has begun ends; no round has to begin.  `VectorSession`: a call that has
begun goes on, drain threads are scheduled, a game answers each message (every request to
its process has a deadline, and whatever it raises is a reply), and `close()` kills workers that outlast it;
no worker has to die or to stay alive.

### What the properties leave out

Each exception is part of its property, and most of them were met by checking the
property without it.  The definitions below that no run lists do not hold: naming one in
the cfg of its component shows the behaviour.

- `OrdersBeforeTurns` speaks of steps that found the host quiet: a step that stalled
  leaves its budget in `g_produce_target`, and the host sends the rest as soon as the
  next step runs; so does the lead a free-running host builds while the map loads.
- `ReplyTruthful` speaks of episodes in which no step outlasted its request.
  `step_finish` (`step.c:156`) clears `g_stepping`, then freezes the clock, then signals
  `g_stepped`.  When the pipe thread has answered "the step did not finish in 120 s", a
  client may ask for the next step in just that gap: it is accepted, resets `g_stepped`,
  and is answered at once by the old step's signal, with none of its time elapsed
  (`StepExact` alone fails).  The Python session replaces a process whose step failed, so
  only clients that talk to the pipe directly are exposed.
- `TuningSurvives` assumes that no round is interrupted.  `reset()` restores speed, wait
  floor and rendering only when it created the process itself (`session.py:296`);
  interrupted after `_ensure_game` has published the new process, it leaves one that the
  next `reset()` finds and does not tune (`TuningKept`).  `HandlesOwned`, `EpisodeLimit` and
  `FaultHasCause` assume the same: an interrupted launch has no one to dispose of its process, and
  a step after an interrupted one is told from it by its time, which is a fault.
- `BackOnlyAfterRace` allows time to run back after a read that raced with an update: an
  update reads the real time first (`clock.c:82`, `105`) and publishes later (`clock.c:91`); a reader in
  between is answered from the old anchor, and if the new one is slower the next read is
  earlier (`NeverBack`).
- `SitesApart` compares a searched site with current builds and its own batch, not with
  remembered sites; and nothing clears `g_queued` on a reset (`act.c:53`), so a site left
  by the last episode counts again once the new clock has passed its time
  (`SitesOfThisEpisode`; `SitesCount` proves when).
- `ImplementsLog` counts what a failed observation consumed as consumed, since `EventLog`
  promises no more; and it is bounded by fewer than 2^32 - 1 unread records.
- `AnswerComes` leaves out requests past the limits of `jr_read` (4096 values): the
  game answers those with id 0, the client skips that line, and the caller waits
  for its deadline.  A torn write costs the request after it, and, where the two together fill
  the 64 KB buffer, the connection.
- `AnswersMatch` leaves out what follows a reset of a busy game, and a `reset()` that
  raised an error: neither `reset` nor `reset_one` looks at `_busy`, and an error raised
  for one game leaves the replies of the others on their way, to be handed out by `recv` as if they were
  steps (`OwnAnswers`).
- `CallsReturn` leaves out games whose worker's drain thread has failed, and those sent a
  message after their worker's end was told.  The error then says "call reset_one(i)"
  (`vector.py:380`), which cannot help: the write to a local worker raises OSError and
  leaves the game in `_busy`; on a connection it may go unnoticed, and the call waits for good.
- `CastLeftAlone` is what the docstring of `Control.cast` promises: to leave a unit alone for
  `CAST_SECONDS`, "or longer while the unit is still on that order".  It is less than other
  texts say: "micro leaves it alone until the spell or item has gone off"
  (`src/wc3agent/README.md:17`), "micro waits for it to go off"
  (`src/docs/design.md:217`), and the prompt of the macro model (`macro/prompts.py:77`).  After two
  seconds the code forgets every item use, since it has no order name
  (`orders.py:236`), and every cast that is not the unit's order yet because it was queued; a unit
  that is not in the observation is forgotten at once (`control.py:42-46`).  Micro may
  then cut what it was to wait for.
- `AnswerStands` leaves out units that were lost and came back while the model
  thought: `lose` (`control.py:111`) does not bump their versions.

### Findings

A finding is a disagreement between the code and a sentence of its own documentation or
comments, met while modelling.

- `OrderQueueForgets`: sites are forgotten before the action is checked (`act.c:386`), so
  a refused action, or one that is no order (`select`), frees ground its worker will still
  build on.  `act.c:334`: "A site is kept until its worker gets an unqueued order (which clears
  its queue), dies, or QUEUED_SITE_MS of game time pass."
- `AgentFollowUp`: the cast of an answer that waits for its unit to change form is put
  aside when the answer lands and sent up to `FOLLOWUP_SECONDS` later
  (`micro/agent.py:287`), without another look at the unit's version: macro may have
  commanded it meanwhile.  `control.py:4`: "A micro answer is sent only for units whose
  versions are still the ones it was asked under."
- `VectorSessionTorn`: a worker that dies in the middle of a reply leaves one that `_read`
  cannot unpickle (`vector.py:314`); the exception ends the drain thread (`vector.py:353`) before it has told
  anyone, and `recv()` waits for good.  `vector.py:352`: "a worker that exits fails its games."

## 4. The proofs

Each module's theorems assume only the named assumptions of its component's constants.

**JobMailboxProofs** (`NoCallerAssumption`: the mark of the free lock is no caller):
`TypeCorrect`, `Invariance`, `JobsAreSound`, `WakeupNotLost`, and `Refinement`:
`Spec => ImplementsCall`.  None of the safety invariants is inductive.  `IInv` adds what the code relies on
without saying so:

- `LockInv`: the lock names exactly the caller that is inside its call;
- `FillInv`: what is already true while it prepares the slot;
- `PostedInv`: a posted job belongs to that caller and is in exactly one of five phases
  (in the slot; running; run, not cleared; cleared, not signalled; signalled), each with its
  values of `pending`, `game`, `outcome` and `done`.  It is here that `pc # "waitout"` in
  the first phase, the outcome of the compare-and-swap, is needed;
- `EmptyInv`: with nobody posted the slot is empty and the game thread serves nothing;
- `AnswerInv`: what the answer is computed from (needed for the refinement).

`CallerTypes`/`GameTypes` and `CallerKeeps`/`GameKeeps` show that the steps of each side
keep the types and the rest, a step per action and under it one per conjunct the action
can disturb.  `WakeupNotLost` carries the wakeup as an invariant of its own beside
`IInv`.  The refinement maps every action to a step of `GameThreadCall` or a stutter.

**StepLoopProofs** (any hold, lengths, budgets and bounds): `Invariance`, `TypeCorrect`,
`RepliesAreTrue`: `ReplyTruthful`, `EpisodesStartAtHold`: `HeldAtStart`,
`EpisodesStandStill`: `StillBetweenSteps`, `OrdersPrecedeTurns`: `OrdersBeforeTurns`,
`TurnsStayInBounds`: `TurnsInBounds`.  The invariant is a partition of the life of the
hook: a simulation loads (`LoadInv`), runs to the hold, is held or is played (`HoldInv`),
and the game thread is then at rest, or the step that the pipe thread waits for is in
flight, ending or over (`ServeInv`: `InFlight`, `Ending`, `Over`, each with what
`sim_time`, the target and the reason to end then are).  Two complications are the code's own.  A
simulation torn down under a running step starts its count over while the step is still
due (`Tearing`).  And once a step has outlasted its request, the pipe thread may
answer other requests while that step goes on: the partition is promised of
*punctual* episodes only (`PunctualInv`), and holds again with the next one.
`TurnsStayInBounds` has a hypothesis, that no recording ends before the hold: the code
runs every simulation to the hold without looking at the recording's length.

**ClockAnchorProofs** (any readers, writers, speeds): `Invariance`, `TypeCorrect`,
`ReadsAreWhole`, `SleepersAreWoken`, and `TimeRunsOn`: `BackOnlyAfterRace`.  `IInv` says that the lock names the one writer
inside its update (`LockInv`), that the sequence number is odd exactly while it writes
fields (`SeqInv`), that a reader whose number is still current has copied the anchor's
own fields (`ReadInv`), and what each update makes of the event, which follows the anchor
whenever none is being published (`EventInv`).  For time itself, `TimeInv` says that an
anchor that waits for its publication meets the old one at its own moment (`WantedMeets`:
a change of speed does not move virtual time then), and `SinceInv` that no read that ended before another
began was told a later time than the anchors since then give.  Between two publications
time grows with the counter (`VirtAtGrows`, by the monotonicity of products and integer
division) or stands (`FrozenStands`).

**OrderQueueProofs** (`RoomAssumption`: `ACT_RECORDS` is at least the 9 records of the
longest action; the code has 10): `Invariance` and `RecordsFit`, no write past the
records that `act_reserve` made room for.  `WithinRoom` is not inductive: doubling a
capacity is only enough because a capacity that is not zero is at least `ACT_RECORDS`,
which `RoomInv` adds.  `SelectingIsShort`, `CommandIsShort` and `BuyIsLongest` count the
records of each kind of action, `ReserveMakesRoom` and `EnqueueKeeps` do the arithmetic.
`SitesAreKnown` (`ScanInv`: what a batch has scanned covers the builds that the
workers are at and those it ordered itself) gives the action property `BuildsStayApart`:
`SitesApart`, for any sites and batches.  `SitesInvariance` (`SiteInv`) types what is remembered;
with it `TypeCorrect`, and `SitesAreKept`: `SitesKept`, from what each action does to the
table (`ForgottenLeaves`, `PurgedLeaves`, `RememberAdds`).  Together they are `SitesAreHeld`.
`SitesCount` says what the unsigned subtraction of times comes to, also for a site of an
episode before, whose time is yet to come: it counts exactly from that time to the end of its
life, whatever the width of the clock.

`BuffersAreHeld` (`PacketAssumption`: a packet takes the longest record, the 39 bytes of
`rec_drop_item`; the code's has 1000), `QueuesAreSound` and `OrdersReachTheirUnits` are about the queue.  What a queue does to the
game, what it weighs and how it splits are recursions over its records (`Applied`,
`Size`, `Packets`).  The module first proves what such a recursion computes:
`CountingUp` and `GrowingUp` are induction over numbers and over sequences for a *set* of
those that have a property (from the least element of a set of numbers, `LeastNat`),
`RunExists` and `SameOutcome` say that a recursion exists and is unique, and
`AppliedGrows`, `SizeGrows`, `PacketsGrow`, `FlattenGrows` what one record more does.
`PacketsHold`: the packets joined are the queue, each within the buffer.  `OrderInv` is
that a queue, applied, leaves selected exactly the unit the hook remembers (`prev`), if
it lives, and heard exactly the orders accepted; then the next action's deselection is the
right one (`SelectingSelects`).  A unit may die while records that name it wait
(`AppliedWithout`: the queue then does what it did, but for the dead), and orders are
none without an episode, which is why `act_clear` may forget `prev`.

`Refinement`: `Spec => ImplementsOrders` rests on that.  `AppliedTells`: records whose
orders go to their units do to a unit's plan what the orders among them say (`Told`, by
induction over the records, with `RightBefore`, `ApplyPlans`, `AskedGrows`, `ToldGrows`).
Selections ask nothing (`AskedMarks`), so an action is one `Accept` or none (`OrderWaits`,
`ItemAsks`), and a flush gives all that waits or, when only selections were queued, nothing
(`FlushGives`).

**EventRingsProofs** (any players and ring sizes; a word is a proper multiple of each
ring, as 2^32 is): `Invariance`, `TypeCorrect`, and `Refinement`: `Spec => ImplementsLog`.
The invariant ties the words to the log: a head is the length of its log modulo a
word, and the latest records of a log, as many as its ring keeps, are in the slots their counts
name.  That the slot of a count is the slot of its remainder needs the word to be a multiple
of the ring (lemmas on remainders); that unread words tell empty from full needs it to be a proper one.

**RpcChannelProofs** (a buffer of more than 2 bytes; the closed mark is no id):
`Invariance`, `TypeCorrect`, `NobodyWaitsInVain`, and `Refinement`: `Spec =>
ImplementsCall`.  `StreamInv`: the stream holds frames in the order of the calls, of
ids no greater than the last and greater than every one served; `ReplyInv`: every line on
the way back is of a served call or of no request; `CallInv`: calls that are over
stay as they ended.  Together they say why an id alone is enough to skip late replies.

**GameSessionProofs** (any number of processes, episodes and settings): `Invariance`,
`TypeCorrect`, and `ProcessesAreOwned`: `HandlesOwned`.  `IInv` adds what the round's
locals mean at each position (`LocalInv`; that no process is published while the round
launches is what keeps `_ensure_game` from overwriting one), that a handle was closed
exactly if it is not open (`HandleInv`), and that the session, the round and `close()`
never own the same process (`OwnInv`).

The second part is about what is played: `PlayInvariance`, `TheViewIsTrue`, `EpisodesAreLimited`, `SettingsSurvive`,
`SuspectsNeverPlay`, `FaultsHaveCauses`.  `PlayInv` says what each position of the round knows
of its process (`StageInv`), that only a faulted session has a suspect one (`SuspectInv`),
of which episode the last observation is (`SeenInv`) and how its time relates to the
steps counted (`TimeInv`); `UncutInv`, for sessions without interruptions, adds that the count
is the process's own (`CountInv`) and where the settings are between a release and
their restoration (`TuneInv`).  `FaultInv` adds to `PlayInv` that, without interruptions, the
client knows how long its process was played at each position of a step, unless the game
is over: then the test of elapsed time (`session.py:398`) finds nothing.

Its last part is about many games, with `V == INSTANCE VectorSession` and that module's
`ConstantsAssumption` as a hypothesis: `VectorInvariance` and `AnswersAreTheirOwn`:
`TypeOK` and `AnswersMatch`.  The calls do not compare numbers, so what makes an answer
the right one is that there is no other: `AwayOf` says that for a game that is not busy
nothing is on its way and for a busy one there is a single message or answer, in one of the
mailbox, the worker's output and the host's replies; `SentOf`, that it is of the
last message and of the kind that the call under way waits for (`Due`).  That a worker's death
leaves no answer behind its `exited` notice is `EndInv`: a drain thread tells of the end
after its last reply.  `GameStays` does the bookkeeping for games that a step does not
touch, whose replies move along the queues.

**AgentControlProofs** (any units, groups, types and replies): `Invariance`,
`TypeCorrect`, `UnitsHaveOneCommander`, `AnswersStandForGroup`, `CastsAreLeftAlone`.  The core of
`IInv` is `CallInv`: a unit whose version is still the one its call knows, and that was not
lost, is still in that call's group under that goal (`Stands`), so every change of command
must touch it.  Beside it: a group with members has a goal (`GoalInv`), waiting orders are of
known units (`KnownInv`), and units promised to be left alone are held by Control (`CastInv`).

Only model-checked: liveness (`CallReturns`, `StepAnswered`, `CloseEndsAll`,
`CallsReturn`), which is out of the provers' reach.

## 5. The plan

The core of every concurrent part is modelled.  Next:

1. The relays and the listener of `vector.py` and `StepPool` around `VectorSession`: the
   free list of workers over connections that end at any time.
2. Wire identities, start shuffle and seeds (`players.c`, `setup.c`).
3. Pure parts as operators against reference definitions: the allocator's search,
   outcomes of orders, order fusion.

## 6. Not modelled, and why

By lines most of the repository is no program logic of its own: yyjson and MinHook are vendored (some
21,000 lines) and `features_table.h` is a generated table (12,000).  Of the rest:

- Observation builders, feature arrays, masks, codecs and catalogues convert data and keep no control state.
- The launcher, injector, HTTP clients, front ends, scenarios, tools and container builds
  are input and output; what others see of them (a launch that fails, an answer that is
  late) is in the models of those others.
- Staging, and the engine's search for a build site, call natives of the closed game
  binary; the search is modelled by what it may return.
- Players and match setup, the allocator, the relays, the listener and `StepPool` are in
  the plan above.
- Of modelled parts: the rendering hooks, packet log and native `save_replay` of `step.c`; control
  groups, replay saving and the shared observation mapping of `session.py`; outcomes,
  conversations and prompts of the macro and micro players, and the fights of `fusion.py`.
