---------------------------- MODULE ClockAnchor ----------------------------
(***************************************************************************)
(* The virtual clock of the hook (clock.c).  An anchor ties virtual time to *)
(* real time; clock_set_speed and clock_freeze replace it under             *)
(* g_clock_lock, publishing through a seqlock; the timer and wait hooks    *)
(* read it on any thread and take no lock.  The anchor is copied field by  *)
(* field, in whatever order the compiler chose.                            *)
(*                                                                         *)
(* A speed is given in halves: 2 is real time.  g_anchor_seq is unbounded: *)
(* its wrap would need 2^31 updates during a read.                         *)
(*                                                                         *)
(* Definitions named after another one and a slip in it (AcceptsOdd,       *)
(* EndWriteUnlocked, ...) are no part of the specification.                *)
(***************************************************************************)
EXTENDS Integers, FiniteSets

CONSTANTS
  Readers,   \* threads that read the clock or wait
  Writers,   \* threads that set the speed or freeze
  NoWriter,  \* nobody holds g_clock_lock
  Speeds,    \* speeds to set, in halves
  MaxTime,   \* bound: real time
  MaxWrites  \* bound: updates published

ASSUME ConstantsAssumption ==
  /\ NoWriter \notin Writers
  /\ Speeds \subseteq Nat /\ MaxTime \in Nat /\ MaxWrites \in Nat

VARIABLES
  real,            \* the real performance counter
  anchor, seq,     \* g_anchor, g_anchor_seq
  lock, running,   \* g_clock_lock and the event g_running
  wpc, op, new,    \* a writer: position, what it was asked for, its local anchor
  wleft,           \* fields it has not yet written
  rpc, s1, copy,   \* a reader: position, the sequence number it read, its copy
  now, rleft,      \* the real time it read, the fields it has not yet read
  calm, told,      \* history: latest virtual time read, with and without races
  since            \* history: calm and told when the reader began

clock == <<anchor, seq>>
writerVars == <<lock, running, wpc, op, new, wleft>>
readerVars == <<rpc, s1, copy, now, rleft, calm, told, since>>
vars == <<real, clock, writerVars, readerVars>>

Fields == {"real0", "virt0", "frozen_at", "speed", "frozen"}
Anchors ==
  [real0 : Nat, virt0 : Int, frozen_at : Nat, speed : Speeds \cup {2}, frozen : BOOLEAN]
Ops == [kind : {"speed"}, speed : Speeds] \cup [kind : {"freeze"}, on : BOOLEAN]

TypeOK ==
  /\ real \in Nat /\ seq \in Nat /\ calm \in Int /\ told \in Int
  /\ anchor \in Anchors
  /\ lock \in Writers \cup {NoWriter} /\ running \in BOOLEAN
  /\ wpc \in [Writers -> {"idle", "locked", "prepared", "writing", "written", "unlock"}]
  /\ op \in [Writers -> Ops]
  /\ new \in [Writers -> Anchors] /\ wleft \in [Writers -> SUBSET Fields]
  /\ rpc \in [Readers -> {"idle", "copy", "test", "asleep"}]
  /\ s1 \in [Readers -> Nat] /\ copy \in [Readers -> Anchors]
  /\ now \in [Readers -> Nat] /\ rleft \in [Readers -> SUBSET Fields]
  /\ since \in [Readers -> [calm : Int, told : Int]]

\* clock_init_hooks: virtual time is real time, and runs.
Start == [real0 |-> 0, virt0 |-> 0, frozen_at |-> 0, speed |-> 2, frozen |-> FALSE]

Thaw == [kind |-> "freeze", on |-> FALSE]
Never == [calm |-> 0, told |-> 0]

Init ==
  /\ real = 0 /\ anchor = Start /\ seq = 0
  /\ lock = NoWriter /\ running = TRUE
  /\ wpc = [w \in Writers |-> "idle"] /\ wleft = [w \in Writers |-> {}]
  /\ op = [w \in Writers |-> Thaw]
  /\ new = [w \in Writers |-> Start]
  /\ rpc = [r \in Readers |-> "idle"] /\ s1 = [r \in Readers |-> 0]
  /\ copy = [r \in Readers |-> Start] /\ rleft = [r \in Readers |-> {}]
  /\ now = [r \in Readers |-> 0]
  /\ calm = 0 /\ told = 0 /\ since = [r \in Readers |-> Never]
-----------------------------------------------------------------------------
(* virt_at; the conversion from double truncates. *)
VirtAt(a, t) == a.virt0 + (((IF a.frozen THEN a.frozen_at ELSE t) - a.real0) * a.speed) \div 2

\* Real time passes.
Tick == real < MaxTime /\ real' = real + 1 /\ UNCHANGED <<clock, writerVars, readerVars>>
-----------------------------------------------------------------------------
(* clock_set_speed and clock_freeze. *)

WriterAt(w, from, to) == wpc[w] = from /\ wpc' = [wpc EXCEPT ![w] = to]

Lock(w) ==
  /\ WriterAt(w, "idle", "locked") /\ lock = NoWriter /\ seq < 2 * MaxWrites
  /\ lock' = w
  /\ \E o \in Ops : op' = [op EXCEPT ![w] = o]
  /\ UNCHANGED <<real, clock, running, new, wleft, readerVars>>

\* Slips: the new speed applies since the old anchor; the origin is shifted
\* instead of set.
ReanchoredNot(a, t) == a
ReanchoredShifted(a, t) == [a EXCEPT !.real0 = @ - t, !.virt0 = VirtAt(a, t)]

\* Virtual time goes on from the moment it is t.
Reanchored(a, t) == [a EXCEPT !.real0 = t, !.virt0 = VirtAt(a, t)]

\* The anchor the operation asks for, computed in the moment "real".
Wanted(w) ==
  IF op[w].kind = "speed"
  THEN [Reanchored(anchor, IF anchor.frozen THEN anchor.frozen_at ELSE real)
          EXCEPT !.speed = op[w].speed]
  ELSE IF op[w].on THEN [anchor EXCEPT !.frozen_at = real, !.frozen = TRUE]
  ELSE [Reanchored(anchor, anchor.frozen_at) EXCEPT !.frozen = FALSE, !.real0 = real]

Pointless(w) == op[w].kind = "freeze" /\ op[w].on = anchor.frozen

NothingToDo(w) ==
  /\ WriterAt(w, "locked", "unlock") /\ Pointless(w)
  /\ UNCHANGED <<real, clock, lock, running, op, new, wleft, readerVars>>

Prepare(w) ==
  /\ WriterAt(w, "locked", "prepared") /\ ~Pointless(w)
  /\ new' = [new EXCEPT ![w] = Wanted(w)]
  /\ UNCHANGED <<real, clock, lock, running, op, wleft, readerVars>>

\* anchor_write: the sequence number is odd while the fields are written.
BeginWrite(w) ==
  /\ WriterAt(w, "prepared", "writing")
  /\ seq' = seq + 1 /\ wleft' = [wleft EXCEPT ![w] = Fields]
  /\ UNCHANGED <<real, anchor, lock, running, op, new, readerVars>>

WriteField(w) ==
  /\ wpc[w] = "writing"
  /\ \E f \in wleft[w] :
       /\ anchor' = [anchor EXCEPT ![f] = new[w][f]]
       /\ wleft' = [wleft EXCEPT ![w] = @ \ {f}]
  /\ UNCHANGED <<real, seq, lock, running, wpc, op, new, readerVars>>

\* The slip: g_running is set or reset outside the lock.
EndWriteUnlocked(w) ==
  /\ WriterAt(w, "writing", "written") /\ wleft[w] = {}
  /\ seq' = seq + 1 /\ lock' = NoWriter
  /\ UNCHANGED <<real, anchor, running, op, new, wleft, readerVars>>

EndWrite(w) ==
  /\ WriterAt(w, "writing", "written") /\ wleft[w] = {}
  /\ seq' = seq + 1
  /\ UNCHANGED <<real, anchor, lock, running, op, new, wleft, readerVars>>

\* Freezing resets g_running, thawing sets it: still inside the lock.
Event(w) ==
  /\ WriterAt(w, "written", "unlock")
  /\ running' = IF op[w].kind = "freeze" THEN ~op[w].on ELSE running
  /\ UNCHANGED <<real, clock, lock, op, new, wleft, readerVars>>

\* The locals of the call are gone with it.
Return(w) == op' = [op EXCEPT ![w] = Thaw] /\ new' = [new EXCEPT ![w] = Start]

Unlock(w) ==
  /\ WriterAt(w, "unlock", "idle")
  /\ lock' = NoWriter /\ Return(w)
  /\ UNCHANGED <<real, clock, running, wleft, readerVars>>

WriterStep(w) ==
  \/ Lock(w) \/ NothingToDo(w) \/ Prepare(w) \/ BeginWrite(w) \/ WriteField(w)
  \/ EndWrite(w) \/ Event(w) \/ Unlock(w)
-----------------------------------------------------------------------------
(* anchor_read, and what the hooks do with it. *)

\* The loop starts: its copy is not yet read.
Enter(r) ==
  /\ s1' = [s1 EXCEPT ![r] = seq] /\ rleft' = [rleft EXCEPT ![r] = Fields]
  /\ copy' = [copy EXCEPT ![r] = Start] /\ now' = [now EXCEPT ![r] = 0]
  /\ UNCHANGED <<calm, told>>

\* The hook returns, or sleeps: what it read is of no more use.
Leave(r) ==
  /\ s1' = [s1 EXCEPT ![r] = 0] /\ copy' = [copy EXCEPT ![r] = Start]
  /\ now' = [now EXCEPT ![r] = 0] /\ since' = [since EXCEPT ![r] = Never]

others == <<real, clock, writerVars>>
ReaderAt(r, from, to) == rpc[r] = from /\ rpc' = [rpc EXCEPT ![r] = to] /\ UNCHANGED others

Begin(r) ==
  /\ ReaderAt(r, "idle", "copy") /\ Enter(r)
  /\ since' = [since EXCEPT ![r] = [calm |-> calm, told |-> told]]

ReadField(r) ==
  /\ ReaderAt(r, "copy", "copy")
  /\ \E f \in rleft[r] :
       /\ copy' = [copy EXCEPT ![r][f] = anchor[f]]
       /\ rleft' = [rleft EXCEPT ![r] = @ \ {f}]
  /\ UNCHANGED <<s1, now, calm, told, since>>

ReadNow(r) ==
  /\ ReaderAt(r, "copy", "test") /\ rleft[r] = {}
  /\ now' = [now EXCEPT ![r] = real]
  /\ UNCHANGED <<s1, copy, rleft, calm, told, since>>

AcceptsOdd(r) == s1[r] = seq
Accepts(r) == s1[r] % 2 = 0 /\ s1[r] = seq

Retry(r) ==
  /\ ReaderAt(r, "test", "copy") /\ ~Accepts(r) /\ Enter(r)
  /\ UNCHANGED since

\* A new anchor was computed before "now", and is not published: the reader
\* extends the old one beyond the moment from which the new one goes on.
Moment(a) == IF a.frozen THEN a.frozen_at ELSE a.real0
Raced(r) == ~anchor.frozen /\ \E w \in Writers : wpc[w] = "prepared" /\ now[r] > Moment(new[w])

Later(x, y) == IF x > y THEN x ELSE y

\* The timer hooks: the virtual time is returned.
ReadTime(r) ==
  /\ ReaderAt(r, "test", "idle") /\ Accepts(r) /\ Leave(r)
  /\ told' = Later(told, VirtAt(copy[r], now[r]))
  /\ calm' = IF Raced(r) THEN calm ELSE Later(calm, VirtAt(copy[r], now[r]))
  /\ UNCHANGED rleft

\* The wait hooks: a wait made while frozen sleeps until g_running is set, one of
\* its own handles is, or its time is up.
Wait(r) ==
  /\ ReaderAt(r, "test", "asleep") /\ Accepts(r) /\ copy[r].frozen /\ Leave(r)
  /\ UNCHANGED <<rleft, calm, told>>

WaitEnds(r) ==
  /\ ReaderAt(r, "asleep", "idle")
  /\ UNCHANGED <<s1, copy, now, rleft, calm, told, since>>

ReaderStep(r) ==
  Begin(r) \/ ReadField(r) \/ ReadNow(r) \/ Retry(r) \/ ReadTime(r) \/ Wait(r) \/ WaitEnds(r)
-----------------------------------------------------------------------------
Next ==
  \/ Tick
  \/ \E w \in Writers : WriterStep(w)
  \/ \E r \in Readers : ReaderStep(r)

Spec == Init /\ [][Next]_vars
-----------------------------------------------------------------------------
(* Correctness. *)

Accepted(r) == rpc[r] = "test" /\ Accepts(r)

(* A reader that leaves its loop holds the anchor, whole: no field of it is *)
(* from another update than the others.                                     *)
ReadIsWhole == \A r \in Readers : Accepted(r) => copy[r] = anchor

(* "re-anchor so the virtual clock is continuous across speed changes and   *)
(* freezes" (clock.c): what a reader is told is no earlier than anything    *)
(* told before it began.  That does not hold for a read between the moment  *)
(* a new anchor is computed and its publication: the next read is earlier.  *)
NeverBack == \A r \in Readers : Accepted(r) => VirtAt(copy[r], now[r]) >= since[r].told

(* Virtual time runs back only after such a read, one that raced with an    *)
(* update.                                                                  *)
BackOnlyAfterRace == \A r \in Readers : Accepted(r) => VirtAt(copy[r], now[r]) >= since[r].calm

(* g_running is set exactly while the clock runs, once no update is under   *)
(* way: no wait made while frozen sleeps on after the clock has started,    *)
(* and none made now returns at once ("a step's start wakes them all at     *)
(* once", clock.c).                                                         *)
SleepersWake == lock = NoWriter => (running <=> ~anchor.frozen)
=============================================================================
