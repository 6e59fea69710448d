------------------------- MODULE ClockAnchorProofs -------------------------
(***************************************************************************)
(* Machine-checked proofs about ClockAnchor, for every set of readers and  *)
(* writers, every speed and any number of updates: the seqlock, and that    *)
(* virtual time goes on from update to update.                             *)
(***************************************************************************)
EXTENDS ClockAnchor, TLAPS

\* The lock names the one writer inside its call.
LockInv == \A w \in Writers : wpc[w] # "idle" <=> lock = w

\* The sequence number is odd exactly while the anchor is being written.
SeqInv ==
  /\ \A w \in Writers : wpc[w] = "writing" => seq % 2 = 1
  /\ (\A w \in Writers : wpc[w] # "writing") => seq % 2 = 0

\* While no update has begun since it read s1, what a reader has copied is
\* what is there.
ReadInv ==
  \A r \in Readers :
    /\ rpc[r] \in {"copy", "test"} => s1[r] <= seq
    /\ rpc[r] = "test" => rleft[r] = {}
    /\ rpc[r] \in {"copy", "test"} /\ Accepts(r) =>
         \A f \in Fields \ rleft[r] : copy[r][f] = anchor[f]

\* What an update makes of the event, and the fields it has written.
EventInv ==
  /\ \A w \in Writers :
       /\ wpc[w] \in {"prepared", "writing", "written"} =>
            (new[w].frozen <=> IF op[w].kind = "freeze" THEN op[w].on ELSE ~running)
       /\ wpc[w] = "writing" /\ "frozen" \notin wleft[w] => anchor.frozen = new[w].frozen
       /\ wpc[w] = "written" => anchor.frozen = new[w].frozen
  /\ (\A w \in Writers : wpc[w] \notin {"writing", "written"}) => (running <=> ~anchor.frozen)

\* No calm read was later than the anchor says now, nor than an anchor that
\* waits for its publication says of the moment from which it goes on.  Until
\* it is written that anchor meets the old one there.
TimeInv ==
  /\ (\A w \in Writers : wpc[w] # "writing") => calm <= VirtAt(anchor, real)
  /\ \A w \in Writers :
       /\ wpc[w] \in {"prepared", "writing"} =>
            /\ calm <= VirtAt(new[w], Moment(new[w]))
            /\ new[w].frozen \/ new[w].real0 <= real
       /\ wpc[w] = "prepared" =>
            VirtAt(anchor, Moment(new[w])) = VirtAt(new[w], Moment(new[w]))
       /\ wpc[w] = "writing" => \A f \in Fields \ wleft[w] : anchor[f] = new[w][f]

\* Nothing a reader will be told is before the calm reads of its start.
SinceInv ==
  \A r \in Readers :
    /\ rpc[r] \in {"copy", "test"} => since[r].calm <= calm
    /\ rpc[r] = "test" => now[r] <= real
    /\ Accepted(r) => VirtAt(anchor, now[r]) >= since[r].calm

IInv == TypeOK /\ LockInv /\ SeqInv /\ ReadInv /\ EventInv /\ TimeInv /\ SinceInv
-----------------------------------------------------------------------------
(* Types. *)

(* Copying a field of one anchor into another gives an anchor.              *)
LEMMA FieldType ==
  ASSUME NEW a \in Anchors, NEW b \in Anchors, NEW f \in Fields
  PROVE  [a EXCEPT ![f] = b[f]] \in Anchors
<1>1. CASE f = "real0"
  BY <1>1 DEF Anchors
<1>2. CASE f = "virt0"
  BY <1>2 DEF Anchors
<1>3. CASE f = "frozen_at"
  BY <1>3 DEF Anchors
<1>4. CASE f = "speed"
  BY <1>4 DEF Anchors
<1>5. CASE f = "frozen"
  BY <1>5 DEF Anchors
<1>6. QED
  BY <1>1, <1>2, <1>3, <1>4, <1>5 DEF Fields

(* Virtual time is an integer.                                              *)
LEMMA VirtAtType ==
  ASSUME NEW a \in Anchors, NEW t \in Nat
  PROVE  VirtAt(a, t) \in Int
<1>0. Speeds \subseteq Nat
  BY ConstantsAssumption DEF ConstantsAssumption
<1>1. /\ a.virt0 \in Int /\ a.real0 \in Int /\ a.speed \in Int /\ a.frozen_at \in Int /\ t \in Int
  <2>1. a.speed \in Speeds \cup {2} /\ a.virt0 \in Int /\ a.real0 \in Nat /\ a.frozen_at \in Nat
    BY DEF Anchors
  <2>2. a.speed \in Nat
    <3>1. CASE a.speed \in Speeds
      BY <1>0, <3>1
    <3>2. CASE a.speed = 2
      BY <3>2
    <3>3. QED
      BY <2>1, <3>1, <3>2
  <2>3. QED
    BY <2>1, <2>2
<1>2. \A x \in Int, y \in Int : x * y \in Int /\ x - y \in Int /\ x \div 2 \in Int /\ x + y \in Int
  OBVIOUS
<1>3. QED
  BY <1>1, <1>2 DEF VirtAt

(* What an operation asks for is an anchor.                                 *)
LEMMA WantedType ==
  ASSUME TypeOK, NEW w \in Writers
  PROVE  Wanted(w) \in Anchors
<1>1. anchor \in Anchors /\ real \in Nat /\ op[w] \in Ops
  BY DEF TypeOK
<1>2. ASSUME NEW t \in Nat
      PROVE  Reanchored(anchor, t) \in Anchors
  BY <1>1, <1>2, VirtAtType DEF Reanchored, Anchors
<1>3. anchor.frozen_at \in Nat
  BY <1>1 DEF Anchors
<1>4. CASE op[w].kind = "speed"
  <2>1. op[w].speed \in Speeds
    BY <1>1, <1>4 DEF Ops
  <2>2. PICK t \in Nat : Wanted(w) = [Reanchored(anchor, t) EXCEPT !.speed = op[w].speed]
    BY <1>1, <1>3, <1>4 DEF Wanted
  <2>3. QED
    BY <1>2, <2>1, <2>2 DEF Anchors
<1>5. CASE op[w].kind # "speed"
  <2>1. Reanchored(anchor, anchor.frozen_at) \in Anchors
    BY <1>2, <1>3
  <2>2. [Reanchored(anchor, anchor.frozen_at) EXCEPT !.frozen = FALSE, !.real0 = real] \in Anchors
    BY <1>1, <2>1 DEF Anchors
  <2>3. [anchor EXCEPT !.frozen_at = real, !.frozen = TRUE] \in Anchors
    BY <1>1 DEF Anchors
  <2>4. QED
    BY <1>5, <2>2, <2>3 DEF Wanted
<1>6. QED
  BY <1>4, <1>5

(* The clock starts as an anchor.                                           *)
LEMMA StartType == Start \in Anchors /\ Thaw \in Ops /\ ~Start.frozen
BY DEF Start, Anchors, Thaw, Ops
-----------------------------------------------------------------------------
(* No step leaves the types.                                                *)
LEMMA TypesKept ==
  ASSUME TypeOK, [Next]_vars
  PROVE  TypeOK'
<1>1. CASE \E w \in Writers : WriterStep(w)
  <2>1. PICK w \in Writers : WriterStep(w)
    BY <1>1
  <2> USE <2>1 DEF WriterStep, Lock, NothingToDo, Prepare, BeginWrite, WriteField, EndWrite,
                   Event, Unlock, WriterAt, Return, clock, readerVars
  <2>2. UNCHANGED <<real, readerVars>>
    OBVIOUS
  <2>3. seq' \in Nat
    <3>1. seq \in Nat /\ seq + 1 \in Nat /\ seq' \in {seq, seq + 1}
      BY DEF TypeOK
    <3>2. QED
      BY <3>1
  <2>4. anchor' \in Anchors
    <3>1. CASE WriteField(w)
      <4>1. PICK f \in wleft[w] : anchor' = [anchor EXCEPT ![f] = new[w][f]]
        BY <3>1
      <4>2. f \in Fields /\ anchor \in Anchors /\ new[w] \in Anchors
        BY DEF TypeOK
      <4>3. QED
        BY <4>1, <4>2, FieldType
    <3>2. CASE UNCHANGED anchor
      BY <3>2 DEF TypeOK
    <3>3. QED
      BY <3>1, <3>2
  <2>5. lock' \in Writers \cup {NoWriter}
    BY DEF TypeOK
  <2>6. running' \in BOOLEAN
    <3>1. CASE Event(w)
      BY <3>1 DEF TypeOK, Ops
    <3>2. CASE UNCHANGED running
      BY <3>2 DEF TypeOK
    <3>3. QED
      BY <3>1, <3>2
  <2>7. wpc' \in [Writers -> {"idle", "locked", "prepared", "writing", "written", "unlock"}]
    <3>1. PICK to \in {"idle", "locked", "prepared", "writing", "written", "unlock"} :
            wpc' = [wpc EXCEPT ![w] = to] \/ wpc' = wpc
      OBVIOUS
    <3>2. QED
      BY <3>1 DEF TypeOK
  <2>8. op' \in [Writers -> Ops]
    <3>1. (\E o \in Ops : op' = [op EXCEPT ![w] = o]) \/ op' = op
      BY StartType
    <3>2. QED
      BY <3>1 DEF TypeOK
  <2>9. new' \in [Writers -> Anchors]
    <3>1. (\E a \in Anchors : new' = [new EXCEPT ![w] = a]) \/ new' = new
      BY StartType, WantedType
    <3>2. QED
      BY <3>1 DEF TypeOK
  <2>10. wleft' \in [Writers -> SUBSET Fields]
    <3>1. (\E fs \in SUBSET Fields : wleft' = [wleft EXCEPT ![w] = fs]) \/ wleft' = wleft
      <4>1. CASE WriteField(w)
        <5>1. PICK f \in wleft[w] : wleft' = [wleft EXCEPT ![w] = wleft[w] \ {f}]
          BY <4>1
        <5>2. wleft[w] \ {f} \in SUBSET Fields
          BY DEF TypeOK
        <5>3. QED
          BY <5>1, <5>2
      <4>2. CASE BeginWrite(w)
        BY <4>2
      <4>3. CASE UNCHANGED wleft
        BY <4>3
      <4>4. QED
        BY <4>1, <4>2, <4>3
    <3>2. QED
      BY <3>1 DEF TypeOK
  <2>11. QED
    BY <2>2, <2>3, <2>4, <2>5, <2>6, <2>7, <2>8, <2>9, <2>10 DEF TypeOK, readerVars
<1>2. CASE \E r \in Readers : ReaderStep(r)
  <2>1. PICK r \in Readers : ReaderStep(r)
    BY <1>2
  <2> USE <2>1 DEF ReaderStep, Begin, ReadField, ReadNow, Retry, ReadTime, Wait, WaitEnds,
                   ReaderAt, Enter, Leave, others, clock, writerVars
  <2>2. UNCHANGED <<real, clock, writerVars>>
    OBVIOUS
  <2>3. rpc' \in [Readers -> {"idle", "copy", "test", "asleep"}]
    <3>1. PICK to \in {"idle", "copy", "test", "asleep"} : rpc' = [rpc EXCEPT ![r] = to]
      OBVIOUS
    <3>2. QED
      BY <3>1 DEF TypeOK
  <2>4. s1' \in [Readers -> Nat]
    <3>1. PICK n \in {0, seq, s1[r]} : s1' = [s1 EXCEPT ![r] = n] \/ s1' = s1
      OBVIOUS
    <3>2. QED
      BY <3>1 DEF TypeOK
  <2>5. now' \in [Readers -> Nat]
    <3>1. PICK n \in {0, real, now[r]} : now' = [now EXCEPT ![r] = n] \/ now' = now
      OBVIOUS
    <3>2. QED
      BY <3>1 DEF TypeOK
  <2>6. copy' \in [Readers -> Anchors]
    <3>1. CASE ReadField(r)
      <4>1. PICK f \in rleft[r] : copy' = [copy EXCEPT ![r] = [copy[r] EXCEPT ![f] = anchor[f]]]
        BY <3>1 DEF TypeOK
      <4>2. f \in Fields /\ anchor \in Anchors /\ copy[r] \in Anchors
        BY DEF TypeOK
      <4>3. [copy[r] EXCEPT ![f] = anchor[f]] \in Anchors
        BY <4>2, FieldType
      <4>4. QED
        BY <4>1, <4>3 DEF TypeOK
    <3>2. CASE copy' = [copy EXCEPT ![r] = Start] \/ copy' = copy
      BY <3>2, StartType DEF TypeOK
    <3>3. QED
      BY <3>1, <3>2
  <2>7. rleft' \in [Readers -> SUBSET Fields]
    <3>1. CASE ReadField(r)
      <4>1. PICK f \in rleft[r] : rleft' = [rleft EXCEPT ![r] = rleft[r] \ {f}]
        BY <3>1
      <4>2. rleft[r] \ {f} \in SUBSET Fields
        BY DEF TypeOK
      <4>3. QED
        BY <4>1, <4>2 DEF TypeOK
    <3>2. CASE rleft' = [rleft EXCEPT ![r] = Fields] \/ rleft' = rleft
      BY <3>2 DEF TypeOK
    <3>3. QED
      BY <3>1, <3>2
  <2>8. calm' \in Int /\ told' \in Int
    <3>1. VirtAt(copy[r], now[r]) \in Int /\ calm \in Int /\ told \in Int
      BY VirtAtType DEF TypeOK
    <3>2. calm' \in {calm, VirtAt(copy[r], now[r])} /\ told' \in {told, VirtAt(copy[r], now[r])}
      BY DEF Later
    <3>3. QED
      BY <3>1, <3>2
  <2>9. since' \in [Readers -> [calm : Int, told : Int]]
    <3>1. \/ since' = [since EXCEPT ![r] = [calm |-> calm, told |-> told]]
          \/ since' = [since EXCEPT ![r] = [calm |-> 0, told |-> 0]] \/ since' = since
      BY DEF Never
    <3>2. QED
      BY <3>1 DEF TypeOK
  <2>10. QED
    BY <2>2, <2>3, <2>4, <2>5, <2>6, <2>7, <2>8, <2>9 DEF TypeOK, clock, writerVars
<1>3. CASE Tick \/ UNCHANGED vars
  BY <1>3 DEF Tick, vars, clock, writerVars, readerVars, TypeOK
<1>4. QED
  BY <1>1, <1>2, <1>3 DEF Next
-----------------------------------------------------------------------------
(* The seqlock. *)

(* One writer at a time: while one is inside its call, no other is.         *)
LEMMA WriterAlone ==
  ASSUME IInv, NEW w \in Writers, WriterStep(w)
  PROVE  /\ \A v \in Writers \ {w} : wpc[v] = "idle" /\ wpc'[v] = "idle"
         /\ UNCHANGED readerVars
<1>1. \A v \in Writers \ {w} : wpc'[v] = wpc[v]
  BY DEF IInv, TypeOK, WriterStep, Lock, NothingToDo, Prepare, BeginWrite, WriteField, EndWrite,
         Event, Unlock, WriterAt
<1>2. lock \in {w, NoWriter}
  BY DEF IInv, LockInv, WriterStep, Lock, NothingToDo, Prepare, BeginWrite, WriteField, EndWrite,
         Event, Unlock, WriterAt
<1>3. \A v \in Writers \ {w} : wpc[v] = "idle"
  BY <1>2, ConstantsAssumption DEF IInv, LockInv, ConstantsAssumption
<1>4. UNCHANGED readerVars
  BY DEF WriterStep, Lock, NothingToDo, Prepare, BeginWrite, WriteField, EndWrite, Event, Unlock
<1>5. QED
  BY <1>1, <1>3, <1>4

(* The lock keeps naming the writer inside its call.                        *)
LEMMA LockKept ==
  ASSUME IInv, [Next]_vars
  PROVE  LockInv'
<1>1. ASSUME NEW w \in Writers, WriterStep(w)
      PROVE  LockInv'
  <2>1. \A v \in Writers \ {w} : wpc'[v] = "idle"
    BY <1>1, WriterAlone
  <2>2. lock' \in {w, NoWriter} /\ (wpc'[w] # "idle" <=> lock' = w)
    BY <1>1, ConstantsAssumption
       DEF IInv, TypeOK, LockInv, WriterStep, Lock, NothingToDo, Prepare, BeginWrite, WriteField,
           EndWrite, Event, Unlock, WriterAt, ConstantsAssumption
  <2>3. QED
    BY <2>1, <2>2, ConstantsAssumption DEF LockInv, ConstantsAssumption
<1>2. CASE UNCHANGED writerVars
  BY <1>2 DEF IInv, LockInv, writerVars
<1>3. QED
  BY <1>1, <1>2 DEF Next, Tick, ReaderStep, Begin, ReadField, ReadNow, Retry, ReadTime, Wait,
                    WaitEnds, ReaderAt, others, vars

(* The sequence number is odd while the anchor is written.                  *)
LEMMA SeqKept ==
  ASSUME IInv, [Next]_vars
  PROVE  SeqInv'
<1>1. seq \in Nat /\ SeqInv
  BY DEF IInv, TypeOK
<1>2. ASSUME NEW w \in Writers, WriterStep(w)
      PROVE  SeqInv'
  <2>1. \A v \in Writers \ {w} : wpc[v] = "idle" /\ wpc'[v] = "idle"
    BY <1>2, WriterAlone
  <2>2. wpc[w] = "writing" <=> seq % 2 = 1
    BY <1>1, <2>1 DEF SeqInv
  <2>3. (seq + 1) % 2 = 1 - (seq % 2) /\ seq % 2 \in {0, 1}
    BY <1>1
  <2>4. wpc'[w] = "writing" <=> seq' % 2 = 1
    <3>1. CASE BeginWrite(w)
      <4>1. wpc[w] = "prepared" /\ wpc'[w] = "writing" /\ seq' = seq + 1
        BY <3>1 DEF BeginWrite, WriterAt, IInv, TypeOK
      <4>2. seq % 2 = 0
        BY <2>2, <2>3, <4>1
      <4>3. QED
        BY <2>3, <4>1, <4>2
    <3>2. CASE EndWrite(w)
      <4>1. wpc[w] = "writing" /\ wpc'[w] = "written" /\ seq' = seq + 1
        BY <3>2 DEF EndWrite, WriterAt, IInv, TypeOK
      <4>2. seq % 2 = 1
        BY <2>2, <4>1
      <4>3. QED
        BY <2>3, <4>1, <4>2
    <3>3. CASE Lock(w) \/ NothingToDo(w) \/ Prepare(w) \/ WriteField(w) \/ Event(w) \/ Unlock(w)
      BY <2>2, <3>3 DEF Lock, NothingToDo, Prepare, WriteField, Event, Unlock, WriterAt, clock,
                        IInv, TypeOK
    <3>4. QED
      BY <1>2, <3>1, <3>2, <3>3 DEF WriterStep
  <2>5. seq' \in Nat
    BY TypesKept DEF IInv, TypeOK
  <2>6. \A n \in Nat : n % 2 \in {0, 1}
    OBVIOUS
  <2>7. QED
    BY <2>1, <2>4, <2>5, <2>6 DEF SeqInv
<1>3. CASE UNCHANGED <<seq, wpc>>
  BY <1>1, <1>3 DEF SeqInv
<1>4. QED
  BY <1>2, <1>3 DEF Next, Tick, ReaderStep, Begin, ReadField, ReadNow, Retry, ReadTime, Wait,
                    WaitEnds, ReaderAt, others, vars, clock, writerVars

(* The anchor changes only while the sequence number is odd, and the number *)
(* only grows.                                                              *)
LEMMA WriterChanges ==
  ASSUME IInv, NEW w \in Writers, WriterStep(w)
  PROVE  \/ seq' = seq /\ anchor' = anchor
         \/ seq' = seq /\ seq % 2 = 1
         \/ seq' = seq + 1 /\ anchor' = anchor
<1>1. CASE WriteField(w)
  BY <1>1 DEF IInv, SeqInv, WriteField
<1>2. CASE BeginWrite(w) \/ EndWrite(w)
  BY <1>2 DEF BeginWrite, EndWrite
<1>3. CASE Lock(w) \/ NothingToDo(w) \/ Prepare(w) \/ Event(w) \/ Unlock(w)
  BY <1>3 DEF Lock, NothingToDo, Prepare, Event, Unlock, clock
<1>4. QED
  BY <1>1, <1>2, <1>3 DEF WriterStep

(* What a reader has copied stays what is there, or is refused: a field     *)
(* changes only while the sequence number is odd, and the number grows.     *)
LEMMA ReadKept ==
  ASSUME IInv, [Next]_vars
  PROVE  ReadInv'
<1> DEFINE Read(r) ==
      /\ rpc[r] \in {"copy", "test"} => s1[r] <= seq
      /\ rpc[r] = "test" => rleft[r] = {}
      /\ rpc[r] \in {"copy", "test"} /\ Accepts(r) =>
           \A f \in Fields \ rleft[r] : copy[r][f] = anchor[f]
<1>1. /\ seq \in Nat /\ \A r \in Readers : Read(r) /\ s1[r] \in Nat
  BY DEF IInv, TypeOK, ReadInv
<1>2. ASSUME NEW w \in Writers, WriterStep(w)
      PROVE  ReadInv'
  <2>1. UNCHANGED readerVars
    BY <1>2, WriterAlone
  <2>2. \/ seq' = seq /\ anchor' = anchor
        \/ seq' = seq /\ seq % 2 = 1
        \/ seq' = seq + 1 /\ anchor' = anchor
    BY <1>2, WriterChanges
  <2>3. ASSUME NEW r \in Readers PROVE Read(r)'
    BY <1>1, <2>1, <2>2 DEF readerVars, Accepts
  <2>4. QED
    BY <2>3 DEF ReadInv
<1>3. ASSUME NEW r \in Readers, ReaderStep(r)
      PROVE  ReadInv'
  <2>1. seq' = seq /\ anchor' = anchor
    BY <1>3 DEF ReaderStep, Begin, ReadField, ReadNow, Retry, ReadTime, Wait, WaitEnds,
                ReaderAt, others, clock
  <2>2. ASSUME NEW q \in Readers \ {r} PROVE Read(q)'
    <3>1. /\ rpc'[q] = rpc[q] /\ s1'[q] = s1[q] /\ rleft'[q] = rleft[q] /\ copy'[q] = copy[q]
      BY <1>3 DEF IInv, TypeOK, ReaderStep, Begin, ReadField, ReadNow, Retry, ReadTime, Wait,
                  WaitEnds, ReaderAt, Enter, Leave
    <3>2. QED
      BY <1>1, <2>1, <3>1 DEF Accepts
  <2>4. Read(r)'
    <3>1. CASE Begin(r) \/ Retry(r)
      <4>1. rpc'[r] = "copy" /\ s1'[r] = seq /\ rleft'[r] = Fields
        BY <3>1 DEF Begin, Retry, ReaderAt, Enter, IInv, TypeOK
      <4>2. QED
        BY <1>1, <2>1, <4>1
    <3>2. CASE ReadField(r)
      <4>1. PICK f \in rleft[r] : /\ copy' = [copy EXCEPT ![r] = [copy[r] EXCEPT ![f] = anchor[f]]]
                                 /\ rleft' = [rleft EXCEPT ![r] = rleft[r] \ {f}]
        BY <3>2 DEF ReadField, IInv, TypeOK
      <4>2. rpc[r] = "copy" /\ rpc'[r] = "copy" /\ s1'[r] = s1[r]
        BY <3>2 DEF ReadField, ReaderAt, IInv, TypeOK
      <4>3. copy'[r] = [copy[r] EXCEPT ![f] = anchor[f]] /\ rleft'[r] = rleft[r] \ {f}
        BY <4>1 DEF IInv, TypeOK
      <4>4. Fields \subseteq DOMAIN copy[r]
        BY DEF IInv, TypeOK, Anchors, Fields
      <4>5. \A g \in Fields : copy'[r][g] = IF g = f THEN anchor[g] ELSE copy[r][g]
        BY <4>3, <4>4
      <4>6. QED
        BY <1>1, <2>1, <4>2, <4>3, <4>5 DEF Accepts
    <3>3. CASE ReadNow(r)
      <4>1. rpc[r] = "copy" /\ rleft[r] = {} /\ UNCHANGED <<s1, copy, rleft>>
        BY <3>3 DEF ReadNow, ReaderAt
      <4>2. QED
        BY <1>1, <2>1, <4>1 DEF Accepts
    <3>4. CASE ReadTime(r) \/ Wait(r) \/ WaitEnds(r)
      <4>1. rpc'[r] \in {"idle", "asleep"}
        BY <3>4 DEF ReadTime, Wait, WaitEnds, ReaderAt, IInv, TypeOK
      <4>2. QED
        BY <4>1
    <3>5. QED
      BY <1>3, <3>1, <3>2, <3>3, <3>4 DEF ReaderStep
  <2>5. QED
    BY <2>2, <2>4 DEF ReadInv
<1>4. CASE Tick \/ UNCHANGED vars
  BY <1>1, <1>4 DEF Tick, vars, clock, writerVars, readerVars, ReadInv, Accepts
<1>5. QED
  BY <1>2, <1>3, <1>4 DEF Next

(* Under the lock the event follows the anchor.                             *)
LEMMA EventKept ==
  ASSUME IInv, [Next]_vars
  PROVE  EventInv'
<1> DEFINE Asks(w) ==
      /\ wpc[w] \in {"prepared", "writing", "written"} =>
           (new[w].frozen <=> IF op[w].kind = "freeze" THEN op[w].on ELSE ~running)
      /\ wpc[w] = "writing" /\ "frozen" \notin wleft[w] => anchor.frozen = new[w].frozen
      /\ wpc[w] = "written" => anchor.frozen = new[w].frozen
<1>1. /\ EventInv /\ TypeOK /\ \A w \in Writers : Asks(w)
  BY DEF IInv, EventInv
<1>2. ASSUME NEW w \in Writers, WriterStep(w)
      PROVE  EventInv'
  <2>1. \A v \in Writers \ {w} : wpc[v] = "idle" /\ wpc'[v] = "idle"
    BY <1>2, WriterAlone
  <2>2. wpc[w] \notin {"writing", "written"} => (running <=> ~anchor.frozen)
    BY <1>1, <2>1 DEF EventInv
  <2> DEFINE Settled == wpc[w] \notin {"writing", "written"} => (running <=> ~anchor.frozen)
  <2>3. SUFFICES Asks(w)' /\ Settled'
    BY <2>1 DEF EventInv
  <2>4. CASE Lock(w) \/ NothingToDo(w) \/ Unlock(w)
    <3>1. wpc'[w] \in {"locked", "unlock", "idle"} /\ UNCHANGED <<anchor, running>>
      BY <1>1, <2>4 DEF Lock, NothingToDo, Unlock, WriterAt, TypeOK, clock
    <3>2. wpc[w] \notin {"writing", "written"}
      BY <2>4 DEF Lock, NothingToDo, Unlock, WriterAt
    <3>3. QED
      BY <2>2, <3>1, <3>2
  <2>5. CASE Prepare(w)
    <3>1. /\ wpc[w] = "locked" /\ wpc'[w] = "prepared" /\ new'[w] = Wanted(w)
          /\ UNCHANGED <<anchor, running, op>>
      BY <1>1, <2>5 DEF Prepare, WriterAt, TypeOK, clock
    <3>2. anchor \in Anchors /\ op[w] \in Ops /\ running \in BOOLEAN
      BY <1>1 DEF TypeOK
    <3>3. Wanted(w).frozen <=> IF op[w].kind = "freeze" THEN op[w].on ELSE anchor.frozen
      BY <3>2 DEF Wanted, Reanchored, Anchors, Ops
    <3>4. QED
      BY <2>2, <3>1, <3>2, <3>3
  <2>6. CASE BeginWrite(w)
    <3>1. /\ wpc[w] = "prepared" /\ wpc'[w] = "writing" /\ wleft'[w] = Fields
          /\ UNCHANGED <<anchor, running, op, new>>
      BY <1>1, <2>6 DEF BeginWrite, WriterAt, TypeOK
    <3>2. QED
      BY <1>1, <3>1 DEF Fields
  <2>7. CASE WriteField(w)
    <3>1. PICK f \in wleft[w] : /\ anchor' = [anchor EXCEPT ![f] = new[w][f]]
                               /\ wleft' = [wleft EXCEPT ![w] = wleft[w] \ {f}]
      BY <2>7 DEF WriteField
    <3>2. wpc[w] = "writing" /\ UNCHANGED <<wpc, running, op, new>>
      BY <2>7 DEF WriteField
    <3>3. wleft'[w] = wleft[w] \ {f}
      BY <1>1, <3>1 DEF TypeOK
    <3>4. anchor'.frozen = IF f = "frozen" THEN new[w].frozen ELSE anchor.frozen
      BY <1>1, <3>1 DEF TypeOK, Anchors
    <3>5. QED
      BY <1>1, <3>2, <3>3, <3>4
  <2>8. CASE EndWrite(w)
    <3>1. /\ wpc[w] = "writing" /\ wpc'[w] = "written" /\ wleft[w] = {}
          /\ UNCHANGED <<anchor, running, op, new>>
      BY <1>1, <2>8 DEF EndWrite, WriterAt, TypeOK
    <3>2. QED
      BY <1>1, <3>1
  <2>9. CASE Event(w)
    <3>1. /\ wpc[w] = "written" /\ wpc'[w] = "unlock" /\ UNCHANGED anchor
          /\ running' = IF op[w].kind = "freeze" THEN ~op[w].on ELSE running
      BY <1>1, <2>9 DEF Event, WriterAt, TypeOK, clock
    <3>2. anchor.frozen <=> IF op[w].kind = "freeze" THEN op[w].on ELSE ~running
      BY <1>1, <3>1
    <3>3. running' <=> ~anchor'.frozen
      BY <3>1, <3>2
    <3>4. QED
      BY <3>1, <3>3
  <2>10. QED
    BY <1>2, <2>4, <2>5, <2>6, <2>7, <2>8, <2>9 DEF WriterStep
<1>3. CASE UNCHANGED <<anchor, writerVars>>
  BY <1>1, <1>3 DEF EventInv, writerVars
<1>4. QED
  BY <1>2, <1>3 DEF Next, Tick, ReaderStep, Begin, ReadField, ReadNow, Retry, ReadTime, Wait,
                    WaitEnds, ReaderAt, others, vars, clock
-----------------------------------------------------------------------------
(* Virtual time.                                                            *)

(* The numbers of an anchor.                                                *)
LEMMA AnchorNumbers ==
  ASSUME NEW a \in Anchors
  PROVE  a.virt0 \in Int /\ a.real0 \in Int /\ a.frozen_at \in Int /\ a.speed \in Nat
<1>1. a.speed \in Speeds \cup {2} /\ a.virt0 \in Int /\ a.real0 \in Nat /\ a.frozen_at \in Nat
  BY DEF Anchors
<1>2. Speeds \cup {2} \subseteq Nat
  BY ConstantsAssumption DEF ConstantsAssumption
<1>3. QED
  BY <1>1, <1>2

(* Multiplication by a speed keeps the order.                               *)
LEMMA TimesGrows ==
  ASSUME NEW x \in Int, NEW y \in Int, NEW n \in Nat, x <= y
  PROVE  x * n <= y * n
OBVIOUS

(* An anchor's virtual time never runs back.                                *)
LEMMA VirtAtGrows ==
  ASSUME NEW a \in Anchors, NEW t \in Int, NEW u \in Int, t <= u
  PROVE  VirtAt(a, t) <= VirtAt(a, u)
<1>1. a.virt0 \in Int /\ a.real0 \in Int /\ a.frozen_at \in Int /\ a.speed \in Nat
  BY AnchorNumbers
<1>2. CASE a.frozen
  <2>1. VirtAt(a, t) = VirtAt(a, u)
    BY <1>2 DEF VirtAt
  <2>2. VirtAt(a, t) \in Int
    <3>1. \A x \in Int, y \in Int : x * y \in Int /\ x - y \in Int /\ x \div 2 \in Int /\ x + y \in Int
      OBVIOUS
    <3>2. QED
      BY <1>1, <1>2, <3>1 DEF VirtAt
  <2>3. QED
    BY <2>1, <2>2
<1>3. CASE ~a.frozen
  <2>1. \A x \in Int, y \in Int, n \in Nat : x <= y => x * n <= y * n
    BY TimesGrows
  <2>2. (t - a.real0) * a.speed <= (u - a.real0) * a.speed
    <3>1. t - a.real0 \in Int /\ u - a.real0 \in Int /\ t - a.real0 <= u - a.real0
      BY <1>1
    <3>2. QED
      BY <1>1, <2>1, <3>1
  <2>3. \A x \in Int, y \in Int : x <= y => x \div 2 <= y \div 2
    OBVIOUS
  <2>4. \A x \in Int, y \in Int : x * y \in Int /\ x - y \in Int /\ x \div 2 \in Int
    OBVIOUS
  <2> DEFINE x == (t - a.real0) * a.speed
             y == (u - a.real0) * a.speed
  <2>5. x \in Int /\ y \in Int /\ x <= y
    BY <1>1, <2>2, <2>4
  <2>6. VirtAt(a, t) = a.virt0 + x \div 2 /\ VirtAt(a, u) = a.virt0 + y \div 2
    BY <1>3 DEF VirtAt
  <2> HIDE DEF x, y
  <2>7. x \div 2 <= y \div 2 /\ x \div 2 \in Int /\ y \div 2 \in Int
    BY <2>3, <2>4, <2>5
  <2>8. QED
    BY <1>1, <2>6, <2>7
<1>4. QED
  BY <1>2, <1>3

(* A frozen anchor tells one time.                                          *)
LEMMA FrozenStands ==
  ASSUME NEW a, NEW t, NEW u, a.frozen
  PROVE  VirtAt(a, t) = VirtAt(a, u)
BY DEF VirtAt

(* An anchor tells its own virtual time at the moment it is of.             *)
LEMMA VirtAtOrigin ==
  ASSUME NEW a \in Anchors, IF a.frozen THEN a.real0 = a.frozen_at ELSE TRUE
  PROVE  VirtAt(a, Moment(a)) = a.virt0
<1>1. a.virt0 \in Int /\ a.real0 \in Int /\ a.frozen_at \in Int /\ a.speed \in Nat
  BY AnchorNumbers
<1>2. VirtAt(a, Moment(a)) = a.virt0 + ((a.real0 - a.real0) * a.speed) \div 2
  BY DEF VirtAt, Moment
<1>3. (a.real0 - a.real0) * a.speed = 0
  <2>1. a.real0 - a.real0 = 0
    BY <1>1
  <2>2. 0 * a.speed = 0
    BY <1>1
  <2>3. QED
    BY <2>1, <2>2
<1>4. 0 \div 2 = 0
  OBVIOUS
<1>5. QED
  BY <1>1, <1>2, <1>3, <1>4

(* "continuous across speed changes and freezes": the anchor an update       *)
(* wants meets the old one in the moment from which it goes on, and tells    *)
(* there what the old one says now.                                          *)
LEMMA WantedMeets ==
  ASSUME TypeOK, NEW w \in Writers, ~Pointless(w)
  PROVE  LET b == Wanted(w) IN
         /\ VirtAt(b, Moment(b)) = VirtAt(anchor, real)
         /\ VirtAt(anchor, Moment(b)) = VirtAt(anchor, real)
         /\ b.frozen \/ b.real0 <= real
<1> DEFINE b == Wanted(w)
<1>1. anchor \in Anchors /\ real \in Nat /\ op[w] \in Ops /\ b \in Anchors
  BY WantedType DEF TypeOK
<1>2. anchor.frozen \in BOOLEAN
  BY <1>1 DEF Anchors
<1>3. CASE op[w].kind = "speed" /\ anchor.frozen
  <2>1. /\ b.frozen /\ b.frozen_at = anchor.frozen_at /\ b.real0 = anchor.frozen_at
        /\ b.virt0 = VirtAt(anchor, anchor.frozen_at)
    BY <1>1, <1>3 DEF Wanted, Reanchored, Anchors
  <2>2. VirtAt(b, Moment(b)) = VirtAt(anchor, anchor.frozen_at)
    BY <1>1, <2>1, VirtAtOrigin
  <2>3. QED
    BY <1>3, <2>1, <2>2, FrozenStands
<1>4. CASE op[w].kind = "speed" /\ ~anchor.frozen
  <2>1. ~b.frozen /\ b.real0 = real /\ b.virt0 = VirtAt(anchor, real)
    BY <1>1, <1>4 DEF Wanted, Reanchored, Anchors
  <2>2. VirtAt(b, Moment(b)) = VirtAt(anchor, real)
    BY <1>1, <2>1, VirtAtOrigin
  <2>3. QED
    BY <1>1, <2>1, <2>2 DEF Moment
<1>5. CASE op[w].kind = "freeze" /\ op[w].on
  <2>1. ~anchor.frozen
    BY <1>2, <1>5 DEF Pointless
  <2>2. /\ b.frozen /\ b.frozen_at = real /\ b.real0 = anchor.real0
        /\ b.virt0 = anchor.virt0 /\ b.speed = anchor.speed
    BY <1>1, <1>5 DEF Wanted, Anchors
  <2>3. QED
    BY <2>1, <2>2 DEF VirtAt, Moment
<1>6. CASE op[w].kind = "freeze" /\ ~op[w].on
  <2>1. anchor.frozen
    <3>1. op[w].on = FALSE
      BY <1>1, <1>6 DEF Ops
    <3>2. QED
      BY <1>2, <1>6, <3>1 DEF Pointless
  <2>2. ~b.frozen /\ b.real0 = real /\ b.virt0 = VirtAt(anchor, anchor.frozen_at)
    BY <1>1, <1>6 DEF Wanted, Reanchored, Anchors
  <2>3. VirtAt(b, Moment(b)) = VirtAt(anchor, anchor.frozen_at)
    BY <1>1, <2>2, VirtAtOrigin
  <2>4. QED
    BY <1>1, <2>1, <2>2, <2>3, FrozenStands
<1>7. op[w].kind \in {"speed", "freeze"}
  BY <1>1 DEF Ops
<1>8. QED
  BY <1>3, <1>4, <1>5, <1>6, <1>7

(* A reader that may leave its loop is in no update, and holds the anchor.  *)
LEMMA AcceptedCalmly ==
  ASSUME IInv, NEW r \in Readers, Accepted(r)
  PROVE  copy[r] = anchor /\ \A w \in Writers : wpc[w] # "writing"
<1>1. \A f \in Fields : copy[r][f] = anchor[f]
  BY DEF IInv, ReadInv, Accepted
<1>2. copy[r] \in Anchors /\ anchor \in Anchors
  BY DEF IInv, TypeOK
<1>3. copy[r] = anchor
  BY <1>1, <1>2 DEF Anchors, Fields
<1>4. seq % 2 = 0
  BY DEF Accepted, Accepts
<1>5. \A w \in Writers : wpc[w] # "writing"
  BY <1>4 DEF IInv, SeqInv
<1>6. QED
  BY <1>3, <1>5

(* What an update makes of the calm reads.                                  *)
LEMMA TimeKeptByWriter ==
  ASSUME IInv, NEW w \in Writers, WriterStep(w)
  PROVE  TimeInv'
<1> DEFINE Waits ==
      /\ wpc[w] \in {"prepared", "writing"} =>
           /\ calm <= VirtAt(new[w], Moment(new[w]))
           /\ new[w].frozen \/ new[w].real0 <= real
      /\ wpc[w] = "prepared" => VirtAt(anchor, Moment(new[w])) = VirtAt(new[w], Moment(new[w]))
      /\ wpc[w] = "writing" => \A f \in Fields \ wleft[w] : anchor[f] = new[w][f]
    Stands == wpc[w] # "writing" => calm <= VirtAt(anchor, real)
<1>1. \A v \in Writers \ {w} : wpc[v] = "idle" /\ wpc'[v] = "idle"
  BY WriterAlone
<1>2. real' = real /\ calm' = calm
  <2>1. UNCHANGED readerVars
    BY WriterAlone
  <2>2. real' = real
    BY DEF WriterStep, Lock, NothingToDo, Prepare, BeginWrite, WriteField, EndWrite, Event, Unlock
  <2>3. QED
    BY <2>1, <2>2 DEF readerVars
<1>3. Waits /\ Stands
  BY <1>1 DEF IInv, TimeInv
<1>4. SUFFICES Waits' /\ Stands'
  BY <1>1 DEF TimeInv
<1>5. CASE Lock(w) \/ NothingToDo(w) \/ Event(w) \/ Unlock(w)
  <2>1. wpc'[w] \in {"locked", "unlock", "idle"} /\ wpc[w] # "writing" /\ anchor' = anchor
    BY <1>5 DEF IInv, TypeOK, Lock, NothingToDo, Event, Unlock, WriterAt, clock
  <2>2. QED
    BY <1>2, <1>3, <2>1
<1>6. CASE Prepare(w)
  <2>1. /\ wpc[w] = "locked" /\ wpc'[w] = "prepared" /\ anchor' = anchor
        /\ new'[w] = Wanted(w) /\ ~Pointless(w)
    BY <1>6 DEF IInv, TypeOK, Prepare, WriterAt, clock
  <2>2. /\ VirtAt(new'[w], Moment(new'[w])) = VirtAt(anchor, real)
        /\ VirtAt(anchor, Moment(new'[w])) = VirtAt(anchor, real)
        /\ new'[w].frozen \/ new'[w].real0 <= real
    BY <2>1, WantedMeets DEF IInv
  <2>3. VirtAt(anchor, real)' = VirtAt(anchor, real)
    BY <1>2, <2>1 DEF VirtAt
  <2>4. /\ VirtAt(new[w], Moment(new[w]))' = VirtAt(new'[w], Moment(new'[w]))
        /\ VirtAt(anchor, Moment(new[w]))' = VirtAt(anchor, Moment(new'[w]))
    BY <2>1 DEF VirtAt, Moment
  <2>5. QED
    BY <1>2, <1>3, <2>1, <2>2, <2>3, <2>4
<1>7. CASE BeginWrite(w)
  <2>1. /\ wpc[w] = "prepared" /\ wpc'[w] = "writing" /\ wleft'[w] = Fields
        /\ new' = new /\ anchor' = anchor
    BY <1>7 DEF IInv, TypeOK, BeginWrite, WriterAt
  <2>2. QED
    BY <1>2, <1>3, <2>1 DEF VirtAt, Moment
<1>8. CASE WriteField(w)
  <2>1. PICK f \in wleft[w] : /\ anchor' = [anchor EXCEPT ![f] = new[w][f]]
                             /\ wleft' = [wleft EXCEPT ![w] = wleft[w] \ {f}]
    BY <1>8 DEF WriteField
  <2>2. wpc[w] = "writing" /\ wpc' = wpc /\ new' = new
    BY <1>8 DEF WriteField
  <2>3. wleft'[w] = wleft[w] \ {f} /\ Fields \subseteq DOMAIN anchor
    BY <2>1 DEF IInv, TypeOK, Anchors, Fields
  <2>4. \A g \in Fields : anchor'[g] = IF g = f THEN new[w][g] ELSE anchor[g]
    BY <2>1, <2>3
  <2>5. \A g \in Fields \ wleft'[w] : anchor'[g] = new'[w][g]
    BY <1>3, <2>2, <2>3, <2>4
  <2>6. VirtAt(new[w], Moment(new[w]))' = VirtAt(new[w], Moment(new[w]))
    BY <2>2 DEF VirtAt, Moment
  <2>7. QED
    BY <1>2, <1>3, <2>2, <2>5, <2>6
<1>9. CASE EndWrite(w)
  <2>1. wpc[w] = "writing" /\ wpc'[w] = "written" /\ wleft[w] = {} /\ anchor' = anchor
    BY <1>9 DEF IInv, TypeOK, EndWrite, WriterAt
  <2>2. anchor \in Anchors /\ new[w] \in Anchors /\ real \in Nat /\ calm \in Int
    BY DEF IInv, TypeOK
  <2>3. anchor = new[w]
    <3>1. \A f \in Fields : anchor[f] = new[w][f]
      BY <1>3, <2>1
    <3>2. QED
      BY <2>2, <3>1 DEF Anchors, Fields
  <2>4. calm <= VirtAt(anchor, Moment(anchor))
    BY <1>3, <2>1, <2>3
  <2>5. VirtAt(anchor, Moment(anchor)) <= VirtAt(anchor, real)
    <3>1. CASE anchor.frozen
      <4>1. VirtAt(anchor, Moment(anchor)) = VirtAt(anchor, real)
        BY <3>1, FrozenStands
      <4>2. VirtAt(anchor, real) \in Int
        BY <2>2, VirtAtType
      <4>3. QED
        BY <4>1, <4>2
    <3>2. CASE ~anchor.frozen
      <4>1. Moment(anchor) = anchor.real0 /\ anchor.real0 <= real
        BY <1>3, <2>1, <2>3, <3>2 DEF Moment
      <4>2. anchor.real0 \in Int
        BY <2>2, AnchorNumbers
      <4>3. QED
        BY <2>2, <4>1, <4>2, VirtAtGrows
    <3>3. QED
      BY <3>1, <3>2
  <2>6. calm <= VirtAt(anchor, real)
    <3>1. VirtAt(anchor, real) \in Int /\ VirtAt(anchor, Moment(anchor)) \in Int
      <4>1. Moment(anchor) \in Nat
        BY <2>2 DEF Moment, Anchors
      <4>2. QED
        BY <2>2, <4>1, VirtAtType
    <3>2. QED
      BY <2>2, <2>4, <2>5, <3>1
  <2>7. VirtAt(anchor, real)' = VirtAt(anchor, real)
    BY <1>2, <2>1 DEF VirtAt
  <2>8. QED
    BY <1>2, <2>1, <2>6, <2>7
<1>10. QED
  BY <1>5, <1>6, <1>7, <1>8, <1>9 DEF WriterStep

(* A calm read is no later than the anchor says now, nor than an anchor     *)
(* that waits says of its moment: a later read than that would have raced.  *)
LEMMA CalmRead ==
  ASSUME IInv, NEW r \in Readers, Accepted(r), ~Raced(r)
  PROVE  LET answer == VirtAt(copy[r], now[r]) IN
         /\ answer \in Int /\ answer <= VirtAt(anchor, real)
         /\ \A w \in Writers : wpc[w] = "prepared" =>
              answer <= VirtAt(new[w], Moment(new[w]))
<1>1. copy[r] = anchor
  BY AcceptedCalmly
<1>2. anchor \in Anchors /\ now[r] \in Nat /\ real \in Nat
  BY DEF IInv, TypeOK
<1>3. now[r] <= real
  BY DEF IInv, SinceInv, Accepted
<1>4. VirtAt(anchor, now[r]) \in Int
  BY <1>2, VirtAtType
<1>5. VirtAt(anchor, now[r]) <= VirtAt(anchor, real)
  BY <1>2, <1>3, VirtAtGrows
<1>6. ASSUME NEW w \in Writers, wpc[w] = "prepared"
      PROVE  VirtAt(anchor, now[r]) <= VirtAt(new[w], Moment(new[w]))
  <2>1. VirtAt(anchor, Moment(new[w])) = VirtAt(new[w], Moment(new[w]))
    BY <1>6 DEF IInv, TimeInv
  <2>2. Moment(new[w]) \in Nat
    BY DEF IInv, TypeOK, Moment, Anchors
  <2>3. CASE anchor.frozen
    <3>1. VirtAt(anchor, now[r]) = VirtAt(anchor, Moment(new[w]))
      BY <2>3, FrozenStands
    <3>2. QED
      BY <1>4, <2>1, <3>1
  <2>4. CASE ~anchor.frozen
    <3>1. now[r] <= Moment(new[w])
      BY <1>2, <1>6, <2>2, <2>4 DEF Raced
    <3>2. VirtAt(anchor, now[r]) <= VirtAt(anchor, Moment(new[w]))
      BY <1>2, <2>2, <3>1, VirtAtGrows
    <3>3. QED
      BY <2>1, <3>2
  <2>5. QED
    BY <2>3, <2>4
<1>7. QED
  BY <1>1, <1>4, <1>5, <1>6

(* What a reader or the clock itself makes of the calm reads.               *)
LEMMA TimeKept ==
  ASSUME IInv, [Next]_vars
  PROVE  TimeInv'
<1>1. TimeInv /\ TypeOK
  BY DEF IInv
<1>2. CASE \E w \in Writers : WriterStep(w)
  BY <1>2, TimeKeptByWriter
<1>3. ASSUME NEW r \in Readers, ReaderStep(r)
      PROVE  TimeInv'
  <2>1. UNCHANGED <<real, anchor, wpc, new, wleft>>
    BY <1>3 DEF ReaderStep, Begin, ReadField, ReadNow, Retry, ReadTime, Wait, WaitEnds, ReaderAt,
                others, clock, writerVars
  <2>2. CASE calm' = calm
    BY <1>1, <2>1, <2>2 DEF TimeInv, VirtAt, Moment
  <2>3. CASE calm' # calm
    <3>1. ReadTime(r)
      BY <1>3, <2>3 DEF ReaderStep, Begin, ReadField, ReadNow, Retry, ReadTime, Wait, WaitEnds, Enter
    <3>2. Accepted(r) /\ ~Raced(r) /\ calm' = VirtAt(copy[r], now[r])
      BY <2>3, <3>1 DEF ReadTime, ReaderAt, Accepted, Later
    <3>3. /\ calm' <= VirtAt(anchor, real)
          /\ \A w \in Writers : wpc[w] = "prepared" => calm' <= VirtAt(new[w], Moment(new[w]))
          /\ \A w \in Writers : wpc[w] # "writing"
      BY <3>2, CalmRead, AcceptedCalmly
    <3>4. QED
      BY <1>1, <2>1, <3>3 DEF TimeInv, VirtAt, Moment
  <2>4. QED
    BY <2>2, <2>3
<1>4. CASE Tick
  <2>1. real' = real + 1 /\ UNCHANGED <<anchor, wpc, new, wleft, calm>>
    BY <1>4 DEF Tick, clock, writerVars, readerVars
  <2>2. anchor \in Anchors /\ real \in Nat /\ calm \in Int
    BY <1>1 DEF TypeOK
  <2>3. VirtAt(anchor, real) <= VirtAt(anchor, real + 1)
    BY <2>2, VirtAtGrows
  <2>4. VirtAt(anchor, real) \in Int /\ VirtAt(anchor, real + 1) \in Int
    BY <2>2, VirtAtType
  <2>5. (\A w \in Writers : wpc'[w] # "writing") => calm' <= VirtAt(anchor, real + 1)
    BY <1>1, <2>1, <2>2, <2>3, <2>4 DEF TimeInv
  <2>6. VirtAt(anchor, real)' = VirtAt(anchor, real + 1)
    BY <2>1 DEF VirtAt
  <2>7. ASSUME NEW w \in Writers
        PROVE  /\ VirtAt(new[w], Moment(new[w]))' = VirtAt(new[w], Moment(new[w]))
               /\ VirtAt(anchor, Moment(new[w]))' = VirtAt(anchor, Moment(new[w]))
               /\ new[w].real0 \in Nat
    BY <1>1, <2>1 DEF VirtAt, Moment, TypeOK, Anchors
  <2>8. QED
    BY <1>1, <2>1, <2>2, <2>5, <2>6, <2>7 DEF TimeInv
<1>5. CASE UNCHANGED vars
  BY <1>1, <1>5 DEF TimeInv, VirtAt, Moment, vars, clock, writerVars, readerVars
<1>6. QED
  BY <1>2, <1>3, <1>4, <1>5 DEF Next

(* What a reader will be told stays after the calm reads of its start.      *)
LEMMA SinceKept ==
  ASSUME IInv, [Next]_vars
  PROVE  SinceInv'
<1> DEFINE Told(r) ==
      /\ rpc[r] \in {"copy", "test"} => since[r].calm <= calm
      /\ rpc[r] = "test" => now[r] <= real
      /\ Accepted(r) => VirtAt(anchor, now[r]) >= since[r].calm
<1>1. TypeOK /\ calm \in Int /\ real \in Nat /\ seq \in Nat
  BY DEF IInv, TypeOK
<1>2. ASSUME NEW r \in Readers
      PROVE  Told(r) /\ s1[r] \in Nat /\ now[r] \in Nat /\ since[r].calm \in Int
  BY DEF IInv, SinceInv, TypeOK
<1>3. ASSUME NEW w \in Writers, WriterStep(w), NEW r \in Readers
      PROVE  Told(r)'
  <2>1. real' = real
    BY <1>3 DEF WriterStep, Lock, NothingToDo, Prepare, BeginWrite, WriteField, EndWrite, Event, Unlock
  <2>2. UNCHANGED readerVars
    BY <1>3, WriterAlone
  <2>3. Accepted(r)' => Accepted(r) /\ anchor' = anchor
    <3>1. \/ seq' = seq /\ anchor' = anchor
          \/ seq' = seq /\ seq % 2 = 1
          \/ seq' = seq + 1 /\ anchor' = anchor
      BY <1>3, WriterChanges
    <3>2. rpc[r] = "test" => s1[r] <= seq
      BY DEF IInv, ReadInv
    <3>3. QED
      BY <1>1, <1>2, <2>2, <3>1, <3>2 DEF Accepted, Accepts, readerVars
  <2>4. QED
    BY <1>2, <2>1, <2>2, <2>3 DEF readerVars, VirtAt
<1>4. ASSUME NEW r \in Readers, ReaderStep(r), NEW q \in Readers
      PROVE  Told(q)'
  <2>1. UNCHANGED <<real, anchor, seq>>
    BY <1>4 DEF ReaderStep, Begin, ReadField, ReadNow, Retry, ReadTime, Wait, WaitEnds, ReaderAt,
                others, clock
  <2>2. calm <= calm' /\ calm' \in Int
    <3>1. VirtAt(copy[r], now[r]) \in Int
      BY VirtAtType DEF IInv, TypeOK
    <3>2. calm' = calm \/ calm' = Later(calm, VirtAt(copy[r], now[r]))
      BY <1>4 DEF ReaderStep, Begin, ReadField, ReadNow, Retry, ReadTime, Wait, WaitEnds, Enter
    <3>3. QED
      BY <1>1, <3>1, <3>2 DEF Later
  <2>3. CASE q # r
    <3>1. rpc'[q] = rpc[q] /\ s1'[q] = s1[q] /\ now'[q] = now[q] /\ since'[q] = since[q]
      BY <1>1, <1>4, <2>3 DEF TypeOK, ReaderStep, Begin, ReadField, ReadNow, Retry, ReadTime, Wait,
                             WaitEnds, ReaderAt, Enter, Leave
    <3>2. QED
      BY <1>1, <1>2, <2>1, <2>2, <3>1 DEF Accepted, Accepts, VirtAt
  <2>4. CASE q = r
    <3>1. CASE Begin(r)
      <4>1. rpc'[r] = "copy" /\ since'[r].calm = calm
        BY <1>1, <3>1 DEF TypeOK, Begin, ReaderAt
      <4>2. QED
        BY <1>1, <2>2, <2>4, <4>1 DEF Accepted
    <3>2. CASE ReadField(r) \/ Retry(r)
      <4>1. rpc[r] \in {"copy", "test"} /\ rpc'[r] = "copy" /\ since' = since
        BY <1>1, <3>2 DEF TypeOK, ReadField, Retry, ReaderAt
      <4>2. QED
        BY <1>1, <1>2, <2>2, <2>4, <4>1 DEF Accepted
    <3>3. CASE ReadNow(r)
      <4>1. /\ rpc[r] = "copy" /\ now'[r] = real /\ s1' = s1 /\ since' = since /\ calm' = calm
        BY <1>1, <3>3 DEF TypeOK, ReadNow, ReaderAt
      <4>2. since[r].calm <= calm
        BY <1>2, <4>1
      <4>3. Accepted(r)' => VirtAt(anchor, real) >= calm
        <5>1. Accepted(r)' => seq % 2 = 0
          BY <2>1, <4>1 DEF Accepted, Accepts
        <5>2. seq % 2 = 0 => \A w \in Writers : wpc[w] # "writing"
          BY DEF IInv, SeqInv
        <5>3. VirtAt(anchor, real) \in Int
          BY <1>1, VirtAtType DEF TypeOK
        <5>4. QED
          BY <1>1, <5>1, <5>2, <5>3 DEF IInv, TimeInv
      <4>4. VirtAt(anchor, now[r])' = VirtAt(anchor, real)
        BY <2>1, <4>1 DEF VirtAt
      <4>5. VirtAt(anchor, real) \in Int
        BY <1>1, VirtAtType DEF TypeOK
      <4>6. QED
        BY <1>1, <1>2, <2>1, <2>4, <4>1, <4>2, <4>3, <4>4, <4>5
    <3>4. CASE ReadTime(r) \/ Wait(r) \/ WaitEnds(r)
      <4>1. rpc'[r] \in {"idle", "asleep"}
        BY <1>1, <3>4 DEF TypeOK, ReadTime, Wait, WaitEnds, ReaderAt
      <4>2. QED
        BY <2>4, <4>1 DEF Accepted
    <3>5. QED
      BY <1>4, <3>1, <3>2, <3>3, <3>4 DEF ReaderStep
  <2>5. QED
    BY <2>3, <2>4
<1>5. ASSUME Tick \/ UNCHANGED vars, NEW r \in Readers
      PROVE  Told(r)'
  <2>1. real' \in {real, real + 1} /\ UNCHANGED <<anchor, seq, readerVars>>
    BY <1>5 DEF Tick, vars, clock
  <2>2. QED
    BY <1>1, <1>2, <2>1 DEF readerVars, Accepted, Accepts, VirtAt
<1>6. \A r \in Readers : Told(r)'
  BY <1>3, <1>4, <1>5 DEF Next
<1>7. QED
  BY <1>6 DEF SinceInv
-----------------------------------------------------------------------------
(* The clock starts unlocked, even and running.                             *)
LEMMA InitInv == Init => IInv
<1> SUFFICES ASSUME Init PROVE IInv
  OBVIOUS
<1>1. TypeOK
  BY StartType DEF Init, TypeOK, Never
<1>2. LockInv /\ SeqInv /\ ReadInv
  BY ConstantsAssumption DEF Init, LockInv, SeqInv, ReadInv, ConstantsAssumption
<1>3. EventInv
  BY StartType DEF Init, EventInv
<1>4. TimeInv /\ SinceInv
  <2>1. VirtAt(Start, 0) = 0
    <3>1. Start.real0 = 0 /\ Start.virt0 = 0 /\ Start.speed = 2 /\ Start.frozen = FALSE
      BY DEF Start
    <3>2. 0 + ((0 - 0) * 2) \div 2 = 0
      OBVIOUS
    <3>3. QED
      BY <3>1, <3>2 DEF VirtAt
  <2>2. calm = 0 /\ VirtAt(anchor, real) = 0
    BY <2>1 DEF Init
  <2>3. QED
    BY <2>2 DEF Init, TimeInv, SinceInv, Accepted
<1>5. QED
  BY <1>1, <1>2, <1>3, <1>4 DEF IInv

(* The inductive invariant holds in every reachable state.                  *)
THEOREM Invariance == Spec => []IInv
<1>1. IInv /\ [Next]_vars => IInv'
  BY TypesKept, LockKept, SeqKept, ReadKept, EventKept, TimeKept, SinceKept DEF IInv
<1>2. QED
  BY InitInv, <1>1, PTL DEF Spec

(* The clock's variables keep their types.                                  *)
THEOREM TypeCorrect == Spec => []TypeOK
BY Invariance, PTL DEF IInv

(* A reader that leaves its loop holds the anchor as it stands.             *)
THEOREM ReadsAreWhole == Spec => []ReadIsWhole
<1>1. IInv => ReadIsWhole
  BY AcceptedCalmly DEF ReadIsWhole
<1>2. QED
  BY Invariance, <1>1, PTL

(* Virtual time does not run back: whoever reads the clock is told no less   *)
(* than every read before that did not race with an update, at any speeds    *)
(* and however often the clock was frozen.                                   *)
THEOREM TimeRunsOn == Spec => []BackOnlyAfterRace
<1>1. IInv => BackOnlyAfterRace
  BY AcceptedCalmly DEF IInv, SinceInv, BackOnlyAfterRace
<1>2. QED
  BY Invariance, <1>1, PTL

(* With no update under way the event says whether the clock runs.          *)
THEOREM SleepersAreWoken == Spec => []SleepersWake
<1>1. IInv => SleepersWake
  BY ConstantsAssumption DEF IInv, LockInv, EventInv, SleepersWake, ConstantsAssumption
<1>2. QED
  BY Invariance, <1>1, PTL
=============================================================================
