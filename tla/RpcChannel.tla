----------------------------- MODULE RpcChannel -----------------------------
(***************************************************************************)
(* A request and its reply between the host and the game: RpcClient        *)
(* (wc3env/rpc.py), the client's end of the named pipe and its reader      *)
(* thread (wc3env/pipe.py), and the pipe thread in the game                *)
(* (wc3hook/transport.c, rpc_handle in wc3hook/rpc.c).                     *)
(*                                                                         *)
(* A lock in RpcClient orders the calls; each has one deadline, which may  *)
(* pass while its request is written or while its reply is awaited, and    *)
(* the next call goes ahead on the same connection.  A write that is       *)
(* cancelled leaves the bytes it had written.  The pipe is a stream of     *)
(* bytes, read in pieces of any size into a buffer of Buf bytes.  A reply  *)
(* is one unit: whoever sends one that cannot be written disconnects.      *)
(*                                                                         *)
(* A definition named after another and a slip in it is no part of the     *)
(* specification: it is what the code must not do.                         *)
(***************************************************************************)
EXTENDS Integers, Sequences

CONSTANTS
  MaxCalls,   \* bound: calls made
  Buf,        \* sizeof buf in pipe_thread
  CLOSED      \* _CLOSED, the line that ends the stream

ASSUME ConstantsAssumption == MaxCalls \in Nat /\ Buf \in Nat /\ Buf > 2 /\ CLOSED \notin Nat

VARIABLES
  \* the client: its calls (RpcCall), its file, its reader thread, the lines it has read
  last, phase, reply, open, reading, lines,
  \* the pipe: connected, and what is in it each way
  up, toServer, fromServer,
  \* the game: the bytes read, the requests served
  buf, ran,
  \* history: calls whose line is no request to the game; someone broke the connection
  spoiled, upset

client == <<last, phase, reply, open, reading, lines>>
pipe == <<up, toServer, fromServer>>
server == <<buf, ran>>
history == <<spoiled, upset>>
vars == <<client, pipe, server, history>>

Calls == 1 .. MaxCalls
NoId == 0  \* the id of the answer to a line that is no request
Bytes == [id : Calls, end : BOOLEAN]

TypeOK ==
  /\ last \in 0 .. MaxCalls
  /\ phase \in [Calls -> {"none", "open", "answered", "failed"}]
  /\ reply \in [Calls -> 0 .. MaxCalls]
  /\ {open, reading, up, upset} \subseteq BOOLEAN
  /\ lines \in Seq(Calls \cup {NoId, CLOSED}) /\ fromServer \in Seq(Calls \cup {NoId})
  /\ toServer \in Seq(Bytes) /\ buf \in Seq(Bytes) /\ Len(buf) < Buf
  /\ ran \subseteq Calls /\ spoiled \subseteq Calls

Init ==
  /\ last = 0 /\ phase = [i \in Calls |-> "none"] /\ reply = [i \in Calls |-> 0]
  /\ open = TRUE /\ reading = TRUE /\ lines = <<>>
  /\ up = TRUE /\ toServer = <<>> /\ fromServer = <<>>
  /\ buf = <<>> /\ ran = {}
  /\ spoiled = {} /\ upset = FALSE
-----------------------------------------------------------------------------
(* RpcClient.call, up to its request written. *)

Open == last > 0 /\ phase[last] = "open"

\* send: the frame limit, newline included.
FrameLimitTooLong == Buf
FrameLimit == Buf - 1

Frame(i, n) == [k \in 1 .. n |-> [id |-> i, end |-> k = n]]

\* What the game has not handled yet.
Stream == buf \o toServer
Torn == Stream # <<>> /\ ~Stream[Len(Stream)].end

Begin(p) ==
  /\ ~Open /\ last < MaxCalls
  /\ last' = last + 1 /\ phase' = [phase EXCEPT ![last + 1] = p]
  /\ UNCHANGED <<reply, open, reading, lines>>

\* Too long a request, a closed or broken pipe, or a deadline that passed.
Unsent == Begin("failed") /\ UNCHANGED <<pipe, server, history>>

\* The write may also complete as it is cancelled: the call fails all the same.
Send(n) ==
  /\ \E p \in {"open", "failed"} : Begin(p)
  /\ open /\ up /\ n <= FrameLimit
  /\ toServer' = toServer \o Frame(last + 1, n)
  /\ spoiled' = IF Torn THEN spoiled \cup {last + 1} ELSE spoiled
  /\ UNCHANGED <<up, fromServer, server, upset>>

SendTorn(n, k) ==
  /\ Begin("failed")
  /\ open /\ up /\ n <= FrameLimit /\ k < n
  /\ toServer' = toServer \o [j \in 1 .. k |-> [id |-> last + 1, end |-> FALSE]]
  /\ UNCHANGED <<up, fromServer, server, history>>
-----------------------------------------------------------------------------
(* RpcClient._reply. *)

Ended(p) == phase' = [phase EXCEPT ![last] = p]

\* readline at the end of the stream, which stays the end of the stream.
ReadClosed ==
  /\ Open /\ lines # <<>> /\ Head(lines) = CLOSED
  /\ Ended("failed")
  /\ UNCHANGED <<last, reply, open, reading, lines, pipe, server, history>>

\* Diagnostic lines and replies to calls that timed out are skipped.
AcceptsAny(id) == id # NoId
Accepts(id) == id = last

ReadLine ==
  /\ Open /\ lines # <<>> /\ Head(lines) # CLOSED
  /\ lines' = Tail(lines)
  /\ IF Accepts(Head(lines))
       THEN Ended("answered") /\ reply' = [reply EXCEPT ![last] = Head(lines)]
       ELSE UNCHANGED <<phase, reply>>
  /\ UNCHANGED <<last, open, reading, pipe, server, history>>

TimeOut ==
  /\ Open
  /\ Ended("failed")
  /\ UNCHANGED <<last, reply, open, reading, lines, pipe, server, history>>
-----------------------------------------------------------------------------
(* HookPipe's reader thread, and close() from any thread. *)

Put(line) == lines' = Append(lines, line)

ReadLoop ==
  /\ reading /\ fromServer # <<>>
  /\ Put(Head(fromServer)) /\ fromServer' = Tail(fromServer)
  /\ UNCHANGED <<last, phase, reply, open, reading, up, toServer, server, history>>

EndOfStream ==
  /\ reading /\ ~up /\ fromServer = <<>>
  /\ Put(CLOSED) /\ reading' = FALSE
  /\ UNCHANGED <<last, phase, reply, open, pipe, server, history>>

\* What was written stays readable for the game.
Close ==
  /\ open
  /\ Put(CLOSED) /\ open' = FALSE
  /\ up' = FALSE /\ fromServer' = <<>>
  /\ upset' = TRUE
  /\ UNCHANGED <<last, phase, reply, reading, toServer, server, spoiled>>
-----------------------------------------------------------------------------
(* pipe_thread: whole lines are handled before more is read. *)

Line(p) == p \in DOMAIN buf /\ buf[p].end /\ \A q \in 1 .. p - 1 : ~buf[q].end
HasLine == \E p \in DOMAIN buf : buf[p].end
RoomNoEnd == Buf - Len(buf)
Room == Buf - Len(buf) - 1  \* and the byte that ends the string

PipeRead(k) ==
  /\ ~HasLine /\ k <= Room
  /\ buf' = buf \o SubSeq(toServer, 1, k)
  /\ toServer' = SubSeq(toServer, k + 1, Len(toServer))
  /\ UNCHANGED <<client, up, fromServer, ran, history>>

\* The line is a request if nothing but its own frame is in it, and it is within the limits
\* of jr_read.
IsRequest(p) == \A q \in 1 .. p : buf[q].id = buf[p].id

\* DisconnectNamedPipe: what was not read is gone.
Disconnected == up' = FALSE /\ toServer' = <<>> /\ fromServer' = <<>>

\* rpc_handle writes one reply.  If the client reads none of it for 5 s, the game disconnects.
RpcReply(id, sent) ==
  IF ~up THEN UNCHANGED <<pipe, upset>>
  ELSE IF sent THEN fromServer' = Append(fromServer, id) /\ UNCHANGED <<up, toServer, upset>>
  ELSE Disconnected /\ upset' = TRUE

Rest(p) == SubSeq(buf, p + 1, Len(buf))

RpcHandle(p, within, sent) ==
  /\ Line(p)
  /\ LET i == buf[p].id
         request == IsRequest(p) /\ within IN
       /\ ran' = IF request THEN ran \cup {i} ELSE ran
       /\ spoiled' = IF request THEN spoiled ELSE spoiled \cup {i}
       /\ RpcReply(IF request THEN i ELSE NoId, sent)
  /\ buf' = Rest(p)
  /\ UNCHANGED client

\* A read of no bytes ends the client: the pipe is broken, or the buffer is full without a
\* line, as when a torn request and the one after it are too long together.
Gone ==
  /\ ~HasLine /\ (Room = 0 \/ (~up /\ toServer = <<>>))
  /\ Disconnected /\ buf' = <<>>
  /\ upset' = (upset \/ \E p, q \in DOMAIN buf : buf[p].id # buf[q].id)
  /\ UNCHANGED <<client, ran, spoiled>>

\* The process ends.  The client may still find what it had written.
Crash ==
  /\ up' = FALSE /\ toServer' = <<>> /\ fromServer' \in {fromServer, <<>>}
  /\ buf' = <<>> /\ upset' = TRUE
  /\ UNCHANGED <<client, ran, spoiled>>
-----------------------------------------------------------------------------
ClientStep ==
  \/ Unsent
  \/ \E n \in 2 .. Buf : Send(n)
  \/ \E n \in 2 .. Buf, k \in 1 .. Buf : SendTorn(n, k)
  \/ ReadClosed \/ ReadLine \/ TimeOut \/ ReadLoop \/ EndOfStream \/ Close

ServerStep ==
  \/ \E k \in DOMAIN toServer : PipeRead(k)
  \/ \E p \in DOMAIN buf, within, sent \in BOOLEAN : RpcHandle(p, within, sent)
  \/ Gone \/ Crash

Next == ClientStep \/ ServerStep

Spec == Init /\ [][Next]_vars
-----------------------------------------------------------------------------
(* Correctness. *)

On(s, x) == \E k \in DOMAIN s : s[k] = x

(* Nobody waits for an answer that will not come: unless the connection is  *)
(* broken from outside, the request of the call in progress is whole in the *)
(* stream to the game, or its reply is on the way back.  Abandoned calls    *)
(* cost the next one nothing.  A torn write spoils the request sent after   *)
(* it, and no more, unless the two overflow the game's buffer.  Left out    *)
(* are requests past the limits of jr_read: the game answers them with id   *)
(* 0, and their callers wait for the deadline.                              *)
AnswerComes ==
  Open /\ ~upset /\ last \notin spoiled =>
    /\ up /\ ~On(lines, CLOSED)
    /\ \/ On(Stream, [id |-> last, end |-> TRUE])
       \/ On(fromServer, last) \/ On(lines, last)

(* The channel is what callers rely on: requests are served at most once    *)
(* and in order, whatever was abandoned, and a call returns its own answer. *)
C == INSTANCE RpcCall

ImplementsCall == C!CSpec
=============================================================================
