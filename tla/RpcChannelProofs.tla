-------------------------- MODULE RpcChannelProofs --------------------------
(***************************************************************************)
(* The channel implements RpcCall and its answers come, for any number of  *)
(* calls and any buffer.                                                   *)
(*                                                                         *)
(* The argument: what the game has yet to handle are the bytes of requests *)
(* in the order of the calls, all of calls after those served; lines back  *)
(* answer calls that were served.  So a line that bears the id of the call *)
(* in progress is the answer to it.                                        *)
(***************************************************************************)
EXTENDS RpcChannel, SequenceTheorems, TLAPS

\* Bytes of requests in the order of the calls, each no longer than a frame may be.
Frames(s) ==
  \A a, b \in 1 .. Len(s) :
    /\ a < b => s[a].id <= s[b].id
    /\ a < b /\ s[a].end => s[a].id < s[b].id
    /\ a <= b /\ s[a].id = s[b].id => b - a < FrameLimit /\ (b - a = FrameLimit - 1 => s[b].end)

\* s is a stretch of t, shifted by d.
Part(s, t, d) == d \in Nat /\ \A a \in 1 .. Len(s) : a + d <= Len(t) /\ s[a] = t[a + d]

StreamInv ==
  /\ Frames(Stream)
  /\ \A a \in 1 .. Len(Stream) : Stream[a].id <= last /\ \A j \in ran : j < Stream[a].id

ReplyInv ==
  /\ \A x : On(fromServer, x) => x \in {NoId} \cup ran
  /\ \A x : On(lines, x) => x \in {NoId, CLOSED} \cup ran

CallInv ==
  /\ \A i \in Calls : phase[i] # "none" <=> i <= last
  /\ \A i \in ran \cup spoiled : i <= last
  /\ On(lines, CLOSED) => ~open \/ ~up

IInv == TypeOK /\ StreamInv /\ ReplyInv /\ CallInv /\ AnswerComes
-----------------------------------------------------------------------------
(* Streams. *)

LEMMA JoinType ==
  ASSUME NEW s \in Seq(Bytes), NEW t \in Seq(Bytes)
  PROVE  /\ s \o t \in Seq(Bytes) /\ Len(s) \in Nat /\ Len(t) \in Nat
         /\ Len(s \o t) = Len(s) + Len(t) /\ Len(s \o t) \in Nat
         /\ DOMAIN (s \o t) = 1 .. Len(s \o t)
         /\ \A a \in 1 .. Len(s) + Len(t) : (s \o t)[a] = IF a <= Len(s) THEN s[a] ELSE t[a - Len(s)]
<1>1. /\ s \o t \in Seq(Bytes) /\ Len(s \o t) = Len(s) + Len(t)
      /\ \A a \in 1 .. Len(s) + Len(t) : (s \o t)[a] = IF a <= Len(s) THEN s[a] ELSE t[a - Len(s)]
  BY ConcatProperties
<1>2. Len(s) \in Nat /\ Len(t) \in Nat /\ DOMAIN (s \o t) = 1 .. Len(s \o t)
  BY <1>1
<1> QED
  BY <1>1, <1>2

LEMMA JoinAssociative ==
  ASSUME NEW s \in Seq(Bytes), NEW t \in Seq(Bytes), NEW u \in Seq(Bytes)
  PROVE  (s \o t) \o u = s \o (t \o u)
BY ConcatAssociative

LEMMA StreamType ==
  ASSUME TypeOK
  PROVE  /\ buf \in Seq(Bytes) /\ toServer \in Seq(Bytes) /\ Stream \in Seq(Bytes)
         /\ Len(buf) \in Nat /\ Len(toServer) \in Nat /\ Len(Stream) \in Nat
         /\ Len(Stream) = Len(buf) + Len(toServer)
         /\ DOMAIN Stream = 1 .. Len(Stream)
         /\ \A a \in 1 .. Len(buf) + Len(toServer) :
              Stream[a] = IF a <= Len(buf) THEN buf[a] ELSE toServer[a - Len(buf)]
<1>1. buf \in Seq(Bytes) /\ toServer \in Seq(Bytes)
  BY DEF TypeOK
<1> QED
  BY <1>1, JoinType DEF Stream

LEMMA NextStreamType ==
  ASSUME TypeOK'
  PROVE  /\ buf' \in Seq(Bytes) /\ toServer' \in Seq(Bytes) /\ Stream' \in Seq(Bytes)
         /\ Len(buf') \in Nat /\ Len(toServer') \in Nat /\ Len(Stream') \in Nat
         /\ Len(Stream') = Len(buf') + Len(toServer')
         /\ DOMAIN Stream' = 1 .. Len(Stream')
         /\ \A a \in 1 .. Len(buf') + Len(toServer') :
              Stream'[a] = IF a <= Len(buf') THEN buf'[a] ELSE toServer'[a - Len(buf')]
<1>1. buf' \in Seq(Bytes) /\ toServer' \in Seq(Bytes)
  BY DEF TypeOK
<1> QED
  BY <1>1, JoinType DEF Stream

LEMMA PartOfFrames ==
  ASSUME NEW s \in Seq(Bytes), NEW t \in Seq(Bytes), NEW d, Part(s, t, d), Frames(t)
  PROVE  Frames(s)
<1> SUFFICES ASSUME NEW a \in 1 .. Len(s), NEW b \in 1 .. Len(s)
             PROVE  /\ a < b => s[a].id <= s[b].id
                    /\ a < b /\ s[a].end => s[a].id < s[b].id
                    /\ a <= b /\ s[a].id = s[b].id => b - a < FrameLimit /\ (b - a = FrameLimit - 1 => s[b].end)
  BY DEF Frames
<1>1. d \in Nat /\ Len(s) \in Nat /\ Len(t) \in Nat
  BY DEF Part
<1> DEFINE x == a + d
           y == b + d
<1>2. x <= Len(t) /\ s[a] = t[x] /\ y <= Len(t) /\ s[b] = t[y]
  BY DEF Part
<1>3. x \in 1 .. Len(t) /\ y \in 1 .. Len(t) /\ s[a] = t[x] /\ s[b] = t[y] /\ (a < b <=> x < y) /\ (a <= b <=> x <= y) /\ y - x = b - a
  <2>1. /\ a \in Int /\ b \in Int /\ d \in Int /\ 1 <= a /\ 1 <= b /\ 0 <= d
    BY <1>1
  <2>2. /\ x \in Int /\ y \in Int /\ 1 <= x /\ 1 <= y
        /\ (a < b <=> x < y) /\ (a <= b <=> x <= y) /\ y - x = b - a
    BY <2>1
  <2> HIDE DEF x, y
  <2>3. QED
    BY <1>1, <1>2, <2>2
<1> HIDE DEF x, y
<1>4. /\ x < y => t[x].id <= t[y].id
      /\ x < y /\ t[x].end => t[x].id < t[y].id
      /\ x <= y /\ t[x].id = t[y].id => y - x < FrameLimit /\ (y - x = FrameLimit - 1 => t[y].end)
  BY <1>3 DEF Frames
<1> QED
  BY <1>3, <1>4

LEMMA FramesJoin ==
  ASSUME NEW s \in Seq(Bytes), NEW t \in Seq(Bytes), Frames(s), Frames(t),
         \A a \in 1 .. Len(s), b \in 1 .. Len(t) : s[a].id < t[b].id
  PROVE  Frames(s \o t)
<1> DEFINE u == s \o t
<1>1. /\ Len(u) = Len(s) + Len(t) /\ Len(s) \in Nat /\ Len(t) \in Nat
      /\ \A a \in 1 .. Len(s) + Len(t) : u[a] = IF a <= Len(s) THEN s[a] ELSE t[a - Len(s)]
  BY ConcatProperties
<1> HIDE DEF u
<1> SUFFICES ASSUME NEW a \in 1 .. Len(u), NEW b \in 1 .. Len(u), a <= b
             PROVE  /\ a < b => u[a].id <= u[b].id
                    /\ a < b /\ u[a].end => u[a].id < u[b].id
                    /\ u[a].id = u[b].id => b - a < FrameLimit /\ (b - a = FrameLimit - 1 => u[b].end)
  <2>1. Frames(u)
    BY <1>1 DEF Frames
  <2> QED
    BY <2>1 DEF u
<1>2. CASE b <= Len(s)
  <2>1. a \in 1 .. Len(s) /\ b \in 1 .. Len(s) /\ u[a] = s[a] /\ u[b] = s[b]
    BY <1>1, <1>2
  <2> QED
    BY <2>1 DEF Frames
<1>3. CASE a > Len(s)
  <2> DEFINE x == a - Len(s)
             y == b - Len(s)
  <2>1. x \in 1 .. Len(t) /\ y \in 1 .. Len(t) /\ u[a] = t[x] /\ u[b] = t[y] /\ x <= y /\ (a < b <=> x < y) /\ y - x = b - a
    BY <1>1, <1>3
  <2> HIDE DEF x, y
  <2>2. /\ x < y => t[x].id <= t[y].id
        /\ x < y /\ t[x].end => t[x].id < t[y].id
        /\ t[x].id = t[y].id => y - x < FrameLimit /\ (y - x = FrameLimit - 1 => t[y].end)
    BY <2>1 DEF Frames
  <2> QED
    BY <2>1, <2>2
<1>4. CASE a <= Len(s) /\ Len(s) < b
  <2>1. a \in 1 .. Len(s) /\ b - Len(s) \in 1 .. Len(t) /\ u[a] = s[a] /\ u[b] = t[b - Len(s)]
    BY <1>1, <1>4
  <2>2. u[a] \in Bytes /\ u[b] \in Bytes
    BY <2>1
  <2>3. u[a].id < u[b].id /\ u[a].id \in Nat /\ u[b].id \in Nat
    <3>1. u[a].id < u[b].id
      BY <2>1
    <3>2. u[a].id \in Nat /\ u[b].id \in Nat
      BY <2>2 DEF Bytes, Calls
    <3>3. QED
      BY <3>1, <3>2
  <2> QED
    BY <2>3
<1> QED
  BY <1>1, <1>2, <1>3, <1>4
-----------------------------------------------------------------------------
(* Types. *)

LEMMA BeginTypes ==
  ASSUME TypeOK, NEW p \in {"open", "failed"}, Begin(p)
  PROVE  /\ last' = last + 1 /\ last' \in Calls
         /\ phase' \in [Calls -> {"none", "open", "answered", "failed"}]
         /\ reply' \in [Calls -> 0 .. MaxCalls]
         /\ open' \in BOOLEAN /\ reading' \in BOOLEAN
         /\ lines' \in Seq(Calls \cup {NoId, CLOSED})
<1>1. MaxCalls \in Nat /\ last \in 0 .. MaxCalls /\ last < MaxCalls
  BY ConstantsAssumption DEF TypeOK, Begin
<1>2. last + 1 \in Calls
  BY <1>1 DEF Calls
<1> QED
  BY <1>2 DEF TypeOK, Begin

LEMMA FrameType ==
  ASSUME NEW i \in Calls, NEW n \in Nat
  PROVE  Frame(i, n) \in Seq(Bytes) /\ Len(Frame(i, n)) = n
         /\ \A k \in 1 .. n : Frame(i, n)[k] = [id |-> i, end |-> k = n]
<1>1. Frame(i, n) \in [1 .. n -> Bytes]
  BY DEF Frame, Bytes
<1> QED
  BY <1>1 DEF Frame

LEMMA TornType ==
  ASSUME NEW i \in Calls, NEW k \in Nat
  PROVE  /\ [j \in 1 .. k |-> [id |-> i, end |-> FALSE]] \in Seq(Bytes)
         /\ Len([j \in 1 .. k |-> [id |-> i, end |-> FALSE]]) = k
<1> DEFINE f == [j \in 1 .. k |-> [id |-> i, end |-> FALSE]]
<1>1. f \in [1 .. k -> Bytes]
  BY DEF Bytes
<1> HIDE DEF f
<1>2. f \in Seq(Bytes) /\ Len(f) = k
  BY <1>1
<1> QED
  BY <1>2 DEF f

LEMMA ClientTypes == TypeOK /\ ClientStep => TypeOK'
<1> SUFFICES ASSUME TypeOK, ClientStep PROVE TypeOK'
  OBVIOUS
<1> USE ConstantsAssumption
<1>1. CASE Unsent
  <2>1. Begin("failed") /\ UNCHANGED <<pipe, server, history>>
    BY <1>1 DEF Unsent
  <2>2. last' \in 0 .. MaxCalls
    BY <2>1, BeginTypes DEF Calls
  <2> QED
    BY <2>1, <2>2, BeginTypes DEF TypeOK, pipe, server, history
<1>2. ASSUME NEW n \in 2 .. Buf, Send(n) PROVE TypeOK'
  <2>1. PICK p \in {"open", "failed"} : Begin(p)
    BY <1>2 DEF Send
  <2>2. last' \in 0 .. MaxCalls /\ last + 1 \in Calls
    BY <2>1, BeginTypes DEF Calls
  <2>3. Frame(last + 1, n) \in Seq(Bytes)
    BY <2>2, FrameType
  <2>4. toServer' \in Seq(Bytes)
    <3> DEFINE t == toServer
               f == Frame(last + 1, n)
    <3>1. t \in Seq(Bytes) /\ f \in Seq(Bytes) /\ toServer' = t \o f
      BY <1>2, <2>3 DEF TypeOK, Send
    <3> HIDE DEF t, f
    <3> QED
      BY <3>1, ConcatProperties
  <2>5. spoiled' \subseteq Calls
    BY <1>2, <2>2 DEF Send, TypeOK
  <2>6. UNCHANGED <<up, fromServer, buf, ran, upset>>
    BY <1>2 DEF Send, server
  <2> QED
    BY <2>1, <2>2, <2>4, <2>5, <2>6, BeginTypes DEF TypeOK
<1>3. ASSUME NEW n \in 2 .. Buf, NEW k \in 1 .. Buf, SendTorn(n, k) PROVE TypeOK'
  <2>1. Begin("failed") /\ UNCHANGED <<up, fromServer, buf, ran, spoiled, upset>>
    BY <1>3 DEF SendTorn, server, history
  <2>2. last' \in 0 .. MaxCalls /\ last + 1 \in Calls
    BY <2>1, BeginTypes DEF Calls
  <2>3. toServer' \in Seq(Bytes)
    <3> DEFINE i == last + 1
               t == toServer
               f == [j \in 1 .. k |-> [id |-> i, end |-> FALSE]]
    <3>0. k \in Nat /\ i \in Calls
      BY <2>2
    <3> HIDE DEF i
    <3>1. f \in Seq(Bytes)
      BY <3>0, TornType
    <3>2. t \in Seq(Bytes) /\ toServer' = t \o f
      BY <1>3 DEF TypeOK, SendTorn, i
    <3> HIDE DEF t, f
    <3> QED
      BY <3>1, <3>2, ConcatProperties
  <2> QED
    BY <2>1, <2>2, <2>3, BeginTypes DEF TypeOK
<1>4. CASE ReadClosed
  BY <1>4 DEF ReadClosed, Ended, TypeOK, pipe, server, history
<1>5. CASE ReadLine
  <2>1. Head(lines) \in Calls \cup {NoId, CLOSED} /\ lines' \in Seq(Calls \cup {NoId, CLOSED})
    BY <1>5 DEF ReadLine, TypeOK
  <2>2. phase' \in [Calls -> {"none", "open", "answered", "failed"}]
    BY <1>5 DEF ReadLine, Ended, TypeOK
  <2>3. reply' \in [Calls -> 0 .. MaxCalls]
    BY <1>5 DEF ReadLine, Accepts, TypeOK
  <2> QED
    BY <1>5, <2>1, <2>2, <2>3 DEF ReadLine, TypeOK, pipe, server, history
<1>6. CASE TimeOut
  BY <1>6 DEF TimeOut, Ended, TypeOK, pipe, server, history
<1>7. CASE ReadLoop
  <2>1. Head(fromServer) \in Calls \cup {NoId} /\ fromServer' \in Seq(Calls \cup {NoId})
    BY <1>7 DEF ReadLoop, TypeOK
  <2>2. lines' \in Seq(Calls \cup {NoId, CLOSED})
    BY <1>7, <2>1 DEF ReadLoop, Put, TypeOK
  <2> QED
    BY <1>7, <2>1, <2>2 DEF ReadLoop, TypeOK, server, history
<1>8. CASE EndOfStream
  <2>1. lines' \in Seq(Calls \cup {NoId, CLOSED})
    BY <1>8 DEF EndOfStream, Put, TypeOK
  <2> QED
    BY <1>8, <2>1 DEF EndOfStream, TypeOK, pipe, server, history
<1>9. CASE Close
  <2>1. lines' \in Seq(Calls \cup {NoId, CLOSED})
    BY <1>9 DEF Close, Put, TypeOK
  <2>2. {open, reading, up, upset}' \subseteq BOOLEAN
    BY <1>9, Zenon DEF Close, TypeOK
  <2> QED
    BY <1>9, <2>1, <2>2 DEF Close, TypeOK, server
<1> QED
  BY <1>1, <1>2, <1>3, <1>4, <1>5, <1>6, <1>7, <1>8, <1>9 DEF ClientStep

LEMMA ServerTypes == TypeOK /\ ServerStep => TypeOK'
<1> SUFFICES ASSUME TypeOK, ServerStep PROVE TypeOK'
  OBVIOUS
<1> USE ConstantsAssumption
<1>1. ASSUME NEW k \in DOMAIN toServer, PipeRead(k) PROVE TypeOK'
  <2> DEFINE b == buf
             t == toServer
             f == SubSeq(t, 1, k)
             r == SubSeq(t, k + 1, Len(t))
  <2>1. b \in Seq(Bytes) /\ t \in Seq(Bytes) /\ Len(b) \in Nat /\ k \in 1 .. Len(t) /\ Len(b) + k < Buf
    <3>1. b \in Seq(Bytes) /\ t \in Seq(Bytes) /\ Len(b) \in Nat
      BY DEF TypeOK
    <3>2. k \in 1 .. Len(t) /\ k <= Buf - Len(b) - 1
      BY <1>1, <3>1 DEF PipeRead, Room
    <3>3. QED
      BY <3>1, <3>2
  <2>2. buf' = b \o f /\ toServer' = r
    BY <1>1 DEF PipeRead
  <2> HIDE DEF b, t
  <2>3. f \in Seq(Bytes) /\ Len(f) = k /\ r \in Seq(Bytes)
    BY <2>1
  <2> HIDE DEF f, r
  <2>4. b \o f \in Seq(Bytes) /\ Len(b \o f) = Len(b) + k
    BY <2>1, <2>3, ConcatProperties
  <2>5. UNCHANGED <<last, phase, reply, open, reading, lines, up, fromServer, ran, spoiled, upset>>
    BY <1>1 DEF PipeRead, client, history
  <2> QED
    BY <2>1, <2>2, <2>3, <2>4, <2>5 DEF TypeOK
<1>2. ASSUME NEW p \in DOMAIN buf, NEW within \in BOOLEAN, NEW sent \in BOOLEAN, RpcHandle(p, within, sent)
      PROVE  TypeOK'
  <2> DEFINE b == buf
  <2>1. b \in Seq(Bytes) /\ p \in 1 .. Len(b) /\ Len(b) \in Nat /\ Len(b) < Buf /\ buf' = SubSeq(b, p + 1, Len(b))
    BY <1>2 DEF TypeOK, RpcHandle, Rest
  <2>2. buf[p].id \in Calls
    <3>1. buf[p] \in Bytes
      BY <2>1
    <3> QED
      BY <3>1 DEF Bytes
  <2> HIDE DEF b
  <2>3. buf' \in Seq(Bytes) /\ Len(buf') < Buf
    BY <2>1
  <2>4. ran' \subseteq Calls /\ spoiled' \subseteq Calls
    BY <1>2, <2>2 DEF RpcHandle, TypeOK
  <2>5. {up', upset'} \subseteq BOOLEAN /\ toServer' \in Seq(Bytes) /\ fromServer' \in Seq(Calls \cup {NoId})
    <3>1. PICK id \in Calls \cup {NoId} : RpcReply(id, sent)
      BY <1>2, <2>2 DEF RpcHandle
    <3>2. {up, upset} \subseteq BOOLEAN /\ toServer \in Seq(Bytes) /\ fromServer \in Seq(Calls \cup {NoId})
      BY Zenon DEF TypeOK
    <3>3. CASE ~up
      BY <3>1, <3>2, <3>3 DEF RpcReply, pipe
    <3>4. CASE up /\ sent
      <4>1. fromServer' = Append(fromServer, id) /\ UNCHANGED <<up, toServer, upset>>
        BY <3>1, <3>4 DEF RpcReply
      <4> QED
        BY <3>2, <4>1
    <3>5. CASE up /\ ~sent
      <4>1. up' = FALSE /\ toServer' = <<>> /\ fromServer' = <<>> /\ upset' = TRUE
        BY <3>1, <3>5 DEF RpcReply, Disconnected
      <4>2. {up', upset'} \subseteq BOOLEAN
        BY <4>1, Zenon
      <4> QED
        BY <4>1, <4>2
    <3> QED
      BY <3>3, <3>4, <3>5
  <2>6. UNCHANGED <<last, phase, reply, open, reading, lines>>
    BY <1>2 DEF RpcHandle, client
  <2> QED
    BY <2>3, <2>4, <2>5, <2>6 DEF TypeOK
<1>3. CASE Gone
  <2>1. up' = FALSE /\ toServer' = <<>> /\ fromServer' = <<>> /\ buf' = <<>>
    BY <1>3 DEF Gone, Disconnected
  <2>2. {open, reading, up, upset}' \subseteq BOOLEAN
    <3>1. upset' \in BOOLEAN
      BY <1>3, Zenon DEF Gone, TypeOK
    <3>2. up' \in BOOLEAN
      BY <2>1, Zenon
    <3>3. {open', reading'} \subseteq BOOLEAN
      BY <1>3, Zenon DEF Gone, TypeOK, client
    <3> QED
      BY <3>1, <3>2, <3>3, Zenon
  <2> QED
    BY <1>3, <2>1, <2>2 DEF Gone, TypeOK, client
<1>4. CASE Crash
  <2>1. {open, reading, up, upset}' \subseteq BOOLEAN
    BY <1>4, Zenon DEF Crash, TypeOK, client
  <2>2. fromServer' \in Seq(Calls \cup {NoId})
    <3>1. fromServer \in Seq(Calls \cup {NoId})
      BY DEF TypeOK
    <3>2. fromServer' = fromServer \/ fromServer' = <<>>
      BY <1>4, Zenon DEF Crash
    <3>3. <<>> \in Seq(Calls \cup {NoId})
      OBVIOUS
    <3> QED
      BY <3>1, <3>2, <3>3, Zenon
  <2>3. toServer' \in Seq(Bytes) /\ buf' \in Seq(Bytes) /\ Len(buf') < Buf
    BY <1>4 DEF Crash, TypeOK
  <2> QED
    BY <1>4, <2>1, <2>2, <2>3 DEF Crash, TypeOK, client
<1> QED
  BY <1>1, <1>2, <1>3, <1>4 DEF ServerStep
-----------------------------------------------------------------------------
(* What each action makes of the stream. *)

LEMMA PartKeeps ==
  ASSUME TypeOK, TypeOK', StreamInv, NEW d, Part(Stream', Stream, d), last <= last', ran' = ran
  PROVE  StreamInv'
<1>1. Stream \in Seq(Bytes) /\ Stream' \in Seq(Bytes) /\ Len(Stream) \in Nat /\ Len(Stream') \in Nat
  BY StreamType, NextStreamType
<1>2. Frames(Stream')
  BY <1>1, PartOfFrames DEF StreamInv
<1>3. ASSUME NEW a \in 1 .. Len(Stream')
      PROVE  Stream'[a].id <= last' /\ \A j \in ran' : j < Stream'[a].id
  <2> DEFINE x == a + d
  <2>1. d \in Nat /\ x <= Len(Stream) /\ Stream'[a] = Stream[x]
    BY DEF Part
  <2>2. x \in 1 .. Len(Stream)
    BY <1>1, <2>1
  <2> HIDE DEF x
  <2>3. Stream[x] \in Bytes
    BY <1>1, <2>2
  <2>4. Stream[x].id \in Nat /\ last \in Nat /\ last' \in Nat
    BY <2>3, ConstantsAssumption DEF Bytes, Calls, TypeOK
  <2>5. Stream[x].id <= last /\ \A j \in ran : j < Stream[x].id
    BY <2>2 DEF StreamInv
  <2> QED
    BY <2>1, <2>4, <2>5
<1>4. Frames(Stream)'
  BY <1>2 DEF Frames, FrameLimit
<1> QED
  BY <1>3, <1>4 DEF StreamInv

LEMMA SameStream ==
  ASSUME TypeOK, TypeOK', StreamInv, Stream' = Stream, last <= last', ran' = ran
  PROVE  StreamInv'
<1>1. Stream \in Seq(Bytes)
  BY StreamType
<1>2. Part(Stream', Stream, 0)
  BY <1>1 DEF Part
<1> QED
  BY <1>2, PartKeeps

LEMMA ReadKeepsStream ==
  ASSUME TypeOK, TypeOK', NEW k \in DOMAIN toServer, PipeRead(k)
  PROVE  Stream' = Stream
<1> DEFINE b == buf
           t == toServer
           f == SubSeq(t, 1, k)
           r == SubSeq(t, k + 1, Len(t))
<1>1. b \in Seq(Bytes) /\ t \in Seq(Bytes)
  BY StreamType
<1>2. Stream = b \o t /\ Stream' = (b \o f) \o r
  BY DEF PipeRead, Stream
<1> HIDE DEF b
<1>3. k \in 1 .. Len(t) /\ Len(t) \in Nat
  BY <1>1
<1> HIDE DEF t
<1>4. f \in Seq(Bytes) /\ r \in Seq(Bytes) /\ Len(f) = k /\ Len(r) = Len(t) - k
      /\ (\A i \in 1 .. k : f[i] = t[i]) /\ (\A i \in 1 .. Len(t) - k : r[i] = t[k + i])
  <2>1. f \in Seq(Bytes) /\ Len(f) = k /\ \A i \in 1 .. k : f[i] = t[i]
    BY <1>1, <1>3
  <2>2. r \in Seq(Bytes) /\ Len(r) = Len(t) - k /\ \A i \in 1 .. Len(t) - k : r[i] = t[k + i]
    BY <1>1, <1>3
  <2> QED
    BY <2>1, <2>2
<1> HIDE DEF f, r
<1>5. f \o r = t
  <2>1. /\ f \o r \in Seq(Bytes) /\ Len(f \o r) = Len(t)
        /\ \A i \in 1 .. Len(t) : (f \o r)[i] = IF i <= k THEN f[i] ELSE r[i - k]
    BY <1>3, <1>4, ConcatProperties
  <2>2. ASSUME NEW i \in 1 .. Len(t) PROVE (f \o r)[i] = t[i]
    <3>1. CASE i <= k
      BY <1>4, <2>1, <3>1
    <3>2. CASE i > k
      <4>1. i - k \in 1 .. Len(t) - k /\ k + (i - k) = i
        BY <1>3, <3>2
      <4>2. (f \o r)[i] = r[i - k]
        BY <1>3, <2>1, <3>2
      <4> QED
        BY <1>4, <4>1, <4>2
    <3>3. i <= k \/ i > k
      BY <1>3
    <3> QED
      BY <3>1, <3>2, <3>3
  <2> QED
    BY <1>1, <2>1, <2>2, SeqEqual
<1>6. (b \o f) \o r = b \o (f \o r)
  BY <1>1, <1>4, JoinAssociative
<1> QED
  BY <1>2, <1>5, <1>6

(* What is left when a line of p bytes was taken from the buffer: all that *)
(* follows, or only what had been read of it if the pipe is disconnected.  *)
LEMMA TakeLine ==
  ASSUME TypeOK, TypeOK', NEW p \in DOMAIN buf, buf' = Rest(p), toServer' = toServer \/ toServer' = <<>>
  PROVE  /\ p \in 1 .. Len(Stream) /\ Stream[p] = buf[p]
         /\ Part(Stream', Stream, p)
         /\ toServer' = toServer =>
              \A a \in 1 .. Len(Stream) : a > p => a - p \in 1 .. Len(Stream') /\ Stream'[a - p] = Stream[a]
<1> DEFINE b == buf
           r == SubSeq(b, p + 1, Len(b))
           t == toServer
           n == Len(b)
<1>1. /\ b \in Seq(Bytes) /\ t \in Seq(Bytes) /\ n \in Nat /\ Len(t) \in Nat /\ p \in 1 .. n
      /\ Len(Stream) = n + Len(t)
      /\ \A a \in 1 .. n + Len(t) : Stream[a] = IF a <= n THEN b[a] ELSE t[a - n]
  BY StreamType
<1>2. r \in Seq(Bytes) /\ Len(r) = n - p /\ \A i \in 1 .. n - p : r[i] = b[p + i]
  BY <1>1
<1>3. buf' = r
  BY DEF Rest
<1>4. /\ Len(toServer') \in Nat /\ Len(Stream') = (n - p) + Len(toServer')
      /\ \A a \in 1 .. (n - p) + Len(toServer') :
           Stream'[a] = IF a <= n - p THEN r[a] ELSE toServer'[a - (n - p)]
  BY <1>2, <1>3, NextStreamType
<1>5. (toServer' = t \/ Len(toServer') = 0) /\ Len(toServer') <= Len(t)
  BY <1>1
<1>6. p \in 1 .. Len(Stream) /\ Stream[p] = buf[p]
  BY <1>1
<1> HIDE DEF b, r, t, n
<1>7. ASSUME NEW a \in 1 .. Len(Stream') PROVE a + p <= Len(Stream) /\ Stream'[a] = Stream[a + p]
  <2>0. p \in Nat /\ a \in Nat /\ a >= 1 /\ p >= 1 /\ a <= (n - p) + Len(toServer')
    BY <1>1, <1>4
  <2>1. a + p <= Len(Stream) /\ a + p \in 1 .. n + Len(t)
    BY <1>1, <1>4, <1>5, <2>0
  <2>2. CASE a <= n - p
    <3>1. Stream'[a] = r[a] /\ a \in 1 .. n - p
      BY <1>1, <1>4, <2>0, <2>2
    <3>2. r[a] = b[p + a] /\ p + a = a + p
      BY <1>2, <2>0, <3>1
    <3>3. Stream[a + p] = b[a + p]
      BY <1>1, <2>0, <2>1, <2>2
    <3> QED
      BY <2>1, <3>1, <3>2, <3>3
  <2>3. CASE a > n - p
    <3>1. toServer' = t /\ Stream'[a] = t[a - (n - p)]
      BY <1>1, <1>4, <1>5, <2>3
    <3>2. Stream[a + p] = t[(a + p) - n] /\ (a + p) - n = a - (n - p)
      BY <1>1, <2>1, <2>3
    <3> QED
      BY <2>1, <3>1, <3>2
  <2> QED
    BY <1>1, <2>2, <2>3
<1>8. Part(Stream', Stream, p)
  BY <1>1, <1>7 DEF Part
<1>9. ASSUME toServer' = toServer, NEW a \in 1 .. Len(Stream), a > p
      PROVE  a - p \in 1 .. Len(Stream') /\ Stream'[a - p] = Stream[a]
  <2>1. a - p \in 1 .. Len(Stream') /\ (a - p) + p = a
    BY <1>1, <1>4, <1>9 DEF t
  <2>2. Stream'[a - p] = Stream[(a - p) + p]
    BY <1>7, <2>1
  <2> QED
    BY <2>1, <2>2
<1> QED
  BY <1>6, <1>8, <1>9
-----------------------------------------------------------------------------
(* The stream keeps the order of the calls. *)

LEMMA LongerStream ==
  ASSUME TypeOK, TypeOK', StreamInv, CallInv, NEW p \in {"open", "failed"}, Begin(p), NEW t \in Seq(Bytes),
         Frames(t), \A a \in 1 .. Len(t) : t[a].id = last + 1,
         toServer' = toServer \o t, buf' = buf, ran' = ran
  PROVE  StreamInv'
<1> DEFINE s == Stream
<1>1. s \in Seq(Bytes) /\ buf \in Seq(Bytes) /\ toServer \in Seq(Bytes) /\ s = buf \o toServer
  BY StreamType DEF Stream
<1>2. Stream' = s \o t
  <2>1. Stream' = buf \o (toServer \o t)
    BY DEF Stream
  <2>2. (buf \o toServer) \o t = buf \o (toServer \o t)
    BY <1>1, JoinAssociative
  <2>3. QED
    BY <1>1, <2>1, <2>2
<1>3. last' = last + 1 /\ last \in Nat /\ ran \subseteq Nat
  BY ConstantsAssumption DEF Begin, TypeOK, Calls
<1>4. Frames(s) /\ \A a \in 1 .. Len(s) : s[a].id <= last /\ \A j \in ran : j < s[a].id
  BY DEF StreamInv
<1> HIDE DEF s
<1>5. \A a \in 1 .. Len(s) : s[a].id \in Nat
  <2>1. \A a \in 1 .. Len(s) : s[a] \in Bytes
    BY <1>1
  <2> QED
    BY <2>1 DEF Bytes, Calls
<1>6. Frames(s \o t)
  <2>1. \A a \in 1 .. Len(s), b \in 1 .. Len(t) : s[a].id < t[b].id
    BY <1>3, <1>4, <1>5
  <2> QED
    BY <1>1, <1>4, <2>1, FramesJoin
<1>7. ASSUME NEW a \in 1 .. Len(s \o t)
      PROVE  (s \o t)[a].id <= last' /\ \A j \in ran' : j < (s \o t)[a].id
  <2>1. /\ Len(s) \in Nat /\ Len(t) \in Nat /\ a \in 1 .. Len(s) + Len(t)
        /\ (s \o t)[a] = IF a <= Len(s) THEN s[a] ELSE t[a - Len(s)]
    BY <1>1, JoinType
  <2>2. CASE a <= Len(s)
    <3>1. a \in 1 .. Len(s) /\ (s \o t)[a] = s[a]
      BY <2>1, <2>2
    <3> QED
      BY <1>3, <1>4, <1>5, <3>1
  <2>3. CASE a > Len(s)
    <3>1. a - Len(s) \in 1 .. Len(t) /\ (s \o t)[a] = t[a - Len(s)]
      BY <2>1, <2>3
    <3>2. (s \o t)[a].id = last + 1
      BY <3>1
    <3>3. \A j \in ran : j <= last /\ j \in Nat
      BY <1>3 DEF CallInv
    <3> QED
      BY <1>3, <3>2, <3>3
  <2>4. a <= Len(s) \/ a > Len(s)
    BY <2>1
  <2> QED
    BY <2>2, <2>3, <2>4
<1>8. Frames(Stream)'
  BY <1>2, <1>6 DEF Frames, FrameLimit
<1> QED
  BY <1>2, <1>7, <1>8 DEF StreamInv

LEMMA FrameIsFrames ==
  ASSUME NEW i \in Calls, NEW n \in 2 .. Buf, n <= FrameLimit
  PROVE  Frames(Frame(i, n))
<1> DEFINE f == Frame(i, n)
<1>1. n \in Nat /\ Len(f) = n /\ \A k \in 1 .. n : f[k] = [id |-> i, end |-> k = n]
  BY FrameType
<1>2. FrameLimit \in Int /\ i \in Nat
  BY ConstantsAssumption DEF FrameLimit, Calls
<1> HIDE DEF f
<1>3. ASSUME NEW a \in 1 .. n, NEW b \in 1 .. n
      PROVE  /\ a < b => f[a].id <= f[b].id
             /\ a < b /\ f[a].end => f[a].id < f[b].id
             /\ a <= b /\ f[a].id = f[b].id => b - a < FrameLimit /\ (b - a = FrameLimit - 1 => f[b].end)
  <2>0. f[a] = [id |-> i, end |-> a = n] /\ f[b] = [id |-> i, end |-> b = n]
    BY <1>1
  <2>1. f[a].id = i /\ f[b].id = i /\ (f[a].end <=> a = n) /\ (f[b].end <=> b = n)
    <3>1. ASSUME NEW x, NEW e, x = [id |-> i, end |-> e] PROVE x.id = i /\ x.end = e
      BY <3>1
    <3> QED
      BY <2>0, <3>1, Zenon
  <2>2. b - a < FrameLimit /\ (b - a = FrameLimit - 1 => b = n) /\ (a < b => a # n)
    BY <1>1, <1>2
  <2> QED
    BY <1>2, <2>1, <2>2
<1> QED
  BY <1>1, <1>3 DEF Frames, f

LEMMA TornIsFrames ==
  ASSUME NEW i \in Calls, NEW k \in 1 .. Buf, k < FrameLimit
  PROVE  Frames([j \in 1 .. k |-> [id |-> i, end |-> FALSE]])
<1> DEFINE f == [j \in 1 .. k |-> [id |-> i, end |-> FALSE]]
<1>1. k \in Nat /\ Len(f) = k /\ \A j \in 1 .. k : f[j] = [id |-> i, end |-> FALSE]
  BY TornType
<1>2. FrameLimit \in Int /\ i \in Nat
  BY ConstantsAssumption DEF FrameLimit, Calls
<1> HIDE DEF f
<1>3. ASSUME NEW a \in 1 .. k, NEW b \in 1 .. k
      PROVE  /\ a < b => f[a].id <= f[b].id
             /\ a < b /\ f[a].end => f[a].id < f[b].id
             /\ a <= b /\ f[a].id = f[b].id => b - a < FrameLimit /\ (b - a = FrameLimit - 1 => f[b].end)
  <2>1. f[a].id = i /\ f[b].id = i /\ ~f[a].end
    BY <1>1
  <2>2. b - a < FrameLimit - 1
    BY <1>1, <1>2
  <2> QED
    BY <1>2, <2>1, <2>2
<1> QED
  BY <1>1, <1>3 DEF Frames, f
-----------------------------------------------------------------------------
(* The client's steps keep the invariant. *)

LEMMA OnAppend ==
  ASSUME NEW S, NEW s \in Seq(S), NEW y \in S, NEW x
  PROVE  On(Append(s, y), x) <=> On(s, x) \/ x = y
<1> DEFINE t == Append(s, y)
<1>1. /\ DOMAIN s = 1 .. Len(s) /\ Len(s) \in Nat /\ DOMAIN t = 1 .. Len(s) + 1
      /\ t[Len(s) + 1] = y /\ \A k \in 1 .. Len(s) : t[k] = s[k]
  OBVIOUS
<1> HIDE DEF t
<1>2. (\E k \in DOMAIN t : t[k] = x) <=> (\E k \in DOMAIN s : s[k] = x) \/ x = y
  <2>1. ASSUME NEW k \in DOMAIN t, t[k] = x PROVE (\E j \in DOMAIN s : s[j] = x) \/ x = y
    BY <1>1, <2>1
  <2>2. ASSUME NEW k \in DOMAIN s, s[k] = x PROVE \E j \in DOMAIN t : t[j] = x
    BY <1>1, <2>2
  <2>3. ASSUME x = y PROVE \E j \in DOMAIN t : t[j] = x
    BY <1>1, <2>3
  <2> QED
    BY <2>1, <2>2, <2>3
<1> QED
  BY <1>2 DEF On, t

LEMMA OnTail ==
  ASSUME NEW S, NEW s \in Seq(S), s # <<>>, NEW x
  PROVE  On(s, x) <=> x = Head(s) \/ On(Tail(s), x)
<1> DEFINE t == Tail(s)
<1>1. /\ DOMAIN s = 1 .. Len(s) /\ Len(s) \in Nat /\ Len(s) >= 1 /\ DOMAIN t = 1 .. Len(s) - 1
      /\ Head(s) = s[1] /\ \A k \in 1 .. Len(s) - 1 : t[k] = s[k + 1]
  OBVIOUS
<1> HIDE DEF t
<1>2. (\E k \in DOMAIN s : s[k] = x) <=> x = s[1] \/ (\E k \in DOMAIN t : t[k] = x)
  <2>1. ASSUME NEW k \in DOMAIN s, s[k] = x PROVE x = s[1] \/ \E j \in DOMAIN t : t[j] = x
    <3>1. CASE k = 1
      BY <2>1, <3>1
    <3>2. CASE k # 1
      <4>1. k - 1 \in DOMAIN t /\ (k - 1) + 1 = k
        BY <1>1, <3>2
      <4> QED
        BY <1>1, <2>1, <4>1
    <3> QED
      BY <3>1, <3>2
  <2>2. ASSUME NEW k \in DOMAIN t, t[k] = x PROVE \E j \in DOMAIN s : s[j] = x
    <3>1. k + 1 \in DOMAIN s /\ s[k + 1] = x
      BY <1>1, <2>2
    <3> QED
      BY <3>1
  <2>3. ASSUME x = s[1] PROVE \E j \in DOMAIN s : s[j] = x
    <3>1. 1 \in DOMAIN s
      BY <1>1
    <3> QED
      BY <2>3, <3>1
  <2> QED
    BY <2>1, <2>2, <2>3
<1> QED
  BY <1>1, <1>2 DEF On, t

LEMMA BeginCalls ==
  ASSUME TypeOK, CallInv, NEW p \in {"open", "failed"}, Begin(p)
  PROVE  /\ \A i \in Calls : phase'[i] # "none" <=> i <= last'
         /\ \A i \in ran \cup spoiled : i <= last' /\ i # last + 1
         /\ phase'[last'] = p /\ last' = last + 1 /\ last < last'
<1>1. last \in Nat /\ last' = last + 1 /\ last + 1 \in Calls
  BY BeginTypes, ConstantsAssumption DEF TypeOK
<1>2. phase' = [phase EXCEPT ![last + 1] = p] /\ phase \in [Calls -> {"none", "open", "answered", "failed"}]
  BY DEF Begin, TypeOK
<1>3. ASSUME NEW i \in Calls PROVE phase'[i] # "none" <=> i <= last'
  <2>1. i \in Nat /\ (phase[i] # "none" <=> i <= last)
    BY DEF CallInv, Calls
  <2>2. CASE i = last + 1
    BY <1>1, <1>2, <2>2
  <2>3. CASE i # last + 1
    BY <1>1, <1>2, <2>1, <2>3
  <2> QED
    BY <2>2, <2>3
<1>4. \A i \in ran \cup spoiled : i <= last /\ i \in Nat
  BY DEF CallInv, TypeOK, Calls
<1> QED
  BY <1>1, <1>2, <1>3, <1>4

LEMMA UnsentInv == ASSUME IInv, TypeOK', Unsent PROVE IInv'
<1>1. TypeOK /\ StreamInv /\ ReplyInv /\ CallInv
  BY DEF IInv
<1>2. Begin("failed") /\ UNCHANGED <<up, toServer, fromServer, buf, ran, spoiled, upset, open, lines>>
  BY DEF Unsent, Begin, pipe, server, history
<1>3. /\ \A i \in Calls : phase'[i] # "none" <=> i <= last'
      /\ \A i \in ran \cup spoiled : i <= last'
      /\ phase'[last'] = "failed" /\ last <= last'
  <2>1. "failed" \in {"open", "failed"} /\ last \in Int
    BY <1>1 DEF TypeOK
  <2> QED
    BY <1>1, <1>2, <2>1, BeginCalls
<1>4. StreamInv'
  BY <1>1, <1>2, <1>3, SameStream DEF Stream
<1>5. ReplyInv'
  BY <1>1, <1>2 DEF ReplyInv, On
<1>6. CallInv'
  BY <1>1, <1>2, <1>3 DEF CallInv, On
<1>7. AnswerComes'
  BY <1>3 DEF AnswerComes, Open
<1> QED
  BY <1>4, <1>5, <1>6, <1>7 DEF IInv

LEMMA SendTornInv ==
  ASSUME IInv, TypeOK', NEW n \in 2 .. Buf, NEW k \in 1 .. Buf, SendTorn(n, k)
  PROVE  IInv'
<1>1. TypeOK /\ StreamInv /\ ReplyInv /\ CallInv
  BY DEF IInv
<1>2. Begin("failed") /\ UNCHANGED <<up, fromServer, buf, ran, spoiled, upset, open, lines>>
  BY DEF SendTorn, Begin, server, history
<1>3. /\ \A i \in Calls : phase'[i] # "none" <=> i <= last'
      /\ \A i \in ran \cup spoiled : i <= last'
      /\ phase'[last'] = "failed" /\ last <= last'
  <2>1. "failed" \in {"open", "failed"} /\ last \in Int
    BY <1>1 DEF TypeOK
  <2> QED
    BY <1>1, <1>2, <2>1, BeginCalls
<1>4. StreamInv'
  <2> DEFINE i == last + 1
             t == [j \in 1 .. k |-> [id |-> i, end |-> FALSE]]
  <2>1. i \in Calls /\ k \in Nat /\ k < FrameLimit
    <3>1. i \in Calls
      BY <1>1, <1>2, BeginTypes
    <3>2. k < n /\ n <= FrameLimit
      BY DEF SendTorn
    <3>3. FrameLimit \in Int
      BY ConstantsAssumption DEF FrameLimit
    <3> QED
      BY <3>1, <3>2, <3>3
  <2>2. toServer' = toServer \o t
    BY DEF SendTorn
  <2> HIDE DEF i
  <2>3. t \in Seq(Bytes) /\ Len(t) = k /\ Frames(t)
    BY <2>1, TornType, TornIsFrames
  <2>4. \A a \in 1 .. Len(t) : t[a].id = last + 1
    BY <2>3 DEF i
  <2> HIDE DEF t
  <2> QED
    BY <1>1, <1>2, <2>2, <2>3, <2>4, LongerStream
<1>5. ReplyInv'
  BY <1>1, <1>2 DEF ReplyInv, On
<1>6. CallInv'
  BY <1>1, <1>2, <1>3 DEF CallInv, On
<1>7. AnswerComes'
  BY <1>3 DEF AnswerComes, Open
<1> QED
  BY <1>4, <1>5, <1>6, <1>7 DEF IInv

(* A request that follows no torn one is whole in the stream.              *)
LEMMA SendInv == ASSUME IInv, TypeOK', NEW n \in 2 .. Buf, Send(n) PROVE IInv'
<1>1. TypeOK /\ StreamInv /\ ReplyInv /\ CallInv
  BY DEF IInv
<1>2. PICK p \in {"open", "failed"} : Begin(p)
  BY DEF Send
<1>3. UNCHANGED <<up, fromServer, buf, ran, upset, open, lines>> /\ open /\ up
  BY <1>2 DEF Send, Begin, server
<1>4. /\ \A i \in Calls : phase'[i] # "none" <=> i <= last'
      /\ \A i \in ran \cup spoiled : i <= last'
      /\ last' = last + 1
  BY <1>1, <1>2, BeginCalls
<1> DEFINE i == last + 1
           t == Frame(i, n)
<1>5. i \in Calls /\ n \in Nat /\ n >= 1 /\ n <= FrameLimit
  <2>1. i \in Calls
    BY <1>1, <1>2, BeginTypes
  <2> QED
    BY <2>1 DEF Send
<1>6. toServer' = toServer \o t
  BY DEF Send
<1> HIDE DEF i
<1>7. t \in Seq(Bytes) /\ Len(t) = n /\ Frames(t) /\ \A a \in 1 .. n : t[a] = [id |-> i, end |-> a = n]
  BY <1>5, FrameType, FrameIsFrames
<1> HIDE DEF t
<1>8. StreamInv'
  <2>1. \A a \in 1 .. Len(t) : t[a].id = last + 1
    BY <1>7 DEF i
  <2> QED
    BY <1>1, <1>2, <1>3, <1>6, <1>7, <2>1, LongerStream
<1>9. ReplyInv'
  BY <1>1, <1>3 DEF ReplyInv, On
<1>10. CallInv'
  <2>1. spoiled' \subseteq spoiled \cup {last + 1}
    BY DEF Send
  <2>2. \A j \in ran' \cup spoiled' : j <= last'
    <3>1. last + 1 <= last'
      BY <1>1, <1>4 DEF TypeOK
    <3> QED
      BY <1>3, <1>4, <2>1, <3>1
  <2> QED
    BY <1>1, <1>3, <1>4, <2>2 DEF CallInv, On
<1>11. On(Stream', [id |-> last', end |-> TRUE])
  <2>1. /\ buf' \in Seq(Bytes) /\ toServer \in Seq(Bytes) /\ buf' = buf
    BY <1>1, <1>3, StreamType
  <2>2. Stream' = Stream \o t /\ Stream \in Seq(Bytes)
    <3>1. toServer \in Seq(Bytes) /\ Stream = buf \o toServer /\ Stream \in Seq(Bytes) /\ buf \in Seq(Bytes)
      BY <1>1, StreamType DEF Stream
    <3>2. Stream' = buf \o (toServer \o t)
      BY <1>6, <2>1 DEF Stream
    <3>3. (buf \o toServer) \o t = buf \o (toServer \o t)
      BY <1>7, <3>1, JoinAssociative
    <3>4. QED
      BY <3>1, <3>2, <3>3
  <2> DEFINE s == Stream
             x == Len(s) + n
  <2>3. /\ s \in Seq(Bytes) /\ Len(s) \in Nat /\ DOMAIN (s \o t) = 1 .. Len(s) + n
        /\ \A a \in 1 .. Len(s) + n : (s \o t)[a] = IF a <= Len(s) THEN s[a] ELSE t[a - Len(s)]
    <3>1. s \in Seq(Bytes)
      BY <2>2
    <3> HIDE DEF s
    <3>2. Len(s) \in Nat /\ Len(s \o t) = Len(s) + n /\ DOMAIN (s \o t) = 1 .. Len(s \o t)
      BY <1>7, <3>1, JoinType
    <3>3. \A a \in 1 .. Len(s) + n : (s \o t)[a] = IF a <= Len(s) THEN s[a] ELSE t[a - Len(s)]
      BY <1>7, <3>1, JoinType
    <3>4. QED
      BY <3>1, <3>2, <3>3
  <2> HIDE DEF s
  <2>4. x \in DOMAIN (s \o t) /\ (s \o t)[x] = t[x - Len(s)] /\ x - Len(s) = n
    BY <1>5, <2>3
  <2>5. t[n] = [id |-> i, end |-> n = n]
    BY <1>5, <1>7
  <2>6. (n = n) = TRUE
    OBVIOUS
  <2>7. (s \o t)[x] = [id |-> last', end |-> TRUE]
    BY <1>4, <2>4, <2>5, <2>6 DEF i
  <2> QED
    BY <2>2, <2>4, <2>7 DEF On, s
<1>12. AnswerComes'
  <2>1. ~On(lines', CLOSED)
    BY <1>1, <1>3 DEF CallInv, On
  <2> QED
    BY <1>3, <1>11, <2>1 DEF AnswerComes
<1> QED
  BY <1>8, <1>9, <1>10, <1>12 DEF IInv

LEMMA ReplyInvKept ==
  ASSUME ReplyInv, ran' = ran, \A x : On(fromServer', x) => On(fromServer, x),
         \A x : On(lines', x) => On(lines, x) \/ On(fromServer, x) \/ x = CLOSED
  PROVE  ReplyInv'
  BY DEF ReplyInv

LEMMA EndedCalls ==
  ASSUME TypeOK, CallInv, Open, NEW p \in {"answered", "failed"}, Ended(p)
  PROVE  /\ \A i \in Calls : phase'[i] # "none" <=> i <= last
         /\ phase'[last] = p
<1>1. phase \in [Calls -> {"none", "open", "answered", "failed"}] /\ last \in Calls /\ phase[last] = "open"
  BY ConstantsAssumption DEF TypeOK, Open, Calls
<1>2. phase' = [phase EXCEPT ![last] = p]
  BY DEF Ended
<1> QED
  BY <1>1, <1>2 DEF CallInv

LEMMA FailedInv == ASSUME IInv, TypeOK', ReadClosed \/ TimeOut PROVE IInv'
<1>1. TypeOK /\ StreamInv /\ ReplyInv /\ CallInv
  BY DEF IInv
<1>2. /\ Open /\ Ended("failed")
      /\ UNCHANGED <<last, up, toServer, fromServer, buf, ran, spoiled, upset, open, lines>>
  BY DEF ReadClosed, TimeOut, pipe, server, history
<1>3. (\A i \in Calls : phase'[i] # "none" <=> i <= last) /\ phase'[last] = "failed"
  BY <1>1, <1>2, EndedCalls
<1>4. StreamInv'
  <2>1. last <= last'
    BY <1>1, <1>2 DEF TypeOK
  <2> QED
    BY <1>1, <1>2, <2>1, SameStream DEF Stream
<1>5. ReplyInv'
  BY <1>1, <1>2 DEF ReplyInv, On
<1>6. CallInv'
  BY <1>1, <1>2, <1>3 DEF CallInv, On
<1>7. AnswerComes'
  BY <1>2, <1>3 DEF AnswerComes, Open
<1> QED
  BY <1>4, <1>5, <1>6, <1>7 DEF IInv

(* A line that is skipped is not the answer that is waited for.            *)
LEMMA ReadLineInv == ASSUME IInv, TypeOK', ReadLine PROVE IInv'
<1>1. TypeOK /\ StreamInv /\ ReplyInv /\ CallInv /\ AnswerComes
  BY DEF IInv
<1>2. /\ Open /\ lines # <<>> /\ lines' = Tail(lines) /\ Head(lines) # CLOSED
      /\ UNCHANGED <<last, up, toServer, fromServer, buf, ran, spoiled, upset, open>>
  BY DEF ReadLine, pipe, server, history
<1>3. \A x : On(lines, x) <=> x = Head(lines) \/ On(lines', x)
  BY <1>1, <1>2, OnTail DEF TypeOK
<1>4. StreamInv'
  <2>1. last <= last'
    BY <1>1, <1>2 DEF TypeOK
  <2> QED
    BY <1>1, <1>2, <2>1, SameStream DEF Stream
<1>5. ReplyInv'
  BY <1>1, <1>2, <1>3, ReplyInvKept
<1>6. CASE Ended("answered") /\ Accepts(Head(lines))
  <2>1. (\A i \in Calls : phase'[i] # "none" <=> i <= last) /\ phase'[last] = "answered"
    BY <1>1, <1>2, <1>6, EndedCalls
  <2>2. CallInv'
    BY <1>1, <1>2, <1>3, <2>1 DEF CallInv
  <2>3. AnswerComes'
    BY <1>2, <2>1 DEF AnswerComes, Open
  <2> QED
    BY <1>4, <1>5, <2>2, <2>3 DEF IInv
<1>7. CASE phase' = phase /\ Head(lines) # last
  <2>1. CallInv'
    BY <1>1, <1>2, <1>3, <1>7 DEF CallInv
  <2>2. AnswerComes'
    BY <1>1, <1>2, <1>3, <1>7 DEF AnswerComes, Open, Stream, On
  <2> QED
    BY <1>4, <1>5, <2>1, <2>2 DEF IInv
<1> QED
  BY <1>6, <1>7 DEF ReadLine, Accepts

LEMMA ReadLoopInv == ASSUME IInv, TypeOK', ReadLoop PROVE IInv'
<1>1. TypeOK /\ StreamInv /\ ReplyInv /\ CallInv /\ AnswerComes
  BY DEF IInv
<1>2. /\ fromServer # <<>> /\ fromServer' = Tail(fromServer) /\ lines' = Append(lines, Head(fromServer))
      /\ UNCHANGED <<last, phase, up, toServer, buf, ran, spoiled, upset, open>>
  BY DEF ReadLoop, Put, server, history
<1>3. fromServer \in Seq(Calls \cup {NoId}) /\ lines \in Seq(Calls \cup {NoId, CLOSED}) /\ Head(fromServer) \in Calls \cup {NoId}
  BY <1>1, <1>2 DEF TypeOK
<1>4. \A x : On(fromServer, x) <=> x = Head(fromServer) \/ On(fromServer', x)
  BY <1>2, <1>3, OnTail
<1>5. \A x : On(lines', x) <=> On(lines, x) \/ x = Head(fromServer)
  BY <1>2, <1>3, OnAppend
<1>6. Head(fromServer) # CLOSED
  BY <1>3, ConstantsAssumption DEF Calls, NoId
<1>7. StreamInv'
  <2>1. last <= last'
    BY <1>1, <1>2 DEF TypeOK
  <2> QED
    BY <1>1, <1>2, <2>1, SameStream DEF Stream
<1>8. ReplyInv'
  BY <1>1, <1>2, <1>4, <1>5, ReplyInvKept
<1>9. CallInv'
  BY <1>1, <1>2, <1>5, <1>6 DEF CallInv
<1>10. AnswerComes'
  <2>1. On(Stream', [id |-> last, end |-> TRUE]) <=> On(Stream, [id |-> last, end |-> TRUE])
    BY <1>2 DEF Stream, On
  <2> QED
    BY <1>1, <1>2, <1>4, <1>5, <1>6, <2>1 DEF AnswerComes, Open
<1> QED
  BY <1>7, <1>8, <1>9, <1>10 DEF IInv

LEMMA EndOfStreamInv == ASSUME IInv, TypeOK', EndOfStream PROVE IInv'
<1>1. TypeOK /\ StreamInv /\ ReplyInv /\ CallInv /\ AnswerComes
  BY DEF IInv
<1>2. /\ ~up /\ lines' = Append(lines, CLOSED)
      /\ UNCHANGED <<last, phase, up, toServer, fromServer, buf, ran, spoiled, upset, open>>
  BY DEF EndOfStream, Put, pipe, server, history
<1>3. \A x : On(lines', x) <=> On(lines, x) \/ x = CLOSED
  <2>1. lines \in Seq(Calls \cup {NoId, CLOSED}) /\ CLOSED \in Calls \cup {NoId, CLOSED}
    BY <1>1 DEF TypeOK
  <2> QED
    BY <1>2, <2>1, OnAppend
<1>4. StreamInv'
  <2>1. last <= last'
    BY <1>1, <1>2 DEF TypeOK
  <2> QED
    BY <1>1, <1>2, <2>1, SameStream DEF Stream
<1>5. ReplyInv'
  BY <1>1, <1>2, <1>3, ReplyInvKept
<1>6. CallInv'
  BY <1>1, <1>2 DEF CallInv
<1>7. AnswerComes'
  BY <1>1, <1>2 DEF AnswerComes, Open
<1> QED
  BY <1>4, <1>5, <1>6, <1>7 DEF IInv

LEMMA CloseInv == ASSUME IInv, TypeOK', Close PROVE IInv'
<1>1. TypeOK /\ StreamInv /\ ReplyInv /\ CallInv
  BY DEF IInv
<1>2. /\ lines' = Append(lines, CLOSED) /\ fromServer' = <<>> /\ ~open' /\ upset' = TRUE
      /\ UNCHANGED <<last, phase, toServer, buf, ran, spoiled>>
  BY DEF Close, Put, server
<1>3. \A x : On(lines', x) <=> On(lines, x) \/ x = CLOSED
  <2>1. lines \in Seq(Calls \cup {NoId, CLOSED}) /\ CLOSED \in Calls \cup {NoId, CLOSED}
    BY <1>1 DEF TypeOK
  <2> QED
    BY <1>2, <2>1, OnAppend
<1>4. StreamInv'
  <2>1. last <= last'
    BY <1>1, <1>2 DEF TypeOK
  <2> QED
    BY <1>1, <1>2, <2>1, SameStream DEF Stream
<1>5. ReplyInv'
  <2>1. \A x : ~On(fromServer', x)
    BY <1>2 DEF On
  <2> QED
    BY <1>1, <1>2, <1>3, <2>1, ReplyInvKept
<1>6. CallInv'
  BY <1>1, <1>2 DEF CallInv
<1>7. AnswerComes'
  BY <1>2 DEF AnswerComes
<1> QED
  BY <1>4, <1>5, <1>6, <1>7 DEF IInv
-----------------------------------------------------------------------------
(* The game's steps keep the invariant. *)

LEMMA PipeReadInv == ASSUME IInv, TypeOK', NEW k \in DOMAIN toServer, PipeRead(k) PROVE IInv'
<1>1. TypeOK /\ StreamInv /\ ReplyInv /\ CallInv /\ AnswerComes
  BY DEF IInv
<1>2. UNCHANGED <<last, phase, up, fromServer, ran, spoiled, upset, open, lines>>
  BY DEF PipeRead, client, history
<1>3. Stream' = Stream
  BY <1>1, ReadKeepsStream
<1>4. StreamInv'
  <2>1. last <= last'
    BY <1>1, <1>2 DEF TypeOK
  <2> QED
    BY <1>1, <1>2, <1>3, <2>1, SameStream
<1>5. ReplyInv'
  BY <1>1, <1>2 DEF ReplyInv, On
<1>6. CallInv'
  BY <1>1, <1>2 DEF CallInv, On
<1>7. AnswerComes'
  <2>1. On(Stream', [id |-> last, end |-> TRUE]) <=> On(Stream, [id |-> last, end |-> TRUE])
    BY <1>3 DEF On
  <2> QED
    BY <1>1, <1>2, <2>1 DEF AnswerComes, Open, On
<1> QED
  BY <1>4, <1>5, <1>6, <1>7 DEF IInv

(* The line handled is the first of the stream, and all after it are later *)
(* calls'.  The reply to the call in progress is sent as its request goes. *)
LEMMA RpcHandleInv ==
  ASSUME IInv, TypeOK', NEW p \in DOMAIN buf, NEW within \in BOOLEAN, NEW sent \in BOOLEAN,
         RpcHandle(p, within, sent)
  PROVE  IInv'
<1> DEFINE i == buf[p].id
           request == IsRequest(p) /\ within
<1>1. TypeOK /\ StreamInv /\ ReplyInv /\ CallInv /\ AnswerComes
  BY DEF IInv
<1>2. /\ Line(p) /\ buf' = Rest(p) /\ RpcReply(IF request THEN i ELSE NoId, sent)
      /\ ran' = (IF request THEN ran \cup {i} ELSE ran)
      /\ spoiled' = (IF request THEN spoiled ELSE spoiled \cup {i})
      /\ UNCHANGED <<last, phase, open, lines>>
  BY DEF RpcHandle, client
<1> DEFINE id == IF request THEN i ELSE NoId
<1>3. \/ ~up /\ UNCHANGED <<up, toServer, fromServer, upset>>
      \/ up /\ sent /\ fromServer' = Append(fromServer, id) /\ UNCHANGED <<up, toServer, upset>>
      \/ up /\ ~sent /\ ~up' /\ toServer' = <<>> /\ fromServer' = <<>> /\ upset'
  BY <1>2 DEF RpcReply, Disconnected, pipe
<1>4. toServer' = toServer \/ toServer' = <<>>
  BY <1>3
<1>5. /\ p \in 1 .. Len(Stream) /\ Stream[p] = buf[p]
      /\ Part(Stream', Stream, p)
      /\ toServer' = toServer =>
           \A a \in 1 .. Len(Stream) : a > p => a - p \in 1 .. Len(Stream') /\ Stream'[a - p] = Stream[a]
  BY <1>1, <1>2, <1>4, TakeLine
<1>6. /\ Stream \in Seq(Bytes) /\ Stream' \in Seq(Bytes) /\ Len(Stream) \in Nat /\ Len(Stream') \in Nat
      /\ DOMAIN Stream = 1 .. Len(Stream) /\ DOMAIN Stream' = 1 .. Len(Stream')
  BY <1>1, StreamType, NextStreamType
<1>7. i \in Calls /\ i <= last /\ Stream[p].end
  <2>1. Stream[p] \in Bytes
    BY <1>5, <1>6
  <2>2. buf[p].end
    BY <1>2 DEF Line
  <2> QED
    BY <1>1, <1>5, <2>1, <2>2 DEF Bytes, StreamInv
<1> HIDE DEF request
<1>8. StreamInv'
  <2>1. Frames(Stream')
    BY <1>1, <1>5, <1>6, PartOfFrames DEF StreamInv
  <2>2. ASSUME NEW a \in 1 .. Len(Stream')
        PROVE  Stream'[a].id <= last' /\ \A j \in ran' : j < Stream'[a].id
    <3> DEFINE x == a + p
    <3>1. p \in Nat /\ x <= Len(Stream) /\ Stream'[a] = Stream[x]
      BY <1>5 DEF Part
    <3>2. x \in 1 .. Len(Stream) /\ p < x
      BY <1>5, <1>6, <3>1
    <3> HIDE DEF x
    <3>3. Stream[x].id <= last /\ \A j \in ran : j < Stream[x].id
      BY <1>1, <3>2 DEF StreamInv
    <3>4. Stream[p].id < Stream[x].id
      BY <1>1, <1>5, <1>7, <3>2 DEF StreamInv, Frames
    <3> QED
      BY <1>2, <1>5, <3>1, <3>3, <3>4
  <2>3. Frames(Stream)'
    BY <2>1 DEF Frames, FrameLimit
  <2> QED
    BY <2>2, <2>3 DEF StreamInv
<1>9. ran \subseteq ran' /\ id \in {NoId} \cup ran'
  BY <1>2
<1>10. fromServer \in Seq(Calls \cup {NoId}) /\ id \in Calls \cup {NoId}
  BY <1>1, <1>7 DEF TypeOK
<1> HIDE DEF id
<1>11. fromServer' = Append(fromServer, id) => \A x : On(fromServer', x) <=> On(fromServer, x) \/ x = id
  BY <1>10, OnAppend
<1>12. ReplyInv'
  <2>1. \A x : On(lines', x) => x \in {NoId, CLOSED} \cup ran'
    BY <1>1, <1>2, <1>9 DEF ReplyInv, On
  <2>2. \A x : On(fromServer', x) => x \in {NoId} \cup ran'
    <3>1. CASE fromServer' = fromServer
      BY <1>1, <1>9, <3>1 DEF ReplyInv, On
    <3>2. CASE fromServer' = Append(fromServer, id)
      BY <1>1, <1>9, <1>11, <3>2 DEF ReplyInv
    <3>3. CASE fromServer' = <<>>
      BY <3>3 DEF On
    <3> QED
      BY <1>3, <3>1, <3>2, <3>3
  <2> QED
    BY <2>1, <2>2 DEF ReplyInv
<1>13. CallInv'
  <2>1. \A j \in ran' \cup spoiled' : j <= last'
    BY <1>1, <1>2, <1>7 DEF CallInv
  <2>2. On(lines', CLOSED) => ~open' \/ ~up'
    BY <1>1, <1>2, <1>3 DEF CallInv, On
  <2> QED
    BY <1>1, <1>2, <2>1, <2>2 DEF CallInv
<1>14. AnswerComes'
  <2> SUFFICES ASSUME Open', ~upset', last' \notin spoiled'
               PROVE  /\ up' /\ ~On(lines', CLOSED)
                      /\ \/ On(Stream', [id |-> last', end |-> TRUE])
                         \/ On(fromServer', last') \/ On(lines', last')
    BY DEF AnswerComes
  <2>1. Open /\ last' = last /\ lines' = lines /\ last \notin spoiled /\ (i = last => request)
    BY <1>2 DEF Open
  <2>2. ~upset
    BY <1>3
  <2>3. /\ up /\ ~On(lines, CLOSED)
        /\ \/ On(Stream, [id |-> last, end |-> TRUE])
           \/ On(fromServer, last) \/ On(lines, last)
    BY <1>1, <2>1, <2>2 DEF AnswerComes
  <2>4. fromServer' = Append(fromServer, id) /\ up' /\ toServer' = toServer
    BY <1>3, <2>3
  <2>5. up' /\ ~On(lines', CLOSED)
    BY <2>1, <2>3, <2>4
  <2>6. CASE On(fromServer, last) \/ On(lines, last)
    BY <1>11, <2>1, <2>4, <2>5, <2>6
  <2>7. CASE On(Stream, [id |-> last, end |-> TRUE])
    <3>1. PICK x \in 1 .. Len(Stream) : Stream[x] = [id |-> last, end |-> TRUE]
      BY <1>6, <2>7 DEF On
    <3>2. CASE x < p
      <4>1. Stream[x].end
        BY <3>1
      <4>2. /\ Len(buf) \in Nat /\ p \in 1 .. Len(buf)
            /\ \A a \in 1 .. Len(buf) : Stream[a] = buf[a]
        BY <1>1, StreamType
      <4>3. x \in 1 .. p - 1 /\ Stream[x] = buf[x]
        BY <3>2, <4>2
      <4>4. ~buf[x].end
        BY <1>2, <4>3 DEF Line
      <4> QED
        BY <4>1, <4>3, <4>4
    <3>3. CASE x = p
      <4>1. i = last
        BY <1>5, <3>1, <3>3
      <4>2. id = last
        BY <2>1, <4>1 DEF id
      <4> QED
        BY <1>11, <2>1, <2>4, <2>5, <4>2
    <3>4. CASE x > p
      <4>1. x - p \in 1 .. Len(Stream') /\ Stream'[x - p] = Stream[x]
        BY <1>5, <2>4, <3>4
      <4> QED
        BY <1>6, <2>1, <2>5, <3>1, <4>1 DEF On
    <3> QED
      BY <1>5, <1>6, <3>2, <3>3, <3>4
  <2> QED
    BY <2>3, <2>6, <2>7
<1> QED
  BY <1>8, <1>12, <1>13, <1>14 DEF IInv

LEMMA EmptiedStream ==
  ASSUME TypeOK, StreamInv, CallInv, buf' = <<>>, toServer' = <<>>, last' = last, ran' = ran
  PROVE  StreamInv'
<1>1. Stream' = <<>> \o <<>> /\ Len(Stream') = 0
  BY DEF Stream
<1> QED
  BY <1>1 DEF StreamInv, Frames

(* A buffer full of one call's bytes would hold the end of its line.       *)
LEMMA GoneInv == ASSUME IInv, TypeOK', Gone PROVE IInv'
<1>1. TypeOK /\ StreamInv /\ ReplyInv /\ CallInv /\ AnswerComes
  BY DEF IInv
<1>2. /\ ~HasLine /\ (Room = 0 \/ ~up)
      /\ ~up' /\ toServer' = <<>> /\ fromServer' = <<>> /\ buf' = <<>>
      /\ UNCHANGED <<last, phase, ran, spoiled, open, lines>>
  BY DEF Gone, Disconnected, client
<1>3. StreamInv'
  BY <1>1, <1>2, EmptiedStream
<1>4. ReplyInv'
  <2>1. \A x : ~On(fromServer', x)
    BY <1>2 DEF On
  <2>2. \A x : On(lines', x) => On(lines, x)
    BY <1>2 DEF On
  <2> QED
    BY <1>1, <1>2, <2>1, <2>2, ReplyInvKept
<1>5. CallInv'
  BY <1>1, <1>2 DEF CallInv, On
<1>6. AnswerComes'
  <2> SUFFICES ASSUME Open', ~upset', last' \notin spoiled' PROVE FALSE
    BY DEF AnswerComes
  <2>1. ~upset /\ \A a, b \in DOMAIN buf : buf[a].id = buf[b].id
    BY DEF Gone
  <2>2. Open /\ last \notin spoiled
    BY <1>2 DEF Open
  <2>3. up
    BY <1>1, <2>1, <2>2 DEF AnswerComes
  <2>4. Len(buf) = Buf - 1
    BY <1>1, <1>2, <2>3, StreamType, ConstantsAssumption DEF Room
  <2> DEFINE n == Len(buf)
  <2>5. /\ n \in Nat /\ n >= 2 /\ n = FrameLimit /\ DOMAIN buf = 1 .. n
        /\ 1 \in 1 .. Len(Stream) /\ n \in 1 .. Len(Stream)
        /\ Stream[1] = buf[1] /\ Stream[n] = buf[n]
    BY <1>1, <2>4, StreamType, ConstantsAssumption DEF FrameLimit
  <2> HIDE DEF n
  <2>6. buf[1].id = buf[n].id /\ ~buf[n].end
    BY <1>2, <2>1, <2>5 DEF HasLine
  <2>7. 1 <= n /\ Stream[1].id = Stream[n].id => (n - 1 = FrameLimit - 1 => Stream[n].end)
    BY <1>1, <2>5 DEF StreamInv, Frames
  <2> QED
    BY <2>5, <2>6, <2>7
<1> QED
  BY <1>3, <1>4, <1>5, <1>6 DEF IInv

LEMMA CrashInv == ASSUME IInv, TypeOK', Crash PROVE IInv'
<1>1. TypeOK /\ StreamInv /\ ReplyInv /\ CallInv
  BY DEF IInv
<1>2. /\ ~up' /\ toServer' = <<>> /\ fromServer' \in {fromServer, <<>>} /\ buf' = <<>> /\ upset'
      /\ UNCHANGED <<last, phase, ran, spoiled, open, lines>>
  BY DEF Crash, client
<1>3. StreamInv'
  BY <1>1, <1>2, EmptiedStream
<1>4. ReplyInv'
  <2>1. \A x : On(fromServer', x) => On(fromServer, x)
    BY <1>2 DEF On
  <2>2. \A x : On(lines', x) => On(lines, x)
    BY <1>2 DEF On
  <2> QED
    BY <1>1, <1>2, <2>1, <2>2, ReplyInvKept
<1>5. CallInv'
  BY <1>1, <1>2 DEF CallInv, On
<1>6. AnswerComes'
  BY <1>2 DEF AnswerComes
<1> QED
  BY <1>3, <1>4, <1>5, <1>6 DEF IInv
-----------------------------------------------------------------------------
LEMMA InitInv == Init => IInv
<1> SUFFICES ASSUME Init PROVE IInv
  OBVIOUS
<1>1. TypeOK
  <2>1. {open, reading, up, upset} \subseteq BOOLEAN
    BY Zenon DEF Init
  <2>2. /\ phase \in [Calls -> {"none", "open", "answered", "failed"}] /\ reply \in [Calls -> 0 .. MaxCalls]
        /\ last \in 0 .. MaxCalls /\ ran \subseteq Calls /\ spoiled \subseteq Calls
    BY ConstantsAssumption DEF Init
  <2>3. /\ lines \in Seq(Calls \cup {NoId, CLOSED}) /\ fromServer \in Seq(Calls \cup {NoId})
        /\ toServer \in Seq(Bytes) /\ buf \in Seq(Bytes) /\ Len(buf) < Buf
    BY ConstantsAssumption DEF Init
  <2> QED
    BY <2>1, <2>2, <2>3 DEF TypeOK
<1>2. StreamInv
  <2>1. Stream = <<>> \o <<>> /\ Len(Stream) = 0
    BY DEF Init, Stream
  <2> QED
    BY <2>1 DEF StreamInv, Frames
<1>3. ReplyInv
  BY DEF Init, ReplyInv, On
<1>4. CallInv
  BY DEF Init, CallInv, On, Calls
<1>5. AnswerComes
  BY DEF Init, AnswerComes, Open
<1> QED
  BY <1>1, <1>2, <1>3, <1>4, <1>5 DEF IInv

LEMMA NextInv == IInv /\ [Next]_vars => IInv'
<1> SUFFICES ASSUME IInv, [Next]_vars PROVE IInv'
  OBVIOUS
<1>1. CASE ClientStep
  <2>1. TypeOK'
    BY <1>1, ClientTypes DEF IInv
  <2> QED
    BY <1>1, <2>1, UnsentInv, SendInv, SendTornInv, FailedInv, ReadLineInv, ReadLoopInv, EndOfStreamInv, CloseInv
    DEF ClientStep
<1>2. CASE ServerStep
  <2>1. TypeOK'
    BY <1>2, ServerTypes DEF IInv
  <2> QED
    BY <1>2, <2>1, PipeReadInv, RpcHandleInv, GoneInv, CrashInv DEF ServerStep
<1>3. CASE UNCHANGED vars
  <2>1. UNCHANGED <<last, phase, reply, open, reading, lines, up, toServer, fromServer, buf, ran, spoiled, upset>>
    BY <1>3 DEF vars, client, pipe, server, history
  <2>2. TypeOK'
    BY <2>1 DEF IInv, TypeOK
  <2>3. StreamInv'
    BY <2>1 DEF IInv, StreamInv, Frames, Stream, FrameLimit
  <2>4. ReplyInv' /\ CallInv'
    BY <2>1 DEF IInv, ReplyInv, CallInv, On
  <2>5. AnswerComes'
    BY <2>1 DEF IInv, AnswerComes, Open, Stream, On
  <2> QED
    BY <2>2, <2>3, <2>4, <2>5 DEF IInv
<1> QED
  BY <1>1, <1>2, <1>3 DEF Next

(* The stream to the game carries requests in the order of the calls, all  *)
(* after those served, and the lines back answer calls that were served.   *)
THEOREM Invariance == Spec => []IInv
<1> QED
  BY InitInv, NextInv, PTL DEF Spec

(* Calls, lines and bytes keep their types and the game's buffer keeps     *)
(* room for the end of its string, for any number of calls and any buffer. *)
THEOREM TypeCorrect == Spec => []TypeOK
<1>1. IInv => TypeOK
  BY DEF IInv
<1> QED
  BY <1>1, Invariance, PTL

(* No call waits for an answer that will not come, whatever was abandoned  *)
(* before it.                                                              *)
THEOREM NobodyWaitsInVain == Spec => []AnswerComes
<1>1. IInv => AnswerComes
  BY DEF IInv
<1> QED
  BY <1>1, Invariance, PTL
-----------------------------------------------------------------------------
LEMMA NextRefines == IInv /\ [Next]_vars => [C!CNext]_(C!cvars)
<1> SUFFICES ASSUME IInv, [Next]_vars PROVE [C!CNext]_(C!cvars)
  OBVIOUS
<1>1. TypeOK /\ StreamInv /\ ReplyInv /\ CallInv
  BY DEF IInv
<1>2. ASSUME NEW p \in {"open", "failed"}, Begin(p), ran' = ran PROVE C!CNext
  BY <1>2 DEF Begin, Open, C!CNext, C!Make, C!Open
<1>3. CASE Unsent
  BY <1>2, <1>3 DEF Unsent, server
<1>4. ASSUME NEW n \in 2 .. Buf, Send(n) PROVE C!CNext
  BY <1>2, <1>4 DEF Send, server
<1>5. ASSUME NEW n \in 2 .. Buf, NEW k \in 1 .. Buf, SendTorn(n, k) PROVE C!CNext
  BY <1>2, <1>5 DEF SendTorn, server
<1>6. CASE ReadClosed \/ TimeOut
  BY <1>6 DEF ReadClosed, TimeOut, Ended, Open, server, C!CNext, C!Fail, C!Open
<1>7. CASE ReadLine
  <2>1. Open /\ UNCHANGED <<last, ran>> /\ lines # <<>> /\ Head(lines) # CLOSED
    BY <1>7 DEF ReadLine, server
  <2>2. CASE Head(lines) = last
    <3>1. phase' = [phase EXCEPT ![last] = "answered"] /\ reply' = [reply EXCEPT ![last] = last]
      BY <1>7, <2>2 DEF ReadLine, Accepts, Ended
    <3>2. On(lines, last)
      BY <1>1, <2>1, <2>2, OnTail DEF TypeOK
    <3>3. last \in ran
      BY <1>1, <2>1, <2>2, <3>2 DEF ReplyInv, Open, NoId
    <3> QED
      BY <2>1, <3>1, <3>3 DEF Open, C!CNext, C!Return, C!Open
  <2>3. CASE Head(lines) # last
    BY <1>7, <2>1, <2>3 DEF ReadLine, Accepts, C!cvars
  <2> QED
    BY <2>2, <2>3
<1>8. CASE ReadLoop \/ EndOfStream \/ Close
  BY <1>8 DEF ReadLoop, EndOfStream, Close, server, C!cvars
<1>9. ASSUME NEW k \in DOMAIN toServer, PipeRead(k) PROVE UNCHANGED C!cvars
  BY <1>9 DEF PipeRead, client, C!cvars
<1>10. ASSUME NEW p \in DOMAIN buf, NEW within \in BOOLEAN, NEW sent \in BOOLEAN, RpcHandle(p, within, sent)
       PROVE  C!CNext \/ UNCHANGED C!cvars
  <2> DEFINE i == buf[p].id
  <2>1. UNCHANGED <<last, phase, reply>> /\ (ran' = ran \/ ran' = ran \cup {i})
    BY <1>10 DEF RpcHandle, client
  <2>2. p \in 1 .. Len(Stream) /\ Stream[p] = buf[p] /\ Stream \in Seq(Bytes)
    BY <1>1, StreamType
  <2>3. Stream[p] \in Bytes
    BY <2>2
  <2>4. i \in Calls /\ i <= last /\ \A j \in ran : j < i
    BY <1>1, <2>2, <2>3 DEF StreamInv, Bytes
  <2>5. phase[i] # "none"
    BY <1>1, <2>4 DEF CallInv
  <2> HIDE DEF i
  <2>6. CASE ran' = ran \cup {i}
    <3>1. C!Serve(i) /\ i \in C!Calls
      BY <2>1, <2>4, <2>5, <2>6 DEF C!Serve, C!Calls, Calls
    <3> QED
      BY <3>1 DEF C!CNext
  <2>7. CASE ran' = ran
    BY <2>1, <2>7 DEF C!cvars
  <2> QED
    BY <2>1, <2>6, <2>7
<1>11. CASE Gone \/ Crash
  BY <1>11 DEF Gone, Crash, client, C!cvars
<1>12. CASE UNCHANGED vars
  BY <1>12 DEF vars, client, server, C!cvars
<1> QED
  BY <1>3, <1>4, <1>5, <1>6, <1>7, <1>8, <1>9, <1>10, <1>11, <1>12 DEF Next, ClientStep, ServerStep

(* Whatever calls were abandoned, requests are served at most once and in  *)
(* order, and a call that returns gives the answer to its own request.     *)
THEOREM Refinement == Spec => ImplementsCall
<1>1. Init => C!CInit
  BY DEF Init, C!CInit, C!Calls, Calls
<1> QED
  BY <1>1, Invariance, NextRefines, PTL DEF Spec, ImplementsCall, C!CSpec
=============================================================================
