------------------------- MODULE ConnectionProofs -------------------------
(***************************************************************************)
(* Proofs about Connection, for any number of requests of any kinds, any   *)
(* send buffer and any limit of the read buffer.                           *)
(*                                                                         *)
(* What the properties say of epoll_wait holds, suitably stated, at every  *)
(* point of a round: what will be announced to the connection is on the    *)
(* ready list, among the events not handled yet, or among the functors     *)
(* queued or still to be run (Due).  A method of Connection is a function  *)
(* here, and has a lemma each that says what it leaves armed.              *)
(*                                                                         *)
(* The second part is about the order of the requests, and has a lemma for *)
(* each method again.                                                      *)
(*                                                                         *)
(* The third follows the answers to the client: what it has read, what is  *)
(* in the socket and what is in writeBuffer_ are one stream (Streamed).    *)
(***************************************************************************)
EXTENDS Connection, SequenceLemmas

-----------------------------------------------------------------------------
(* The invariant.                                                          *)

Ends == {"close", "error", "expire", "erase"}

\* The functors of this connection that are queued or still to be run.
Due == Range(conn.pending) \cup Range(batch)

\* The end of the connection is on its way.
Ending == ~mapped \/ Due \cap Ends # {}

WriteSound ==
  conn.state = "Writing" =>
    \/ "send" \in Due
    \/ Ending
    \/ "out" \in conn.interest /\ ("out" \in Polled(conn) => conn.edge \/ "out" \in revents)

ReadSound ==
  conn.inbound # <<>> \/ peer # "open" =>
    conn.edge \/ Ending \/ revents \cap {"in", "hup"} # {}

ProcessSound ==
  conn.state = "Connected" /\ Len(conn.context) + Len(conn.readBuffer) >= Parts =>
    "process" \in Due \/ Ending

\* The events are handled before the functors, and the functors before Tick.
PhaseSound ==
  phase # "killed" =>
    /\ phase # "functors" => batch = <<>>
    /\ phase # "events" => revents = {}

\* A file that is being sent is open and answers a request; a request has no more
\* than its fragments, and the socket holds no more than its send buffer does.
Kept(c) ==
  /\ c.file # NoFile => c.openFiles > 0 /\ c.file.req \in Requests
  /\ Len(c.context) <= Parts
  /\ Len(c.outbound) <= SockCap

Inv ==
  /\ TypeOK
  /\ Kept(conn)
  /\ PhaseSound
  /\ alive /\ phase # "killed" => WriteSound /\ ReadSound /\ ProcessSound

-----------------------------------------------------------------------------
(* Sequences.                                                              *)

\* What is pushed at the back is added to the range.
LEMMA RangeAppend ==
  ASSUME NEW S, NEW s \in Seq(S), NEW e \in S
  PROVE  Append(s, e) \in Seq(S) /\ Range(Append(s, e)) = Range(s) \cup {e}
<1>1. /\ Append(s, e) \in Seq(S) /\ Len(Append(s, e)) = Len(s) + 1
      /\ \A i \in 1 .. Len(s) : Append(s, e)[i] = s[i]
      /\ Append(s, e)[Len(s) + 1] = e
  BY AppendProperties
<1>2. /\ Len(s) \in Nat /\ DOMAIN s = 1 .. Len(s)
      /\ DOMAIN Append(s, e) = 1 .. Len(s) + 1
  BY <1>1, LenProperties
<1>3. 1 .. Len(s) + 1 = (1 .. Len(s)) \cup {Len(s) + 1}
  BY <1>2
<1> QED BY <1>1, <1>2, <1>3 DEF Range

\* What is taken from the front is in the range, and the rest stays.
LEMMA RangeTail ==
  ASSUME NEW S, NEW s \in Seq(S), s # <<>>
  PROVE  /\ Head(s) \in S /\ Tail(s) \in Seq(S)
         /\ Range(s) = {Head(s)} \cup Range(Tail(s))
<1>1. /\ Head(s) \in S /\ Tail(s) \in Seq(S)
      /\ Len(Tail(s)) = Len(s) - 1
      /\ \A i \in 1 .. Len(Tail(s)) : Tail(s)[i] = s[i + 1]
  BY HeadTailProperties
<1>2. /\ Len(s) \in Nat /\ Len(s) # 0 /\ DOMAIN s = 1 .. Len(s)
      /\ DOMAIN Tail(s) = 1 .. Len(s) - 1 /\ Head(s) = s[1]
  BY <1>1, LenProperties, EmptySeq
<1>3. \A i \in 1 .. Len(s) : i = 1 \/ (i - 1 \in 1 .. Len(s) - 1 /\ s[i] = Tail(s)[i - 1])
  BY <1>1, <1>2
<1>4. \A i \in 1 .. Len(s) - 1 : i + 1 \in 1 .. Len(s) /\ Tail(s)[i] = s[i + 1]
  BY <1>1, <1>2
<1>5. 1 \in 1 .. Len(s)
  BY <1>2
<1>6. \A x : x \in Range(s) => x = Head(s) \/ x \in Range(Tail(s))
  BY ZenonT(40), <1>2, <1>3 DEF Range
<1>7. \A x : x \in Range(Tail(s)) => x \in Range(s)
  BY <1>2, <1>4 DEF Range
<1>8. Head(s) \in Range(s)
  BY <1>2, <1>5 DEF Range
<1> HIDE DEF Range
<1> QED BY <1>1, <1>6, <1>7, <1>8

\* The range of the empty sequence.
LEMMA RangeEmpty == Range(<<>>) = {}
  BY DEF Range

\* A sequence is cut after its first n elements.
LEMMA Cut ==
  ASSUME NEW S, NEW s \in Seq(S), NEW n \in 0 .. Len(s)
  PROVE  /\ SubSeq(s, 1, n) \in Seq(S) /\ Len(SubSeq(s, 1, n)) = n
         /\ SubSeq(s, n + 1, Len(s)) \in Seq(S) /\ Len(SubSeq(s, n + 1, Len(s))) = Len(s) - n
<1>1. Len(s) \in Nat /\ \A i \in 1 .. Len(s) : s[i] \in S
  BY LenProperties, ElementOfSeq
<1>2. \A i \in 1 .. n : s[i] \in S
  BY <1>1
<1>3. \A i \in n + 1 .. Len(s) : s[i] \in S
  BY <1>1
<1>4. SubSeq(s, 1, n) \in Seq(S) /\ Len(SubSeq(s, 1, n)) = IF 1 <= n THEN n - 1 + 1 ELSE 0
  BY <1>2, SubSeqProperties
<1>5. /\ SubSeq(s, n + 1, Len(s)) \in Seq(S)
      /\ Len(SubSeq(s, n + 1, Len(s))) = IF n + 1 <= Len(s) THEN Len(s) - (n + 1) + 1 ELSE 0
  BY <1>1, <1>3, SubSeqProperties
<1> QED BY <1>1, <1>4, <1>5

-----------------------------------------------------------------------------
(* What the methods leave of a connection.                                 *)

Fragments == Requests \X (1 .. Parts)
UnitsOf == Requests \X (1 .. 1 + BodyLen)

Input(c) == <<c.state, c.context, c.readBuffer>>

\* A step of a method that changes neither state_ nor the input.
Sends(c, d) ==
  /\ d \in ConnType
  /\ Kept(d)
  /\ Range(c.pending) \subseteq Range(d.pending)
  /\ c.edge => d.edge
  /\ d.inbound = c.inbound
  /\ Input(d) = Input(c)

\* EPOLLOUT is awaited, and is on the list if it can be had already.
OutAwaited(c) == "out" \in c.interest /\ ("out" \in Polled(c) => c.edge)

\* A response that is not out will be sent on, or the end has been queued.
Armed(c) ==
  c.state = "Writing" =>
    "send" \in Range(c.pending) \/ Range(c.pending) \cap Ends # {} \/ OutAwaited(c)

\* A whole request will be processed, or the end has been queued.
Free(c) ==
  c.state = "Connected" /\ Len(c.context) + Len(c.readBuffer) >= Parts =>
    "process" \in Range(c.pending) \/ Range(c.pending) \cap Ends # {}

\* What a method that writes leaves.
Writes(c, d) ==
  /\ d \in ConnType
  /\ Kept(d)
  /\ Range(c.pending) \subseteq Range(d.pending)
  /\ c.edge => d.edge
  /\ d.inbound = c.inbound
  /\ Armed(d)
  /\ Free(d) \/ Input(d) = Input(c)

LEMMA SendsThenSends ==
  ASSUME NEW c, NEW d, NEW e, Sends(c, d), Sends(d, e)
  PROVE  Sends(c, e)
  BY DEF Sends

LEMMA SendsThenWrites ==
  ASSUME NEW c, NEW d, NEW e, Sends(c, d), Writes(d, e)
  PROVE  Writes(c, e)
  BY DEF Sends, Writes

LEMMA QueueInLoopDoes ==
  ASSUME NEW c \in ConnType, Kept(c), NEW functor \in Functors
  PROVE  LET d == QueueInLoop(c, functor)
         IN  Sends(c, d) /\ Range(d.pending) = Range(c.pending) \cup {functor}
<1> DEFINE pending == Append(c.pending, functor)
           d       == [c EXCEPT !.pending = pending]
<1>1. c.pending \in Seq(Functors)
  BY DEF ConnType
<1>2. pending \in Seq(Functors) /\ Range(pending) = Range(c.pending) \cup {functor}
  BY <1>1, RangeAppend
<1> HIDE DEF pending
<1>3. d \in ConnType /\ d.pending = pending /\ d.edge = c.edge /\ d.inbound = c.inbound
      /\ d.state = c.state /\ d.context = c.context /\ d.readBuffer = c.readBuffer
      /\ d.file = c.file /\ d.openFiles = c.openFiles /\ d.outbound = c.outbound
  BY <1>2 DEF ConnType
<1>4. QueueInLoop(c, functor) = d
  BY DEF QueueInLoop, pending
<1> HIDE DEF d
<1> QED BY <1>2, <1>3, <1>4 DEF Sends, Input, Kept

LEMMA UpdateChannelDoes ==
  ASSUME NEW c \in ConnType, Kept(c)
  PROVE  LET d == UpdateChannel(c)
         IN  /\ Sends(c, d)
             /\ d.interest = c.interest
             /\ "out" \in Polled(d) => d.edge
             /\ d.pending = c.pending
<1> DEFINE d == [c EXCEPT !.edge = c.edge \/ Polled(c) # {}]
<1>1. /\ d \in ConnType /\ d.pending = c.pending /\ d.inbound = c.inbound
      /\ d.state = c.state /\ d.context = c.context /\ d.readBuffer = c.readBuffer
      /\ d.file = c.file /\ d.openFiles = c.openFiles
      /\ d.interest = c.interest /\ d.outbound = c.outbound
      /\ d.edge = (c.edge \/ Polled(c) # {})
  BY DEF ConnType
<1>2. UpdateChannel(c) = d
  BY DEF UpdateChannel
<1> HIDE DEF d
<1>3. Polled(d) = Polled(c)
  BY <1>1 DEF Polled
<1>4. "out" \in Polled(d) => d.edge
  BY <1>1, <1>3
<1> QED BY <1>1, <1>2, <1>4 DEF Sends, Input, Kept

\* What changes no field but those of writing.
LEMMA SendsFields ==
  ASSUME NEW c \in ConnType, Kept(c), NEW d \in ConnType,
         d.pending = c.pending, d.edge = c.edge, d.inbound = c.inbound, Input(d) = Input(c),
         d.file # NoFile => d.openFiles > 0 /\ d.file.req \in Requests,
         Len(d.outbound) <= SockCap
  PROVE  Sends(c, d)
  BY DEF Sends, Kept, Input

LEMMA InterestDoes ==
  ASSUME NEW c \in ConnType, Kept(c), NEW interest \in {{"in"}, {"in", "out"}}
  PROVE  LET d == UpdateChannel([c EXCEPT !.interest = interest])
         IN  /\ Sends(c, d)
             /\ d.interest = interest
             /\ "out" \in Polled(d) => d.edge
             /\ d.pending = c.pending
<1> DEFINE b == [c EXCEPT !.interest = interest]
<1>1. /\ b \in ConnType /\ b.pending = c.pending /\ b.inbound = c.inbound /\ b.edge = c.edge
      /\ b.state = c.state /\ b.context = c.context /\ b.readBuffer = c.readBuffer
      /\ b.file = c.file /\ b.openFiles = c.openFiles /\ b.interest = interest
      /\ b.outbound = c.outbound
  BY DEF ConnType
<1> HIDE DEF b
<1>2. Sends(c, b)
  BY <1>1, SendsFields DEF Input, Kept
<1> DEFINE d == UpdateChannel(b)
<1>3. /\ Sends(b, d) /\ d.interest = b.interest /\ d.pending = b.pending
      /\ "out" \in Polled(d) => d.edge
  BY <1>1, <1>2, UpdateChannelDoes DEF Sends
<1> HIDE DEF d
<1>4. Sends(c, d) /\ d.interest = interest /\ d.pending = c.pending
  BY <1>1, <1>2, <1>3, SendsThenSends
<1> QED BY <1>3, <1>4 DEF b, d

LEMMA EnableWriteEventDoes ==
  ASSUME NEW c \in ConnType, Kept(c)
  PROVE  LET d == EnableWriteEvent(c)
         IN  Sends(c, d) /\ OutAwaited(d)
<1>1. c.interest \cup {"out"} \in {{"in"}, {"in", "out"}} /\ "out" \in c.interest \cup {"out"}
  BY DEF ConnType
<1> DEFINE interest == c.interest \cup {"out"}
           d        == UpdateChannel([c EXCEPT !.interest = interest])
<1>2. EnableWriteEvent(c) = d
  BY DEF EnableWriteEvent
<1>3. interest \in {{"in"}, {"in", "out"}} /\ "out" \in interest
  BY <1>1
<1> HIDE DEF interest
<1>4. /\ Sends(c, d)
      /\ d.interest = interest
      /\ "out" \in Polled(d) => d.edge
  BY <1>3, InterestDoes
<1> HIDE DEF d
<1> QED BY <1>2, <1>3, <1>4 DEF OutAwaited

LEMMA DisableWriteEventDoes ==
  ASSUME NEW c \in ConnType, Kept(c)
  PROVE  Sends(c, DisableWriteEvent(c))
<1>1. c.interest \ {"out"} \in {{"in"}, {"in", "out"}}
  BY DEF ConnType
<1>2. DisableWriteEvent(c) = UpdateChannel([c EXCEPT !.interest = c.interest \ {"out"}])
  BY DEF DisableWriteEvent
<1> QED BY <1>1, <1>2, InterestDoes

LEMMA CloseFileDoes ==
  ASSUME NEW c \in ConnType, Kept(c)
  PROVE  Sends(c, CloseFile(c)) /\ CloseFile(c).file = NoFile
<1> DEFINE n == IF c.file = NoFile THEN c.openFiles ELSE c.openFiles - 1
           d == [c EXCEPT !.file = NoFile, !.openFiles = n]
<1>1. n \in Nat
  BY DEF ConnType, Kept
<1>2. NoFile \in [req : 0 .. MaxRequests, left : 0 .. BodyLen]
  BY BoundAssumption DEF NoFile, BodyLen
<1> HIDE DEF n
<1>3. /\ d \in ConnType /\ d.pending = c.pending /\ d.inbound = c.inbound /\ d.edge = c.edge
      /\ d.state = c.state /\ d.context = c.context /\ d.readBuffer = c.readBuffer
      /\ d.file = NoFile /\ d.outbound = c.outbound
  BY <1>1, <1>2 DEF ConnType
<1>4. CloseFile(c) = d
  BY DEF CloseFile, n
<1> HIDE DEF d
<1> QED BY <1>3, <1>4, SendsFields DEF Input, Kept

\* The end of a response: the connection is closed for input, or free for the next
\* request, and told so if there is one.
LEMMA OnResponseFinishedDoes ==
  ASSUME NEW c \in ConnType, Kept(c)
  PROVE  Writes(c, OnResponseFinished(c))
<1>1. CASE ~IsKeepAlive(c)
  <2> DEFINE d == [c EXCEPT !.state = "Closed"]
  <2>1. /\ d \in ConnType /\ d.pending = c.pending /\ d.inbound = c.inbound /\ d.edge = c.edge
        /\ d.state = "Closed" /\ d.context = c.context /\ d.readBuffer = c.readBuffer
        /\ d.file = c.file /\ d.openFiles = c.openFiles /\ d.outbound = c.outbound
    BY DEF ConnType
  <2>2. OnResponseFinished(c) = d
    BY <1>1 DEF OnResponseFinished
  <2> HIDE DEF d
  <2> QED BY <2>1, <2>2 DEF Writes, Armed, Free, Kept
<1>2. CASE IsKeepAlive(c)
  <2> DEFINE b == CloseFile(c)
             f == [b EXCEPT !.context = <<>>, !.writeBuffer = <<>>, !.state = "Connected"]
             e == EnableReadEvent(f)
  <2>1. Sends(c, b) /\ b \in ConnType /\ Kept(b)
    BY CloseFileDoes DEF Sends
  <2> HIDE DEF b
  <2>2. /\ f \in ConnType /\ f.pending = b.pending /\ f.inbound = b.inbound /\ f.edge = b.edge
        /\ f.state = "Connected" /\ f.context = <<>> /\ f.readBuffer = b.readBuffer
        /\ f.file = b.file /\ f.openFiles = b.openFiles /\ f.interest = b.interest
        /\ f.outbound = b.outbound
    <3>1. <<>> \in Seq(Fragments) /\ <<>> \in Seq(UnitsOf)
      BY EmptySeq
    <3>2. b \in [ state : {"Connected", "Processing", "Writing", "Closed"},
                  readBuffer : Seq(Fragments), context : Seq(Fragments),
                  writeBuffer : Seq(UnitsOf),
                  file : [req : 0 .. MaxRequests, left : 0 .. BodyLen], openFiles : Nat,
                  handled : Seq(Requests), inbound : Seq(Fragments), outbound : Seq(UnitsOf),
                  interest : {{"in"}, {"in", "out"}}, edge : BOOLEAN,
                  pending : Seq(Functors) ]
      BY <2>1 DEF ConnType, Fragments, UnitsOf
    <3> HIDE DEF b
    <3> QED BY ZenonT(40), <3>1, <3>2 DEF ConnType, Fragments, UnitsOf
  <2>3. Kept(f)
    BY <2>1, <2>2 DEF Kept, Parts
  <2> HIDE DEF f
  <2>4. Sends(f, e)
    <3>1. f.interest \cup {"in"} \in {{"in"}, {"in", "out"}}
      BY <2>2 DEF ConnType
    <3>2. e = UpdateChannel([f EXCEPT !.interest = f.interest \cup {"in"}])
      BY DEF EnableReadEvent
    <3> HIDE DEF e
    <3> QED BY <2>2, <2>3, <3>1, <3>2, InterestDoes
  <2>5. /\ e \in ConnType /\ Kept(e) /\ e.state = "Connected" /\ e.context = <<>>
        /\ Range(c.pending) \subseteq Range(e.pending)
        /\ c.edge => e.edge
        /\ e.inbound = c.inbound
    BY <2>1, <2>2, <2>4 DEF Sends, Input
  <2>6. OnResponseFinished(c) = IF e.readBuffer # <<>> THEN QueueInLoop(e, "process") ELSE e
    BY <1>2 DEF OnResponseFinished, ResetForNextRequest, HasPendingRequest, e, f, b
  <2> HIDE DEF e
  <2>7. CASE e.readBuffer # <<>>
    <3> DEFINE d == QueueInLoop(e, "process")
    <3>1. Sends(e, d) /\ Range(d.pending) = Range(e.pending) \cup {"process"}
      BY <2>5, QueueInLoopDoes DEF Functors, Holders
    <3> HIDE DEF d
    <3>2. d.state = "Connected" /\ "process" \in Range(d.pending)
      BY <2>5, <3>1 DEF Sends, Input
    <3>3. Writes(c, d)
      BY <2>5, <3>1, <3>2 DEF Writes, Sends, Armed, Free
    <3> QED BY <2>6, <2>7, <3>3 DEF d
  <2>8. CASE e.readBuffer = <<>>
    <3>1. Len(e.context) + Len(e.readBuffer) = 0
      BY <2>5, <2>8
    <3>2. Free(e) /\ Armed(e)
      BY <2>5, <3>1 DEF Free, Armed, Parts
    <3> QED BY <2>5, <2>6, <2>8, <3>2 DEF Writes
  <2> QED BY <2>7, <2>8
<1> QED BY <1>1, <1>2


\* Whatever a write has come to, what is left of the response is provided for.
LEMMA HandleWriteResultDoes ==
  ASSUME NEW c \in ConnType, Kept(c), NEW result \in {"complete", "again", "error"}
  PROVE  Writes(c, HandleWriteResult(c, result))
<1>1. CASE result = "complete"
  BY <1>1, OnResponseFinishedDoes DEF HandleWriteResult
<1>2. CASE result = "again"
  <2> DEFINE d == EnableWriteEvent(c)
  <2>1. Sends(c, d) /\ OutAwaited(d)
    BY EnableWriteEventDoes
  <2>2. HandleWriteResult(c, result) = d
    BY <1>2 DEF HandleWriteResult
  <2> HIDE DEF d
  <2> QED BY <2>1, <2>2 DEF Sends, Writes, Armed
<1>3. CASE result = "error"
  <2> DEFINE d == QueueInLoop(c, "close")
  <2>1. Sends(c, d) /\ "close" \in Range(d.pending)
    BY QueueInLoopDoes DEF Functors, Holders
  <2>2. HandleWriteResult(c, result) = d
    BY <1>3 DEF HandleWriteResult, HandleClose
  <2> HIDE DEF d
  <2> QED BY <2>1, <2>2 DEF Sends, Writes, Armed, Ends
<1> QED BY <1>1, <1>2, <1>3

\* The send loop takes from writeBuffer_ no more than the socket has room for.
LEMMA WriteDoes ==
  ASSUME NEW c \in ConnType, Kept(c)
  PROVE  /\ Sends(c, Write(c).c)
         /\ Write(c).result \in {"complete", "again", "error"}
<1> DEFINE room == SockCap - Len(c.outbound)
           size == Len(c.writeBuffer)
           n    == IF size <= room THEN size ELSE room
           out  == c.outbound \o SubSeq(c.writeBuffer, 1, n)
           rest == SubSeq(c.writeBuffer, n + 1, size)
           d    == [c EXCEPT !.outbound = out, !.writeBuffer = rest]
<1>1. c.outbound \in Seq(UnitsOf) /\ c.writeBuffer \in Seq(UnitsOf) /\ SockCap \in Nat
  BY BoundAssumption DEF ConnType, UnitsOf
<1>2. Len(c.outbound) \in Nat /\ size \in Nat
  BY <1>1, LenProperties
<1>3. n \in 0 .. size /\ n <= room /\ n \in Nat
  <2>1. room \in Nat
    BY <1>1, <1>2 DEF Kept
  <2> HIDE DEF room, size
  <2> QED BY <1>2, <2>1
<1> HIDE DEF n
<1>4. /\ SubSeq(c.writeBuffer, 1, n) \in Seq(UnitsOf) /\ Len(SubSeq(c.writeBuffer, 1, n)) = n
      /\ rest \in Seq(UnitsOf)
  BY <1>1, <1>3, Cut
<1>5. out \in Seq(UnitsOf) /\ Len(out) = Len(c.outbound) + n
  BY <1>1, <1>4, ConcatProperties
<1> HIDE DEF out, rest
<1>6. Len(out) <= SockCap
  BY <1>1, <1>2, <1>3, <1>5
<1>7. /\ d \in ConnType /\ d.pending = c.pending /\ d.inbound = c.inbound /\ d.edge = c.edge
      /\ d.state = c.state /\ d.context = c.context /\ d.readBuffer = c.readBuffer
      /\ d.file = c.file /\ d.openFiles = c.openFiles /\ d.outbound = out
  BY <1>4, <1>5 DEF ConnType, UnitsOf
<1>8. Write(c) = IF peer = "gone" /\ c.writeBuffer # <<>> THEN [c |-> c, result |-> "error"]
                 ELSE [c |-> d, result |-> IF n = size THEN "complete" ELSE "again"]
  BY DEF Write, out, rest, n
<1> HIDE DEF d
<1>9. Sends(c, d)
  BY <1>6, <1>7, SendsFields DEF Kept, Input
<1>10. Sends(c, c)
  BY SendsFields DEF Kept
<1> QED BY <1>8, <1>9, <1>10

\* The sendfile loop sends of the file no more than the socket has room for, and
\* closes the file when it is through or the client is gone.
LEMMA SendFileDoes ==
  ASSUME NEW c \in ConnType, Kept(c), c.file # NoFile
  PROVE  /\ Sends(c, SendFile(c).c)
         /\ SendFile(c).result \in {"complete", "again", "error"}
<1> DEFINE room == SockCap - Len(c.outbound)
           left == c.file.left
           n    == IF left <= room THEN left ELSE room
           body == [i \in 1 .. n |-> <<c.file.req, 1 + i>>]
           out  == c.outbound \o body
           file == [c.file EXCEPT !.left = left - n]
           d    == [c EXCEPT !.outbound = out, !.file = file]
<1>1. c.outbound \in Seq(UnitsOf) /\ SockCap \in Nat
  BY BoundAssumption DEF ConnType, UnitsOf
<1>2. Len(c.outbound) \in Nat
  BY <1>1, LenProperties
<1>3. c.file \in [req : 0 .. MaxRequests, left : 0 .. BodyLen] /\ BodyLen = 2
  BY DEF ConnType, BodyLen
<1>4. n \in 0 .. left /\ n <= room /\ left - n \in 0 .. BodyLen /\ n <= BodyLen /\ n \in Nat
  BY <1>1, <1>2, <1>3 DEF Kept
<1> HIDE DEF n
<1>5. body \in Seq(UnitsOf) /\ Len(body) = n
  <2>1. \A i \in 1 .. n : <<c.file.req, 1 + i>> \in UnitsOf
    BY <1>3, <1>4 DEF Kept, UnitsOf
  <2>2. body \in [1 .. n -> UnitsOf]
    BY <2>1
  <2> HIDE DEF body
  <2> QED BY <1>4, <2>2
<1> HIDE DEF body
<1>6. out \in Seq(UnitsOf) /\ Len(out) = Len(c.outbound) + n
  BY <1>1, <1>5, ConcatProperties
<1>7. Len(out) <= SockCap
  BY <1>1, <1>2, <1>4, <1>6
<1>8. file \in [req : 0 .. MaxRequests, left : 0 .. BodyLen] /\ file.req = c.file.req
  BY <1>3, <1>4
<1> HIDE DEF out, file
<1>9. /\ d \in ConnType /\ d.pending = c.pending /\ d.inbound = c.inbound /\ d.edge = c.edge
      /\ d.state = c.state /\ d.context = c.context /\ d.readBuffer = c.readBuffer
      /\ d.file = file /\ d.openFiles = c.openFiles /\ d.outbound = out
  BY <1>6, <1>8 DEF ConnType, UnitsOf
<1>10. SendFile(c) = IF peer = "gone" /\ left > 0 THEN [c |-> CloseFile(c), result |-> "error"]
                     ELSE IF n < left THEN [c |-> d, result |-> "again"]
                     ELSE [c |-> CloseFile(d), result |-> "complete"]
  BY DEF SendFile, out, file, body, n
<1> HIDE DEF d
<1>11. Sends(c, d)
  BY <1>7, <1>8, <1>9, SendsFields DEF Kept, Input
<1>12. Sends(c, CloseFile(c))
  BY CloseFileDoes
<1>13. Sends(c, CloseFile(d))
  <2>1. Sends(d, CloseFile(d))
    BY <1>11, CloseFileDoes DEF Sends
  <2> HIDE DEF left
  <2> QED BY <1>11, <2>1, SendsThenSends
<1> QED BY <1>10, <1>11, <1>12, <1>13

LEMMA TrySendDoes ==
  ASSUME NEW c \in ConnType, Kept(c)
  PROVE  Writes(c, TrySend(c))
<1> DEFINE d == Write(c).c
           result == Write(c).result
<1>1. Sends(c, d) /\ result \in {"complete", "again", "error"}
  BY WriteDoes
<1>2. TrySend(c) = HandleWriteResult(d, result)
  BY DEF TrySend
<1> HIDE DEF d, result
<1>3. Writes(d, HandleWriteResult(d, result))
  BY <1>1, HandleWriteResultDoes DEF Sends
<1> QED BY <1>1, <1>2, <1>3, SendsThenWrites

\* Every way HandleWrite may go leaves the response provided for.
LEMMA WrittenDoes ==
  ASSUME NEW c \in ConnType, Kept(c)
  PROVE  Writes(c, Written(c))
<1> DEFINE d == Write(c).c
           result == Write(c).result
           g == SendFile(d).c
           outcome == SendFile(d).result
<1>1. Sends(c, d) /\ d \in ConnType /\ Kept(d) /\ result \in {"complete", "again", "error"}
  BY WriteDoes DEF Sends
<1>2. Written(c) =
        IF d.writeBuffer # <<>> THEN HandleWriteResult(EnableWriteEvent(d), result)
        ELSE IF d.file = NoFile THEN HandleWriteResult(DisableWriteEvent(d), "complete")
        ELSE IF outcome = "again" THEN EnableWriteEvent(g)
        ELSE IF outcome = "error" THEN HandleWriteResult(g, "error")
        ELSE HandleWriteResult(DisableWriteEvent(g), "complete")
  BY DEF Written
<1>3. d.file # NoFile =>
        Sends(d, g) /\ g \in ConnType /\ Kept(g) /\ outcome \in {"complete", "again", "error"}
  BY <1>1, SendFileDoes DEF Sends
<1> HIDE DEF d, result, g, outcome
<1>4. ASSUME NEW e, NEW f, NEW res \in {"complete", "again", "error"}, Sends(e, f)
      PROVE  Writes(e, HandleWriteResult(f, res))
  <2>1. Writes(f, HandleWriteResult(f, res))
    BY <1>4, HandleWriteResultDoes DEF Sends
  <2> QED BY <1>4, <2>1, SendsThenWrites
<1>5. CASE d.writeBuffer # <<>>
  <2>1. Sends(d, EnableWriteEvent(d))
    BY <1>1, EnableWriteEventDoes
  <2>2. Writes(d, HandleWriteResult(EnableWriteEvent(d), result))
    BY <1>1, <1>4, <2>1
  <2> QED BY <1>1, <1>2, <1>5, <2>2, SendsThenWrites
<1>6. CASE d.writeBuffer = <<>> /\ d.file = NoFile
  <2>1. Sends(d, DisableWriteEvent(d))
    BY <1>1, DisableWriteEventDoes
  <2>2. Writes(d, HandleWriteResult(DisableWriteEvent(d), "complete"))
    BY <1>4, <2>1
  <2> QED BY <1>1, <1>2, <1>6, <2>2, SendsThenWrites
<1>7. CASE d.writeBuffer = <<>> /\ d.file # NoFile
  <2>1. Sends(c, g) /\ g \in ConnType /\ Kept(g)
    BY <1>1, <1>3, <1>7, SendsThenSends
  <2>2. CASE outcome = "again"
    <3>1. Sends(g, EnableWriteEvent(g)) /\ OutAwaited(EnableWriteEvent(g))
      BY <2>1, EnableWriteEventDoes
    <3>2. Writes(g, EnableWriteEvent(g))
      BY <3>1 DEF Sends, Writes, Armed
    <3> QED BY <1>2, <1>7, <2>1, <2>2, <3>2, SendsThenWrites
  <2>3. CASE outcome = "error"
    <3>1. Writes(c, HandleWriteResult(g, "error"))
      BY <1>4, <2>1
    <3> QED BY <1>2, <1>7, <2>3, <3>1
  <2>4. CASE outcome = "complete"
    <3>1. Sends(g, DisableWriteEvent(g))
      BY <2>1, DisableWriteEventDoes
    <3>2. Writes(g, HandleWriteResult(DisableWriteEvent(g), "complete"))
      BY <1>4, <3>1
    <3> QED BY <1>2, <1>7, <2>1, <2>4, <3>2, SendsThenWrites
  <2> QED BY <1>3, <1>7, <2>2, <2>3, <2>4
<1> QED BY <1>5, <1>6, <1>7


\* What ParseRequest leaves: what it has parsed is a whole request, or there is not
\* one in the buffer.  Nothing but context_ and readBuffer_ changes.
Parses(c, p) ==
  /\ p.c \in ConnType
  /\ Kept(p.c)
  /\ p.c.pending = c.pending
  /\ p.c.edge = c.edge
  /\ p.c.inbound = c.inbound
  /\ p.result \in {"complete", "incomplete", "error"}
  /\ p.result = "complete" => p.c.context # <<>>
  /\ p.result = "incomplete" => Len(p.c.context) + Len(p.c.readBuffer) < Parts

LEMMA ParseRequestDoes ==
  ASSUME NEW c \in ConnType, Kept(c), NEW p \in ParseRequest(c)
  PROVE  Parses(c, p)
<1> DEFINE parsed == Len(c.context)
           size   == Len(c.readBuffer)
           whole  == Parts - parsed <= size
           n      == IF whole THEN Parts - parsed ELSE size
           front  == SubSeq(c.readBuffer, 1, n)
           rest   == SubSeq(c.readBuffer, n + 1, size)
           con    == c.context \o front
           d      == [c EXCEPT !.context = con, !.readBuffer = rest]
<1>1. c.context \in Seq(Fragments) /\ c.readBuffer \in Seq(Fragments)
  BY DEF ConnType, Fragments
<1>2. p.c \in {c, d} /\ p.result \in {"complete", "incomplete", "error"}
      /\ (p.result = "complete" => whole /\ p.c = d)
      /\ (p.result = "incomplete" => ~whole)
  <2> DEFINE bad == d.context # <<>> /\ kind[d.context[1][1]] = "bad"
  <2>1. ParseRequest(c) =
          IF whole THEN {[c |-> d, result |-> IF bad THEN "error" ELSE "complete"]}
          ELSE {[c |-> e, result |-> "incomplete"] : e \in {c, d}}
                 \cup {[c |-> d, result |-> "error"] : b \in {bad} \cap {TRUE}}
    BY DEF ParseRequest
  <2> HIDE DEF whole, d, bad
  <2>2. CASE whole
    BY <2>1, <2>2
  <2>3. CASE ~whole
    <3>1. \/ \E e \in {c, d} : p = [c |-> e, result |-> "incomplete"]
          \/ p = [c |-> d, result |-> "error"]
      BY <2>1, <2>3
    <3> QED BY <2>3, <3>1
  <2> QED BY <2>2, <2>3
<1>3. parsed \in Nat /\ size \in Nat /\ parsed <= 2
  <2>1. parsed \in Nat /\ size \in Nat
    BY <1>1, LenProperties
  <2>2. parsed <= 2
    BY DEF Kept, Parts
  <2> QED BY <2>1, <2>2
<1>4. SubSeq(c.readBuffer, 1, n) = front /\ size = Len(c.readBuffer) /\ parsed = Len(c.context)
  OBVIOUS
<1> HIDE DEF parsed, size, front
<1>5. /\ n \in 0 .. size
      /\ n <= 2 - parsed
      /\ whole => n = 2 - parsed
      /\ ~whole => parsed + size < 2
  BY <1>3 DEF Parts
<1> HIDE DEF n, whole
<1>6. front \in Seq(Fragments) /\ Len(front) = n /\ rest \in Seq(Fragments)
      /\ Len(rest) = size - n
  BY <1>1, <1>4, <1>5, Cut
<1> HIDE DEF rest
<1>7. con \in Seq(Fragments) /\ Len(con) = parsed + n
  <2>1. con \in Seq(Fragments) /\ Len(con) = Len(c.context) + Len(front)
    BY <1>1, <1>6, ConcatProperties
  <2> HIDE DEF con
  <2> QED BY <1>4, <1>6, <2>1
<1> HIDE DEF con
<1>8. /\ parsed + n <= 2
      /\ (parsed + n) + (size - n) = parsed + size
      /\ whole => parsed + n = 2
  BY <1>3, <1>5
<1>9. Len(con) <= Parts
  BY <1>7, <1>8 DEF Parts
<1>10. whole => con # <<>>
  <2>1. whole => Len(con) = 2
    BY <1>7, <1>8
  <2> QED BY <1>7, <2>1, EmptySeq
<1>11. /\ d \in ConnType /\ d.pending = c.pending /\ d.inbound = c.inbound /\ d.edge = c.edge
       /\ d.context = con /\ d.readBuffer = rest
       /\ d.file = c.file /\ d.openFiles = c.openFiles /\ d.outbound = c.outbound
  BY <1>6, <1>7 DEF ConnType, Fragments
<1> HIDE DEF d
<1>12. Kept(d)
  BY <1>9, <1>11 DEF Kept
<1>13. Len(p.c.context) + Len(p.c.readBuffer) = parsed + size
  <2>1. CASE p.c = d
    BY <1>6, <1>7, <1>8, <1>11, <2>1
  <2>2. CASE p.c = c
    BY <1>4, <2>2
  <2> QED BY <1>2, <2>1, <2>2
<1>14. p.c \in ConnType /\ Kept(p.c) /\ p.c.pending = c.pending /\ p.c.edge = c.edge
       /\ p.c.inbound = c.inbound
  BY <1>2, <1>11, <1>12
<1>15. p.result = "incomplete" => Len(p.c.context) + Len(p.c.readBuffer) < Parts
  BY <1>2, <1>5, <1>13 DEF Parts
<1> QED BY <1>2, <1>10, <1>11, <1>14, <1>15 DEF Parses

\* A request that is complete goes to the response; of a file the body is opened.
LEMMA RouteDoes ==
  ASSUME NEW c \in ConnType, Kept(c), c.context # <<>>
  PROVE  LET d == Route(c)
         IN  /\ d \in ConnType
             /\ Kept(d)
             /\ d.pending = c.pending
             /\ d.edge = c.edge
             /\ d.inbound = c.inbound
<1> DEFINE r       == c.context[1][1]
           handled == Append(c.handled, r)
           buffer  == c.writeBuffer \o Serialized(r)
           next    == [c EXCEPT !.handled = handled, !.writeBuffer = buffer]
           file    == [req |-> r, left |-> BodyLen]
           open    == [next EXCEPT !.file = file, !.openFiles = next.openFiles + 1]
<1>1. r \in Requests
  <2>1. c.context \in Seq(Fragments)
    BY DEF ConnType, Fragments
  <2>2. Head(c.context) \in Fragments /\ Head(c.context) = c.context[1]
    BY <2>1, HeadTailProperties
  <2> QED BY <2>2 DEF Fragments
<1> HIDE DEF r
<1>2. c.handled \in Seq(Requests) /\ c.writeBuffer \in Seq(UnitsOf) /\ c.openFiles \in Nat
  BY DEF ConnType, UnitsOf
<1>3. handled \in Seq(Requests)
  BY <1>1, <1>2, AppendProperties
<1>4. Serialized(r) \in Seq(UnitsOf)
  <2>1. <<r, 1>> \in UnitsOf
    BY <1>1 DEF UnitsOf, BodyLen
  <2>2. <<<<r, 1>>>> \in Seq(UnitsOf)
    BY <2>1
  <2>3. Units(kind[r]) \in 0 .. 1 + BodyLen
    BY DEF Units, BodyLen
  <2>4. \A i \in 1 .. Units(kind[r]) : <<r, i>> \in UnitsOf
    BY <1>1, <2>3 DEF UnitsOf, BodyLen
  <2>5. Response(r) \in [1 .. Units(kind[r]) -> UnitsOf] /\ Units(kind[r]) \in Nat
    BY <2>3, <2>4 DEF Response, BodyLen
  <2>6. Response(r) \in Seq(UnitsOf)
    <3> HIDE DEF Response, Units
    <3> QED BY <2>5
  <2> QED BY <2>2, <2>6 DEF Serialized
<1>5. buffer \in Seq(UnitsOf)
  BY <1>2, <1>4, ConcatProperties
<1> HIDE DEF handled, buffer
<1>6. /\ next \in ConnType /\ next.pending = c.pending /\ next.inbound = c.inbound
      /\ next.edge = c.edge /\ next.context = c.context /\ next.outbound = c.outbound
      /\ next.file = c.file /\ next.openFiles = c.openFiles
  BY <1>3, <1>5 DEF ConnType, UnitsOf
<1> HIDE DEF next
<1>7. file \in [req : 0 .. MaxRequests, left : 0 .. BodyLen] /\ file.req = r
  BY <1>1, BoundAssumption DEF Requests, BodyLen
<1> HIDE DEF file
<1>8. /\ open \in ConnType /\ open.pending = c.pending /\ open.inbound = c.inbound
      /\ open.edge = c.edge /\ open.context = c.context /\ open.outbound = c.outbound
      /\ open.file = file /\ open.openFiles = c.openFiles + 1
  <2> DEFINE count == next.openFiles + 1
  <2>1. count \in Nat /\ count = c.openFiles + 1
    BY <1>2, <1>6
  <2> HIDE DEF count
  <2>2. open = [next EXCEPT !.file = file, !.openFiles = count]
    BY DEF count
  <2> HIDE DEF open
  <2> QED BY ZenonT(40), <1>6, <1>7, <2>1, <2>2 DEF ConnType
<1>9. Route(c) = IF kind[r] = "file" THEN open ELSE next
  BY DEF Route, open, next, file, handled, buffer, r
<1> HIDE DEF open
<1>10. Kept(next) /\ Kept(open)
  BY <1>1, <1>2, <1>6, <1>7, <1>8 DEF Kept
<1> QED BY <1>6, <1>8, <1>9, <1>10

\* What ProcessInWorker leaves.
Processes(c, d) == Writes(c, d) /\ Free(d)

LEMMA ProcessInWorkerDoes ==
  ASSUME NEW c \in ConnType, Kept(c), NEW d \in ProcessInWorker(c)
  PROVE  Processes(c, d)
<1> DEFINE Then(p) ==
      CASE p.result = "incomplete" -> [p.c EXCEPT !.state = "Connected"]
        [] p.result = "error"      -> QueueInLoop([p.c EXCEPT !.state = "Closed"], "error")
        [] p.result = "complete"   -> QueueInLoop([Route(p.c) EXCEPT !.state = "Writing"], "send")
<1>1. PICK p \in ParseRequest(c) : d = Then(p)
  BY DEF ProcessInWorker
<1>2. Parses(c, p)
  BY ParseRequestDoes
<1>3. ASSUME NEW b \in ConnType, Kept(b),
             NEW state \in {"Connected", "Processing", "Writing", "Closed"}
      PROVE  LET e == [b EXCEPT !.state = state]
             IN  /\ e \in ConnType /\ Kept(e) /\ e.state = state
                 /\ e.pending = b.pending /\ e.edge = b.edge /\ e.inbound = b.inbound
                 /\ e.context = b.context /\ e.readBuffer = b.readBuffer
  BY ZenonT(40), <1>3 DEF ConnType, Kept
<1>4. CASE p.result = "incomplete"
  <2> DEFINE e == [p.c EXCEPT !.state = "Connected"]
  <2>1. /\ e \in ConnType /\ Kept(e) /\ e.state = "Connected"
        /\ e.pending = c.pending /\ e.edge = c.edge /\ e.inbound = c.inbound
        /\ e.context = p.c.context /\ e.readBuffer = p.c.readBuffer
    BY <1>2, <1>3 DEF Parses
  <2>2. d = e
    BY <1>1, <1>4
  <2> HIDE DEF e
  <2> DEFINE total == Len(e.context) + Len(e.readBuffer)
  <2>3. total \in Nat /\ total < Parts
    <3>1. e.context \in Seq(Fragments) /\ e.readBuffer \in Seq(Fragments)
      BY <2>1 DEF ConnType, Fragments
    <3> DEFINE m == Len(e.context)
               n == Len(e.readBuffer)
    <3>2. m \in Nat /\ n \in Nat
      BY <3>1, LenProperties
    <3>3. total < Parts
      BY <1>2, <1>4, <2>1 DEF Parses
    <3> HIDE DEF m, n
    <3>4. m + n \in Nat
      BY <3>2
    <3> QED BY <3>3, <3>4 DEF m, n
  <2>4. total = Len(e.context) + Len(e.readBuffer)
    OBVIOUS
  <2> HIDE DEF total
  <2>5. ~ (total >= Parts)
    BY <2>3 DEF Parts
  <2>6. Free(e)
    BY <2>4, <2>5 DEF Free
  <2> QED BY <2>1, <2>2, <2>6 DEF Processes, Writes, Armed
<1>5. CASE p.result = "error"
  <2> DEFINE b == [p.c EXCEPT !.state = "Closed"]
             e == QueueInLoop(b, "error")
  <2>1. /\ b \in ConnType /\ Kept(b) /\ b.state = "Closed"
        /\ b.pending = c.pending /\ b.edge = c.edge /\ b.inbound = c.inbound
    BY <1>2, <1>3 DEF Parses
  <2>2. d = e
    BY <1>1, <1>5
  <2> HIDE DEF b
  <2>3. Sends(b, e)
    BY <2>1, QueueInLoopDoes DEF Functors, Holders
  <2> HIDE DEF e
  <2> QED BY <2>1, <2>2, <2>3 DEF Sends, Input, Processes, Writes, Armed, Free
<1>6. CASE p.result = "complete"
  <2> DEFINE a == Route(p.c)
             b == [a EXCEPT !.state = "Writing"]
             e == QueueInLoop(b, "send")
  <2>1. /\ a \in ConnType /\ Kept(a)
        /\ a.pending = c.pending /\ a.edge = c.edge /\ a.inbound = c.inbound
    BY <1>2, <1>6, RouteDoes DEF Parses
  <2> HIDE DEF a
  <2>2. /\ b \in ConnType /\ Kept(b) /\ b.state = "Writing"
        /\ b.pending = c.pending /\ b.edge = c.edge /\ b.inbound = c.inbound
    BY <1>3, <2>1
  <2>3. d = e
    BY <1>1, <1>6 DEF a
  <2> HIDE DEF b
  <2>4. Sends(b, e) /\ "send" \in Range(e.pending)
    BY <2>2, QueueInLoopDoes DEF Functors, Holders
  <2> HIDE DEF e
  <2> QED BY <2>2, <2>3, <2>4 DEF Sends, Input, Processes, Writes, Armed, Free
<1> QED BY <1>2, <1>4, <1>5, <1>6 DEF Parses

\* The recv loop, if it ends at EAGAIN, has read all there is from a client that is
\* still there.
LEMMA ReadDoes ==
  ASSUME NEW c \in ConnType, Kept(c), peer \in {"open", "fin", "gone"}
  PROVE  LET r == Read(c)
         IN  /\ r.c \in ConnType /\ Kept(r.c) /\ r.c.state = c.state
             /\ r.c.pending = c.pending /\ r.c.edge = c.edge
             /\ r.c.interest = c.interest /\ r.c.outbound = c.outbound
             /\ r.result = "success" => r.c.inbound = <<>> /\ peer = "open"
<1> DEFINE room == MaxReadBuffer - Len(c.readBuffer)
           size == Len(c.inbound)
           full == size >= room
           n    == IF ~full THEN size ELSE IF room > 0 THEN room ELSE 0
           buf  == c.readBuffer \o SubSeq(c.inbound, 1, n)
           rest == SubSeq(c.inbound, n + 1, size)
           d    == [c EXCEPT !.readBuffer = buf, !.inbound = rest]
<1>1. c.inbound \in Seq(Fragments) /\ c.readBuffer \in Seq(Fragments) /\ MaxReadBuffer \in Nat
  BY BoundAssumption DEF ConnType, Fragments
<1>2. size \in Nat /\ Len(c.readBuffer) \in Nat
  BY <1>1, LenProperties
<1>3. n \in 0 .. size /\ (~full => n = size)
  <2>1. room \in Int
    BY <1>1, <1>2
  <2> HIDE DEF room, size
  <2> QED BY <1>2, <2>1
<1> HIDE DEF n, full
<1>4. SubSeq(c.inbound, 1, n) \in Seq(Fragments) /\ rest \in Seq(Fragments)
      /\ Len(rest) = size - n
  BY <1>1, <1>3, Cut
<1>5. ~full => rest = <<>>
  <2> HIDE DEF rest
  <2>1. ~full => Len(rest) = 0
    BY <1>2, <1>3, <1>4
  <2> QED BY <1>4, <2>1, EmptySeq
<1>6. buf \in Seq(Fragments)
  BY <1>1, <1>4, ConcatProperties
<1> HIDE DEF buf, rest
<1>7. /\ d \in ConnType /\ d.pending = c.pending /\ d.inbound = rest /\ d.edge = c.edge
      /\ d.state = c.state /\ d.interest = c.interest /\ d.context = c.context
      /\ d.file = c.file /\ d.openFiles = c.openFiles /\ d.outbound = c.outbound
  BY <1>4, <1>6 DEF ConnType, Fragments
<1>8. Read(c) = [c |-> d, result |-> IF full THEN "error"
                                     ELSE IF peer = "fin" THEN "closed"
                                     ELSE IF peer = "gone" THEN "error"
                                     ELSE "success"]
  BY DEF Read, buf, rest, n, full
<1> HIDE DEF d
<1>9. Kept(d)
  BY <1>7 DEF Kept
<1> QED BY <1>5, <1>7, <1>8, <1>9


-----------------------------------------------------------------------------
(* What a step leaves sound.                                               *)

Sound == WriteSound /\ ReadSound /\ ProcessSound

\* When the end is on its way there is nothing left to provide for.
LEMMA EndingSound ==
  ASSUME Ending'
  PROVE  Sound'
  BY DEF Sound, WriteSound, ReadSound, ProcessSound

\* What a functor or a handler that writes or parses leaves, if it loses nothing of
\* what was due but what it has done.
LEMMA MethodSound ==
  ASSUME Sound, NEW d, conn' = d, Writes(conn, d), peer' = peer,
         Ending => Ending',
         "process" \in Due => "process" \in Due' \/ Free(d),
         Range(d.pending) \subseteq Due',
         revents \cap {"in", "hup"} \subseteq revents'
  PROVE  Sound'
<1>1. WriteSound'
  <2>1. SUFFICES ASSUME d.state = "Writing", ~Ending'
                 PROVE  \/ "send" \in Due'
                        \/ /\ "out" \in d.interest
                           /\ "out" \in Polled(conn)' => d.edge \/ "out" \in revents'
    BY DEF WriteSound
  <2>2. Polled(conn)' = Polled(d)
    BY DEF Polled
  <2>3. Range(d.pending) \cap Ends = {}
    BY <2>1 DEF Ending
  <2>4. "send" \in Range(d.pending) \/ OutAwaited(d)
    BY <2>1, <2>3 DEF Writes, Armed
  <2> QED BY <2>2, <2>4 DEF OutAwaited
<1>2. ReadSound'
  BY DEF Sound, ReadSound, Writes
<1>3. ProcessSound'
  <2>1. SUFFICES ASSUME d.state = "Connected", Len(d.context) + Len(d.readBuffer) >= Parts,
                        ~Ending'
                 PROVE  "process" \in Due'
    BY DEF ProcessSound
  <2>2. Range(d.pending) \cap Ends = {}
    BY <2>1 DEF Ending
  <2>3. CASE Free(d)
    BY <2>1, <2>2, <2>3 DEF Free
  <2>4. CASE Input(d) = Input(conn)
    <3>1. conn.state = d.state /\ conn.context = d.context /\ conn.readBuffer = d.readBuffer
      BY <2>4 DEF Input
    <3>2. "process" \in Due
      BY <2>1, <3>1 DEF Sound, ProcessSound
    <3> QED BY <2>3, <3>2
  <2> QED BY <2>3, <2>4 DEF Writes
<1> QED BY <1>1, <1>2, <1>3 DEF Sound

\* The functor that runs is the one that is no longer due.
LEMMA RunningDoes ==
  ASSUME TypeOK, NEW functor, Running(functor)
  PROVE  /\ batch' \in Seq(Functors)
         /\ Range(batch) = {functor} \cup Range(batch')
         /\ phase = "functors"
         /\ UNCHANGED <<phase, revents, alive, timer, peer, kind, sent, received, overlapped>>
<1>1. batch \in Seq(Functors)
  BY DEF TypeOK
<1> QED BY <1>1, RangeTail DEF Running, clientVars

\* The types of the variables but conn.
Typed ==
  /\ phase \in {"poll", "events", "functors", "tick", "killed"}
  /\ revents \subseteq {"in", "out", "hup"}
  /\ batch \in Seq(Functors)
  /\ mapped \in BOOLEAN
  /\ alive \in BOOLEAN
  /\ timer \in BOOLEAN
  /\ peer \in {"open", "fin", "gone"}
  /\ kind \in [Requests -> Kinds \cup {"none"}]
  /\ sent \in 0 .. Parts * MaxRequests
  /\ received \in Seq(Requests \X (1 .. 1 + BodyLen))
  /\ overlapped \in BOOLEAN

LEMMA TypeParts == TypeOK <=> conn \in ConnType /\ Typed
  BY DEF TypeOK, Typed

LEMMA InvParts ==
  Inv <=> /\ conn \in ConnType
          /\ Kept(conn)
          /\ Typed
          /\ PhaseSound
          /\ alive /\ phase # "killed" => Sound
  BY TypeParts DEF Inv, Sound

LEMMA InvNextParts ==
  ASSUME conn' \in ConnType, Kept(conn'), Typed', PhaseSound',
         alive' /\ phase' # "killed" => Sound'
  PROVE  Inv'
<1>1. TypeOK'
  BY DEF TypeOK, Typed
<1> QED BY <1>1 DEF Inv, Sound


-----------------------------------------------------------------------------
(* The actions.                                                            *)

LEMMA PollStep == ASSUME Inv, Poll PROVE Inv'
<1> DEFINE c == [conn EXCEPT !.edge = FALSE]
<1>1. /\ conn \in ConnType /\ Kept(conn) /\ Typed /\ PhaseSound
      /\ alive /\ phase # "killed" => Sound
  BY InvParts
<1>2. /\ c \in ConnType /\ c.pending = conn.pending /\ c.edge = FALSE
      /\ c.state = conn.state /\ c.inbound = conn.inbound /\ c.interest = conn.interest
      /\ c.context = conn.context /\ c.readBuffer = conn.readBuffer
      /\ c.outbound = conn.outbound /\ c.file = conn.file /\ c.openFiles = conn.openFiles
  BY <1>1 DEF ConnType
<1>3. /\ conn' = c /\ phase = "poll" /\ phase' = "events"
      /\ revents' = IF alive /\ conn.edge THEN Polled(conn) ELSE {}
      /\ UNCHANGED <<batch, mapped, alive, timer, peer, kind, sent, received, overlapped>>
  BY DEF Poll, lifeVars, clientVars
<1> HIDE DEF c
<1>4. Kept(c)
  BY <1>1, <1>2 DEF Kept
<1>5. Polled(conn)' = Polled(conn) /\ Polled(conn) \subseteq {"in", "out", "hup"}
  <2>1. conn.interest \subseteq {"in", "out"}
    BY <1>1 DEF ConnType
  <2> QED BY <1>2, <1>3, <2>1 DEF Polled
<1>6. Typed'
  BY <1>1, <1>3, <1>5 DEF Typed
<1>7. PhaseSound'
  BY <1>1, <1>3 DEF PhaseSound
<1>8. ASSUME alive
      PROVE  Sound'
  <2>1. Sound /\ revents = {}
    BY <1>1, <1>3, <1>8 DEF PhaseSound
  <2>2. Due' = Due /\ (Ending <=> Ending')
    BY <1>2, <1>3 DEF Due, Ending
  <2>3. WriteSound'
    <3>1. SUFFICES ASSUME conn.state = "Writing", "send" \notin Due, ~Ending
                   PROVE  "out" \in conn.interest /\ ("out" \in Polled(conn) => "out" \in revents')
      BY <1>2, <1>3, <1>5, <2>2 DEF WriteSound
    <3>2. "out" \in conn.interest /\ ("out" \in Polled(conn) => conn.edge)
      BY <2>1, <3>1 DEF Sound, WriteSound
    <3> QED BY <1>3, <1>8, <3>2
  <2>4. ReadSound'
    <3>1. SUFFICES ASSUME conn.inbound # <<>> \/ peer # "open", ~Ending
                   PROVE  revents' \cap {"in", "hup"} # {}
      BY <1>2, <1>3, <2>2 DEF ReadSound
    <3>2. conn.edge
      BY <2>1, <3>1 DEF Sound, ReadSound
    <3>3. "in" \in conn.interest
      BY <1>1 DEF ConnType
    <3>4. peer \in {"open", "fin", "gone"}
      BY <1>1 DEF Typed
    <3>5. "in" \in Polled(conn) \/ "hup" \in Polled(conn)
      BY <3>1, <3>3, <3>4 DEF Polled
    <3> QED BY <1>3, <1>8, <3>2, <3>5
  <2>5. ProcessSound'
    BY <1>2, <1>3, <2>1, <2>2 DEF Sound, ProcessSound
  <2> QED BY <2>3, <2>4, <2>5 DEF Sound
<1> QED BY <1>2, <1>3, <1>4, <1>6, <1>7, <1>8, InvNextParts

\* A handler or a functor that queues the end of the connection.
LEMMA EndQueued ==
  ASSUME conn \in ConnType, Kept(conn), NEW c \in ConnType, Kept(c),
         NEW functor \in {"close", "error", "expire", "erase"},
         conn' = QueueInLoop(c, functor)
  PROVE  conn' \in ConnType /\ Kept(conn') /\ Ending'
<1>1. functor \in Functors
  BY DEF Functors, Holders
<1>2. Sends(c, conn') /\ functor \in Range(conn'.pending)
  BY <1>1, QueueInLoopDoes
<1> QED BY <1>2 DEF Sends, Ending, Due, Ends

LEMMA HandleHangupStep == ASSUME Inv, HandleHangup PROVE Inv'
<1>1. conn \in ConnType /\ Kept(conn) /\ Typed /\ PhaseSound
  BY InvParts
<1>2. conn' \in ConnType /\ Kept(conn') /\ Ending'
  BY <1>1, EndQueued DEF HandleHangup, HandleClose
<1>3. Typed' /\ PhaseSound'
  BY <1>1 DEF HandleHangup, Typed, PhaseSound, lifeVars, clientVars
<1>4. Sound'
  BY <1>2, EndingSound
<1> QED BY <1>2, <1>3, <1>4, InvNextParts

LEMMA HandleReadStep == ASSUME Inv, HandleRead PROVE Inv'
<1> DEFINE r == Read(conn)
           b == [r.c EXCEPT !.state = "Processing"]
<1>1. /\ conn \in ConnType /\ Kept(conn) /\ Typed /\ PhaseSound
      /\ alive /\ phase # "killed" => Sound
  BY InvParts
<1>2. /\ phase = "events" /\ phase' = phase /\ revents' = revents \ {"in"}
      /\ UNCHANGED <<batch, mapped, alive, timer, peer, kind, sent, received, overlapped>>
      /\ IF r.result # "success" THEN conn' = QueueInLoop(r.c, "close")
         ELSE IF r.c.state = "Connected" THEN conn' \in ProcessInWorker(b)
         ELSE conn' = r.c
  BY DEF HandleRead, HandleClose, lifeVars, clientVars
<1>3. /\ r.c \in ConnType /\ Kept(r.c) /\ r.c.state = conn.state
      /\ r.c.pending = conn.pending /\ r.c.edge = conn.edge
      /\ r.c.interest = conn.interest /\ r.c.outbound = conn.outbound
      /\ r.result = "success" => r.c.inbound = <<>> /\ peer = "open"
  BY <1>1, ReadDoes DEF Typed
<1> HIDE DEF r
<1>4. Typed' /\ PhaseSound'
  BY <1>1, <1>2 DEF Typed, PhaseSound
<1>5. CASE r.result # "success"
  <2>1. conn' \in ConnType /\ Kept(conn') /\ Ending'
    BY <1>1, <1>2, <1>3, <1>5, EndQueued
  <2>2. Sound'
    BY <2>1, EndingSound
  <2> QED BY <1>4, <2>1, <2>2, InvNextParts
<1>6. CASE r.result = "success" /\ r.c.state = "Connected"
  <2>1. /\ b \in ConnType /\ Kept(b) /\ b.pending = r.c.pending
        /\ b.inbound = r.c.inbound
    BY <1>3 DEF ConnType, Kept
  <2> HIDE DEF b
  <2>2. Writes(b, conn') /\ Free(conn')
    BY <1>2, <1>6, <2>1, ProcessInWorkerDoes DEF Processes
  <2>3. conn'.inbound = <<>> /\ peer' = "open"
    BY <1>2, <1>3, <1>6, <2>1, <2>2 DEF Writes
  <2>4. Range(conn'.pending) \subseteq Due'
    BY DEF Due
  <2>5. Range(conn'.pending) \cap Ends # {} => Ending'
    BY <2>4 DEF Ending
  <2>6. WriteSound'
    <3>1. Polled(conn') = Polled(conn)'
      BY <1>2 DEF Polled
    <3> QED BY <2>2, <2>4, <2>5, <3>1 DEF Writes, Armed, OutAwaited, WriteSound
  <2>7. ReadSound'
    BY <2>3 DEF ReadSound
  <2>8. ProcessSound'
    BY <2>2, <2>4, <2>5 DEF Free, ProcessSound
  <2> QED BY <1>4, <2>2, <2>6, <2>7, <2>8, InvNextParts DEF Sound, Writes
<1>7. CASE r.result = "success" /\ r.c.state # "Connected"
  <2>1. conn' = r.c
    BY <1>2, <1>7
  <2>2. ASSUME alive
        PROVE  Sound'
    <3>1. Sound
      BY <1>1, <1>2, <2>2
    <3>2. Due' = Due /\ (Ending <=> Ending')
      BY <1>2, <1>3, <2>1 DEF Due, Ending
    <3>3. "out" \in Polled(conn)' <=> "out" \in Polled(conn)
      BY <1>2, <1>3, <2>1 DEF Polled
    <3>4. WriteSound'
      BY <1>2, <1>3, <2>1, <3>1, <3>2, <3>3 DEF Sound, WriteSound
    <3>5. ReadSound'
      BY <1>2, <1>3, <1>7, <2>1 DEF ReadSound
    <3>6. ProcessSound'
      BY <1>7, <2>1 DEF ProcessSound
    <3> QED BY <3>4, <3>5, <3>6 DEF Sound
  <2> QED BY <1>2, <1>3, <1>4, <2>1, <2>2, InvNextParts
<1> QED BY <1>5, <1>6, <1>7

\* A handler or a functor whose method writes.
LEMMA HandleWriteStep == ASSUME Inv, HandleWrite PROVE Inv'
<1> DEFINE d == Written(conn)
<1>1. /\ conn \in ConnType /\ Kept(conn) /\ Typed /\ PhaseSound
      /\ alive /\ phase # "killed" => Sound
  BY InvParts
<1>2. /\ phase = "events" /\ phase' = phase /\ revents' = revents \ {"out"}
      /\ UNCHANGED <<batch, mapped, alive, timer, peer, kind, sent, received, overlapped>>
      /\ conn' = d
  BY DEF HandleWrite, lifeVars, clientVars
<1>3. Writes(conn, d)
  BY <1>1, WrittenDoes
<1> HIDE DEF d
<1>4. Typed' /\ PhaseSound'
  BY <1>1, <1>2 DEF Typed, PhaseSound
<1>5. ASSUME alive
      PROVE  Sound'
  <2>1. Sound
    BY <1>1, <1>2, <1>5
  <2>2. Due \subseteq Due' /\ Range(d.pending) \subseteq Due'
    BY <1>2, <1>3 DEF Due, Writes
  <2>3. (Ending => Ending') /\ revents \cap {"in", "hup"} \subseteq revents'
    BY <1>2, <2>2 DEF Ending
  <2> QED BY <1>2, <1>3, <2>1, <2>2, <2>3, MethodSound
<1> QED BY <1>2, <1>3, <1>4, <1>5, InvNextParts DEF Writes


LEMMA DoPendingFunctorsStep == ASSUME Inv, DoPendingFunctors PROVE Inv'
<1> DEFINE c == [conn EXCEPT !.pending = <<>>]
<1>1. /\ conn \in ConnType /\ Kept(conn) /\ Typed /\ PhaseSound
      /\ alive /\ phase # "killed" => Sound
  BY InvParts
<1>2. conn.pending \in Seq(Functors) /\ <<>> \in Seq(Functors)
  BY <1>1, EmptySeq DEF ConnType
<1>3. /\ c \in ConnType /\ c.pending = <<>> /\ c.edge = conn.edge
      /\ c.state = conn.state /\ c.inbound = conn.inbound /\ c.interest = conn.interest
      /\ c.context = conn.context /\ c.readBuffer = conn.readBuffer
      /\ c.outbound = conn.outbound /\ c.file = conn.file /\ c.openFiles = conn.openFiles
  BY <1>1, <1>2 DEF ConnType
<1>4. /\ phase = "events" /\ phase' = "functors" /\ revents = {} /\ batch' = conn.pending
      /\ UNCHANGED <<revents, mapped, alive, timer, peer, kind, sent, received, overlapped>>
      /\ conn' = c
  BY DEF DoPendingFunctors, lifeVars, clientVars
<1> HIDE DEF c
<1>5. Typed' /\ PhaseSound' /\ Kept(c)
  BY <1>1, <1>2, <1>3, <1>4 DEF Typed, PhaseSound, Kept
<1>6. ASSUME alive
      PROVE  Sound'
  <2>1. Sound /\ batch = <<>>
    BY <1>1, <1>4, <1>6 DEF PhaseSound
  <2>2. Due' = Due
    BY <1>3, <1>4, <2>1, RangeEmpty DEF Due
  <2>3. Ending' <=> Ending
    BY <1>4, <2>2 DEF Ending
  <2>4. Polled(conn)' = Polled(conn)
    BY <1>3, <1>4 DEF Polled
  <2> QED BY <1>3, <1>4, <2>1, <2>2, <2>3, <2>4
          DEF Sound, WriteSound, ReadSound, ProcessSound
<1> QED BY <1>3, <1>4, <1>5, <1>6, InvNextParts

\* What is the same of every functor that runs.
LEMMA RunningStep ==
  ASSUME Inv, NEW functor, Running(functor)
  PROVE  Typed /\ PhaseSound /\ (mapped' \in BOOLEAN => Typed') /\ PhaseSound'
<1>1. Typed /\ PhaseSound /\ TypeOK
  BY InvParts DEF Inv
<1>2. /\ batch' \in Seq(Functors) /\ phase = "functors"
      /\ UNCHANGED <<phase, revents, alive, timer, peer, kind, sent, received, overlapped>>
  BY <1>1, RunningDoes
<1> QED BY <1>1, <1>2 DEF Typed, PhaseSound

\* A functor that ends the connection, or brings its end on.
LEMMA EndingStep ==
  ASSUME Inv, NEW functor, Running(functor), UNCHANGED mapped,
         NEW next \in {"close", "error", "expire", "erase"}, conn' = QueueInLoop(conn, next)
  PROVE  Inv'
<1>1. conn \in ConnType /\ Kept(conn) /\ Typed'
  BY InvParts, RunningStep DEF Typed
<1>2. conn' \in ConnType /\ Kept(conn') /\ Ending'
  BY <1>1, EndQueued
<1> QED BY <1>1, <1>2, EndingSound, RunningStep, InvNextParts

LEMMA RunErrorStep == ASSUME Inv, RunError PROVE Inv'
  BY EndingStep DEF RunError, HandleClose

LEMMA RunCloseStep == ASSUME Inv, RunClose PROVE Inv'
  BY EndingStep DEF RunClose

LEMMA RunEraseStep == ASSUME Inv, RunErase PROVE Inv'
<1>1. conn \in ConnType /\ Kept(conn)
  BY InvParts
<1>2. Running("erase") /\ mapped' = FALSE /\ conn' = conn
  BY DEF RunErase
<1>3. Typed' /\ PhaseSound'
  BY <1>2, RunningStep
<1>4. Ending'
  BY <1>2 DEF Ending
<1> QED BY <1>1, <1>2, <1>3, <1>4, EndingSound, InvNextParts

LEMMA RunSendStep == ASSUME Inv, RunSend PROVE Inv'
<1>1. /\ conn \in ConnType /\ Kept(conn) /\ Typed /\ TypeOK
      /\ alive /\ phase # "killed" => Sound
  BY InvParts DEF Inv
<1>2. Running("send") /\ mapped' = mapped
      /\ conn' = IF conn.state = "Closed" THEN conn ELSE TrySend(conn)
  BY DEF RunSend
<1>3. Typed' /\ PhaseSound'
  BY <1>1, <1>2, RunningStep DEF Typed
<1>4. /\ Range(batch) = {"send"} \cup Range(batch') /\ phase = "functors"
      /\ UNCHANGED <<phase, revents, alive, timer, peer, kind, sent, received, overlapped>>
  BY <1>1, <1>2, RunningDoes
<1>5. Writes(conn, conn')
  <2>1. CASE conn.state = "Closed"
    BY <1>1, <1>2, <2>1 DEF Writes, Armed
  <2>2. CASE conn.state # "Closed"
    BY <1>1, <1>2, <2>2, TrySendDoes
  <2> QED BY <2>1, <2>2
<1>6. ASSUME alive
      PROVE  Sound'
  <2>1. Sound
    BY <1>1, <1>4, <1>6
  <2>2. Due \ {"send"} \subseteq Due' /\ Range(conn'.pending) \subseteq Due'
    BY <1>4, <1>5 DEF Due, Writes
  <2>3. Ending => Ending'
    BY <1>2, <2>2 DEF Ending, Ends
  <2> QED BY <1>4, <1>5, <2>1, <2>2, <2>3, MethodSound
<1> QED BY <1>3, <1>4, <1>5, <1>6, InvNextParts DEF Writes

LEMMA RunProcessStep == ASSUME Inv, RunProcess PROVE Inv'
<1>1. /\ conn \in ConnType /\ Kept(conn) /\ Typed /\ TypeOK
      /\ alive /\ phase # "killed" => Sound
  BY InvParts DEF Inv
<1>2. Running("process") /\ mapped' = mapped /\ conn' \in ProcessInWorker(conn)
  BY DEF RunProcess
<1>3. Typed' /\ PhaseSound'
  BY <1>1, <1>2, RunningStep DEF Typed
<1>4. /\ Range(batch) = {"process"} \cup Range(batch') /\ phase = "functors"
      /\ UNCHANGED <<phase, revents, alive, timer, peer, kind, sent, received, overlapped>>
  BY <1>1, <1>2, RunningDoes
<1>5. Writes(conn, conn') /\ Free(conn')
  BY <1>1, <1>2, ProcessInWorkerDoes DEF Processes
<1>6. ASSUME alive
      PROVE  Sound'
  <2>1. Sound
    BY <1>1, <1>4, <1>6
  <2>2. Due \ {"process"} \subseteq Due' /\ Range(conn'.pending) \subseteq Due'
    BY <1>4, <1>5 DEF Due, Writes
  <2>3. Ending => Ending'
    BY <1>2, <2>2 DEF Ending, Ends
  <2> QED BY <1>4, <1>5, <2>1, <2>2, <2>3, MethodSound
<1> QED BY <1>3, <1>4, <1>5, <1>6, InvNextParts DEF Writes

LEMMA EndFunctorsStep == ASSUME Inv, EndFunctors PROVE Inv'
<1>1. /\ conn \in ConnType /\ Kept(conn) /\ Typed /\ PhaseSound
      /\ alive /\ phase # "killed" => Sound
  BY InvParts
<1>2. /\ phase = "functors" /\ phase' = "tick" /\ batch = <<>>
      /\ UNCHANGED <<revents, batch, mapped, timer, peer, kind, sent, received, overlapped>>
      /\ \/ UNCHANGED <<alive, conn>>
         \/ alive' = FALSE /\ conn' = CloseFile(conn)
  BY DEF EndFunctors, clientVars
<1>3. Typed' /\ PhaseSound'
  BY <1>1, <1>2 DEF Typed, PhaseSound
<1>4. CASE UNCHANGED <<alive, conn>>
  <2>1. Sound => Sound'
    BY <1>2, <1>4 DEF Sound, WriteSound, ReadSound, ProcessSound, Due, Ending, Polled
  <2> QED BY <1>1, <1>2, <1>3, <1>4, <2>1, InvNextParts
<1>5. CASE alive' = FALSE /\ conn' = CloseFile(conn)
  <2>1. Sends(conn, conn')
    BY <1>1, <1>5, CloseFileDoes
  <2> QED BY <1>3, <1>5, <2>1, InvNextParts DEF Sends
<1> QED BY <1>2, <1>4, <1>5

LEMMA FireTimerStep == ASSUME Inv, FireTimer PROVE Inv'
<1>1. conn \in ConnType /\ Kept(conn) /\ Typed /\ PhaseSound
  BY InvParts
<1>2. conn' \in ConnType /\ Kept(conn') /\ Ending'
  BY <1>1, EndQueued DEF FireTimer
<1>3. Typed' /\ PhaseSound'
  BY <1>1 DEF FireTimer, Typed, PhaseSound, loopVars, clientVars
<1> QED BY <1>2, <1>3, EndingSound, InvNextParts

LEMMA EndTickStep == ASSUME Inv, EndTick PROVE Inv'
<1>1. /\ conn \in ConnType /\ Kept(conn) /\ Typed /\ PhaseSound
      /\ alive /\ phase # "killed" => Sound
  BY InvParts
<1>2. /\ phase = "tick" /\ phase' = "poll"
      /\ UNCHANGED <<conn, revents, batch, mapped, alive, timer, peer, kind, sent, received,
                     overlapped>>
  BY DEF EndTick, lifeVars, clientVars
<1>3. Typed' /\ PhaseSound'
  BY <1>1, <1>2 DEF Typed, PhaseSound
<1>4. Sound => Sound'
  BY <1>2 DEF Sound, WriteSound, ReadSound, ProcessSound, Due, Ending, Polled
<1> QED BY <1>1, <1>2, <1>3, <1>4, InvNextParts

LEMMA SigPipeStep == ASSUME Inv, SigPipe PROVE Inv'
<1>1. conn \in ConnType /\ Kept(conn) /\ Typed
  BY InvParts
<1>2. /\ phase' = "killed"
      /\ UNCHANGED <<conn, revents, batch, mapped, alive, timer, peer, kind, sent, received,
                     overlapped>>
  BY DEF SigPipe, lifeVars, clientVars
<1>3. Typed' /\ PhaseSound'
  BY <1>1, <1>2 DEF Typed, PhaseSound
<1> QED BY <1>1, <1>2, <1>3, InvNextParts

\* What the client and the network do to the socket leaves everything armed, if it
\* raises the edge the channel waits for.
LEMMA ClientSound ==
  ASSUME Sound, conn \in ConnType, NEW d, conn' = d,
         UNCHANGED <<loopVars, lifeVars>>,
         d.pending = conn.pending, Input(d) = Input(conn), d.interest = conn.interest,
         conn.edge => d.edge,
         \/ d.edge
         \/ /\ "out" \notin d.interest
            /\ d.inbound = conn.inbound
            /\ peer' = peer
  PROVE  Sound'
<1>1. Due' = Due /\ (Ending' <=> Ending)
  BY DEF Due, Ending, loopVars, lifeVars
<1>2. revents' = revents
  BY DEF loopVars
<1>3. d.state = conn.state /\ d.context = conn.context /\ d.readBuffer = conn.readBuffer
  BY DEF Input
<1>4. WriteSound'
  BY <1>1, <1>2, <1>3 DEF Sound, WriteSound
<1>5. ReadSound'
  BY <1>1, <1>2 DEF Sound, ReadSound
<1>6. ProcessSound'
  BY <1>1, <1>3 DEF Sound, ProcessSound
<1> QED BY <1>4, <1>5, <1>6 DEF Sound

LEMMA ClientSendStep == ASSUME Inv, NEW k \in Kinds, ClientSend(k) PROVE Inv'
<1> DEFINE r       == (sent \div Parts) + 1
           i       == (sent % Parts) + 1
           inbound == Append(conn.inbound, <<r, i>>)
           d       == [conn EXCEPT !.inbound = inbound, !.edge = TRUE]
<1>1. /\ conn \in ConnType /\ Kept(conn) /\ Typed /\ PhaseSound
      /\ alive /\ phase # "killed" => Sound
  BY InvParts
<1>2. /\ sent < Parts * MaxRequests /\ sent' = sent + 1 /\ kind' = [kind EXCEPT ![r] = k]
      /\ overlapped' \in BOOLEAN
      /\ conn' = Arrive([conn EXCEPT !.inbound = inbound], "in")
      /\ UNCHANGED <<loopVars, lifeVars, peer, received>>
      /\ alive /\ phase # "killed"
  <2>1. overlapped' = (overlapped \/ (i = 1 /\ r > 1 /\ ~Answered(r - 1)))
    BY DEF ClientSend
  <2>2. overlapped' \in BOOLEAN
    BY <2>1
  <2> QED BY <2>2 DEF ClientSend, Connected
<1>3. r \in Requests /\ i \in 1 .. Parts /\ sent' \in 0 .. Parts * MaxRequests
  <2>1. sent \in 0 .. 2 * MaxRequests /\ MaxRequests \in Nat /\ sent < 2 * MaxRequests
    BY <1>1, <1>2, BoundAssumption DEF Typed, Parts
  <2>2. sent \in Int /\ sent >= 0
    BY <2>1
  <2>3. sent \div 2 \in Int /\ sent % 2 \in 0 .. 1 /\ sent = 2 * (sent \div 2) + (sent % 2)
    BY <2>2
  <2> DEFINE q == sent \div 2
             m == sent % 2
  <2>4. q \in Int /\ m \in 0 .. 1 /\ sent = 2 * q + m /\ r = q + 1 /\ i = m + 1
    BY <2>3 DEF Parts
  <2> HIDE DEF q, m, r, i
  <2> QED BY <1>2, <2>1, <2>2, <2>4 DEF Requests, Parts
<1>4. "in" \in conn.interest /\ conn.inbound \in Seq(Fragments)
  BY <1>1 DEF ConnType, Fragments
<1> HIDE DEF r, i
<1>5. inbound \in Seq(Fragments)
  BY <1>3, <1>4, AppendProperties DEF Fragments
<1> HIDE DEF inbound
<1>6. conn' = d
  BY <1>1, <1>2, <1>4 DEF Arrive, ConnType
<1>7. /\ d \in ConnType /\ d.pending = conn.pending /\ d.edge = TRUE
      /\ d.state = conn.state /\ d.interest = conn.interest
      /\ d.context = conn.context /\ d.readBuffer = conn.readBuffer
      /\ d.outbound = conn.outbound /\ d.file = conn.file /\ d.openFiles = conn.openFiles
  BY <1>1, <1>5 DEF ConnType, Fragments
<1> HIDE DEF d
<1>8. Typed'
  BY <1>1, <1>2, <1>3 DEF Typed, loopVars, lifeVars
<1>9. PhaseSound' /\ Kept(d)
  BY <1>1, <1>2, <1>7 DEF PhaseSound, Kept, loopVars
<1>10. Sound'
  BY <1>1, <1>2, <1>6, <1>7, ClientSound DEF Input
<1> QED BY <1>6, <1>7, <1>8, <1>9, <1>10, InvNextParts

LEMMA ClientReadStep == ASSUME Inv, ClientRead PROVE Inv'
<1> DEFINE edge == conn.edge \/ "out" \in conn.interest
           rest == Tail(conn.outbound)
           d    == [conn EXCEPT !.outbound = rest, !.edge = edge]
<1>1. /\ conn \in ConnType /\ Kept(conn) /\ Typed /\ PhaseSound
      /\ alive /\ phase # "killed" => Sound
  BY InvParts
<1>2. /\ conn.outbound # <<>> /\ received' = Append(received, Head(conn.outbound))
      /\ conn' = Arrive([conn EXCEPT !.outbound = rest], "out")
      /\ UNCHANGED <<loopVars, lifeVars, peer, kind, sent, overlapped>>
      /\ alive /\ phase # "killed"
  BY DEF ClientRead, Connected
<1>3. conn.outbound \in Seq(UnitsOf) /\ received \in Seq(UnitsOf) /\ SockCap \in Nat
  BY <1>1, BoundAssumption DEF ConnType, Typed, UnitsOf
<1>4. Head(conn.outbound) \in UnitsOf /\ rest \in Seq(UnitsOf)
      /\ Len(rest) = Len(conn.outbound) - 1 /\ Len(conn.outbound) \in Nat
  BY <1>2, <1>3, HeadTailProperties, LenProperties
<1>5. received' \in Seq(UnitsOf)
  BY <1>2, <1>3, <1>4, AppendProperties
<1> HIDE DEF rest
<1>6. Len(rest) <= SockCap
  <2> DEFINE n == Len(conn.outbound)
  <2>1. n \in Nat /\ n <= SockCap /\ Len(rest) = n - 1
    BY <1>1, <1>4 DEF Kept
  <2> HIDE DEF n
  <2> QED BY <1>3, <2>1
<1>7. conn' = d
  BY <1>1, <1>2 DEF Arrive, ConnType
<1> HIDE DEF edge
<1>8. /\ d \in ConnType /\ d.pending = conn.pending /\ d.edge = edge
      /\ d.state = conn.state /\ d.interest = conn.interest /\ d.inbound = conn.inbound
      /\ d.context = conn.context /\ d.readBuffer = conn.readBuffer
      /\ d.outbound = rest /\ d.file = conn.file /\ d.openFiles = conn.openFiles
  <2>1. edge \in BOOLEAN
    BY DEF edge
  <2> QED BY ZenonT(40), <1>1, <1>4, <2>1 DEF ConnType, UnitsOf
<1> HIDE DEF d
<1>9. Typed'
  BY <1>1, <1>2, <1>5 DEF Typed, UnitsOf, loopVars, lifeVars
<1>10. PhaseSound' /\ Kept(d)
  BY <1>1, <1>2, <1>6, <1>8 DEF PhaseSound, Kept, loopVars
<1>11. Sound'
  BY <1>1, <1>2, <1>7, <1>8, ClientSound DEF Input, edge
<1> QED BY <1>7, <1>8, <1>9, <1>10, <1>11, InvNextParts

LEMMA ClientShutdownStep == ASSUME Inv, ClientShutdown PROVE Inv'
<1> DEFINE d == [conn EXCEPT !.edge = TRUE]
<1>1. /\ conn \in ConnType /\ Kept(conn) /\ Typed /\ PhaseSound
      /\ alive /\ phase # "killed" => Sound
  BY InvParts
<1>2. /\ peer' = "fin" /\ conn' = Arrive(conn, "in")
      /\ UNCHANGED <<loopVars, lifeVars, kind, sent, received, overlapped>>
      /\ alive /\ phase # "killed"
  BY DEF ClientShutdown, Connected
<1>3. "in" \in conn.interest
  BY <1>1 DEF ConnType
<1>4. conn' = d
  BY <1>1, <1>2, <1>3 DEF Arrive, ConnType
<1>5. /\ d \in ConnType /\ d.pending = conn.pending /\ d.edge = TRUE
      /\ d.state = conn.state /\ d.interest = conn.interest
      /\ d.context = conn.context /\ d.readBuffer = conn.readBuffer
      /\ d.outbound = conn.outbound /\ d.file = conn.file /\ d.openFiles = conn.openFiles
  BY <1>1 DEF ConnType
<1> HIDE DEF d
<1>6. Typed'
  BY <1>1, <1>2 DEF Typed, loopVars, lifeVars
<1>7. PhaseSound' /\ Kept(d)
  BY <1>1, <1>2, <1>5 DEF PhaseSound, Kept, loopVars
<1>8. Sound'
  BY <1>1, <1>2, <1>4, <1>5, ClientSound DEF Input
<1> QED BY <1>4, <1>5, <1>6, <1>7, <1>8, InvNextParts

LEMMA ClientResetStep == ASSUME Inv, ClientReset PROVE Inv'
<1> DEFINE d == [conn EXCEPT !.edge = TRUE, !.outbound = <<>>]
<1>1. /\ conn \in ConnType /\ Kept(conn) /\ Typed /\ PhaseSound
      /\ alive /\ phase # "killed" => Sound
  BY InvParts
<1>2. /\ peer' = "gone" /\ conn' = d
      /\ UNCHANGED <<loopVars, lifeVars, kind, sent, received, overlapped>>
      /\ alive /\ phase # "killed"
  BY DEF ClientReset, Connected
<1>3. <<>> \in Seq(UnitsOf)
  BY EmptySeq
<1>4. /\ d \in ConnType /\ d.pending = conn.pending /\ d.edge = TRUE
      /\ d.state = conn.state /\ d.interest = conn.interest
      /\ d.context = conn.context /\ d.readBuffer = conn.readBuffer
      /\ d.outbound = <<>> /\ d.file = conn.file /\ d.openFiles = conn.openFiles
  BY <1>1, <1>3 DEF ConnType, UnitsOf
<1> HIDE DEF d
<1>5. Typed'
  BY <1>1, <1>2 DEF Typed, loopVars, lifeVars
<1>6. Len(d.outbound) <= SockCap
  BY <1>4, BoundAssumption
<1>7. PhaseSound' /\ Kept(d)
  BY <1>1, <1>2, <1>4, <1>6 DEF PhaseSound, Kept, loopVars
<1>8. Sound'
  BY <1>1, <1>2, <1>4, ClientSound DEF Input
<1> QED BY <1>2, <1>4, <1>5, <1>7, <1>8, InvNextParts

-----------------------------------------------------------------------------
(* The theorems.                                                           *)

LEMMA InvInit == Init => Inv
<1> SUFFICES ASSUME Init PROVE Inv
  OBVIOUS
<1>1. /\ \A S : <<>> \in Seq(S)
      /\ NoFile \in [req : 0 .. MaxRequests, left : 0 .. BodyLen]
  BY EmptySeq, BoundAssumption DEF NoFile, BodyLen
<1>2. /\ conn.state = "Connected" /\ conn.readBuffer = <<>> /\ conn.context = <<>>
      /\ conn.file = NoFile /\ conn.inbound = <<>> /\ conn.outbound = <<>>
      /\ conn \in ConnType
  <2> HIDE DEF NoFile
  <2> QED BY <1>1 DEF Init, ConnType
<1>3. Typed
  <2>1. sent \in 0 .. Parts * MaxRequests
    BY BoundAssumption DEF Init, Parts
  <2>2. received \in Seq(Requests \X (1 .. 1 + BodyLen)) /\ batch \in Seq(Functors)
    BY <1>1 DEF Init
  <2>3. kind \in [Requests -> Kinds \cup {"none"}]
    BY DEF Init
  <2> QED BY <2>1, <2>2, <2>3 DEF Init, Typed
<1>4. Kept(conn) /\ PhaseSound
  BY <1>2, BoundAssumption DEF Init, Kept, PhaseSound, Parts
<1>5. Sound
  BY <1>2 DEF Init, Sound, WriteSound, ReadSound, ProcessSound, Parts
<1> QED BY <1>2, <1>3, <1>4, <1>5, InvParts

LEMMA InvNext == Inv /\ [Next]_vars => Inv'
<1> SUFFICES ASSUME Inv, [Next]_vars PROVE Inv'
  OBVIOUS
<1>1. CASE Poll
  BY <1>1, PollStep
<1>2. CASE HandleHangup
  BY <1>2, HandleHangupStep
<1>3. CASE HandleRead
  BY <1>3, HandleReadStep
<1>4. CASE HandleWrite
  BY <1>4, HandleWriteStep
<1>5. CASE DoPendingFunctors
  BY <1>5, DoPendingFunctorsStep
<1>6. CASE RunSend
  BY <1>6, RunSendStep
<1>7. CASE RunProcess
  BY <1>7, RunProcessStep
<1>8. CASE RunError
  BY <1>8, RunErrorStep
<1>9. CASE RunClose
  BY <1>9, RunCloseStep
<1>10. CASE RunErase
  BY <1>10, RunEraseStep
<1>11. CASE EndFunctors
  BY <1>11, EndFunctorsStep
<1>12. CASE EndTick
  BY <1>12, EndTickStep
<1>13. CASE FireTimer
  BY <1>13, FireTimerStep
<1>14. CASE SigPipe
  BY <1>14, SigPipeStep
<1>15. CASE Client
  <2>1. CASE \E k \in Kinds : ClientSend(k)
    BY <2>1, ClientSendStep
  <2>2. CASE ClientRead
    BY <2>2, ClientReadStep
  <2>3. CASE ClientShutdown
    BY <2>3, ClientShutdownStep
  <2>4. CASE ClientReset
    BY <2>4, ClientResetStep
  <2> QED BY <1>15, <2>1, <2>2, <2>3, <2>4 DEF Client
<1>16. CASE UNCHANGED vars
  <2>1. UNCHANGED <<conn, phase, revents, batch, mapped, alive, timer, peer, kind, sent,
                    received, overlapped>>
    BY <1>16 DEF vars
  <2>2. /\ conn \in ConnType /\ Kept(conn) /\ Typed /\ PhaseSound
        /\ alive /\ phase # "killed" => Sound
    BY InvParts
  <2>3. Typed' /\ PhaseSound'
    BY <2>1, <2>2 DEF Typed, PhaseSound
  <2>4. Sound => Sound'
    BY <2>1 DEF Sound, WriteSound, ReadSound, ProcessSound, Due, Ending, Polled
  <2> QED BY <2>1, <2>2, <2>3, <2>4, InvNextParts
<1> QED BY <1>1, <1>2, <1>3, <1>4, <1>5, <1>6, <1>7, <1>8, <1>9, <1>10, <1>11, <1>12,
           <1>13, <1>14, <1>15, <1>16 DEF Next, LoopStep

\* The fields of a connection keep their types, whatever arrives and however it is cut,
\* and the channel never stops listening for input.
THEOREM TypeCorrect == Spec => []TypeOK
<1>1. Inv => TypeOK
  BY DEF Inv
<1> QED BY <1>1, InvInit, InvNext, PTL DEF Spec

\* Whenever the loop goes to epoll_wait, what this connection has still to do will be
\* announced to it: a response that is not out, input or an end of stream in the
\* socket, a whole request in readBuffer_.
THEOREM NothingForgotten == Spec => []NothingLeftBehind
<1>1. Inv => NothingLeftBehind
  <2>1. SUFFICES ASSUME Inv, AtWait PROVE NothingLeftBehind
    BY DEF NothingLeftBehind, WriteArmed, ReadArmed, NoStalledRequest
  <2>2. PhaseSound /\ WriteSound /\ ReadSound /\ ProcessSound
    BY <2>1 DEF Inv, AtWait
  <2>3. batch = <<>> /\ revents = {}
    BY <2>1, <2>2 DEF PhaseSound, AtWait
  <2>4. Due = Queued /\ (Ending <=> Closing)
    BY <2>3, RangeEmpty DEF Due, Queued, Ending, Closing, Ends
  <2>5. WriteArmed
    BY <2>2, <2>3, <2>4 DEF WriteArmed, WriteSound
  <2>6. ReadArmed
    BY <2>2, <2>3, <2>4 DEF ReadArmed, ReadSound
  <2>7. NoStalledRequest
    BY <2>2, <2>4 DEF NoStalledRequest, ProcessSound
  <2> QED BY <2>5, <2>6, <2>7 DEF NothingLeftBehind
<1> QED BY <1>1, InvInit, InvNext, PTL DEF Spec

-----------------------------------------------------------------------------
(* Each request in its turn.  The fragments that are in context_,          *)
(* readBuffer_ and the socket are the last the client has sent, one after  *)
(* the other (Lined), so that context_ holds a request of a known number   *)
(* (Turn).  A client that waits for its answer has sent no fragment of the *)
(* next request while the last unit of the response has not reached it     *)
(* (Missing), so that a reset of context_ forgets a request that was       *)
(* handled and no part of another.                                         *)

\* The n-th fragment a client sends.
Fragment(n) == <<((n - 1) \div Parts) + 1, ((n - 1) % Parts) + 1>>

\* The fragments of the client from the one after the a-th on.
IsRun(s, a) == \A i \in 1 .. Len(s) : s[i] = Fragment(a + i)

\* How many fragments the connection has done with: they are in no buffer any more.
Done(c) == sent - (Len(c.inbound) + Len(c.readBuffer) + Len(c.context))

\* The request whose fragments context_ holds, or will hold first.
Turn(c) == (Done(c) \div Parts) + 1

\* What is in context_, readBuffer_ and the socket is, in this order, what the client
\* has sent last.
Lined(c) ==
  /\ sent \in Nat
  /\ Done(c) \in Nat
  /\ IsRun(c.context, Done(c))
  /\ IsRun(c.readBuffer, Done(c) + Len(c.context))
  /\ IsRun(c.inbound, Done(c) + Len(c.context) + Len(c.readBuffer))

Ordered(c) ==
  \A i \in 1 .. Len(c.handled) :
    /\ c.handled[i] <= Turn(c)
    /\ \A j \in 1 .. Len(c.handled) : i < j => c.handled[i] <= c.handled[j]

Strict(c) ==
  \A i, j \in 1 .. Len(c.handled) : i < j => c.handled[i] < c.handled[j]

\* What has gone to the client, and what the client has read.
Emitted(c) == Range(received) \cup Range(c.outbound)

\* What is sent belongs to a request that was handled.
Sourced(c) ==
  /\ \A u \in Emitted(c) \cup Range(c.writeBuffer) : u[1] \in Range(c.handled)
  /\ c.file # NoFile => c.file.req \in Range(c.handled)

FileKept(c) == c.openFiles = IF c.file = NoFile THEN 0 ELSE 1

\* The request whose turn it is has not been handled, and nothing of an earlier one is left.
Ready(c) ==
  /\ Done(c) % Parts = 0
  /\ \A i \in 1 .. Len(c.handled) : c.handled[i] < Turn(c)
  /\ c.file = NoFile
  /\ c.writeBuffer = <<>>

\* The request is whole in context_, and the client has sent no more.
Whole(c) ==
  /\ Done(c) % Parts = 0
  /\ sent = Done(c) + Parts
  /\ Len(c.context) = Parts

Answering(c) ==
  /\ Strict(c) /\ Sourced(c) /\ FileKept(c)
  /\ c.state = "Connected" => Ready(c)
  /\ c.state = "Writing" => Whole(c)

\* The last unit of a response, without which the request is not answered.
LastUnit(r) == <<r, Units(kind[r])>>

\* It is still to go: at the end of writeBuffer_, or of the file.
Missing(c) ==
  LET last == LastUnit(Turn(c))
  IN  /\ Turn(c) \in Requests
      /\ Units(kind[Turn(c)]) # 0
      /\ last \notin Emitted(c)
      /\ \A i \in 1 .. Len(c.writeBuffer) - 1 : c.writeBuffer[i] # last
      /\ IF c.file = NoFile THEN c.writeBuffer # <<>>
         ELSE /\ kind[Turn(c)] = "file" /\ c.file.left > 0
              /\ last \notin Range(c.writeBuffer)

\* Nothing but the first of two equal functors.
Once(s) == \A i, j \in 1 .. Len(s) : s[i] = "send" /\ s[j] = "send" => i = j

\* A response is sent by one functor, and no functor processes a second request.
SendsOnce(state, queued, running) ==
  /\ "process" \notin Range(queued) \cup Range(running)
  /\ state # "Writing" => "send" \notin Range(queued) \cup Range(running)
  /\ Once(queued) /\ Once(running)
  /\ ~("send" \in Range(queued) /\ "send" \in Range(running))

\* EPOLLOUT is neither awaited nor reported unless a response is half sent.
Quiet ==
  conn.state # "Writing" \/ "send" \in Due => "out" \notin conn.interest \cup revents

Begun == \A r \in Requests : sent > Parts * (r - 1) => kind[r] \in Kinds

Waited == \A r \in Requests : sent > Parts * r => Answered(r)

Turned(c) == Lined(c) /\ Ordered(c) /\ (~overlapped => Answering(c))

TurnInv ==
  /\ Turned(conn)
  /\ Begun
  /\ ~overlapped =>
       /\ SendsOnce(conn.state, conn.pending, batch)
       /\ Quiet
       /\ Waited
       /\ alive /\ peer # "gone" /\ conn.state = "Writing" => Missing(conn)

-----------------------------------------------------------------------------
(* More about sequences.                                                   *)

LEMMA RangeConcat ==
  ASSUME NEW S, NEW s \in Seq(S), NEW t \in Seq(S)
  PROVE  Range(s \o t) = Range(s) \cup Range(t)
<1> DEFINE m == Len(s)
           n == Len(t)
           st == s \o t
<1>1. /\ st \in Seq(S) /\ Len(st) = m + n
      /\ \A i \in 1 .. m + n : st[i] = IF i <= m THEN s[i] ELSE t[i - m]
  BY ConcatProperties
<1>2. m \in Nat /\ n \in Nat /\ DOMAIN s = 1 .. m /\ DOMAIN t = 1 .. n /\ DOMAIN st = 1 .. m + n
  BY <1>1, LenProperties
<1> HIDE DEF m, n, st
<1>3. \A i \in 1 .. m : i \in 1 .. m + n /\ st[i] = s[i]
  BY <1>1, <1>2
<1>4. \A i \in 1 .. n : m + i \in 1 .. m + n /\ st[m + i] = t[i]
  BY <1>1, <1>2
<1>5. \A i \in 1 .. m + n : (i \in 1 .. m /\ st[i] = s[i]) \/ (i - m \in 1 .. n /\ st[i] = t[i - m])
  BY <1>1, <1>2
<1>6. \A x : x \in Range(st) => x \in Range(s) \cup Range(t)
  BY <1>2, <1>5 DEF Range
<1>7. \A x : x \in Range(s) => x \in Range(st)
  BY <1>2, <1>3 DEF Range
<1>8. \A x : x \in Range(t) => x \in Range(st)
  BY <1>2, <1>4 DEF Range
<1> HIDE DEF Range
<1> QED BY <1>6, <1>7, <1>8 DEF st

\* The two pieces of a sequence that is cut, element by element.
LEMMA CutElements ==
  ASSUME NEW S, NEW s \in Seq(S), NEW n \in 0 .. Len(s)
  PROVE  /\ \A i \in 1 .. n : SubSeq(s, 1, n)[i] = s[i]
         /\ \A i \in 1 .. Len(s) - n : SubSeq(s, n + 1, Len(s))[i] = s[n + i]
         /\ Range(SubSeq(s, 1, n)) \subseteq Range(s)
         /\ Range(SubSeq(s, n + 1, Len(s))) \subseteq Range(s)
<1> DEFINE m == Len(s)
           front == SubSeq(s, 1, n)
           rest == SubSeq(s, n + 1, m)
<1>1. m \in Nat /\ (\A i \in 1 .. m : s[i] \in S) /\ DOMAIN s = 1 .. m /\ n \in 0 .. m
  BY LenProperties, ElementOfSeq
<1> HIDE DEF m
<1>2. \A i \in 1 .. n : s[i] \in S
  BY <1>1
<1>3. \A i \in n + 1 .. m : s[i] \in S
  BY <1>1
<1>4. \A i \in 1 .. 1 + n - 1 : front[i] = s[1 + i - 1]
  BY <1>1, <1>2, SubSeqProperties
<1>5. \A i \in 1 .. 1 + m - (n + 1) : rest[i] = s[(n + 1) + i - 1]
  BY <1>1, <1>3, SubSeqProperties
<1>6. \A i \in 1 .. n : front[i] = s[i]
  BY <1>1, <1>4
<1>7. \A i \in 1 .. m - n : rest[i] = s[n + i]
  BY <1>1, <1>5
<1>8. /\ front \in Seq(S) /\ Len(front) = n /\ DOMAIN front = 1 .. n
      /\ rest \in Seq(S) /\ Len(rest) = m - n /\ DOMAIN rest = 1 .. m - n
  BY Cut, LenProperties DEF m
<1> HIDE DEF front, rest
<1>9. Range(front) \subseteq Range(s)
  BY <1>1, <1>6, <1>8 DEF Range
<1>10. Range(rest) \subseteq Range(s)
  <2>1. \A i \in 1 .. m - n : n + i \in 1 .. m
    BY <1>1
  <2> QED BY <1>1, <1>7, <1>8, <2>1 DEF Range
<1> HIDE DEF Range
<1> QED BY <1>6, <1>7, <1>9, <1>10 DEF m, front, rest

\* What moves from the front of a buffer to the back of the one before it.
LEMMA RunMove ==
  ASSUME NEW s \in Seq(Fragments), NEW t \in Seq(Fragments), NEW n \in 0 .. Len(t),
         NEW a \in Nat, IsRun(s, a), IsRun(t, a + Len(s))
  PROVE  LET s2 == s \o SubSeq(t, 1, n)
             t2 == SubSeq(t, n + 1, Len(t))
         IN  /\ Len(s2) = Len(s) + n /\ Len(t2) = Len(t) - n
             /\ IsRun(s2, a) /\ IsRun(t2, a + (Len(s) + n))
<1> DEFINE l == Len(s)
           m == Len(t)
           front == SubSeq(t, 1, n)
           rest == SubSeq(t, n + 1, m)
           s2 == s \o front
<1>1. l \in Nat /\ m \in Nat /\ n \in 0 .. m
  BY LenProperties
<1>2. /\ front \in Seq(Fragments) /\ Len(front) = n
      /\ rest \in Seq(Fragments) /\ Len(rest) = m - n
  BY Cut
<1>3. /\ \A i \in 1 .. n : front[i] = t[i]
      /\ \A i \in 1 .. m - n : rest[i] = t[n + i]
  BY CutElements
<1> HIDE DEF front, rest
<1>4. Len(s2) = l + n /\ \A i \in 1 .. l + n : s2[i] = IF i <= l THEN s[i] ELSE front[i - l]
  BY <1>2, ConcatProperties
<1>5. (\A i \in 1 .. l : s[i] = Fragment(a + i)) /\ (\A i \in 1 .. m : t[i] = Fragment((a + l) + i))
  BY DEF IsRun
<1> HIDE DEF l, m, s2
<1>6. ASSUME NEW i \in 1 .. l + n
      PROVE  s2[i] = Fragment(a + i)
  <2>1. CASE i <= l
    <3>1. i \in 1 .. l
      BY <1>1, <2>1
    <3> QED BY <1>4, <1>5, <2>1, <3>1
  <2>2. CASE ~(i <= l)
    <3>1. i - l \in 1 .. n /\ i - l \in 1 .. m /\ (a + l) + (i - l) = a + i
      BY <1>1, <2>2
    <3> QED BY <1>3, <1>4, <1>5, <2>2, <3>1
  <2> QED BY <2>1, <2>2
<1>7. ASSUME NEW i \in 1 .. m - n
      PROVE  rest[i] = Fragment((a + (l + n)) + i)
  <2>1. n + i \in 1 .. m /\ (a + l) + (n + i) = (a + (l + n)) + i
    BY <1>1
  <2> QED BY <1>3, <1>5, <2>1
<1>8. IsRun(s2, a)
  BY <1>4, <1>6 DEF IsRun
<1>9. IsRun(rest, a + (l + n))
  BY <1>2, <1>7 DEF IsRun
<1> QED BY <1>2, <1>4, <1>8, <1>9 DEF l, m, s2, front, rest

-----------------------------------------------------------------------------
(* The functors.                                                           *)

\* Another functor that does not answer.
LEMMA QueueOther ==
  ASSUME NEW state, NEW p \in Seq(Functors), NEW b \in Seq(Functors), NEW x \in Ends,
         SendsOnce(state, p, b)
  PROVE  SendsOnce(state, Append(p, x), b)
<1> DEFINE n == Len(p)
           q == Append(p, x)
<1>1. x \in Functors /\ x # "send" /\ x # "process"
  BY DEF Ends, Functors, Holders
<1>2. Range(q) = Range(p) \cup {x}
  BY <1>1, RangeAppend
<1>3. n \in Nat /\ Len(q) = n + 1 /\ (\A i \in 1 .. n : q[i] = p[i]) /\ q[n + 1] = x
  BY <1>1, AppendProperties, LenProperties
<1> HIDE DEF n, q
<1>4. Once(q)
  <2>1. ASSUME NEW i \in 1 .. n + 1, q[i] = "send"
        PROVE  i \in 1 .. n /\ p[i] = "send"
    <3>1. i # n + 1
      BY <1>1, <1>3, <2>1
    <3> QED BY <1>3, <2>1, <3>1
  <2>2. \A i, j \in 1 .. n : p[i] = "send" /\ p[j] = "send" => i = j
    BY DEF SendsOnce, Once, n
  <2> QED BY <1>3, <2>1, <2>2 DEF Once
<1> QED BY <1>1, <1>2, <1>4 DEF SendsOnce, q

\* The one functor that answers.
LEMMA QueueSend ==
  ASSUME NEW p \in Seq(Functors), NEW b \in Seq(Functors), NEW state,
         SendsOnce(state, p, b), state # "Writing"
  PROVE  SendsOnce("Writing", Append(p, "send"), b)
<1> DEFINE n == Len(p)
           q == Append(p, "send")
<1>1. "send" \in Functors /\ "send" \notin Range(p) \cup Range(b)
  BY DEF Functors, Holders, SendsOnce
<1>2. Range(q) = Range(p) \cup {"send"}
  BY <1>1, RangeAppend
<1>3. /\ n \in Nat /\ Len(q) = n + 1 /\ (\A i \in 1 .. n : q[i] = p[i]) /\ q[n + 1] = "send"
      /\ DOMAIN p = 1 .. n
  BY <1>1, AppendProperties, LenProperties
<1> HIDE DEF n, q
<1>4. \A i \in 1 .. n : p[i] # "send"
  BY <1>1, <1>3 DEF Range
<1>5. \A i \in 1 .. n + 1 : i \in 1 .. n \/ i = n + 1
  BY <1>3
<1>6. Once(q)
  BY <1>3, <1>4, <1>5 DEF Once
<1> QED BY <1>1, <1>2, <1>6 DEF SendsOnce, q

\* Without such a functor the state is free to change.
LEMMA AnyState ==
  ASSUME NEW state, NEW other, NEW p, NEW b, SendsOnce(state, p, b),
         "send" \notin Range(p) \cup Range(b)
  PROVE  SendsOnce(other, p, b)
  BY DEF SendsOnce

\* The functor that runs was the only one of its kind.
LEMMA RunFirst ==
  ASSUME NEW state, NEW p \in Seq(Functors), NEW b \in Seq(Functors), b # <<>>,
         SendsOnce(state, p, b)
  PROVE  /\ Head(b) # "process"
         /\ SendsOnce(state, p, Tail(b))
         /\ Head(b) = "send" => state = "Writing" /\ "send" \notin Range(p) \cup Range(Tail(b))
<1> DEFINE n == Len(b)
           q == Tail(b)
<1>1. /\ Head(b) \in Functors /\ q \in Seq(Functors) /\ Range(b) = {Head(b)} \cup Range(q)
  BY RangeTail
<1>2. /\ n \in Nat /\ n # 0 /\ Len(q) = n - 1 /\ Head(b) = b[1]
      /\ \A i \in 1 .. Len(q) : q[i] = b[i + 1]
      /\ DOMAIN q = 1 .. Len(q)
  BY <1>1, HeadTailProperties, LenProperties, EmptySeq
<1>3. \A i, j \in 1 .. n : b[i] = "send" /\ b[j] = "send" => i = j
  BY DEF SendsOnce, Once
<1> HIDE DEF n, q
<1>4. \A i \in 1 .. n - 1 : i + 1 \in 1 .. n /\ i + 1 # 1 /\ q[i] = b[i + 1]
  BY <1>2
<1>5. 1 \in 1 .. n
  BY <1>2
<1>6. Once(q)
  <2>1. ASSUME NEW i \in 1 .. n - 1, NEW j \in 1 .. n - 1, q[i] = "send", q[j] = "send"
        PROVE  i = j
    <3>1. i + 1 = j + 1
      BY <1>3, <1>4, <2>1
    <3> QED BY <3>1
  <2> QED BY <1>2, <2>1 DEF Once
<1>7. Head(b) = "send" => "send" \notin Range(q)
  <2>1. SUFFICES ASSUME b[1] = "send", NEW i \in 1 .. n - 1, q[i] = "send" PROVE FALSE
    BY <1>2 DEF Range
  <2> QED BY <1>3, <1>4, <1>5, <2>1
<1> QED BY <1>1, <1>6, <1>7 DEF SendsOnce, q

\* The queue becomes the batch.
LEMMA SwapQueue ==
  ASSUME NEW state, NEW p, SendsOnce(state, p, <<>>)
  PROVE  SendsOnce(state, <<>>, p)
  BY RangeEmpty DEF SendsOnce, Once

-----------------------------------------------------------------------------
(* What the methods leave of the requests and the responses.               *)

\* Nothing but the channel and the functors has changed.
Same(c, d) ==
  /\ d.state = c.state
  /\ d.readBuffer = c.readBuffer
  /\ d.context = c.context
  /\ d.writeBuffer = c.writeBuffer
  /\ d.file = c.file
  /\ d.openFiles = c.openFiles
  /\ d.handled = c.handled
  /\ d.inbound = c.inbound
  /\ d.outbound = c.outbound

\* Which functors are queued and what the channel waits for matters to neither of the two.
LEMMA SameTurned ==
  ASSUME NEW c, NEW d, Same(c, d)
  PROVE  /\ Turned(c) => Turned(d)
         /\ Missing(c) => Missing(d)
<1>1. Done(d) = Done(c) /\ Turn(d) = Turn(c) /\ Emitted(d) = Emitted(c)
  BY DEF Same, Done, Turn, Emitted
<1>2. Lined(c) => Lined(d)
  BY <1>1 DEF Same, Lined
<1>3. Ordered(c) => Ordered(d)
  BY <1>1 DEF Same, Ordered
<1>4. Answering(c) => Answering(d)
  BY <1>1 DEF Same, Answering, Strict, Sourced, FileKept, Ready, Whole
<1>5. Missing(c) => Missing(d)
  BY <1>1 DEF Same, Missing
<1> QED BY <1>2, <1>3, <1>4, <1>5 DEF Turned

\* Same is transitive.
LEMMA SameSame ==
  ASSUME NEW c, NEW d, NEW e, Same(c, d), Same(d, e)
  PROVE  Same(c, e)
  BY DEF Same

\* A functor that is queued leaves the rest of the connection as it was.
LEMMA QueueSame ==
  ASSUME NEW c \in ConnType, NEW functor
  PROVE  LET d == QueueInLoop(c, functor)
         IN  Same(c, d) /\ d.interest = c.interest /\ d.pending = Append(c.pending, functor)
  BY DEF QueueInLoop, Same, ConnType

\* So does another interest in events.
LEMMA UpdateSame ==
  ASSUME NEW c \in ConnType, NEW interest
  PROVE  LET d == UpdateChannel([c EXCEPT !.interest = interest])
         IN  Same(c, d) /\ d.interest = interest /\ d.pending = c.pending
  BY DEF UpdateChannel, Same, ConnType

\* A file is counted until it is closed.
LEMMA CloseFileTurned ==
  ASSUME NEW c \in ConnType, Kept(c), Turned(c)
  PROVE  LET d == CloseFile(c)
         IN  /\ Turned(d)
             /\ d.state = c.state /\ d.context = c.context /\ d.readBuffer = c.readBuffer
             /\ d.inbound = c.inbound /\ d.handled = c.handled /\ d.outbound = c.outbound
             /\ d.writeBuffer = c.writeBuffer /\ d.file = NoFile
             /\ d.interest = c.interest /\ d.pending = c.pending
<1> DEFINE n == IF c.file = NoFile THEN c.openFiles ELSE c.openFiles - 1
           d == [c EXCEPT !.file = NoFile, !.openFiles = n]
<1>1. c.openFiles \in Nat
  BY DEF ConnType
<1>2. d = CloseFile(c)
  BY DEF CloseFile
<1> HIDE DEF n
<1>3. /\ d.state = c.state /\ d.context = c.context /\ d.readBuffer = c.readBuffer
      /\ d.inbound = c.inbound /\ d.handled = c.handled /\ d.outbound = c.outbound
      /\ d.writeBuffer = c.writeBuffer /\ d.file = NoFile /\ d.openFiles = n
      /\ d.interest = c.interest /\ d.pending = c.pending
  BY DEF ConnType
<1> HIDE DEF d
<1>4. Done(d) = Done(c) /\ Turn(d) = Turn(c) /\ Emitted(d) = Emitted(c)
  BY <1>3 DEF Done, Turn, Emitted
<1>5. Lined(d)
  BY <1>3, <1>4 DEF Turned, Lined
<1>6. Ordered(d)
  BY <1>3, <1>4 DEF Turned, Ordered
<1>7. ~overlapped => FileKept(d)
  <2>1. ~overlapped => FileKept(c)
    BY DEF Turned, Answering
  <2>2. FileKept(c) => n = 0
    BY DEF FileKept, n
  <2> QED BY <1>3, <2>1, <2>2 DEF FileKept
<1>8. ~overlapped => Strict(d) /\ Sourced(d)
  BY <1>3, <1>4 DEF Turned, Answering, Strict, Sourced
<1>9. ~overlapped => (d.state = "Writing" => Whole(d)) /\ (d.state = "Connected" => Ready(d))
  BY <1>3, <1>4 DEF Turned, Answering, Whole, Ready
<1> QED BY <1>2, <1>3, <1>5, <1>6, <1>7, <1>8, <1>9 DEF Turned, Answering

\* A send moves units from writeBuffer_ to the socket: none is added, and the last one
\* of a response is the last to go.
LEMMA WriteTurned ==
  ASSUME NEW c \in ConnType, Kept(c), Turned(c), ~overlapped => c.state # "Connected"
  PROVE  LET w == Write(c)
             d == w.c
         IN  /\ Turned(d)
             /\ d.state = c.state /\ d.file = c.file
             /\ d.interest = c.interest /\ d.pending = c.pending
             /\ w.result = "again" => d.writeBuffer # <<>>
             /\ w.result = "complete" => d.writeBuffer = <<>>
             /\ w.result = "error" => peer = "gone"
             /\ w.result \in {"complete", "again", "error"}
             /\ Missing(c) /\ peer # "gone" /\ (d.writeBuffer # <<>> \/ d.file # NoFile)
                  => Missing(d)
<1> DEFINE room  == SockCap - Len(c.outbound)
           size  == Len(c.writeBuffer)
           n     == IF size <= room THEN size ELSE room
           front == SubSeq(c.writeBuffer, 1, n)
           out   == c.outbound \o front
           rest  == SubSeq(c.writeBuffer, n + 1, size)
           d     == [c EXCEPT !.outbound = out, !.writeBuffer = rest]
<1>1. c.outbound \in Seq(UnitsOf) /\ c.writeBuffer \in Seq(UnitsOf) /\ SockCap \in Nat
  BY BoundAssumption DEF ConnType, UnitsOf
<1>2. Len(c.outbound) \in Nat /\ size \in Nat
  BY <1>1, LenProperties
<1>3. n \in 0 .. size /\ n \in Nat
  <2>1. room \in Nat
    BY <1>1, <1>2 DEF Kept
  <2> HIDE DEF room, size
  <2> QED BY <1>2, <2>1
<1>4. Write(c) = IF peer = "gone" /\ c.writeBuffer # <<>> THEN [c |-> c, result |-> "error"]
                 ELSE [c |-> d, result |-> IF n = size THEN "complete" ELSE "again"]
  BY DEF Write, out, rest, n, front
<1> HIDE DEF n
<1>5. /\ front \in Seq(UnitsOf) /\ Len(front) = n
      /\ rest \in Seq(UnitsOf) /\ Len(rest) = size - n
      /\ \A i \in 1 .. n : front[i] = c.writeBuffer[i]
      /\ \A i \in 1 .. size - n : rest[i] = c.writeBuffer[n + i]
      /\ Range(front) \subseteq Range(c.writeBuffer)
      /\ Range(rest) \subseteq Range(c.writeBuffer)
  BY <1>1, <1>3, Cut, CutElements
<1>6. \A u \in Range(front) : \E i \in 1 .. n : u = c.writeBuffer[i]
  <2>1. DOMAIN front = 1 .. n
    BY <1>5, LenProperties
  <2> QED BY <1>5, <2>1 DEF Range
<1>7. n # size => rest # <<>>
  <2>1. Len(rest) = 0 => n = size
    <3> HIDE DEF size, rest
    <3> QED BY <1>2, <1>3, <1>5
  <2>2. rest = <<>> => Len(rest) = 0
    <3> HIDE DEF rest
    <3> QED OBVIOUS
  <2> QED BY <2>1, <2>2
<1>8. n = size => rest = <<>>
  BY <1>2, <1>5, EmptySeq
<1> HIDE DEF front, rest
<1>9. Range(out) = Range(c.outbound) \cup Range(front)
  BY <1>1, <1>5, RangeConcat
<1> HIDE DEF out
<1>10. /\ d.state = c.state /\ d.context = c.context /\ d.readBuffer = c.readBuffer
       /\ d.inbound = c.inbound /\ d.handled = c.handled /\ d.outbound = out
       /\ d.writeBuffer = rest /\ d.file = c.file /\ d.openFiles = c.openFiles
       /\ d.interest = c.interest /\ d.pending = c.pending
  BY DEF ConnType
<1> HIDE DEF d
<1>11. Done(d) = Done(c) /\ Turn(d) = Turn(c) /\ Emitted(d) = Emitted(c) \cup Range(front)
  BY <1>9, <1>10 DEF Done, Turn, Emitted
<1>12. Turned(d)
  <2>1. Lined(d) /\ Ordered(d)
    BY <1>10, <1>11 DEF Turned, Lined, Ordered
  <2>2. ~overlapped => Sourced(d)
    BY <1>5, <1>10, <1>11 DEF Turned, Answering, Sourced
  <2>3. ~overlapped => Strict(d) /\ FileKept(d)
    BY <1>10, <1>11 DEF Turned, Answering, Strict, FileKept
  <2>4. ~overlapped => (d.state = "Writing" => Whole(d)) /\ d.state # "Connected"
    BY <1>10, <1>11 DEF Turned, Answering, Whole
  <2> QED BY <2>1, <2>2, <2>3, <2>4 DEF Turned, Answering
<1>13. ASSUME Missing(c), d.writeBuffer # <<>> \/ d.file # NoFile
       PROVE  Missing(d)
  <2> DEFINE last == LastUnit(Turn(c))
  <2>1. /\ Turn(c) \in Requests /\ Units(kind[Turn(c)]) # 0 /\ last \notin Emitted(c)
        /\ \A i \in 1 .. size - 1 : c.writeBuffer[i] # last
        /\ IF c.file = NoFile THEN c.writeBuffer # <<>>
           ELSE /\ kind[Turn(c)] = "file" /\ c.file.left > 0
                /\ last \notin Range(c.writeBuffer)
    BY <1>13 DEF Missing
  <2> HIDE DEF last, size
  <2>2. last \notin Range(front)
    <3>1. CASE c.file = NoFile
      <4>1. n # size
        BY <1>8, <1>10, <1>13, <3>1
      <4>2. \A i \in 1 .. n : i \in 1 .. size - 1
        BY <1>2, <1>3, <4>1
      <4> QED BY <1>6, <2>1, <4>2
    <3>2. CASE c.file # NoFile
      BY <1>5, <2>1, <3>2
    <3> QED BY <3>1, <3>2
  <2>3. \A i \in 1 .. Len(d.writeBuffer) - 1 : d.writeBuffer[i] # last
    <3>1. \A i \in 1 .. (size - n) - 1 : i \in 1 .. size - n /\ n + i \in 1 .. size - 1
      BY <1>2, <1>3
    <3>2. Len(d.writeBuffer) = size - n /\ d.writeBuffer = rest
      BY <1>5, <1>10
    <3>3. SUFFICES ASSUME NEW i \in 1 .. (size - n) - 1 PROVE rest[i] # last
      BY <3>2
    <3> QED BY <1>5, <2>1, <3>1
  <2>4. last \notin Emitted(d)
    BY <1>11, <2>1, <2>2
  <2>5. IF d.file = NoFile THEN d.writeBuffer # <<>>
        ELSE kind[Turn(c)] = "file" /\ d.file.left > 0 /\ last \notin Range(d.writeBuffer)
    BY <1>5, <1>10, <1>13, <2>1
  <2> QED BY <1>11, <2>1, <2>3, <2>4, <2>5 DEF Missing, last
<1>14. CASE peer = "gone" /\ c.writeBuffer # <<>>
  <2> HIDE DEF size
  <2>1. Write(c).c = c /\ Write(c).result = "error"
    BY <1>4, <1>14
  <2> QED BY <1>14, <2>1
<1>15. CASE ~(peer = "gone" /\ c.writeBuffer # <<>>)
  <2> HIDE DEF size
  <2>1. Write(c).c = d /\ Write(c).result = IF n = size THEN "complete" ELSE "again"
    BY <1>4, <1>15
  <2> QED BY <1>7, <1>8, <1>10, <1>12, <1>13, <2>1
<1> QED BY <1>14, <1>15

\* sendfile sends of the body what the socket has room for, and the last unit only when
\* it is through with the file.
LEMMA SendFileTurned ==
  ASSUME NEW c \in ConnType, Kept(c), Turned(c), ~overlapped => c.state # "Connected",
         c.file # NoFile
  PROVE  LET f == SendFile(c)
             d == f.c
         IN  /\ Turned(d)
             /\ d.state = c.state /\ d.interest = c.interest /\ d.pending = c.pending
             /\ f.result = "error" => peer = "gone"
             /\ f.result \in {"complete", "again", "error"}
             /\ Missing(c) /\ f.result = "again" => Missing(d)
<1> DEFINE room == SockCap - Len(c.outbound)
           left == c.file.left
           n    == IF left <= room THEN left ELSE room
           body == [i \in 1 .. n |-> <<c.file.req, 1 + i>>]
           out  == c.outbound \o body
           file == [c.file EXCEPT !.left = left - n]
           d    == [c EXCEPT !.outbound = out, !.file = file]
<1>1. c.outbound \in Seq(UnitsOf) /\ SockCap \in Nat
  BY BoundAssumption DEF ConnType, UnitsOf
<1>2. Len(c.outbound) \in Nat
  BY <1>1, LenProperties
<1>3. c.file \in [req : 0 .. MaxRequests, left : 0 .. BodyLen] /\ BodyLen = 2
  BY DEF ConnType, BodyLen
<1>4. n \in 0 .. left /\ left - n \in 0 .. 2 /\ n <= 2 /\ n \in Nat /\ left \in 0 .. 2
  BY <1>1, <1>2, <1>3 DEF Kept
<1>5. SendFile(c) = IF peer = "gone" /\ left > 0 THEN [c |-> CloseFile(c), result |-> "error"]
                    ELSE IF n < left THEN [c |-> d, result |-> "again"]
                    ELSE [c |-> CloseFile(d), result |-> "complete"]
  BY DEF SendFile, out, file, body, n
<1> HIDE DEF n
<1>6. body \in Seq(UnitsOf) /\ DOMAIN body = 1 .. n
  <2>1. \A i \in 1 .. n : <<c.file.req, 1 + i>> \in UnitsOf
    BY <1>3, <1>4 DEF Kept, UnitsOf
  <2>2. body \in [1 .. n -> UnitsOf]
    BY <2>1
  <2> HIDE DEF body
  <2> QED BY <1>4, <2>2
<1>7. \A u \in Range(body) : \E i \in 1 .. n : u = <<c.file.req, 1 + i>>
  BY <1>6 DEF Range
<1> HIDE DEF body
<1>8. Range(out) = Range(c.outbound) \cup Range(body)
  BY <1>1, <1>6, RangeConcat
<1>9. /\ file \in [req : 0 .. MaxRequests, left : 0 .. BodyLen]
      /\ file.req = c.file.req /\ file.left = left - n
  BY <1>3, <1>4
<1> HIDE DEF out, file
<1>10. /\ d.state = c.state /\ d.context = c.context /\ d.readBuffer = c.readBuffer
       /\ d.inbound = c.inbound /\ d.handled = c.handled /\ d.outbound = out
       /\ d.writeBuffer = c.writeBuffer /\ d.file = file /\ d.openFiles = c.openFiles
       /\ d.interest = c.interest /\ d.pending = c.pending
  BY DEF ConnType
<1> HIDE DEF d
<1>11. Done(d) = Done(c) /\ Turn(d) = Turn(c) /\ Emitted(d) = Emitted(c) \cup Range(body)
  BY <1>8, <1>10 DEF Done, Turn, Emitted
<1>12. file # NoFile
  <2>1. c.file.req # 0
    BY BoundAssumption DEF Kept, Requests
  <2> QED BY <1>9, <2>1 DEF NoFile
<1>13. Turned(d)
  <2>1. Lined(d) /\ Ordered(d)
    BY <1>10, <1>11 DEF Turned, Lined, Ordered
  <2>2. \A u \in Range(body) : u[1] = c.file.req
    BY <1>7
  <2>3. ~overlapped => Sourced(d)
    BY <1>9, <1>10, <1>11, <1>12, <2>2 DEF Turned, Answering, Sourced
  <2>4. ~overlapped => Strict(d) /\ FileKept(d)
    BY <1>10, <1>11, <1>12 DEF Turned, Answering, Strict, FileKept
  <2>5. ~overlapped => (d.state = "Writing" => Whole(d)) /\ d.state # "Connected"
    BY <1>10, <1>11 DEF Turned, Answering, Whole
  <2> QED BY <2>1, <2>3, <2>4, <2>5 DEF Turned, Answering
<1>14. ASSUME Missing(c), n < left
       PROVE  Missing(d)
  <2> DEFINE last == LastUnit(Turn(c))
  <2>1. /\ Turn(c) \in Requests /\ Units(kind[Turn(c)]) # 0 /\ last \notin Emitted(c)
        /\ \A i \in 1 .. Len(c.writeBuffer) - 1 : c.writeBuffer[i] # last
        /\ kind[Turn(c)] = "file" /\ last \notin Range(c.writeBuffer)
    BY <1>14 DEF Missing
  <2>2. last = <<Turn(c), 3>>
    BY <2>1 DEF LastUnit, Units, BodyLen
  <2>3. last \notin Range(body)
    <3>1. \A i \in 1 .. n : 1 + i # 3
      BY <1>4, <1>14
    <3>2. \A i \in 1 .. n : <<c.file.req, 1 + i>> # last
      BY <2>2, <3>1
    <3> QED BY <1>7, <3>2
  <2>4. d.file.left > 0
    BY <1>4, <1>9, <1>10, <1>14
  <2> HIDE DEF last
  <2> QED BY <1>10, <1>11, <1>12, <2>1, <2>3, <2>4 DEF Missing, last
<1>15. d \in ConnType /\ Kept(d)
  <2>1. d \in ConnType
    <3>1. out \in Seq(UnitsOf)
      BY <1>1, <1>6, ConcatProperties DEF out
    <3> QED BY <1>9, <3>1 DEF ConnType, UnitsOf, d
  <2>2. Len(d.outbound) <= SockCap
    <3>1. Len(body) = n
      BY <1>4, <1>6, LenProperties
    <3>2. Len(out) = Len(c.outbound) + Len(body)
      BY <1>1, <1>6, ConcatProperties DEF out
    <3>3. n <= room
      BY <1>1, <1>2, <1>3 DEF n
    <3> QED BY <1>1, <1>2, <1>4, <1>10, <3>1, <3>2, <3>3
  <2> QED BY <1>9, <1>10, <2>1, <2>2 DEF Kept
<1>16. CASE peer = "gone" /\ left > 0
  <2>1. SendFile(c).c = CloseFile(c) /\ SendFile(c).result = "error"
    BY <1>5, <1>16
  <2> QED BY <1>16, <2>1, CloseFileTurned
<1>17. CASE ~(peer = "gone" /\ left > 0) /\ n < left
  <2>1. SendFile(c).c = d /\ SendFile(c).result = "again"
    BY <1>5, <1>17
  <2> QED BY <1>10, <1>13, <1>14, <1>17, <2>1
<1>18. CASE ~(peer = "gone" /\ left > 0) /\ ~(n < left)
  <2>1. SendFile(c).c = CloseFile(d) /\ SendFile(c).result = "complete"
    BY <1>5, <1>18
  <2>2. ~overlapped => d.state # "Connected"
    BY <1>10
  <2> QED BY <1>10, <1>13, <1>15, <2>1, <2>2, CloseFileTurned
<1> QED BY <1>16, <1>17, <1>18

\* What is handled are numbers of requests.
LEMMA HandledNat ==
  ASSUME NEW s \in Seq(Requests)
  PROVE  \A i \in 1 .. Len(s) : s[i] \in Requests /\ s[i] \in Nat
<1>1. \A i \in 1 .. Len(s) : s[i] \in Requests
  BY ElementOfSeq
<1>2. \A r \in Requests : r \in Nat
  BY BoundAssumption DEF Requests
<1> QED BY <1>1, <1>2

\* The next request has its turn: the fragments of the one answered are done with, and
\* if the client has waited there is no other to process yet.
LEMMA OnResponseFinishedTurned ==
  ASSUME NEW c \in ConnType, Kept(c), Turned(c), ~overlapped => c.state = "Writing"
  PROVE  LET d == OnResponseFinished(c)
         IN  /\ Turned(d)
             /\ d.state # "Writing"
             /\ ~overlapped => d.pending = c.pending
             /\ "out" \notin c.interest => "out" \notin d.interest
<1>1. CASE ~IsKeepAlive(c)
  <2> DEFINE d == [c EXCEPT !.state = "Closed"]
  <2>1. OnResponseFinished(c) = d
    BY <1>1 DEF OnResponseFinished
  <2>2. /\ d.state = "Closed" /\ d.context = c.context /\ d.readBuffer = c.readBuffer
        /\ d.inbound = c.inbound /\ d.handled = c.handled /\ d.outbound = c.outbound
        /\ d.writeBuffer = c.writeBuffer /\ d.file = c.file /\ d.openFiles = c.openFiles
        /\ d.interest = c.interest /\ d.pending = c.pending
    BY DEF ConnType
  <2> HIDE DEF d
  <2>3. Done(d) = Done(c) /\ Turn(d) = Turn(c) /\ Emitted(d) = Emitted(c)
    BY <2>2 DEF Done, Turn, Emitted
  <2>4. Lined(d) /\ Ordered(d)
    BY <2>2, <2>3 DEF Turned, Lined, Ordered
  <2>5. ~overlapped => Strict(d) /\ Sourced(d) /\ FileKept(d)
    BY <2>2, <2>3 DEF Turned, Answering, Strict, Sourced, FileKept
  <2> QED BY <2>1, <2>2, <2>4, <2>5 DEF Turned, Answering
<1>2. CASE IsKeepAlive(c)
  <2> DEFINE b == CloseFile(c)
             f == [b EXCEPT !.context = <<>>, !.writeBuffer = <<>>, !.state = "Connected"]
             e == EnableReadEvent(f)
  <2>1. /\ Turned(b)
        /\ b.state = c.state /\ b.context = c.context /\ b.readBuffer = c.readBuffer
        /\ b.inbound = c.inbound /\ b.handled = c.handled /\ b.outbound = c.outbound
        /\ b.file = NoFile
        /\ b.interest = c.interest /\ b.pending = c.pending
    BY CloseFileTurned
  <2>2. b \in ConnType
    BY CloseFileDoes DEF Sends
  <2>3. OnResponseFinished(c) = IF e.readBuffer # <<>> THEN QueueInLoop(e, "process") ELSE e
    BY <1>2 DEF OnResponseFinished, ResetForNextRequest, HasPendingRequest, e, f, b
  <2> HIDE DEF b
  <2>4. /\ f.state = "Connected" /\ f.context = <<>> /\ f.readBuffer = b.readBuffer
        /\ f.inbound = b.inbound /\ f.handled = b.handled /\ f.outbound = b.outbound
        /\ f.writeBuffer = <<>> /\ f.file = b.file /\ f.openFiles = b.openFiles
        /\ f.interest = b.interest /\ f.pending = b.pending
    BY <2>2 DEF ConnType
  <2>5. f \in ConnType
    <3>1. <<>> \in Seq(Fragments) /\ <<>> \in Seq(UnitsOf)
      BY EmptySeq
    <3>2. b \in [ state : {"Connected", "Processing", "Writing", "Closed"},
                  readBuffer : Seq(Fragments), context : Seq(Fragments),
                  writeBuffer : Seq(UnitsOf),
                  file : [req : 0 .. MaxRequests, left : 0 .. BodyLen], openFiles : Nat,
                  handled : Seq(Requests), inbound : Seq(Fragments), outbound : Seq(UnitsOf),
                  interest : {{"in"}, {"in", "out"}}, edge : BOOLEAN,
                  pending : Seq(Functors) ]
      BY <2>2 DEF ConnType, Fragments, UnitsOf
    <3> QED BY ZenonT(40), <3>1, <3>2 DEF ConnType, Fragments, UnitsOf
  <2> HIDE DEF f
  <2> DEFINE l == Len(b.context)
             m == Len(b.readBuffer)
             n == Len(b.inbound)
  <2>6. l \in Nat /\ m \in Nat /\ n \in Nat /\ (m = 0 => b.readBuffer = <<>>)
    <3>1. b.context \in Seq(Fragments) /\ b.readBuffer \in Seq(Fragments) /\ b.inbound \in Seq(Fragments)
      BY <2>2 DEF ConnType, Fragments
    <3> QED BY <3>1, LenProperties, EmptySeq
  <2>7. /\ Done(b) = sent - ((n + m) + l) /\ Done(f) = sent - ((n + m) + 0)
        /\ Done(b) \in Nat
        /\ IsRun(b.readBuffer, Done(b) + l) /\ IsRun(b.inbound, (Done(b) + l) + m)
    BY <2>1, <2>4 DEF Done, Turned, Lined
  <2>8. sent \in Nat
    BY DEF Turned, Lined
  <2>9. Done(f) = Done(b) + l /\ Done(f) \in Nat
    <3> HIDE DEF l, m, n
    <3> QED BY <2>6, <2>7, <2>8
  <2>10. Lined(f)
    <3>1. Len(f.context) = 0 /\ Len(f.readBuffer) = m
      BY <2>4
    <3>2. IsRun(f.context, Done(f))
      BY <3>1 DEF IsRun
    <3>3. Done(f) + 0 = Done(b) + l /\ (Done(f) + 0) + m = (Done(b) + l) + m
      BY <2>9
    <3>4. IsRun(f.readBuffer, Done(f) + 0) /\ IsRun(f.inbound, (Done(f) + 0) + m)
      BY <2>4, <2>7, <3>3
    <3> HIDE DEF m
    <3> QED BY <2>8, <2>9, <3>1, <3>2, <3>4 DEF Lined
  <2>11. /\ Turn(b) \in Nat /\ Turn(f) \in Nat /\ Turn(b) <= Turn(f)
         /\ l = 2 => Turn(f) = Turn(b) + 1 /\ (Done(b) % 2 = 0 => Done(f) % 2 = 0)
    <3> HIDE DEF l
    <3> DEFINE p == Done(b)
               q == Done(f)
    <3>1. p \in Nat /\ q = p + l
      BY <2>7, <2>9
    <3> HIDE DEF p, q
    <3>2. /\ (p \div 2) + 1 \in Nat /\ (q \div 2) + 1 \in Nat /\ (p \div 2) + 1 <= (q \div 2) + 1
          /\ l = 2 => (q \div 2) + 1 = ((p \div 2) + 1) + 1 /\ ((p % 2) = 0 => (q % 2) = 0)
      BY <2>6, <3>1
    <3> QED BY <3>2 DEF Turn, Parts, p, q
  <2>12. Ordered(f)
    <3>1. b.handled \in Seq(Requests)
      BY <2>2 DEF ConnType
    <3>2. \A i \in 1 .. Len(b.handled) : b.handled[i] \in Nat
      BY <3>1, HandledNat
    <3>3. Ordered(b)
      BY <2>1 DEF Turned
    <3> QED BY <2>4, <2>11, <3>2, <3>3 DEF Ordered
  <2>13. ASSUME ~overlapped
         PROVE  Answering(f) /\ f.readBuffer = <<>>
    <3>1. Answering(b) /\ Whole(b) /\ b.state = "Writing"
      BY <2>1, <2>13 DEF Turned, Answering
    <3>2. l = 2 /\ Done(b) % 2 = 0 /\ sent = Done(b) + 2
      BY <3>1 DEF Whole, Parts
    <3>3. m = 0
      <4> DEFINE p == Done(b)
      <4>1. p \in Nat /\ p = sent - ((n + m) + l) /\ sent = p + 2
        BY <2>7, <3>2
      <4> HIDE DEF l, m, n, p
      <4> QED BY <2>6, <2>8, <3>2, <4>1
    <3>4. Emitted(f) = Emitted(b) /\ f.readBuffer = <<>>
      BY <2>4, <2>6, <3>3 DEF Emitted
    <3>5. Strict(f) /\ FileKept(f)
      BY <2>4, <3>1 DEF Answering, Strict, FileKept
    <3>6. Sourced(f)
      BY <2>1, <2>4, <3>1, <3>4, RangeEmpty DEF Answering, Sourced
    <3>7. Ready(f)
      <4>1. b.handled \in Seq(Requests)
        BY <2>2 DEF ConnType
      <4>2. \A i \in 1 .. Len(b.handled) : b.handled[i] \in Nat
        BY <4>1, HandledNat
      <4>3. \A i \in 1 .. Len(b.handled) : b.handled[i] <= Turn(b)
        BY <2>1 DEF Turned, Ordered
      <4>4. \A i \in 1 .. Len(b.handled) : b.handled[i] < Turn(f)
        BY <2>11, <3>2, <4>2, <4>3
      <4> QED BY <2>1, <2>4, <2>11, <3>2, <4>4 DEF Ready, Parts
    <3> QED BY <2>4, <3>4, <3>5, <3>6, <3>7 DEF Answering
  <2>14. Turned(f)
    BY <2>10, <2>12, <2>13 DEF Turned
  <2>15. Same(f, e) /\ e.interest = f.interest \cup {"in"} /\ e.pending = f.pending
    BY <2>5, UpdateSame DEF EnableReadEvent
  <2>16. e \in ConnType
    <3>1. Kept(f)
      <4>1. Kept(b)
        BY CloseFileDoes DEF Sends, b
      <4> QED BY <2>1, <2>4, <4>1 DEF Kept, Parts
    <3>2. f.interest \cup {"in"} \in {{"in"}, {"in", "out"}}
      BY <2>5 DEF ConnType
    <3> QED BY <2>5, <3>1, <3>2, InterestDoes DEF Sends, EnableReadEvent
  <2> HIDE DEF e
  <2>17. Turned(e) /\ e.state = "Connected"
    BY <2>4, <2>14, <2>15, SameTurned DEF Same
  <2>18. "out" \notin c.interest => "out" \notin e.interest
    BY <2>1, <2>4, <2>15
  <2>19. e.pending = c.pending
    BY <2>1, <2>4, <2>15
  <2>20. CASE e.readBuffer # <<>>
    <3> DEFINE d == QueueInLoop(e, "process")
    <3>1. Same(e, d) /\ d.interest = e.interest
      BY <2>16, QueueSame
    <3>2. overlapped
      BY <2>13, <2>15, <2>20 DEF Same
    <3>3. OnResponseFinished(c) = d
      BY <2>3, <2>20
    <3> HIDE DEF d
    <3>4. Turned(d) /\ d.state = "Connected"
      BY <2>17, <3>1, SameTurned DEF Same
    <3> QED BY <2>18, <3>1, <3>2, <3>3, <3>4
  <2>21. CASE e.readBuffer = <<>>
    BY <2>3, <2>17, <2>18, <2>19, <2>21
  <2> QED BY <2>20, <2>21
<1> QED BY <1>1, <1>2

\* What a method that answers leaves, if the client has waited: no functor but the one
\* that ends the connection, and the last unit of the response still to go unless the
\* response is finished.
Answers(c, d) ==
  /\ Turned(d)
  /\ ~overlapped =>
       /\ d.pending \in {c.pending, Append(c.pending, "close")}
       /\ Missing(c) /\ peer # "gone" /\ d.state = "Writing" => Missing(d)

\* EPOLLOUT is asked for, and nothing else changes.
LEMMA EnableWriteEventSame ==
  ASSUME NEW c \in ConnType
  PROVE  Same(c, EnableWriteEvent(c)) /\ EnableWriteEvent(c).pending = c.pending
<1>1. EnableWriteEvent(c) = UpdateChannel([c EXCEPT !.interest = c.interest \cup {"out"}])
  BY DEF EnableWriteEvent
<1> QED BY <1>1, UpdateSame

\* EPOLLOUT is given up, and nothing else changes.
LEMMA DisableWriteEventSame ==
  ASSUME NEW c \in ConnType
  PROVE  LET d == DisableWriteEvent(c)
         IN  Same(c, d) /\ d.pending = c.pending /\ "out" \notin d.interest
<1>1. DisableWriteEvent(c) = UpdateChannel([c EXCEPT !.interest = c.interest \ {"out"}])
  BY DEF DisableWriteEvent
<1> QED BY <1>1, UpdateSame

\* A response that is finished.
LEMMA FinishedAnswers ==
  ASSUME NEW c \in ConnType, Kept(c), Turned(c), ~overlapped => c.state = "Writing"
  PROVE  LET d == HandleWriteResult(c, "complete")
         IN  /\ Answers(c, d) /\ d.state # "Writing"
             /\ "out" \notin c.interest => "out" \notin d.interest
<1>1. HandleWriteResult(c, "complete") = OnResponseFinished(c)
  BY DEF HandleWriteResult
<1> QED BY <1>1, OnResponseFinishedTurned DEF Answers

\* A response that is not, or a connection that is broken.
LEMMA UnfinishedAnswers ==
  ASSUME NEW c \in ConnType, Turned(c), NEW result \in {"again", "error"}
  PROVE  LET d == HandleWriteResult(c, result)
         IN  Answers(c, d) /\ Same(c, d)
<1>1. CASE result = "again"
  <2> DEFINE d == EnableWriteEvent(c)
  <2>1. Same(c, d) /\ d.pending = c.pending
    BY EnableWriteEventSame
  <2>2. HandleWriteResult(c, result) = d
    BY <1>1 DEF HandleWriteResult
  <2> HIDE DEF d
  <2> QED BY <2>1, <2>2, SameTurned DEF Answers
<1>2. CASE result = "error"
  <2> DEFINE d == QueueInLoop(c, "close")
  <2>1. Same(c, d) /\ d.pending = Append(c.pending, "close")
    BY QueueSame
  <2>2. HandleWriteResult(c, result) = d
    BY <1>2 DEF HandleWriteResult, HandleClose
  <2> HIDE DEF d
  <2> QED BY <2>1, <2>2, SameTurned DEF Answers
<1> QED BY <1>1, <1>2

\* TrySend: the header, or the whole response.
LEMMA TrySendAnswers ==
  ASSUME NEW c \in ConnType, Kept(c), Turned(c), ~overlapped => c.state = "Writing"
  PROVE  LET d == TrySend(c)
         IN  /\ Answers(c, d)
             /\ d.state # "Writing" /\ ~overlapped /\ "out" \notin c.interest
                  => "out" \notin d.interest
<1> DEFINE b == Write(c).c
           result == Write(c).result
           d == HandleWriteResult(b, result)
<1>1. /\ Turned(b) /\ b.state = c.state /\ b.interest = c.interest /\ b.pending = c.pending
      /\ result = "again" => b.writeBuffer # <<>>
      /\ result = "error" => peer = "gone"
      /\ result \in {"complete", "again", "error"}
      /\ Missing(c) /\ peer # "gone" /\ b.writeBuffer # <<>> => Missing(b)
  BY WriteTurned
<1>2. b \in ConnType /\ Kept(b)
  BY WriteDoes DEF Sends
<1>3. TrySend(c) = d
  BY DEF TrySend
<1> HIDE DEF b, result
<1>4. CASE result = "complete"
  <2>1. Answers(b, d) /\ d.state # "Writing"
        /\ ("out" \notin b.interest => "out" \notin d.interest)
    BY <1>1, <1>2, <1>4, FinishedAnswers
  <2> HIDE DEF d
  <2> QED BY <1>1, <1>3, <2>1 DEF Answers
<1>5. CASE result # "complete"
  <2>1. Answers(b, d) /\ Same(b, d)
    BY <1>1, <1>2, <1>5, UnfinishedAnswers
  <2> HIDE DEF d
  <2>2. ~overlapped => d.state = "Writing"
    BY <1>1, <2>1 DEF Same
  <2> QED BY <1>1, <1>3, <1>5, <2>1, <2>2 DEF Answers
<1> QED BY <1>4, <1>5

\* HandleWrite: the rest of the header, then the file.
LEMMA WrittenAnswers ==
  ASSUME NEW c \in ConnType, Kept(c), Turned(c), ~overlapped => c.state = "Writing"
  PROVE  LET d == Written(c)
         IN  /\ Answers(c, d)
             /\ d.state # "Writing" /\ ~overlapped => "out" \notin d.interest
<1> DEFINE b == Write(c).c
           result == Write(c).result
           g == SendFile(b).c
           outcome == SendFile(b).result
           d == Written(c)
<1>1. /\ Turned(b) /\ b.state = c.state /\ b.file = c.file /\ b.pending = c.pending
      /\ result \in {"complete", "again", "error"}
      /\ result = "error" => peer = "gone"
      /\ Missing(c) /\ peer # "gone" /\ (b.writeBuffer # <<>> \/ b.file # NoFile) => Missing(b)
  BY WriteTurned
<1>2. b \in ConnType /\ Kept(b)
  BY WriteDoes DEF Sends
<1>3. d = IF b.writeBuffer # <<>> THEN HandleWriteResult(EnableWriteEvent(b), result)
          ELSE IF b.file = NoFile THEN HandleWriteResult(DisableWriteEvent(b), "complete")
          ELSE IF outcome = "again" THEN EnableWriteEvent(g)
          ELSE IF outcome = "error" THEN HandleWriteResult(g, "error")
          ELSE HandleWriteResult(DisableWriteEvent(g), "complete")
  BY DEF Written
<1>4. b.file # NoFile =>
        /\ Turned(g) /\ g.state = b.state /\ g.pending = b.pending
        /\ outcome = "error" => peer = "gone"
        /\ outcome \in {"complete", "again", "error"}
        /\ Missing(b) /\ outcome = "again" => Missing(g)
        /\ g \in ConnType /\ Kept(g)
  BY <1>1, <1>2, SendFileTurned, SendFileDoes DEF Sends
<1>5. result = "complete" => b.writeBuffer = <<>>
  BY WriteTurned
<1> SUFFICES Answers(c, d) /\ (d.state # "Writing" /\ ~overlapped => "out" \notin d.interest)
  OBVIOUS
<1> HIDE DEF b, result, g, outcome, d
<1>6. ASSUME NEW e \in ConnType, Kept(e), Turned(e), ~overlapped => e.state = "Writing",
             ~overlapped => e.pending = c.pending,
             d = HandleWriteResult(DisableWriteEvent(e), "complete")
      PROVE  Answers(c, d) /\ (d.state # "Writing" /\ ~overlapped => "out" \notin d.interest)
  <2> DEFINE f == DisableWriteEvent(e)
  <2>1. Same(e, f) /\ f.pending = e.pending /\ "out" \notin f.interest
    BY <1>6, DisableWriteEventSame
  <2>2. f \in ConnType /\ Kept(f)
    BY <1>6, DisableWriteEventDoes DEF Sends
  <2> HIDE DEF f
  <2>3. Turned(f) /\ (~overlapped => f.state = "Writing")
    BY <1>6, <2>1, SameTurned DEF Same
  <2>4. Answers(f, d) /\ d.state # "Writing" /\ "out" \notin d.interest
    BY <1>6, <2>1, <2>2, <2>3, FinishedAnswers DEF f
  <2> QED BY <1>6, <2>1, <2>4 DEF Answers
<1>7. CASE b.writeBuffer # <<>>
  <2> DEFINE e == EnableWriteEvent(b)
  <2>1. Same(b, e) /\ e.pending = b.pending /\ e \in ConnType
    BY <1>2, EnableWriteEventSame, EnableWriteEventDoes DEF Sends
  <2>2. d = HandleWriteResult(e, result)
    BY <1>3, <1>7
  <2> HIDE DEF e
  <2>3. Turned(e) /\ (Missing(b) => Missing(e)) /\ e.state = b.state
    BY <1>1, <2>1, SameTurned DEF Same
  <2>4. Answers(e, d) /\ Same(e, d)
    BY <1>1, <1>5, <1>7, <2>1, <2>2, <2>3, UnfinishedAnswers
  <2>5. ~overlapped => d.state = "Writing"
    BY <1>1, <2>3, <2>4 DEF Same
  <2> QED BY <1>1, <1>7, <2>1, <2>3, <2>4, <2>5 DEF Answers
<1>8. CASE b.writeBuffer = <<>> /\ b.file = NoFile
  BY <1>1, <1>2, <1>3, <1>6, <1>8
<1>9. CASE b.writeBuffer = <<>> /\ b.file # NoFile
  <2>1. CASE outcome = "again"
    <3> DEFINE e == EnableWriteEvent(g)
    <3>1. Same(g, e) /\ e.pending = g.pending
      BY <1>4, <1>9, EnableWriteEventSame
    <3>2. d = e
      BY <1>3, <1>9, <2>1
    <3> HIDE DEF e
    <3>3. Turned(e) /\ (Missing(g) => Missing(e)) /\ e.state = g.state
      BY <1>4, <1>9, <3>1, SameTurned DEF Same
    <3> QED BY <1>1, <1>4, <1>9, <2>1, <3>1, <3>2, <3>3 DEF Answers
  <2>2. CASE outcome = "error"
    <3>1. d = HandleWriteResult(g, "error")
      BY <1>3, <1>9, <2>2
    <3>2. Answers(g, d) /\ Same(g, d)
      BY <1>4, <1>9, <3>1, UnfinishedAnswers
    <3> QED BY <1>1, <1>4, <1>9, <2>2, <3>2 DEF Answers, Same
  <2>3. CASE outcome = "complete"
    <3>1. d = HandleWriteResult(DisableWriteEvent(g), "complete")
      BY <1>3, <1>9, <2>3
    <3> QED BY <1>1, <1>4, <1>6, <1>9, <3>1
  <2> QED BY <1>4, <1>9, <2>1, <2>2, <2>3
<1> QED BY <1>7, <1>8, <1>9

\* Parsing moves fragments from readBuffer_ to context_; a complete request is all of
\* the one whose turn it is.
LEMMA ParseLined ==
  ASSUME NEW c \in ConnType, Kept(c), Lined(c), NEW p \in ParseRequest(c)
  PROVE  /\ Lined(p.c) /\ Done(p.c) = Done(c)
         /\ p.c.state = c.state /\ p.c.writeBuffer = c.writeBuffer /\ p.c.file = c.file
         /\ p.c.openFiles = c.openFiles /\ p.c.handled = c.handled
         /\ p.c.inbound = c.inbound /\ p.c.outbound = c.outbound
         /\ p.c.interest = c.interest /\ p.c.pending = c.pending
         /\ p.result = "complete" =>
              /\ Len(p.c.context) = Parts
              /\ kind[p.c.context[1][1]] # "bad"
              /\ p.c.context[1][1] = Turn(c)
         /\ p.result \in {"complete", "incomplete", "error"}
<1> DEFINE parsed == Len(c.context)
           size   == Len(c.readBuffer)
           whole  == Parts - parsed <= size
           n      == IF whole THEN Parts - parsed ELSE size
           front  == SubSeq(c.readBuffer, 1, n)
           rest   == SubSeq(c.readBuffer, n + 1, size)
           con    == c.context \o front
           d      == [c EXCEPT !.context = con, !.readBuffer = rest]
           bad    == d.context # <<>> /\ kind[d.context[1][1]] = "bad"
<1>1. c.context \in Seq(Fragments) /\ c.readBuffer \in Seq(Fragments) /\ c.inbound \in Seq(Fragments)
  BY DEF ConnType, Fragments
<1>2. p.c \in {c, d} /\ p.result \in {"complete", "incomplete", "error"}
      /\ (p.result = "complete" => whole /\ p.c = d /\ ~bad)
  <2>1. ParseRequest(c) =
          IF whole THEN {[c |-> d, result |-> IF bad THEN "error" ELSE "complete"]}
          ELSE {[c |-> e, result |-> "incomplete"] : e \in {c, d}}
                 \cup {[c |-> d, result |-> "error"] : b \in {bad} \cap {TRUE}}
    BY DEF ParseRequest
  <2> HIDE DEF whole, d, bad
  <2>2. CASE whole
    BY <2>1, <2>2
  <2>3. CASE ~whole
    <3>1. \/ \E e \in {c, d} : p = [c |-> e, result |-> "incomplete"]
          \/ p = [c |-> d, result |-> "error"]
      BY <2>1, <2>3
    <3> QED BY <2>3, <3>1
  <2> QED BY <2>2, <2>3
<1>3. parsed \in Nat /\ size \in Nat /\ parsed <= 2
  <2>1. parsed \in Nat /\ size \in Nat
    BY <1>1, LenProperties
  <2>2. parsed <= 2
    BY DEF Kept, Parts
  <2> QED BY <2>1, <2>2
<1>4. bad <=> d.context # <<>> /\ kind[d.context[1][1]] = "bad"
  OBVIOUS
<1> HIDE DEF bad
<1>5. n \in 0 .. size /\ (whole => n = 2 - parsed)
  <2> HIDE DEF parsed, size
  <2> QED BY <1>3 DEF Parts
<1> HIDE DEF n, whole
<1>6. IsRun(c.context, Done(c)) /\ IsRun(c.readBuffer, Done(c) + parsed)
      /\ IsRun(c.inbound, (Done(c) + parsed) + size) /\ Done(c) \in Nat /\ sent \in Nat
  BY DEF Lined
<1>7. /\ Len(con) = parsed + n /\ Len(rest) = size - n
      /\ IsRun(con, Done(c)) /\ IsRun(rest, Done(c) + (parsed + n))
  BY <1>1, <1>5, <1>6, RunMove
<1>8. con \in Seq(Fragments)
  BY <1>1, <1>5, Cut, ConcatProperties
<1> HIDE DEF con, rest
<1>9. /\ d.context = con /\ d.readBuffer = rest
      /\ d.state = c.state /\ d.writeBuffer = c.writeBuffer /\ d.file = c.file
      /\ d.openFiles = c.openFiles /\ d.handled = c.handled
      /\ d.inbound = c.inbound /\ d.outbound = c.outbound
      /\ d.interest = c.interest /\ d.pending = c.pending
  BY DEF ConnType
<1> HIDE DEF d
<1>10. Done(d) = Done(c)
  <2> DEFINE k == Len(c.inbound)
  <2>1. k \in Nat
    BY <1>1, LenProperties
  <2>2. Done(c) = sent - ((k + size) + parsed) /\ Done(d) = sent - ((k + (size - n)) + (parsed + n))
    BY <1>7, <1>9 DEF Done
  <2> HIDE DEF k, parsed, size
  <2> QED BY <1>3, <1>5, <1>6, <2>1, <2>2
<1>11. Lined(d)
  <2>1. (Done(c) + (parsed + n)) + (size - n) = (Done(c) + parsed) + size
        /\ Done(c) + (parsed + n) = Done(c) + (parsed + n)
    <3> HIDE DEF parsed, size
    <3> QED BY <1>3, <1>5, <1>6
  <2>2. IsRun(d.inbound, (Done(c) + (parsed + n)) + (size - n))
    BY <1>6, <1>9, <2>1
  <2> HIDE DEF parsed, size
  <2> QED BY <1>6, <1>7, <1>9, <1>10, <2>2 DEF Lined
<1>12. ASSUME p.result = "complete"
       PROVE  Len(d.context) = Parts /\ kind[d.context[1][1]] # "bad" /\ d.context[1][1] = Turn(c)
  <2>1. Len(con) = 2
    <3> HIDE DEF parsed
    <3> QED BY <1>2, <1>3, <1>5, <1>7, <1>12
  <2>2. con # <<>> /\ con[1] = Fragment(Done(c) + 1)
    <3>1. 1 \in 1 .. Len(con)
      BY <2>1
    <3>2. con[1] = Fragment(Done(c) + 1)
      BY <1>7, <3>1, ZenonT(40) DEF IsRun
    <3>3. con # <<>>
      BY <2>1
    <3> QED BY <3>2, <3>3
  <2>3. (Done(c) + 1) - 1 = Done(c)
    BY <1>6
  <2>4. con[1][1] = Turn(c)
    BY <2>2, <2>3 DEF Fragment, Turn
  <2> QED BY <1>2, <1>4, <1>9, <1>12, <2>1, <2>2, <2>4 DEF Parts
<1>13. CASE p.c = d
  BY <1>2, <1>9, <1>10, <1>11, <1>12, <1>13
<1>14. CASE p.c # d
  BY <1>2, <1>14
<1> QED BY <1>13, <1>14

\* What processing starts from: if the client has waited, the request whose turn it is
\* has not been handled.
Fresh(c) ==
  /\ Lined(c) /\ Ordered(c)
  /\ ~overlapped => Strict(c) /\ Sourced(c) /\ FileKept(c) /\ Ready(c) /\ Waited

\* What it ends in.
Processed(c, d) ==
  /\ Turned(d)
  /\ d.interest = c.interest
  /\ ~overlapped /\ d.state = "Writing" => Missing(d)
  /\ \/ d.state = "Connected" /\ d.pending = c.pending
     \/ d.state = "Closed" /\ d.pending = Append(c.pending, "error")
     \/ d.state = "Writing" /\ d.pending = Append(c.pending, "send")

\* A request is handled when it is its turn, and of its response nothing has gone out.
LEMMA RouteTurned ==
  ASSUME NEW c \in ConnType, Kept(c), Fresh(c), Begun,
         Len(c.context) = Parts, kind[c.context[1][1]] # "bad", c.context[1][1] = Turn(c)
  PROVE  LET d == [Route(c) EXCEPT !.state = "Writing"]
         IN  /\ Turned(d) /\ d.state = "Writing"
             /\ d.interest = c.interest /\ d.pending = c.pending
             /\ ~overlapped => Missing(d)
<1> DEFINE r       == c.context[1][1]
           k       == kind[r]
           handled == Append(c.handled, r)
           buffer  == c.writeBuffer \o Serialized(r)
           isFile  == k = "file"
           file    == IF isFile THEN [req |-> r, left |-> BodyLen] ELSE c.file
           open    == IF isFile THEN c.openFiles + 1 ELSE c.openFiles
           d       == [Route(c) EXCEPT !.state = "Writing"]
<1>1. r \in Requests /\ r \in Nat /\ r = Turn(c)
  <2>1. c.context \in Seq(Fragments)
    BY DEF ConnType, Fragments
  <2>2. 1 \in 1 .. Len(c.context)
    BY DEF Parts
  <2>3. c.context[1] \in Fragments
    BY <2>1, <2>2, ElementOfSeq
  <2>4. \A x \in Requests : x \in Nat
    BY BoundAssumption DEF Requests
  <2> QED BY <2>3, <2>4 DEF Fragments
<1>2. /\ d.state = "Writing" /\ d.readBuffer = c.readBuffer /\ d.context = c.context
      /\ d.writeBuffer = buffer /\ d.file = file /\ d.openFiles = open
      /\ d.handled = handled /\ d.inbound = c.inbound /\ d.outbound = c.outbound
      /\ d.interest = c.interest /\ d.pending = c.pending
  BY DEF ConnType, Route
<1>3. c.handled \in Seq(Requests) /\ c.writeBuffer \in Seq(UnitsOf) /\ c.openFiles \in Nat
  BY DEF ConnType, UnitsOf
<1>4. ~overlapped => /\ Done(c) % 2 = 0 /\ c.file = NoFile /\ c.writeBuffer = <<>>
                     /\ \A i \in 1 .. Len(c.handled) : c.handled[i] < Turn(c)
                     /\ c.openFiles = 0
  BY DEF Fresh, Ready, Parts, FileKept
<1> HIDE DEF r, d
<1> DEFINE n == Len(c.handled)
<1>5. /\ n \in Nat /\ Len(handled) = n + 1 /\ (\A i \in 1 .. n : handled[i] = c.handled[i])
      /\ handled[n + 1] = r /\ handled \in Seq(Requests)
      /\ Range(handled) = Range(c.handled) \cup {r}
      /\ \A i \in 1 .. n : c.handled[i] \in Nat
  BY <1>1, <1>3, AppendProperties, LenProperties, RangeAppend, HandledNat
<1>6. Done(d) = Done(c) /\ Turn(d) = Turn(c) /\ Emitted(d) = Emitted(c)
  BY <1>2 DEF Done, Turn, Emitted
<1>7. Lined(d)
  BY <1>2, <1>6 DEF Fresh, Lined
<1> DEFINE t == Turn(c)
<1>8. (\A i \in 1 .. n : c.handled[i] <= t)
      /\ \A i, j \in 1 .. n : i < j => c.handled[i] <= c.handled[j]
  BY DEF Fresh, Ordered
<1>9. ~overlapped => /\ \A i \in 1 .. n : c.handled[i] < t
                     /\ \A i, j \in 1 .. n : i < j => c.handled[i] < c.handled[j]
  BY <1>4 DEF Fresh, Strict
<1> HIDE DEF handled, n, buffer, t
<1>10. \A i \in 1 .. n + 1 : i \in 1 .. n \/ i = n + 1
  BY <1>5
<1>11. Ordered(d)
  <2>1. \A i \in 1 .. n + 1 : handled[i] <= t
    BY <1>1, <1>5, <1>8, <1>10 DEF t
  <2>2. ASSUME NEW i \in 1 .. n + 1, NEW j \in 1 .. n + 1, i < j
        PROVE  handled[i] <= handled[j]
    <3>1. i \in 1 .. n
      BY <1>5, <2>2
    <3>2. CASE j \in 1 .. n
      BY <1>5, <1>8, <2>2, <3>1, <3>2
    <3>3. CASE j = n + 1
      BY <1>1, <1>5, <1>8, <3>1, <3>3 DEF t
    <3> QED BY <1>10, <3>2, <3>3
  <2> QED BY <1>2, <1>5, <1>6, <2>1, <2>2 DEF Ordered, t
<1>12. ASSUME ~overlapped
       PROVE  Strict(d)
  <2>1. ASSUME NEW i \in 1 .. n + 1, NEW j \in 1 .. n + 1, i < j
        PROVE  handled[i] < handled[j]
    <3>1. i \in 1 .. n
      BY <1>5, <2>1
    <3>2. CASE j \in 1 .. n
      BY <1>5, <1>9, <1>12, <2>1, <3>1, <3>2
    <3>3. CASE j = n + 1
      BY <1>1, <1>5, <1>9, <1>12, <3>1, <3>3 DEF t
    <3> QED BY <1>10, <3>2, <3>3
  <2> QED BY <1>2, <1>5, <2>1 DEF Strict
<1>13. /\ Len(c.context) = 2 /\ sent \in Nat /\ Done(c) \in Nat /\ Done(c) + 2 <= sent
  <2> DEFINE x == Len(c.inbound)
             y == Len(c.readBuffer)
             z == Len(c.context)
  <2>1. x \in Nat /\ y \in Nat
    <3>1. c.inbound \in Seq(Fragments) /\ c.readBuffer \in Seq(Fragments)
      BY DEF ConnType, Fragments
    <3> QED BY <3>1, LenProperties
  <2>2. z = 2 /\ sent \in Nat /\ Done(c) \in Nat /\ Done(c) = sent - ((x + y) + z)
    BY DEF Fresh, Lined, Done, Parts
  <2> HIDE DEF x, y
  <2> QED BY <2>1, <2>2
<1>14. Units(k) # 0 /\ Units(k) \in 1 .. 3
  <2> DEFINE a == Done(c)
  <2>1. 2 * (r - 1) <= a /\ a < sent
    <3>1. a \in Nat /\ a + 2 <= sent /\ r = (a \div 2) + 1
      BY <1>1, <1>13 DEF Turn, Parts
    <3> HIDE DEF a
    <3> QED BY <1>13, <3>1
  <2> HIDE DEF a
  <2>2. sent > Parts * (r - 1)
    BY <1>1, <1>13, <2>1 DEF Parts, a
  <2>3. k \in Kinds /\ k # "bad"
    BY <1>1, <2>2 DEF Begun, r
  <2> QED BY <2>3, KindAssumption DEF AllKinds, Units, BodyLen
<1>15. /\ Serialized(r) \in Seq(UnitsOf)
       /\ isFile => Serialized(r) = << <<r, 1>> >>
       /\ ~isFile => /\ Len(Serialized(r)) = Units(k)
                     /\ \A i \in 1 .. Units(k) : Serialized(r)[i] = <<r, i>>
       /\ \A u \in Range(Serialized(r)) : u[1] = r
       /\ isFile => \A u \in Range(Serialized(r)) : u = <<r, 1>>
  <2>1. Serialized(r) = IF isFile THEN << <<r, 1>> >> ELSE [i \in 1 .. Units(k) |-> <<r, i>>]
    BY DEF Serialized, Response
  <2> DEFINE m == Units(k)
             s == [i \in 1 .. m |-> <<r, i>>]
  <2>2. m \in 1 .. 3
    BY <1>14
  <2> HIDE DEF m, k
  <2>3. CASE isFile
    <3>1. <<r, 1>> \in UnitsOf
      BY <1>1 DEF UnitsOf, BodyLen
    <3>2. Range(<< <<r, 1>> >>) = {<<r, 1>>}
      BY DEF Range
    <3> QED BY <2>1, <2>3, <3>1, <3>2
  <2>4. CASE ~isFile
    <3>1. \A i \in 1 .. m : <<r, i>> \in UnitsOf
      BY <1>1, <2>2 DEF UnitsOf, BodyLen
    <3>2. s \in [1 .. m -> UnitsOf] /\ m \in Nat
      BY <2>2, <3>1
    <3>3. DOMAIN s = 1 .. m /\ \A i \in 1 .. m : s[i] = <<r, i>>
      OBVIOUS
    <3> HIDE DEF s
    <3>4. s \in Seq(UnitsOf) /\ Len(s) = m
      BY <3>2, <3>3
    <3>5. \A u \in Range(s) : u[1] = r
      BY <3>3 DEF Range
    <3> QED BY <2>1, <2>4, <3>3, <3>4, <3>5 DEF m, s
  <2> QED BY <2>3, <2>4
<1> DEFINE last == LastUnit(r)
<1>16. last = <<r, Units(k)>>
  BY DEF LastUnit
<1> HIDE DEF k, last
<1>17. Range(buffer) = Range(c.writeBuffer) \cup Range(Serialized(r))
  BY <1>3, <1>15, RangeConcat DEF buffer
<1>18. ~overlapped => Sourced(d)
  <2>1. SUFFICES ASSUME ~overlapped PROVE Sourced(d)
    OBVIOUS
  <2>2. Sourced(c)
    BY <2>1 DEF Fresh
  <2>3. file # NoFile => file.req = r
    BY <1>4, <2>1
  <2> HIDE DEF file
  <2> QED BY <1>2, <1>5, <1>6, <1>15, <1>17, <2>2, <2>3 DEF Sourced
<1>19. ~overlapped => FileKept(d)
  <2>1. [req |-> r, left |-> BodyLen] # NoFile
    BY DEF NoFile, BodyLen
  <2> QED BY <1>2, <1>4, <2>1 DEF FileKept
<1>20. ~overlapped => last \notin Emitted(c)
  <2>1. SUFFICES ASSUME ~overlapped, last \in Emitted(c) PROVE FALSE
    OBVIOUS
  <2>2. last[1] = r /\ r \in Range(c.handled)
    BY <1>16, <2>1 DEF Fresh, Sourced
  <2>3. DOMAIN c.handled = 1 .. n
    BY <1>3, LenProperties DEF n
  <2>4. PICK i \in 1 .. n : c.handled[i] = r
    BY <2>2, <2>3 DEF Range
  <2>5. r < r
    BY <1>1, <1>9, <2>1, <2>4 DEF t
  <2> QED BY <1>1, <2>5
<1>21. ~overlapped => Whole(d)
  <2>1. SUFFICES ASSUME ~overlapped PROVE Whole(d)
    OBVIOUS
  <2> DEFINE a == Done(c)
  <2>2. a % 2 = 0 /\ a \in Nat /\ a + 2 <= sent /\ r = (a \div 2) + 1 /\ sent \in Nat
    BY <1>1, <1>4, <1>13, <2>1 DEF Turn, Parts
  <2> HIDE DEF a
  <2>3. sent > 2 * r => last \in Range(received)
    <3>1. SUFFICES ASSUME sent > 2 * r PROVE last \in Range(received)
      OBVIOUS
    <3>2. Answered(r)
      BY <1>1, <2>1, <3>1 DEF Fresh, Waited, Parts
    <3>3. Response(r) = [i \in 1 .. Units(k) |-> <<r, i>>]
      BY DEF Response, k
    <3>4. Units(k) \in 1 .. Units(k)
      BY <1>14
    <3>5. last \in Range(Response(r))
      BY <1>16, <3>3, <3>4 DEF Range
    <3> QED BY <3>2, <3>5 DEF Answered
  <2>4. ~(sent > 2 * r)
    BY <1>20, <2>1, <2>3 DEF Emitted
  <2>5. sent = a + 2
    BY <1>1, <2>2, <2>4
  <2> QED BY <1>2, <1>6, <1>13, <2>2, <2>5 DEF Whole, Parts, a
<1>22. Turned(d)
  BY <1>2, <1>7, <1>11, <1>12, <1>18, <1>19, <1>21 DEF Turned, Answering
<1>23. ~overlapped => Missing(d)
  <2>1. SUFFICES ASSUME ~overlapped PROVE Missing(d)
    OBVIOUS
  <2>2. buffer = Serialized(r)
    BY <1>4, <1>15, <2>1, ConcatEmptySeq DEF buffer
  <2>3. CASE isFile
    <3>1. Units(k) = 3 /\ file = [req |-> r, left |-> 2] /\ file # NoFile
      BY <2>3 DEF Units, BodyLen, NoFile
    <3>2. last # <<r, 1>>
      BY <1>16, <3>1
    <3>3. last \notin Range(buffer)
      BY <1>15, <2>2, <2>3, <3>2
    <3>4. Len(buffer) = 1
      BY <1>15, <2>2, <2>3
    <3>5. file.left > 0 /\ kind[r] = "file"
      BY <2>3, <3>1 DEF k
    <3> HIDE DEF file
    <3> QED BY <1>1, <1>2, <1>6, <1>14, <1>20, <2>1, <3>1, <3>3, <3>4, <3>5 DEF Missing, last, k
  <2>4. CASE ~isFile
    <3>1. file = NoFile
      BY <1>4, <2>1, <2>4
    <3> DEFINE m == Units(k)
    <3>2. m \in 1 .. 3 /\ Len(buffer) = m /\ (\A i \in 1 .. m : buffer[i] = <<r, i>>) /\ last = <<r, m>>
      BY <1>14, <1>15, <1>16, <2>2, <2>4
    <3> HIDE DEF m, file
    <3>3. buffer # <<>>
      BY <3>2
    <3>4. \A i \in 1 .. m - 1 : buffer[i] # last
      <4>1. \A i \in 1 .. m - 1 : i \in 1 .. m /\ i # m
        BY <3>2
      <4> QED BY <3>2, <4>1
    <3> QED BY <1>1, <1>2, <1>6, <1>14, <1>20, <2>1, <3>1, <3>2, <3>3, <3>4 DEF Missing, last, k
  <2> QED BY <2>3, <2>4
<1> HIDE DEF file, open
<1> QED BY <1>2, <1>22, <1>23 DEF d

\* Process: it parses, and routes a request that is whole.
LEMMA ProcessTurned ==
  ASSUME NEW c \in ConnType, Kept(c), Fresh(c), Begun, NEW d \in ProcessInWorker(c)
  PROVE  Processed(c, d)
<1> DEFINE Then(p) ==
      CASE p.result = "incomplete" -> [p.c EXCEPT !.state = "Connected"]
        [] p.result = "error"      -> QueueInLoop([p.c EXCEPT !.state = "Closed"], "error")
        [] p.result = "complete"   -> QueueInLoop([Route(p.c) EXCEPT !.state = "Writing"], "send")
<1>1. PICK p \in ParseRequest(c) : d = Then(p)
  BY DEF ProcessInWorker
<1> DEFINE b == p.c
<1>2. /\ Lined(b) /\ Done(b) = Done(c)
      /\ b.writeBuffer = c.writeBuffer /\ b.file = c.file
      /\ b.openFiles = c.openFiles /\ b.handled = c.handled
      /\ b.inbound = c.inbound /\ b.outbound = c.outbound
      /\ b.interest = c.interest /\ b.pending = c.pending
      /\ p.result = "complete" =>
           Len(b.context) = Parts /\ kind[b.context[1][1]] # "bad" /\ b.context[1][1] = Turn(c)
      /\ p.result \in {"complete", "incomplete", "error"}
  BY ParseLined DEF Fresh
<1>3. b \in ConnType /\ Kept(b)
  BY ParseRequestDoes DEF Parses
<1>4. d = Then(p)
  BY <1>1
<1> HIDE DEF b
<1>5. Turn(b) = Turn(c) /\ Emitted(b) = Emitted(c)
  BY <1>2 DEF Turn, Emitted
<1>6. Fresh(b)
  BY <1>2, <1>5 DEF Fresh, Ordered, Strict, Sourced, FileKept, Ready
<1>7. ASSUME NEW state \in {"Connected", "Closed"}
      PROVE  LET e == [b EXCEPT !.state = state]
             IN  /\ e \in ConnType /\ Turned(e) /\ e.state = state
                 /\ e.interest = c.interest /\ e.pending = c.pending
  <2> DEFINE e == [b EXCEPT !.state = state]
  <2>1. e \in ConnType
    BY ZenonT(40), <1>3, <1>7 DEF ConnType
  <2>2. /\ e.state = state /\ e.context = b.context /\ e.readBuffer = b.readBuffer
        /\ e.writeBuffer = b.writeBuffer /\ e.file = b.file /\ e.openFiles = b.openFiles
        /\ e.handled = b.handled /\ e.inbound = b.inbound /\ e.outbound = b.outbound
        /\ e.interest = b.interest /\ e.pending = b.pending
    BY <1>3 DEF ConnType
  <2> SUFFICES /\ e \in ConnType /\ Turned(e) /\ e.state = state
               /\ e.interest = c.interest /\ e.pending = c.pending
    OBVIOUS
  <2> HIDE DEF e
  <2>3. Done(e) = Done(b) /\ Turn(e) = Turn(b) /\ Emitted(e) = Emitted(b)
    BY <2>2 DEF Done, Turn, Emitted
  <2>4. Lined(e) /\ Ordered(e)
    BY <1>6, <2>2, <2>3 DEF Fresh, Lined, Ordered
  <2>5. ~overlapped => Strict(e) /\ Sourced(e) /\ FileKept(e) /\ Ready(e)
    BY <1>6, <2>2, <2>3 DEF Fresh, Strict, Sourced, FileKept, Ready
  <2> QED BY <1>2, <1>7, <2>1, <2>2, <2>4, <2>5 DEF Turned, Answering
<1>8. CASE p.result = "incomplete"
  <2> DEFINE e == [b EXCEPT !.state = "Connected"]
  <2>1. d = e
    BY <1>4, <1>8 DEF b
  <2>2. Turned(e) /\ e.state = "Connected" /\ e.interest = c.interest /\ e.pending = c.pending
    BY <1>7
  <2> HIDE DEF e
  <2> QED BY <2>1, <2>2 DEF Processed
<1>9. CASE p.result = "error"
  <2> DEFINE e == [b EXCEPT !.state = "Closed"]
             f == QueueInLoop(e, "error")
  <2>1. d = f
    BY <1>4, <1>9 DEF b
  <2>2. /\ e \in ConnType /\ Turned(e) /\ e.state = "Closed" /\ e.interest = c.interest
        /\ e.pending = c.pending
    BY <1>7
  <2> HIDE DEF e
  <2>3. Same(e, f) /\ f.interest = e.interest /\ f.pending = Append(e.pending, "error")
    BY <2>2, QueueSame
  <2> HIDE DEF f
  <2>4. Turned(f) /\ f.state = "Closed"
    BY <2>2, <2>3, SameTurned DEF Same
  <2> QED BY <2>1, <2>2, <2>3, <2>4 DEF Processed
<1>10. CASE p.result = "complete"
  <2> DEFINE e == [Route(b) EXCEPT !.state = "Writing"]
             f == QueueInLoop(e, "send")
  <2>1. d = f
    BY <1>4, <1>10 DEF b
  <2>2. Len(b.context) = Parts /\ kind[b.context[1][1]] # "bad" /\ b.context[1][1] = Turn(b)
    BY <1>2, <1>5, <1>10
  <2>3. /\ Turned(e) /\ e.state = "Writing" /\ e.interest = b.interest /\ e.pending = b.pending
        /\ ~overlapped => Missing(e)
    BY <1>3, <1>6, <2>2, RouteTurned
  <2>4. e \in ConnType
    <3> DEFINE a == Route(b)
    <3>1. b.context # <<>>
      BY <2>2 DEF Parts
    <3>2. a \in ConnType
      BY <1>3, <3>1, RouteDoes
    <3> HIDE DEF a
    <3>3. [a EXCEPT !.state = "Writing"] \in ConnType
      BY ZenonT(40), <3>2 DEF ConnType
    <3> QED BY <3>3 DEF a
  <2> HIDE DEF e
  <2>5. Same(e, f) /\ f.interest = e.interest /\ f.pending = Append(e.pending, "send")
    BY <2>4, QueueSame
  <2> HIDE DEF f
  <2>6. Turned(f) /\ f.state = "Writing" /\ (~overlapped => Missing(f))
    BY <2>3, <2>5, SameTurned DEF Same
  <2> QED BY <1>2, <2>1, <2>3, <2>5, <2>6 DEF Processed
<1> QED BY <1>2, <1>8, <1>9, <1>10

\* Reading moves fragments from the socket to readBuffer_.
LEMMA ReadTurned ==
  ASSUME NEW c \in ConnType, Kept(c), Turned(c)
  PROVE  LET d == Read(c).c
         IN  /\ Turned(d)
             /\ Missing(c) => Missing(d)
             /\ d.state = c.state /\ d.interest = c.interest /\ d.pending = c.pending
<1> DEFINE room  == MaxReadBuffer - Len(c.readBuffer)
           size  == Len(c.inbound)
           full  == size >= room
           n     == IF ~full THEN size ELSE IF room > 0 THEN room ELSE 0
           front == SubSeq(c.inbound, 1, n)
           buf   == c.readBuffer \o front
           rest  == SubSeq(c.inbound, n + 1, size)
           d     == [c EXCEPT !.readBuffer = buf, !.inbound = rest]
<1>1. c.inbound \in Seq(Fragments) /\ c.readBuffer \in Seq(Fragments) /\ c.context \in Seq(Fragments)
      /\ MaxReadBuffer \in Nat
  BY BoundAssumption DEF ConnType, Fragments
<1> DEFINE l == Len(c.context)
           m == Len(c.readBuffer)
<1>2. size \in Nat /\ m \in Nat /\ l \in Nat
  BY <1>1, LenProperties
<1>3. n \in 0 .. size
  <2>1. room \in Int
    BY <1>1, <1>2
  <2> HIDE DEF room, size
  <2> QED BY <1>2, <2>1
<1>4. Read(c).c = d
  BY DEF Read, buf, rest, n, full, front
<1> HIDE DEF n, full
<1>5. /\ IsRun(c.context, Done(c)) /\ IsRun(c.readBuffer, Done(c) + l)
      /\ IsRun(c.inbound, (Done(c) + l) + m) /\ Done(c) \in Nat /\ sent \in Nat
  BY DEF Turned, Lined
<1>6. Done(c) + l \in Nat
  BY <1>2, <1>5
<1>7. /\ Len(buf) = m + n /\ Len(rest) = size - n
      /\ IsRun(buf, Done(c) + l) /\ IsRun(rest, (Done(c) + l) + (m + n))
  BY <1>1, <1>3, <1>5, <1>6, RunMove
<1> HIDE DEF buf, rest
<1>8. /\ d.readBuffer = buf /\ d.inbound = rest
      /\ d.state = c.state /\ d.context = c.context
      /\ d.writeBuffer = c.writeBuffer /\ d.file = c.file
      /\ d.openFiles = c.openFiles /\ d.handled = c.handled /\ d.outbound = c.outbound
      /\ d.interest = c.interest /\ d.pending = c.pending
  BY DEF ConnType
<1> HIDE DEF d
<1>9. Done(d) = Done(c)
  <2>1. Done(c) = sent - ((size + m) + l) /\ Done(d) = sent - (((size - n) + (m + n)) + l)
    BY <1>7, <1>8 DEF Done
  <2> HIDE DEF size, m, l
  <2> QED BY <1>2, <1>3, <1>5, <2>1
<1>10. Turn(d) = Turn(c) /\ Emitted(d) = Emitted(c)
  BY <1>8, <1>9 DEF Turn, Emitted
<1>11. Lined(d)
  <2> HIDE DEF size, m
  <2> QED BY <1>5, <1>7, <1>8, <1>9 DEF Lined
<1>12. Ordered(d)
  BY <1>8, <1>10 DEF Turned, Ordered
<1>13. ~overlapped => Answering(d)
  BY <1>8, <1>9, <1>10 DEF Turned, Answering, Strict, Sourced, FileKept, Ready, Whole
<1>14. Missing(c) => Missing(d)
  BY <1>8, <1>10 DEF Missing
<1> QED BY <1>4, <1>8, <1>11, <1>12, <1>13, <1>14 DEF Turned

-----------------------------------------------------------------------------
(* The actions.                                                            *)

\* A step that the client has no part in.
LEMMA LoopTurn ==
  ASSUME TurnInv, NEW d, conn' = d, UNCHANGED <<kind, sent, received, overlapped>>,
         Turned(d),
         ~overlapped =>
           /\ SendsOnce(d.state, d.pending, batch')
           /\ Quiet'
           /\ alive' /\ peer' # "gone" /\ d.state = "Writing" => Missing(d)
  PROVE  TurnInv'
<1>1. Turned(conn)'
  <2>1. Done(conn)' = Done(d) /\ Turn(conn)' = Turn(d) /\ Emitted(conn)' = Emitted(d)
    BY DEF Done, Turn, Emitted
  <2>2. Lined(conn)' /\ Ordered(conn)'
    BY <2>1 DEF Turned, Lined, Ordered, IsRun
  <2>3. ~overlapped => Answering(conn)'
    BY <2>1 DEF Turned, Answering, Strict, Sourced, FileKept, Ready, Whole
  <2> QED BY <2>2, <2>3 DEF Turned
<1>2. Begun' /\ (Waited => Waited')
  BY DEF TurnInv, Begun, Waited, Answered, Response
<1>3. Missing(d) => Missing(conn)'
  BY DEF Missing, Turn, Done, LastUnit, Emitted
<1> QED BY <1>1, <1>2, <1>3 DEF TurnInv

\* Nothing of a request or a response changes, no functor that answers is queued.
LEMMA SameTurn ==
  ASSUME TurnInv, Inv, UNCHANGED <<kind, sent, received, overlapped, batch>>,
         Same(conn, conn'), conn'.interest = conn.interest,
         \/ conn'.pending = conn.pending
         \/ \E x \in Ends : conn'.pending = Append(conn.pending, x),
         peer' # "gone" => peer # "gone",
         alive' => alive,
         "out" \in revents' => "out" \in conn.interest \cup revents
  PROVE  TurnInv'
<1> DEFINE d == conn'
<1>1. Turned(d) /\ (Missing(conn) => Missing(d)) /\ d.state = conn.state
  BY SameTurned DEF TurnInv, Same
<1>2. conn.pending \in Seq(Functors) /\ batch \in Seq(Functors)
  BY DEF Inv, TypeOK, ConnType
<1>3. Ends \subseteq Functors /\ "send" \notin Ends
  BY DEF Ends, Functors, Holders
<1>4. "send" \in Due' => "send" \in Due
  <2>1. CASE conn'.pending = conn.pending
    BY <2>1 DEF Due
  <2>2. ASSUME NEW x \in Ends, conn'.pending = Append(conn.pending, x)
        PROVE  "send" \in Due' => "send" \in Due
    <3>1. Range(conn'.pending) = Range(conn.pending) \cup {x}
      BY <1>2, <1>3, <2>2, RangeAppend
    <3> QED BY <1>3, <2>2, <3>1 DEF Due
  <2> QED BY <2>1, <2>2
<1>5. ~overlapped => SendsOnce(d.state, d.pending, batch') /\ Quiet'
  BY <1>1, <1>2, <1>4, QueueOther DEF TurnInv, Quiet
<1>6. ~overlapped => (alive' /\ peer' # "gone" /\ d.state = "Writing" => Missing(d))
  BY <1>1 DEF TurnInv
<1> HIDE DEF d
<1> QED BY <1>1, <1>5, <1>6, LoopTurn DEF d

\* A loop that goes to epoll_wait has reported what was due.
LEMMA PollTurn == ASSUME TurnInv, Inv, Poll PROVE TurnInv'
<1>1. conn \in ConnType
  BY DEF Inv, TypeOK
<1>2. Same(conn, conn') /\ conn'.interest = conn.interest /\ conn'.pending = conn.pending
  BY <1>1 DEF Poll, Same, ConnType
<1>3. "out" \in revents' => "out" \in conn.interest
  BY DEF Poll, Polled
<1> QED BY <1>2, <1>3, SameTurn DEF Poll, lifeVars, clientVars

\* What queues the end of the connection, and nothing else.
LEMMA EndTurn ==
  ASSUME TurnInv, Inv, NEW x \in Ends, conn' = QueueInLoop(conn, x),
         UNCHANGED <<kind, sent, received, overlapped, batch, peer, alive>>,
         revents' \subseteq revents
  PROVE  TurnInv'
<1>1. conn \in ConnType
  BY DEF Inv, TypeOK
<1>2. Same(conn, conn') /\ conn'.interest = conn.interest
      /\ conn'.pending = Append(conn.pending, x)
  BY <1>1, QueueSame
<1> QED BY <1>2, SameTurn

\* A hangup queues the end of the connection.
LEMMA HandleHangupTurn == ASSUME TurnInv, Inv, HandleHangup PROVE TurnInv'
<1>1. "close" \in Ends
  BY DEF Ends
<1> QED BY <1>1, EndTurn DEF HandleHangup, HandleClose, lifeVars, clientVars

\* So does the timer.
LEMMA FireTimerTurn == ASSUME TurnInv, Inv, FireTimer PROVE TurnInv'
<1>1. "expire" \in Ends
  BY DEF Ends
<1> QED BY <1>1, EndTurn DEF FireTimer, loopVars, clientVars

\* Tick ends.
LEMMA EndTickTurn == ASSUME TurnInv, Inv, EndTick PROVE TurnInv'
  BY SameTurn DEF EndTick, Same, lifeVars, clientVars

\* The process is killed.
LEMMA SigPipeTurn == ASSUME TurnInv, Inv, SigPipe PROVE TurnInv'
  BY SameTurn DEF SigPipe, Same, lifeVars, clientVars

\* HandleRead: the socket is read out and what is whole is answered.
LEMMA HandleReadTurn == ASSUME TurnInv, Inv, HandleRead PROVE TurnInv'
<1> DEFINE r == Read(conn)
           c == r.c
           b == [c EXCEPT !.state = "Processing"]
<1>1. conn \in ConnType /\ Kept(conn) /\ Turned(conn) /\ batch \in Seq(Functors)
      /\ peer \in {"open", "fin", "gone"}
  BY DEF TurnInv, Inv, TypeOK
<1>2. /\ revents' = revents \ {"in"}
      /\ UNCHANGED <<batch, alive, peer, kind, sent, received, overlapped>>
      /\ IF r.result # "success" THEN conn' = QueueInLoop(c, "close")
         ELSE IF c.state = "Connected" THEN conn' \in ProcessInWorker(b)
         ELSE conn' = c
  BY DEF HandleRead, HandleClose, lifeVars, clientVars
<1>3. /\ Turned(c) /\ (Missing(conn) => Missing(c))
      /\ c.state = conn.state /\ c.interest = conn.interest /\ c.pending = conn.pending
  BY <1>1, ReadTurned
<1>4. c \in ConnType /\ Kept(c)
  BY <1>1, ReadDoes
<1> HIDE DEF r, c
<1>5. conn.pending \in Seq(Functors)
  BY <1>1 DEF ConnType
<1>6. CASE r.result # "success"
  <2>1. Same(c, conn') /\ conn'.interest = c.interest /\ conn'.pending = Append(c.pending, "close")
    BY <1>2, <1>4, <1>6, QueueSame
  <2>2. Turned(conn') /\ (Missing(c) => Missing(conn')) /\ conn'.state = conn.state
    BY <1>3, <2>1, SameTurned DEF Same
  <2>3. "close" \in Ends /\ "close" \in Functors /\ "close" # "send"
    BY DEF Ends, Functors, Holders
  <2>4. Range(conn'.pending) = Range(conn.pending) \cup {"close"}
    BY <1>3, <1>5, <2>1, <2>3, RangeAppend
  <2>5. ~overlapped => SendsOnce(conn'.state, conn'.pending, batch')
    BY <1>1, <1>2, <1>3, <1>5, <2>1, <2>2, <2>3, QueueOther DEF TurnInv
  <2>6. ~overlapped => Quiet'
    BY <1>2, <1>3, <2>1, <2>2, <2>3, <2>4 DEF TurnInv, Quiet, Due
  <2>7. ~overlapped => (alive' /\ peer' # "gone" /\ conn'.state = "Writing" => Missing(conn'))
    BY <1>2, <1>3, <2>2 DEF TurnInv
  <2> QED BY <1>2, <2>2, <2>5, <2>6, <2>7, LoopTurn
<1>7. CASE r.result = "success" /\ c.state = "Connected"
  <2>1. /\ b \in ConnType /\ b.context = c.context /\ b.readBuffer = c.readBuffer
        /\ b.writeBuffer = c.writeBuffer /\ b.file = c.file /\ b.openFiles = c.openFiles
        /\ b.handled = c.handled /\ b.inbound = c.inbound /\ b.outbound = c.outbound
        /\ b.interest = c.interest /\ b.pending = c.pending
    BY <1>4 DEF ConnType
  <2>2. Kept(b)
    BY <1>4, <2>1 DEF Kept
  <2> HIDE DEF b
  <2>3. Done(b) = Done(c) /\ Turn(b) = Turn(c) /\ Emitted(b) = Emitted(c)
    BY <2>1 DEF Done, Turn, Emitted
  <2>4. Lined(b) /\ Ordered(b)
    BY <1>3, <2>1, <2>3 DEF Turned, Lined, Ordered
  <2>5. ~overlapped => Answering(c) /\ Ready(c) /\ Waited
    BY <1>3, <1>7 DEF Turned, TurnInv, Answering
  <2>6. ~overlapped => Strict(b) /\ Sourced(b) /\ FileKept(b) /\ Ready(b)
    BY <2>1, <2>3, <2>5 DEF Answering, Strict, Sourced, FileKept, Ready
  <2>7. Fresh(b)
    BY <2>4, <2>5, <2>6 DEF Fresh
  <2>8. Processed(b, conn')
    BY <1>2, <1>7, <2>1, <2>2, <2>7, ProcessTurned DEF TurnInv
  <2>9. conn.state = "Connected"
    BY <1>3, <1>7
  <2>10. ASSUME ~overlapped
         PROVE  /\ SendsOnce(conn'.state, conn'.pending, batch')
                /\ "out" \notin conn'.interest \cup revents'
    <3>1. /\ SendsOnce("Connected", conn.pending, batch) /\ Quiet
          /\ conn'.pending = conn.pending \/ conn'.pending = Append(conn.pending, "error")
               \/ conn'.pending = Append(conn.pending, "send")
      BY <1>3, <2>1, <2>8, <2>9, <2>10 DEF Processed, TurnInv
    <3>2. "out" \notin conn.interest \cup revents
      BY <2>9, <3>1 DEF Quiet
    <3>3. conn'.interest = conn.interest
      BY <1>3, <2>1, <2>8 DEF Processed
    <3>4. "send" \notin Range(conn.pending) \cup Range(batch)
      BY <3>1 DEF SendsOnce
    <3>5. SendsOnce("Closed", conn.pending, batch) /\ "error" \in Ends
      BY <3>1, <3>4, AnyState DEF Ends
    <3>6. /\ SendsOnce("Closed", Append(conn.pending, "error"), batch)
          /\ SendsOnce("Writing", Append(conn.pending, "send"), batch)
      BY <1>1, <1>5, <3>1, <3>5, QueueOther, QueueSend
    <3>7. SendsOnce(conn'.state, conn'.pending, batch)
      BY <1>3, <2>1, <2>8, <3>1, <3>6 DEF Processed
    <3> QED BY <1>2, <3>2, <3>3, <3>7
  <2> QED BY <1>2, <2>8, <2>10, LoopTurn DEF Processed, Quiet
<1>8. CASE r.result = "success" /\ c.state # "Connected"
  <2>1. conn' = c
    BY <1>2, <1>8
  <2>2. ~overlapped => SendsOnce(c.state, c.pending, batch') /\ Quiet'
    BY <1>2, <1>3, <2>1 DEF TurnInv, Quiet, Due
  <2>3. ~overlapped => (alive' /\ peer' # "gone" /\ c.state = "Writing" => Missing(c))
    BY <1>2, <1>3 DEF TurnInv
  <2> QED BY <1>2, <1>3, <2>1, <2>2, <2>3, LoopTurn
<1> QED BY <1>6, <1>7, <1>8

\* HandleWrite, when EPOLLOUT was reported.
LEMMA HandleWriteTurn == ASSUME TurnInv, Inv, HandleWrite PROVE TurnInv'
<1> DEFINE d == Written(conn)
<1>1. conn \in ConnType /\ Kept(conn) /\ Turned(conn) /\ batch \in Seq(Functors)
  BY DEF TurnInv, Inv, TypeOK
<1>2. /\ conn' = d /\ "out" \in revents /\ revents' = revents \ {"out"}
      /\ UNCHANGED <<batch, alive, peer, kind, sent, received, overlapped>>
  BY DEF HandleWrite, lifeVars, clientVars
<1>3. ~overlapped => conn.state = "Writing" /\ "send" \notin Due
  BY <1>2 DEF TurnInv, Quiet
<1>4. /\ Answers(conn, d)
      /\ d.state # "Writing" /\ ~overlapped => "out" \notin d.interest
  BY <1>1, <1>3, WrittenAnswers
<1> HIDE DEF d
<1>5. conn.pending \in Seq(Functors)
  BY <1>1 DEF ConnType
<1>6. ASSUME ~overlapped
      PROVE  SendsOnce(d.state, d.pending, batch') /\ Quiet'
  <2>1. "send" \notin Range(conn.pending) \cup Range(batch)
    BY <1>3, <1>6 DEF Due
  <2>2. SendsOnce(d.state, conn.pending, batch)
    BY <1>6, <2>1, AnyState DEF TurnInv
  <2>3. "close" \in Ends /\ "close" \in Functors /\ "close" # "send"
    BY DEF Ends, Functors, Holders
  <2>4. SendsOnce(d.state, Append(conn.pending, "close"), batch)
    BY <1>1, <1>5, <2>2, <2>3, QueueOther
  <2>5. Range(Append(conn.pending, "close")) = Range(conn.pending) \cup {"close"}
    BY <1>5, <2>3, RangeAppend
  <2>6. d.pending \in {conn.pending, Append(conn.pending, "close")}
    BY <1>4, <1>6 DEF Answers
  <2>7. SendsOnce(d.state, d.pending, batch')
    BY <1>2, <2>2, <2>4, <2>6
  <2>8. "send" \notin Due'
    <3>1. CASE d.pending = conn.pending
      BY <1>2, <2>1, <3>1 DEF Due
    <3>2. CASE d.pending = Append(conn.pending, "close")
      BY <1>2, <2>1, <2>3, <2>5, <3>2 DEF Due
    <3> QED BY <2>6, <3>1, <3>2
  <2> QED BY <1>2, <1>4, <1>6, <2>7, <2>8 DEF Quiet
<1>7. ~overlapped => (alive' /\ peer' # "gone" /\ d.state = "Writing" => Missing(d))
  BY <1>2, <1>3, <1>4 DEF TurnInv, Answers
<1> QED BY <1>2, <1>4, <1>6, <1>7, LoopTurn DEF Answers

\* The functors that were queued are taken to be run.
LEMMA DoPendingFunctorsTurn == ASSUME TurnInv, Inv, DoPendingFunctors PROVE TurnInv'
<1>1. conn \in ConnType /\ Turned(conn) /\ PhaseSound
  BY DEF TurnInv, Inv, TypeOK
<1>2. /\ phase = "events" /\ batch' = conn.pending /\ conn' = [conn EXCEPT !.pending = <<>>]
      /\ UNCHANGED <<revents, alive, peer, kind, sent, received, overlapped>>
  BY DEF DoPendingFunctors, lifeVars, clientVars
<1>3. Same(conn, conn') /\ conn'.interest = conn.interest /\ conn'.pending = <<>>
  BY <1>1, <1>2 DEF Same, ConnType
<1>4. batch = <<>>
  BY <1>1, <1>2 DEF PhaseSound
<1>5. Turned(conn') /\ (Missing(conn) => Missing(conn')) /\ conn'.state = conn.state
  BY <1>1, <1>3, SameTurned DEF Same
<1>6. ~overlapped => SendsOnce(conn'.state, conn'.pending, batch')
  BY <1>2, <1>3, <1>4, <1>5, SwapQueue DEF TurnInv
<1>7. Due' = Due
  BY <1>2, <1>3, <1>4, RangeEmpty DEF Due
<1>8. ~overlapped => Quiet'
  BY <1>2, <1>3, <1>5, <1>7 DEF TurnInv, Quiet
<1>9. ~overlapped => (alive' /\ peer' # "gone" /\ conn'.state = "Writing" => Missing(conn'))
  BY <1>2, <1>5 DEF TurnInv
<1> QED BY <1>2, <1>5, <1>6, <1>8, <1>9, LoopTurn

\* A functor that does nothing to the requests and responses.
LEMMA RunOther ==
  ASSUME TurnInv, Inv, NEW functor \in Ends, Running(functor), Same(conn, conn'),
         conn'.interest = conn.interest,
         conn'.pending = conn.pending \/ \E x \in Ends : conn'.pending = Append(conn.pending, x)
  PROVE  TurnInv'
<1>1. conn \in ConnType /\ Turned(conn) /\ batch \in Seq(Functors) /\ TypeOK
  BY DEF TurnInv, Inv, TypeOK
<1>2. /\ batch # <<>> /\ Head(batch) = functor /\ batch' = Tail(batch)
      /\ UNCHANGED <<revents, alive, peer, kind, sent, received, overlapped>>
  BY DEF Running, clientVars
<1>3. batch' \in Seq(Functors) /\ Range(batch) = {functor} \cup Range(batch')
  BY <1>1, RunningDoes
<1>4. conn.pending \in Seq(Functors) /\ Ends \subseteq Functors /\ "send" \notin Ends
  BY <1>1 DEF ConnType, Ends, Functors, Holders
<1>5. Turned(conn') /\ (Missing(conn) => Missing(conn')) /\ conn'.state = conn.state
  BY <1>1, SameTurned DEF Same
<1>6. ~overlapped => SendsOnce(conn.state, conn.pending, batch')
  BY <1>1, <1>2, <1>4, RunFirst DEF TurnInv
<1>7. ~overlapped => SendsOnce(conn'.state, conn'.pending, batch')
  BY <1>3, <1>4, <1>5, <1>6, QueueOther
<1>8. "send" \in Due' => "send" \in Due
  <2>1. CASE conn'.pending = conn.pending
    BY <1>3, <2>1 DEF Due
  <2>2. ASSUME NEW x \in Ends, conn'.pending = Append(conn.pending, x)
        PROVE  "send" \in Due' => "send" \in Due
    <3>1. Range(conn'.pending) = Range(conn.pending) \cup {x}
      BY <1>4, <2>2, RangeAppend
    <3> QED BY <1>3, <1>4, <2>2, <3>1 DEF Due
  <2> QED BY <2>1, <2>2
<1>9. ~overlapped => Quiet'
  BY <1>2, <1>5, <1>8 DEF TurnInv, Quiet
<1>10. ~overlapped => (alive' /\ peer' # "gone" /\ conn'.state = "Writing" => Missing(conn'))
  BY <1>2, <1>5 DEF TurnInv
<1> QED BY <1>2, <1>5, <1>7, <1>9, <1>10, LoopTurn

\* The three functors that end a connection.
LEMMA RunErrorTurn == ASSUME TurnInv, Inv, RunError PROVE TurnInv'
<1>1. conn \in ConnType /\ {"error", "close"} \subseteq Ends
  BY DEF Inv, TypeOK, Ends
<1> QED BY <1>1, QueueSame, RunOther DEF RunError, HandleClose

\* HandleClose.
LEMMA RunCloseTurn == ASSUME TurnInv, Inv, RunClose PROVE TurnInv'
<1>1. conn \in ConnType /\ {"close", "expire", "erase"} \subseteq Ends
  BY DEF Inv, TypeOK, Ends
<1> QED BY <1>1, QueueSame, RunOther DEF RunClose

\* RemoveConnection.
LEMMA RunEraseTurn == ASSUME TurnInv, Inv, RunErase PROVE TurnInv'
<1>1. "erase" \in Ends /\ Same(conn, conn)
  BY DEF Ends, Same
<1> QED BY <1>1, RunOther DEF RunErase

\* The one functor that answers finds the connection writing, and leaves none behind.
LEMMA RunSendTurn == ASSUME TurnInv, Inv, RunSend PROVE TurnInv'
<1> DEFINE d == conn'
<1>1. /\ conn \in ConnType /\ Kept(conn) /\ Turned(conn) /\ batch \in Seq(Functors)
      /\ conn.pending \in Seq(Functors) /\ TypeOK
  BY DEF TurnInv, Inv, TypeOK, ConnType
<1>2. /\ batch # <<>> /\ Head(batch) = "send" /\ batch' = Tail(batch)
      /\ UNCHANGED <<revents, alive, peer, kind, sent, received, overlapped>>
      /\ d = IF conn.state = "Closed" THEN conn ELSE TrySend(conn)
  BY DEF RunSend, Running, clientVars
<1>3. batch' \in Seq(Functors) /\ Range(batch) = {"send"} \cup Range(batch')
  BY <1>1, RunningDoes DEF RunSend
<1>4. ~overlapped => /\ conn.state = "Writing" /\ SendsOnce(conn.state, conn.pending, batch')
                     /\ "send" \notin Range(conn.pending) \cup Range(batch')
  BY <1>1, <1>2, RunFirst DEF TurnInv
<1>5. ~overlapped => "out" \notin conn.interest \cup revents
  BY <1>3 DEF TurnInv, Quiet, Due
<1>6. CASE conn.state = "Closed"
  BY <1>1, <1>2, <1>4, <1>6, LoopTurn
<1>7. CASE conn.state # "Closed"
  <2>1. /\ Answers(conn, d)
        /\ d.state # "Writing" /\ ~overlapped /\ "out" \notin conn.interest => "out" \notin d.interest
    BY <1>1, <1>2, <1>4, <1>7, TrySendAnswers
  <2>2. ASSUME ~overlapped
        PROVE  SendsOnce(d.state, d.pending, batch') /\ Quiet'
    <3>1. SendsOnce(d.state, conn.pending, batch')
      BY <1>4, <2>2, AnyState
    <3>2. "close" \in Ends /\ "close" \in Functors /\ "close" # "send"
      BY DEF Ends, Functors, Holders
    <3>3. SendsOnce(d.state, Append(conn.pending, "close"), batch')
      BY <1>1, <1>3, <3>1, <3>2, QueueOther
    <3>4. Range(Append(conn.pending, "close")) = Range(conn.pending) \cup {"close"}
      BY <1>1, <3>2, RangeAppend
    <3>5. d.pending \in {conn.pending, Append(conn.pending, "close")}
      BY <2>1, <2>2 DEF Answers
    <3>6. "send" \notin Due'
      <4>1. "send" \notin Range(conn.pending) /\ "send" \notin Range(batch')
        BY <1>4, <2>2
      <4>2. CASE d.pending = conn.pending
        BY <4>1, <4>2 DEF Due
      <4>3. CASE d.pending = Append(conn.pending, "close")
        BY <3>2, <3>4, <4>1, <4>3 DEF Due
      <4> QED BY <3>5, <4>2, <4>3
    <3> QED BY <1>2, <1>5, <2>1, <2>2, <3>1, <3>3, <3>5, <3>6 DEF Quiet
  <2>3. ~overlapped => (alive' /\ peer' # "gone" /\ d.state = "Writing" => Missing(d))
    BY <1>2, <1>4, <2>1 DEF TurnInv, Answers
  <2> HIDE DEF d
  <2> QED BY <1>2, <2>1, <2>2, <2>3, LoopTurn DEF Answers, d
<1> QED BY <1>6, <1>7

\* Only a client that has not waited finds a functor that processes.
LEMMA RunProcessTurn == ASSUME TurnInv, Inv, RunProcess PROVE TurnInv'
<1>1. /\ conn \in ConnType /\ Kept(conn) /\ Turned(conn) /\ batch \in Seq(Functors)
      /\ conn.pending \in Seq(Functors)
  BY DEF TurnInv, Inv, TypeOK, ConnType
<1>2. /\ batch # <<>> /\ Head(batch) = "process"
      /\ UNCHANGED <<alive, peer, kind, sent, received, overlapped>>
      /\ conn' \in ProcessInWorker(conn)
  BY DEF RunProcess, Running, clientVars
<1>3. overlapped
  BY <1>1, <1>2, RunFirst DEF TurnInv
<1>4. Fresh(conn) /\ Begun
  BY <1>1, <1>3 DEF TurnInv, Turned, Fresh
<1>5. Turned(conn')
  BY <1>1, <1>2, <1>4, ProcessTurned DEF Processed
<1> QED BY <1>2, <1>3, <1>5, LoopTurn

\* The last functor has been run.
LEMMA EndFunctorsTurn == ASSUME TurnInv, Inv, EndFunctors PROVE TurnInv'
<1>1. conn \in ConnType /\ Kept(conn) /\ Turned(conn)
  BY DEF TurnInv, Inv, TypeOK
<1>2. /\ UNCHANGED <<revents, batch, peer, kind, sent, received, overlapped>>
      /\ \/ UNCHANGED <<alive, conn>>
         \/ alive' = FALSE /\ conn' = CloseFile(conn)
  BY DEF EndFunctors, clientVars
<1>3. CASE UNCHANGED <<alive, conn>>
  BY <1>2, <1>3, SameTurn DEF Same
<1>4. CASE alive' = FALSE /\ conn' = CloseFile(conn)
  <2>1. /\ Turned(conn') /\ conn'.state = conn.state
        /\ conn'.interest = conn.interest /\ conn'.pending = conn.pending
    BY <1>1, <1>4, CloseFileTurned
  <2>2. ~overlapped => SendsOnce(conn'.state, conn'.pending, batch') /\ Quiet'
    BY <1>2, <2>1 DEF TurnInv, Quiet, Due
  <2> QED BY <1>2, <1>4, <2>1, <2>2, LoopTurn
<1> QED BY <1>2, <1>3, <1>4

\* The next fragment is the one after those that were sent; a request that is begun
\* while another is not answered is one for which nothing is promised.
LEMMA ClientSendTurn == ASSUME TurnInv, Inv, NEW k \in Kinds, ClientSend(k) PROVE TurnInv'
<1> DEFINE r       == (sent \div Parts) + 1
           i       == (sent % Parts) + 1
           inbound == Append(conn.inbound, <<r, i>>)
           edge    == conn.edge \/ "in" \in conn.interest
           d       == [conn EXCEPT !.inbound = inbound, !.edge = edge]
<1>1. /\ conn \in ConnType /\ Turned(conn) /\ batch \in Seq(Functors)
      /\ sent \in 0 .. Parts * MaxRequests /\ kind \in [Requests -> Kinds \cup {"none"}]
  BY DEF TurnInv, Inv, TypeOK
<1>2. /\ sent < Parts * MaxRequests /\ sent' = sent + 1
      /\ kind[r] = IF i = 1 THEN "none" ELSE k
      /\ kind' = [kind EXCEPT ![r] = k]
      /\ overlapped' = (overlapped \/ (i = 1 /\ r > 1 /\ ~Answered(r - 1)))
      /\ conn' = Arrive([conn EXCEPT !.inbound = inbound], "in")
      /\ UNCHANGED <<revents, batch, alive, peer, received>>
      /\ alive /\ peer = "open"
  BY DEF ClientSend, Connected, loopVars, lifeVars
<1>3. conn' = d
  BY <1>1, <1>2 DEF Arrive, ConnType
<1>4. conn.inbound \in Seq(Fragments) /\ conn.readBuffer \in Seq(Fragments)
      /\ conn.context \in Seq(Fragments)
  BY <1>1 DEF ConnType, Fragments
<1>5. sent \in Nat /\ MaxRequests \in Nat
  BY <1>1, BoundAssumption DEF Parts
<1>6. /\ r \in Requests /\ r \in Nat /\ i \in {1, 2}
      /\ sent = 2 * (r - 1) + (i - 1) /\ <<r, i>> = Fragment(sent + 1)
  <2> DEFINE q == sent \div 2
             m == sent % 2
  <2>1. q \in Nat /\ m \in 0 .. 1 /\ sent = 2 * q + m /\ r = q + 1 /\ i = m + 1
        /\ sent < 2 * MaxRequests
    BY <1>2, <1>5 DEF Parts
  <2>2. (sent + 1) - 1 = sent
    BY <1>5
  <2>3. <<r, i>> = Fragment(sent + 1)
    BY <2>2 DEF Fragment
  <2> HIDE DEF q, m, r, i
  <2> QED BY <1>5, <2>1, <2>3 DEF Requests
<1> HIDE DEF r, i
<1> DEFINE l == Len(conn.context)
           m == Len(conn.readBuffer)
           n == Len(conn.inbound)
<1>7. /\ l \in Nat /\ m \in Nat /\ n \in Nat
      /\ inbound \in Seq(Fragments) /\ Len(inbound) = n + 1
      /\ \A j \in 1 .. n : inbound[j] = conn.inbound[j]
      /\ inbound[n + 1] = <<r, i>>
  <2>1. <<r, i>> \in Fragments
    BY <1>6 DEF Fragments, Parts
  <2>2. /\ inbound \in Seq(Fragments) /\ Len(inbound) = Len(conn.inbound) + 1
        /\ \A j \in 1 .. Len(conn.inbound) : inbound[j] = conn.inbound[j]
        /\ inbound[Len(conn.inbound) + 1] = <<r, i>>
    BY <1>4, <2>1, AppendProperties
  <2>3. l \in Nat /\ m \in Nat /\ n \in Nat
    BY <1>4, LenProperties
  <2> HIDE DEF inbound
  <2> QED BY <2>2, <2>3
<1> HIDE DEF inbound, edge
<1>8. /\ d.state = conn.state /\ d.context = conn.context /\ d.readBuffer = conn.readBuffer
      /\ d.writeBuffer = conn.writeBuffer /\ d.file = conn.file /\ d.openFiles = conn.openFiles
      /\ d.handled = conn.handled /\ d.outbound = conn.outbound /\ d.inbound = inbound
      /\ d.interest = conn.interest /\ d.pending = conn.pending
  BY <1>1 DEF ConnType
<1> HIDE DEF d
<1> DEFINE a == Done(conn)
<1>9. a \in Nat /\ a = sent - ((n + m) + l) /\ Done(conn)' = a
  <2>1. a \in Nat /\ a = sent - ((n + m) + l) /\ Done(conn)' = (sent + 1) - (((n + 1) + m) + l)
    BY <1>1, <1>2, <1>3, <1>7, <1>8 DEF Turned, Lined, Done
  <2> HIDE DEF a, l, m, n
  <2> QED BY <1>5, <1>7, <2>1
<1>10. Turn(conn)' = Turn(conn) /\ Emitted(conn)' = Emitted(conn)
  BY <1>2, <1>3, <1>8, <1>9 DEF Turn, Emitted
<1>11. Lined(conn)'
  <2>1. IsRun(conn.context, a) /\ IsRun(conn.readBuffer, a + l) /\ IsRun(conn.inbound, (a + l) + m)
    BY <1>1 DEF Turned, Lined
  <2>2. ASSUME NEW j \in 1 .. n + 1
        PROVE  inbound[j] = Fragment(((a + l) + m) + j)
    <3>1. CASE j = n + 1
      <4>1. ((a + l) + m) + (n + 1) = sent + 1
        <5> HIDE DEF a, l, m, n
        <5> QED BY <1>5, <1>7, <1>9
      <4> QED BY <1>6, <1>7, <3>1, <4>1
    <3>2. CASE j # n + 1
      <4>1. j \in 1 .. n
        <5> HIDE DEF n
        <5> QED BY <1>7, <3>2
      <4> QED BY <1>7, <2>1, <4>1 DEF IsRun
    <3> QED BY <3>1, <3>2
  <2>3. IsRun(inbound, (a + l) + m)
    BY <1>7, <2>2 DEF IsRun
  <2>4. sent' \in Nat
    BY <1>2, <1>5
  <2>5. /\ IsRun(d.context, a) /\ IsRun(d.readBuffer, a + Len(d.context))
        /\ IsRun(d.inbound, (a + Len(d.context)) + Len(d.readBuffer))
    BY <1>8, <2>1, <2>3
  <2> HIDE DEF a
  <2> QED BY <1>3, <1>9, <2>4, <2>5 DEF Lined
<1>12. Ordered(conn)'
  BY <1>1, <1>3, <1>8, <1>10 DEF Turned, Ordered
<1>13. Begun'
  <2>1. SUFFICES ASSUME NEW q \in Requests, sent + 1 > 2 * (q - 1)
                 PROVE  kind'[q] \in Kinds
    BY <1>2 DEF Begun, Parts
  <2>2. kind'[q] = IF q = r THEN k ELSE kind[q]
    BY <1>1, <1>2
  <2>3. q # r => kind[q] \in Kinds
    <3>1. q \in Nat
      BY <1>5 DEF Requests
    <3>2. q # r => sent > 2 * (q - 1)
      BY <1>5, <1>6, <2>1, <3>1
    <3> QED BY <3>2 DEF TurnInv, Begun, Parts
  <2> QED BY <2>2, <2>3
<1>14. ASSUME ~overlapped'
       PROVE  ~overlapped /\ Answering(conn) /\ Waited /\ (i = 1 /\ r > 1 => Answered(r - 1))
  BY <1>1, <1>2, <1>14 DEF TurnInv, Turned
<1>15. ASSUME ~overlapped'
       PROVE  conn.state # "Writing"
  <2>1. SUFFICES ASSUME conn.state = "Writing" PROVE FALSE
    OBVIOUS
  <2> DEFINE t == Turn(conn)
  <2>2. Missing(conn) /\ Whole(conn)
    BY <1>2, <1>14, <1>15, <2>1 DEF TurnInv, Answering
  <2>3. /\ t \in Requests /\ Units(kind[t]) # 0 /\ LastUnit(t) \notin Range(received)
        /\ a % 2 = 0 /\ sent = a + 2 /\ t = (a \div 2) + 1
    BY <2>2 DEF Missing, Whole, Emitted, Turn, Parts
  <2> HIDE DEF a, t
  <2>4. t \in Nat /\ i = 1 /\ r = t + 1 /\ r > 1 /\ r - 1 = t
    <3>1. r \in Nat /\ i \in 1 .. 2 /\ sent = 2 * (r - 1) + (i - 1)
      BY <1>6
    <3>2. a \in Nat /\ sent = a + 2 /\ a % 2 = 0 /\ t = (a \div 2) + 1
      BY <1>9, <2>3
    <3>3. t \in Nat /\ a = 2 * (t - 1) /\ t >= 1
      BY <3>2
    <3> QED BY <3>1, <3>2, <3>3
  <2>5. Answered(t)
    BY <1>14, <1>15, <2>4
  <2>6. LastUnit(t) \in Range(Response(t))
    <3> DEFINE u == Units(kind[t])
               s == [j \in 1 .. u |-> <<t, j>>]
    <3>1. u \in 1 .. u
      BY <2>3 DEF Units, BodyLen
    <3>2. Response(t) = s /\ LastUnit(t) = <<t, u>>
      BY DEF Response, LastUnit
    <3> HIDE DEF u
    <3>3. s[u] = <<t, u>> /\ DOMAIN s = 1 .. u
      BY <3>1
    <3> QED BY <3>1, <3>2, <3>3 DEF Range
  <2> QED BY <2>3, <2>5, <2>6 DEF Answered
<1>16. ASSUME ~overlapped'
       PROVE  Answering(conn)'
  <2>1. Strict(conn)' /\ FileKept(conn)'
    BY <1>3, <1>8, <1>14, <1>16 DEF Answering, Strict, FileKept
  <2>2. Sourced(conn)'
    BY <1>3, <1>8, <1>10, <1>14, <1>16 DEF Answering, Sourced
  <2>3. conn.state = "Connected" => Ready(conn)'
    BY <1>3, <1>8, <1>9, <1>10, <1>14, <1>16 DEF Answering, Ready
  <2> QED BY <1>3, <1>8, <1>15, <1>16, <2>1, <2>2, <2>3 DEF Answering
<1>17. ASSUME ~overlapped'
       PROVE  Waited'
  <2>1. SUFFICES ASSUME NEW q \in Requests, sent + 1 > 2 * q
                 PROVE  Answered(q)'
    BY <1>2 DEF Waited, Parts
  <2>2. q \in Nat
    BY <1>5 DEF Requests
  <2>3. q # r /\ (sent > 2 * q \/ (i = 1 /\ r > 1 /\ r - 1 = q))
    <3>1. r \in Nat /\ r >= 1 /\ i \in 1 .. 2 /\ sent = 2 * (r - 1) + (i - 1) /\ q >= 1
      BY <1>5, <1>6 DEF Requests
    <3> QED BY <1>5, <2>1, <2>2, <3>1
  <2>4. Answered(q)
    <3>1. CASE sent > 2 * q
      BY <1>14, <1>17, <3>1 DEF Waited, Parts
    <3>2. CASE ~(sent > 2 * q)
      BY <1>14, <1>17, <2>3, <3>2
    <3> QED BY <3>1, <3>2
  <2>5. kind'[q] = kind[q]
    BY <1>1, <1>2, <2>3
  <2> QED BY <1>2, <2>4, <2>5 DEF Answered, Response
<1>18. ASSUME ~overlapped'
       PROVE  SendsOnce(conn.state, conn.pending, batch)' /\ Quiet'
  BY <1>2, <1>3, <1>8, <1>14, <1>18 DEF TurnInv, Quiet, Due, SendsOnce, Once
<1> HIDE DEF a, l, m, n
<1>19. Turned(conn)'
  BY <1>11, <1>12, <1>16 DEF Turned
<1> QED BY <1>3, <1>8, <1>13, <1>15, <1>17, <1>18, <1>19 DEF TurnInv

\* The client reads what is in the socket.
LEMMA ClientReadTurn == ASSUME TurnInv, Inv, ClientRead PROVE TurnInv'
<1> DEFINE rest == Tail(conn.outbound)
           edge == conn.edge \/ "out" \in conn.interest
           d    == [conn EXCEPT !.outbound = rest, !.edge = edge]
<1>1. /\ conn \in ConnType /\ Turned(conn)
      /\ received \in Seq(UnitsOf) /\ conn.outbound \in Seq(UnitsOf)
  BY DEF TurnInv, Inv, TypeOK, ConnType, UnitsOf
<1>2. /\ conn.outbound # <<>> /\ received' = Append(received, Head(conn.outbound))
      /\ conn' = Arrive([conn EXCEPT !.outbound = rest], "out")
      /\ UNCHANGED <<revents, batch, alive, peer, kind, sent, overlapped>>
  BY DEF ClientRead, loopVars, lifeVars
<1>3. conn' = d
  BY <1>1, <1>2 DEF Arrive, ConnType
<1>4. /\ Head(conn.outbound) \in UnitsOf
      /\ Range(conn.outbound) = {Head(conn.outbound)} \cup Range(rest)
  BY <1>1, <1>2, RangeTail
<1>5. Range(received') = Range(received) \cup {Head(conn.outbound)}
  BY <1>1, <1>2, <1>4, RangeAppend
<1> HIDE DEF rest, edge
<1>6. /\ d.state = conn.state /\ d.context = conn.context /\ d.readBuffer = conn.readBuffer
      /\ d.writeBuffer = conn.writeBuffer /\ d.file = conn.file /\ d.openFiles = conn.openFiles
      /\ d.handled = conn.handled /\ d.inbound = conn.inbound /\ d.outbound = rest
      /\ d.interest = conn.interest /\ d.pending = conn.pending
  BY <1>1 DEF ConnType
<1> HIDE DEF d
<1>7. Done(conn)' = Done(conn) /\ Turn(conn)' = Turn(conn) /\ Emitted(conn)' = Emitted(conn)
  BY <1>2, <1>3, <1>4, <1>5, <1>6 DEF Done, Turn, Emitted
<1>8. Lined(conn)' /\ Ordered(conn)'
  BY <1>1, <1>2, <1>3, <1>6, <1>7 DEF Turned, Lined, Ordered, IsRun
<1>9. ~overlapped => Answering(conn)'
  BY <1>1, <1>2, <1>3, <1>6, <1>7
     DEF Turned, Answering, Strict, Sourced, FileKept, Ready, Whole
<1>10. Begun' /\ (Waited => Waited')
  BY <1>2, <1>5 DEF TurnInv, Begun, Waited, Answered, Response
<1>11. Missing(conn) => Missing(conn)'
  BY <1>2, <1>3, <1>6, <1>7 DEF Missing, LastUnit
<1>12. ~overlapped => SendsOnce(conn.state, conn.pending, batch)' /\ Quiet'
  BY <1>2, <1>3, <1>6 DEF TurnInv, Quiet, Due, SendsOnce, Once
<1> QED BY <1>2, <1>3, <1>6, <1>8, <1>9, <1>10, <1>11, <1>12 DEF TurnInv, Turned

\* The client sends no more.
LEMMA ClientShutdownTurn == ASSUME TurnInv, Inv, ClientShutdown PROVE TurnInv'
<1>1. conn \in ConnType
  BY DEF Inv, TypeOK
<1>2. Same(conn, conn') /\ conn'.interest = conn.interest /\ conn'.pending = conn.pending
  BY <1>1 DEF ClientShutdown, Arrive, Same, ConnType
<1> QED BY <1>2, SameTurn DEF ClientShutdown, loopVars, lifeVars

\* The client resets the connection.
LEMMA ClientResetTurn == ASSUME TurnInv, Inv, ClientReset PROVE TurnInv'
<1> DEFINE d == [conn EXCEPT !.edge = TRUE, !.outbound = <<>>]
<1>1. conn \in ConnType /\ Turned(conn)
  BY DEF TurnInv, Inv, TypeOK
<1>2. /\ conn' = d /\ peer' = "gone"
      /\ UNCHANGED <<revents, batch, alive, kind, sent, received, overlapped>>
  BY DEF ClientReset, loopVars, lifeVars
<1>3. /\ d.state = conn.state /\ d.context = conn.context /\ d.readBuffer = conn.readBuffer
      /\ d.writeBuffer = conn.writeBuffer /\ d.file = conn.file /\ d.openFiles = conn.openFiles
      /\ d.handled = conn.handled /\ d.inbound = conn.inbound /\ d.outbound = <<>>
      /\ d.interest = conn.interest /\ d.pending = conn.pending
  BY <1>1 DEF ConnType
<1> HIDE DEF d
<1>4. Done(d) = Done(conn) /\ Turn(d) = Turn(conn) /\ Emitted(d) \subseteq Emitted(conn)
  BY <1>3, RangeEmpty DEF Done, Turn, Emitted
<1>5. Lined(d) /\ Ordered(d)
  BY <1>1, <1>3, <1>4 DEF Turned, Lined, Ordered
<1>6. ~overlapped => Answering(d)
  BY <1>1, <1>3, <1>4 DEF Turned, Answering, Strict, Sourced, FileKept, Ready, Whole
<1>7. ~overlapped => SendsOnce(d.state, d.pending, batch') /\ Quiet'
  BY <1>2, <1>3 DEF TurnInv, Quiet, Due
<1> QED BY <1>2, <1>5, <1>6, <1>7, LoopTurn DEF Turned

\* A new connection.
LEMMA TurnInit == Init => TurnInv
<1> SUFFICES ASSUME Init PROVE TurnInv
  OBVIOUS
<1>1. /\ conn.state = "Connected" /\ conn.readBuffer = <<>> /\ conn.context = <<>>
      /\ conn.writeBuffer = <<>> /\ conn.file = NoFile /\ conn.openFiles = 0
      /\ conn.handled = <<>> /\ conn.inbound = <<>> /\ conn.outbound = <<>>
      /\ conn.interest = {"in"} /\ conn.pending = <<>>
      /\ revents = {} /\ batch = <<>> /\ received = <<>> /\ sent = 0
  BY DEF Init
<1>2. Done(conn) = 0 /\ Emitted(conn) = {}
  <2>1. Len(conn.inbound) = 0 /\ Len(conn.readBuffer) = 0 /\ Len(conn.context) = 0
    BY <1>1
  <2>2. Done(conn) = 0
    <3>1. sent = 0
      BY <1>1
    <3> QED BY <2>1, <3>1, SMTT(30) DEF Done
  <2>3. Range(received) = {} /\ Range(conn.outbound) = {}
    BY <1>1, RangeEmpty
  <2> QED BY <2>2, <2>3 DEF Emitted
<1>3. Lined(conn) /\ Ordered(conn)
  BY <1>1, <1>2 DEF Lined, Ordered, IsRun
<1>4. Answering(conn)
  BY <1>1, <1>2, RangeEmpty DEF Answering, Strict, Sourced, FileKept, Ready, Parts
<1>5. Begun /\ Waited
  <2>1. \A r \in Requests : ~(sent > 2 * (r - 1)) /\ ~(sent > 2 * r)
    BY <1>1, BoundAssumption DEF Requests
  <2> QED BY <2>1 DEF Begun, Waited, Parts
<1>6. SendsOnce(conn.state, conn.pending, batch) /\ Quiet
  BY <1>1, RangeEmpty DEF SendsOnce, Once, Quiet
<1> QED BY <1>1, <1>3, <1>4, <1>5, <1>6 DEF TurnInv, Turned

\* Every step, by the lemma on it.
LEMMA TurnNext == Inv /\ TurnInv /\ [Next]_vars => TurnInv'
<1> SUFFICES ASSUME Inv, TurnInv, [Next]_vars PROVE TurnInv'
  OBVIOUS
<1>1. CASE Poll
  BY <1>1, PollTurn
<1>2. CASE HandleHangup
  BY <1>2, HandleHangupTurn
<1>3. CASE HandleRead
  BY <1>3, HandleReadTurn
<1>4. CASE HandleWrite
  BY <1>4, HandleWriteTurn
<1>5. CASE DoPendingFunctors
  BY <1>5, DoPendingFunctorsTurn
<1>6. CASE RunSend
  BY <1>6, RunSendTurn
<1>7. CASE RunProcess
  BY <1>7, RunProcessTurn
<1>8. CASE RunError
  BY <1>8, RunErrorTurn
<1>9. CASE RunClose
  BY <1>9, RunCloseTurn
<1>10. CASE RunErase
  BY <1>10, RunEraseTurn
<1>11. CASE EndFunctors
  BY <1>11, EndFunctorsTurn
<1>12. CASE EndTick
  BY <1>12, EndTickTurn
<1>13. CASE FireTimer
  BY <1>13, FireTimerTurn
<1>14. CASE SigPipe
  BY <1>14, SigPipeTurn
<1>15. CASE Client
  <2>1. CASE \E k \in Kinds : ClientSend(k)
    BY <2>1, ClientSendTurn
  <2>2. CASE ClientRead
    BY <2>2, ClientReadTurn
  <2>3. CASE ClientShutdown
    BY <2>3, ClientShutdownTurn
  <2>4. CASE ClientReset
    BY <2>4, ClientResetTurn
  <2> QED BY <1>15, <2>1, <2>2, <2>3, <2>4 DEF Client
<1>16. CASE UNCHANGED vars
  BY <1>16, SameTurn DEF vars, Same
<1> QED BY <1>1, <1>2, <1>3, <1>4, <1>5, <1>6, <1>7, <1>8, <1>9, <1>10, <1>11, <1>12,
           <1>13, <1>14, <1>15, <1>16 DEF Next, LoopStep

\* Requests are handled in the order they were sent; a client that waits for each
\* answer has each handled once, and no file stays open but the one being sent to it.
THEOREM AnsweredInTurn == Spec => []EachInTurn
<1>1. Inv /\ TurnInv => EachInTurn
  <2>1. SUFFICES ASSUME Inv, TurnInv PROVE HandledInOrder /\ FilesClosed
    BY DEF EachInTurn
  <2>2. DOMAIN conn.handled = 1 .. Len(conn.handled)
    <3>1. conn.handled \in Seq(Requests)
      BY <2>1 DEF Inv, TypeOK, ConnType
    <3> QED BY <3>1, LenProperties
  <2>3. Ordered(conn) /\ (~overlapped => Strict(conn) /\ FileKept(conn))
    BY <2>1 DEF TurnInv, Turned, Answering
  <2> QED BY <2>2, <2>3 DEF HandledInOrder, FilesClosed, Ordered, Strict, FileKept
<1>2. Init => Inv /\ TurnInv
  BY InvInit, TurnInit
<1>3. (Inv /\ TurnInv) /\ [Next]_vars => (Inv /\ TurnInv)'
  BY InvNext, TurnNext
<1> QED BY <1>1, <1>2, <1>3, PTL DEF Spec

-----------------------------------------------------------------------------
(* What is selected of a sequence.                                         *)

\* Only, element by element.
Keep(S, T) == [x \in S |-> IF x \in T THEN <<x>> ELSE <<>>]

LEMMA KeepIsMap ==
  ASSUME NEW S, NEW T
  PROVE  IsMap(Keep(S, T), S, Seq(S))
BY DEF IsMap, Keep

LEMMA OnlyIs ==
  ASSUME NEW S, NEW T, NEW s \in Seq(S)
  PROVE  Only(s, T) = FlattenSeq(Image(Keep(S, T), s))
<1>1. \A i \in DOMAIN s : s[i] \in S
  BY LenProperties, ElementOfSeq
<1>2. \A i \in DOMAIN s : Keep(S, T)[s[i]] = IF s[i] \in T THEN <<s[i]>> ELSE <<>>
  BY <1>1 DEF Keep
<1>3. [i \in DOMAIN s |-> IF s[i] \in T THEN <<s[i]>> ELSE <<>>] = Image(Keep(S, T), s)
  BY <1>2 DEF Image
<1> QED BY <1>3 DEF Only

\* It is a sequence of what it is selected from,
LEMMA OnlyType ==
  ASSUME NEW S, NEW T, NEW s \in Seq(S)
  PROVE  Only(s, T) \in Seq(S)
BY KeepIsMap, OnlyIs, FlattenImageType

\* of two parts it is what is selected of each,
LEMMA OnlyConcat ==
  ASSUME NEW S, NEW T
  PROVE  \A s, t \in Seq(S) : Only(s \o t, T) = Only(s, T) \o Only(t, T)
<1> SUFFICES ASSUME NEW s \in Seq(S), NEW t \in Seq(S)
             PROVE  Only(s \o t, T) = Only(s, T) \o Only(t, T)
  OBVIOUS
<1>1. s \o t \in Seq(S)
  BY ConcatProperties
<1>2. FlattenSeq(Image(Keep(S, T), s \o t)) =
        FlattenSeq(Image(Keep(S, T), s)) \o FlattenSeq(Image(Keep(S, T), t))
  BY KeepIsMap, FlattenImageConcat
<1>3. \A u \in Seq(S) : Only(u, T) = FlattenSeq(Image(Keep(S, T), u))
  BY OnlyIs
<1> QED BY <1>1, <1>2, <1>3

\* nothing of nothing,
LEMMA OnlyEmpty ==
  ASSUME NEW T
  PROVE  Only(<<>>, T) = <<>>
<1>1. <<>> \in Seq({})
  OBVIOUS
<1>2. Only(<<>>, T) = FlattenSeq(Image(Keep({}, T), <<>>))
  BY <1>1, OnlyIs
<1> QED BY <1>2, FlattenImageEmpty

LEMMA OnlyOne ==
  ASSUME NEW S, NEW T, NEW x \in S
  PROVE  Only(<<x>>, T) = IF x \in T THEN <<x>> ELSE <<>>
<1>1. <<x>> \in Seq(S)
  OBVIOUS
<1>2. Only(<<x>>, T) = Keep(S, T)[x]
  BY <1>1, KeepIsMap, OnlyIs, FlattenImageOne
<1> QED BY <1>2 DEF Keep

\* A sequence is one of the elements it has.
LEMMA SeqWithin ==
  ASSUME NEW S, NEW T, NEW s \in Seq(S), \A i \in 1 .. Len(s) : s[i] \in T
  PROVE  s \in Seq(T)
<1>1. Len(s) \in Nat /\ DOMAIN s = 1 .. Len(s) /\ s \in [1 .. Len(s) -> S]
  BY LenProperties
<1>2. s \in [1 .. Len(s) -> T]
  BY <1>1
<1> QED BY <1>1, <1>2, FunctionIsSeq

\* all of a sequence if it has nothing else,
LEMMA OnlyAll ==
  ASSUME NEW S, NEW T, NEW s \in Seq(S), \A i \in 1 .. Len(s) : s[i] \in T
  PROVE  Only(s, T) = s
<1> DEFINE U == {u \in Seq(T) : Only(u, T) = u}
<1>1. <<>> \in U
  BY OnlyEmpty
<1>2. ASSUME NEW u \in Seq(T), NEW x \in T, u \in U
      PROVE  Append(u, x) \in U
  <2>1. Append(u, x) = u \o <<x>> /\ Append(u, x) \in Seq(T) /\ <<x>> \in Seq(T)
    BY AppendIsConcat, AppendProperties
  <2>2. Only(u \o <<x>>, T) = Only(u, T) \o Only(<<x>>, T)
    BY <2>1, OnlyConcat
  <2>3. Only(<<x>>, T) = <<x>>
    BY OnlyOne
  <2> QED BY <1>2, <2>1, <2>2, <2>3
<1> HIDE DEF U
<1>3. s \in Seq(T)
  BY SeqWithin
<1>4. s \in U
  BY <1>1, <1>2, <1>3, SeqInduction
<1> QED BY <1>4 DEF U

\* and none of one that has nothing of it.
LEMMA OnlyNone ==
  ASSUME NEW S, NEW T, NEW s \in Seq(S), \A i \in 1 .. Len(s) : s[i] \notin T
  PROVE  Only(s, T) = <<>>
<1> DEFINE R == S \ T
           U == {u \in Seq(R) : Only(u, T) = <<>>}
<1>1. <<>> \in U
  BY OnlyEmpty
<1>2. ASSUME NEW u \in Seq(R), NEW x \in R, u \in U
      PROVE  Append(u, x) \in U
  <2>1. Append(u, x) = u \o <<x>> /\ Append(u, x) \in Seq(R) /\ <<x>> \in Seq(R)
    BY AppendIsConcat, AppendProperties
  <2>2. Only(u \o <<x>>, T) = Only(u, T) \o Only(<<x>>, T)
    BY <2>1, OnlyConcat
  <2>3. Only(<<x>>, T) = <<>>
    BY OnlyOne
  <2>4. <<>> \o <<>> = <<>>
    OBVIOUS
  <2> QED BY <1>2, <2>1, <2>2, <2>3, <2>4
<1>4. s \in Seq(R)
  <2>1. \A i \in 1 .. Len(s) : s[i] \in R
    BY ElementOfSeq, LenProperties
  <2> HIDE DEF R
  <2> QED BY <2>1, SeqWithin
<1> HIDE DEF U, R
<1>3. s \in U
  BY <1>1, <1>2, <1>4, SeqInduction
<1> QED BY <1>3 DEF U

\* What is selected depends on the elements only.
LEMMA OnlySame ==
  ASSUME NEW S, NEW T, NEW U, NEW s \in Seq(S),
         \A i \in 1 .. Len(s) : s[i] \in T <=> s[i] \in U
  PROVE  Only(s, T) = Only(s, U)
<1>1. DOMAIN s = 1 .. Len(s)
  BY LenProperties
<1>2. [i \in DOMAIN s |-> IF s[i] \in T THEN <<s[i]>> ELSE <<>>]
        = [i \in DOMAIN s |-> IF s[i] \in U THEN <<s[i]>> ELSE <<>>]
  BY <1>1
<1> QED BY <1>2 DEF Only

-----------------------------------------------------------------------------
(* The answers.  What goes to the client (Stream) is followed through the  *)
(* buffers by selecting from it: of what went through writeBuffer_ a send  *)
(* moves a part and loses none, and sendfile adds nothing; to the body of  *)
(* a file sendfile adds and nothing else does.                             *)

\* The requests the client has begun, and the units of their responses.
Known == {r \in Requests : kind[r] # "none"}
KnownUnits == {u \in UnitsOf : u[1] \in Known}
Waiting == KnownUnits \cap Buffered

Stream(c) == received \o (c.outbound \o c.writeBuffer)
Body(c, r) == Only(received \o c.outbound, BodyOf(r))
Responses(s) == FlattenSeq([i \in DOMAIN s |-> Serialized(s[i])])

Streamed(c) ==
  /\ c.handled \in Seq(Known)
  /\ received \in Seq(KnownUnits)
  /\ c.outbound \in Seq(KnownUnits)
  /\ c.writeBuffer \in Seq(Waiting)
  /\ c.file # NoFile => c.file.req \in Known /\ kind[c.file.req] = "file"
  /\ peer # "gone" => Only(Stream(c), Buffered) = Responses(c.handled)

\* Every unit of a body is its first or comes after the one before it.
Pieces(s) == \A i \in 1 .. Len(s) : s[i][2] = 2 \/ (i > 1 /\ s[i][2] = s[i - 1][2] + 1)

Accounted(c) ==
  \A r \in Known : kind[r] = "file" =>
    /\ Pieces(Body(c, r))
    /\ IF c.file.req = r THEN Len(Body(c, r)) = BodyLen - c.file.left
       ELSE Len(Body(c, r)) \in {0, BodyLen}

\* Of the file that is open nothing has been sent.
Untouched(c) == c.file # NoFile => c.file.left = BodyLen

\* While a TrySend is to come, which may close the file, EPOLLOUT has not begun with it.
StreamInv ==
  /\ Streamed(conn)
  /\ alive /\ peer # "gone" /\ ~overlapped =>
       Accounted(conn) /\ ("send" \in Due => Untouched(conn))

\* Nothing that goes to the client has changed.
SameOut(c, d) ==
  /\ d.handled = c.handled
  /\ d.outbound = c.outbound
  /\ d.writeBuffer = c.writeBuffer
  /\ d.file = c.file

LEMMA SameStream ==
  ASSUME NEW c, NEW d, SameOut(c, d)
  PROVE  /\ Streamed(c) => Streamed(d)
         /\ Accounted(c) => Accounted(d)
         /\ Untouched(c) => Untouched(d)
BY DEF SameOut, Streamed, Stream, Accounted, Body, Untouched

\* The units that are waiting for a send are units.
LEMMA WaitingUnits ==
  ASSUME NEW s \in Seq(Waiting)
  PROVE  s \in Seq(KnownUnits) /\ s \in Seq(UnitsOf)
<1>1. \A i \in 1 .. Len(s) : s[i] \in KnownUnits /\ s[i] \in UnitsOf
  BY ElementOfSeq DEF Waiting, KnownUnits
<1> QED BY <1>1, SeqWithin

LEMMA KnownAreUnits ==
  ASSUME NEW s \in Seq(KnownUnits)
  PROVE  s \in Seq(UnitsOf)
<1>1. \A i \in 1 .. Len(s) : s[i] \in UnitsOf
  BY ElementOfSeq DEF KnownUnits
<1> QED BY <1>1, SeqWithin

LEMMA UnitsAssociate ==
  \A s, t, u \in Seq(UnitsOf) : (s \o t) \o u = s \o (t \o u)
BY Associative

\* What is selected of the three parts of the stream.
LEMMA OnlyStream ==
  ASSUME NEW T, NEW s \in Seq(UnitsOf)
  PROVE  \A t, u \in Seq(UnitsOf) :
           Only(s \o (t \o u), T) = Only(s, T) \o (Only(t, T) \o Only(u, T))
<1> SUFFICES ASSUME NEW t \in Seq(UnitsOf), NEW u \in Seq(UnitsOf)
             PROVE  Only(s \o (t \o u), T) = Only(s, T) \o (Only(t, T) \o Only(u, T))
  OBVIOUS
<1>1. PICK v : v = t \o u
  OBVIOUS
<1>2. v \in Seq(UnitsOf)
  BY <1>1, ConcatProperties
<1>3. Only(v, T) = Only(t, T) \o Only(u, T)
  BY <1>1, OnlyConcat
<1>4. Only(s \o v, T) = Only(s, T) \o Only(v, T)
  BY <1>2, OnlyConcat
<1> QED BY <1>1, <1>3, <1>4

\* What is waiting is of no body.
LEMMA WaitingNoBody ==
  ASSUME NEW s \in Seq(Waiting), NEW r \in Known, kind[r] = "file"
  PROVE  Only(s, BodyOf(r)) = <<>>
<1>1. \A i \in 1 .. Len(s) : s[i] \notin BodyOf(r)
  <2> SUFFICES ASSUME NEW i \in 1 .. Len(s), s[i] \in BodyOf(r) PROVE FALSE
    OBVIOUS
  <2>1. s[i] \in Waiting
    BY ElementOfSeq
  <2>2. s[i][1] = r /\ s[i][2] # 1
    BY DEF BodyOf, BodyLen
  <2> QED BY <2>1, <2>2 DEF Waiting, Buffered
<1> QED BY <1>1, OnlyNone

\* A send takes from the front of writeBuffer_ what it adds to the socket's buffer.
LEMMA WriteStream ==
  ASSUME NEW c \in ConnType, Kept(c), Streamed(c)
  PROVE  LET d == Write(c).c
         IN  /\ Streamed(d)
             /\ Accounted(c) => Accounted(d)
             /\ d.file = c.file
             /\ Write(c).result = "complete" => d.writeBuffer = <<>>
<1> DEFINE room == SockCap - Len(c.outbound)
           size == Len(c.writeBuffer)
           n    == IF size <= room THEN size ELSE room
           front == SubSeq(c.writeBuffer, 1, n)
           rest == SubSeq(c.writeBuffer, n + 1, size)
           out  == c.outbound \o front
           d    == [c EXCEPT !.outbound = out, !.writeBuffer = rest]
<1>1. /\ c.outbound \in Seq(KnownUnits) /\ c.writeBuffer \in Seq(Waiting)
      /\ received \in Seq(KnownUnits)
      /\ c.outbound \in Seq(UnitsOf) /\ received \in Seq(UnitsOf) /\ SockCap \in Nat
  BY BoundAssumption, KnownAreUnits DEF Streamed
<1>2. Len(c.outbound) \in Nat /\ size \in Nat
  BY <1>1, LenProperties
<1>3. n \in 0 .. size
  <2>1. room \in Nat
    BY <1>1, <1>2 DEF Kept
  <2> HIDE DEF room, size
  <2> QED BY <1>2, <2>1
<1>8. Write(c) = IF peer = "gone" /\ c.writeBuffer # <<>> THEN [c |-> c, result |-> "error"]
                 ELSE [c |-> d, result |-> IF n = size THEN "complete" ELSE "again"]
  BY DEF Write
<1> HIDE DEF n
<1>4. /\ front \in Seq(Waiting) /\ rest \in Seq(Waiting) /\ c.writeBuffer = front \o rest
  BY <1>1, <1>3, Split
<1>13. n = size => rest = <<>>
  <2>1. SubSeq(c.writeBuffer, size + 1, size) = <<>>
    <3>1. \A i \in size + 1 .. size : c.writeBuffer[i] \in Waiting
      BY <1>2
    <3> HIDE DEF size
    <3>2. size + 1 - 1 = size /\ ~(size + 1 <= size)
      BY <1>2
    <3>3. PICK e : e = SubSeq(c.writeBuffer, size + 1, size)
      OBVIOUS
    <3>4. Len(e) = 0 /\ e \in Seq(Waiting)
      BY <1>1, <1>2, <3>1, <3>2, <3>3, SubSeqProperties
    <3> QED BY <3>3, <3>4, EmptySeq
  <2> QED BY <2>1
<1> HIDE DEF front, rest
<1>5. /\ front \in Seq(KnownUnits) /\ front \in Seq(UnitsOf) /\ rest \in Seq(UnitsOf)
  BY <1>4, WaitingUnits
<1>6. out \in Seq(KnownUnits) /\ out \in Seq(UnitsOf)
  BY <1>1, <1>5, ConcatProperties
<1>7. out \o rest = c.outbound \o c.writeBuffer
  <2>2. (c.outbound \o front) \o rest = c.outbound \o (front \o rest)
    BY <1>1, <1>5, UnitsAssociate
  <2> QED BY <1>4, <2>2
<1>9. \A r \in Known : kind[r] = "file" =>
        Only(received \o out, BodyOf(r)) = Only(received \o c.outbound, BodyOf(r))
  <2> SUFFICES ASSUME NEW r \in Known, kind[r] = "file"
               PROVE  Only(received \o out, BodyOf(r)) = Only(received \o c.outbound, BodyOf(r))
    OBVIOUS
  <2>1. Only(received \o (c.outbound \o front), BodyOf(r)) =
          Only(received, BodyOf(r)) \o (Only(c.outbound, BodyOf(r)) \o Only(front, BodyOf(r)))
    <3>1. received \in Seq(UnitsOf) /\ c.outbound \in Seq(UnitsOf) /\ front \in Seq(UnitsOf)
      BY <1>1, <1>5
    <3>2. \A t, u \in Seq(UnitsOf) :
            Only(received \o (t \o u), BodyOf(r)) =
              Only(received, BodyOf(r)) \o (Only(t, BodyOf(r)) \o Only(u, BodyOf(r)))
      BY <3>1, OnlyStream
    <3> QED BY ZenonT(40), <3>1, <3>2
  <2>2. Only(received \o c.outbound, BodyOf(r)) =
          Only(received, BodyOf(r)) \o Only(c.outbound, BodyOf(r))
    BY <1>1, OnlyConcat
  <2>3. PICK x : x = Only(c.outbound, BodyOf(r))
    OBVIOUS
  <2>4. x \in Seq(UnitsOf)
    BY <1>1, <2>3, OnlyType
  <2>5. x \o <<>> = x
    BY <2>4, ConcatEmptySeq
  <2> QED BY <1>4, <2>1, <2>2, <2>3, <2>5, WaitingNoBody
<1> HIDE DEF out
<1>10. /\ d.handled = c.handled /\ d.outbound = out /\ d.writeBuffer = rest /\ d.file = c.file
  BY DEF ConnType
<1> HIDE DEF d
<1>11. Streamed(d)
  BY <1>1, <1>4, <1>6, <1>7, <1>10 DEF Streamed, Stream
<1>12. Accounted(c) => Accounted(d)
  BY <1>9, <1>10 DEF Accounted, Body
<1> HIDE DEF size
<1>14. CASE peer = "gone" /\ c.writeBuffer # <<>>
  BY <1>8, <1>14
<1>15. CASE ~(peer = "gone" /\ c.writeBuffer # <<>>)
  BY <1>8, <1>10, <1>11, <1>12, <1>13, <1>15
<1> QED BY <1>14, <1>15

\* A file that is closed is one of which nothing or all has been sent.
LEMMA CloseFileStream ==
  ASSUME NEW c \in ConnType, Streamed(c)
  PROVE  LET d == CloseFile(c)
         IN  /\ Streamed(d)
             /\ Accounted(c) /\ (c.file # NoFile => c.file.left \in {0, BodyLen}) => Accounted(d)
             /\ d.file = NoFile
             /\ d.handled = c.handled /\ d.outbound = c.outbound /\ d.writeBuffer = c.writeBuffer
<1> DEFINE n == IF c.file = NoFile THEN c.openFiles ELSE c.openFiles - 1
           d == [c EXCEPT !.file = NoFile, !.openFiles = n]
<1>1. d = CloseFile(c)
  BY DEF CloseFile
<1> HIDE DEF n
<1>2. /\ d.handled = c.handled /\ d.outbound = c.outbound /\ d.writeBuffer = c.writeBuffer
      /\ d.file = NoFile
  BY DEF ConnType
<1> HIDE DEF d
<1>3. Streamed(d)
  BY <1>2 DEF Streamed, Stream
<1>4. ASSUME Accounted(c), c.file # NoFile => c.file.left \in {0, BodyLen}
      PROVE  Accounted(d)
  <2> SUFFICES ASSUME NEW r \in Known, kind[r] = "file"
               PROVE  /\ Pieces(Body(d, r))
                      /\ IF d.file.req = r THEN Len(Body(d, r)) = BodyLen - d.file.left
                         ELSE Len(Body(d, r)) \in {0, BodyLen}
    BY DEF Accounted
  <2>1. Body(d, r) = Body(c, r)
    BY <1>2 DEF Body
  <2>2. r # 0
    BY BoundAssumption DEF Known, Requests
  <2>3. d.file.req # r
    BY <1>2, <2>2 DEF NoFile
  <2>4. /\ Pieces(Body(c, r))
        /\ IF c.file.req = r THEN Len(Body(c, r)) = BodyLen - c.file.left
           ELSE Len(Body(c, r)) \in {0, BodyLen}
    BY <1>4 DEF Accounted
  <2>5. c.file.req = r => c.file # NoFile
    BY <2>2 DEF NoFile
  <2>6. c.file.req = r => BodyLen - c.file.left \in {0, BodyLen}
    BY <1>4, <2>5 DEF BodyLen
  <2> QED BY <2>1, <2>3, <2>4, <2>6
<1> QED BY <1>1, <1>2, <1>3, <1>4

\* Two sequences of pieces, one after the other.
LEMMA PiecesConcat ==
  ASSUME NEW s \in Seq(UnitsOf), NEW t \in Seq(UnitsOf), Pieces(s),
         \A i \in 1 .. Len(t) : t[i][2] = 1 + i
  PROVE  Pieces(s \o t)
<1>1. PICK m \in Nat, n \in Nat : m = Len(s) /\ n = Len(t)
  BY LenProperties
<1>2. PICK u : u = s \o t
  OBVIOUS
<1>3. /\ Len(u) = m + n
      /\ \A i \in 1 .. m + n : u[i] = IF i <= m THEN s[i] ELSE t[i - m]
  BY <1>1, <1>2, ConcatProperties
<1>4. ASSUME NEW i \in 1 .. m + n
      PROVE  u[i][2] = 2 \/ (i > 1 /\ u[i][2] = u[i - 1][2] + 1)
  <2>1. CASE i <= m
    <3>1. i \in 1 .. m /\ u[i] = s[i]
      BY <1>3, <2>1
    <3>2. s[i][2] = 2 \/ (i > 1 /\ s[i][2] = s[i - 1][2] + 1)
      BY <1>1, <3>1 DEF Pieces
    <3>3. i > 1 => i - 1 \in 1 .. m + n /\ i - 1 <= m
      BY <2>1
    <3>4. i > 1 => u[i - 1] = s[i - 1]
      BY <1>3, <3>3
    <3> QED BY <3>1, <3>2, <3>4
  <2>2. CASE i = m + 1
    <3>1. ~(i <= m) /\ i - m = 1
      BY ONLY m \in Nat, <2>2
    <3>2. u[i] = t[1] /\ 1 \in 1 .. n
      BY <1>3, <2>2, <3>1
    <3> QED BY <1>1, <3>2
  <2>3. CASE i > m + 1
    <3>1. i - m \in 1 .. n /\ (i - 1) - m \in 1 .. n /\ ~(i <= m) /\ ~(i - 1 <= m)
          /\ i - 1 \in 1 .. m + n /\ i > 1
      BY <2>3
    <3>2. u[i] = t[i - m] /\ u[i - 1] = t[(i - 1) - m]
      BY <1>3, <3>1
    <3>3. t[i - m][2] = 1 + (i - m) /\ t[(i - 1) - m][2] = 1 + ((i - 1) - m)
      BY <1>1, <3>1
    <3>4. 1 + (i - m) = (1 + ((i - 1) - m)) + 1
      OBVIOUS
    <3> QED BY <3>1, <3>2, <3>3, <3>4
  <2> QED BY <2>1, <2>2, <2>3
<1> QED BY <1>2, <1>3, <1>4 DEF Pieces

\* The sendfile loop adds to the body of the file that is open, and to nothing else.
LEMMA SendFileStream ==
  ASSUME NEW c \in ConnType, Kept(c), Streamed(c), c.file # NoFile
  PROVE  LET f == SendFile(c)
         IN  /\ Streamed(f.c)
             /\ Accounted(c) /\ peer # "gone" => Accounted(f.c)
             /\ f.c.writeBuffer = c.writeBuffer
             /\ f.result = "complete" => f.c.file = NoFile
<1> DEFINE room == SockCap - Len(c.outbound)
           left == c.file.left
           n    == IF left <= room THEN left ELSE room
           body == [i \in 1 .. n |-> <<c.file.req, 1 + i>>]
           out  == c.outbound \o body
           file == [c.file EXCEPT !.left = left - n]
           d    == [c EXCEPT !.outbound = out, !.file = file]
<1>1. /\ c.outbound \in Seq(KnownUnits) /\ c.writeBuffer \in Seq(Waiting)
      /\ received \in Seq(KnownUnits) /\ c.file.req \in Known /\ kind[c.file.req] = "file"
      /\ c.outbound \in Seq(UnitsOf) /\ received \in Seq(UnitsOf) /\ SockCap \in Nat
      /\ c.writeBuffer \in Seq(UnitsOf)
  BY BoundAssumption, KnownAreUnits, WaitingUnits DEF Streamed
<1>2. Len(c.outbound) \in Nat
  BY <1>1, LenProperties
<1>3. c.file \in [req : 0 .. MaxRequests, left : 0 .. BodyLen] /\ BodyLen = 2
  BY DEF ConnType, BodyLen
<1>4. n \in 0 .. left /\ left - n \in 0 .. 2 /\ n <= 2 /\ n \in Nat /\ left \in 0 .. 2
  <2>1. left \in 0 .. 2
    BY <1>3
  <2>2. room \in Nat
    BY <1>1, <1>2 DEF Kept
  <2> HIDE DEF left, room
  <2> QED BY <2>1, <2>2
<1>5. SendFile(c) = IF peer = "gone" /\ left > 0 THEN [c |-> CloseFile(c), result |-> "error"]
                    ELSE IF n < left THEN [c |-> d, result |-> "again"]
                    ELSE [c |-> CloseFile(d), result |-> "complete"]
  BY DEF SendFile, out, file, body, n
<1> HIDE DEF n
<1>6. /\ body \in Seq(KnownUnits) /\ body \in Seq(UnitsOf) /\ Len(body) = n
      /\ \A i \in 1 .. n : body[i] = <<c.file.req, 1 + i>>
  <2>1. \A i \in 1 .. n : <<c.file.req, 1 + i>> \in KnownUnits
    BY <1>1, <1>3, <1>4 DEF Known, KnownUnits, UnitsOf
  <2>2. body \in [1 .. n -> KnownUnits]
    BY <2>1
  <2>3. \A i \in 1 .. n : body[i] = <<c.file.req, 1 + i>>
    OBVIOUS
  <2> HIDE DEF body
  <2>4. body \in Seq(KnownUnits) /\ Len(body) = n
    BY <1>4, <2>2, FunctionIsSeq
  <2> QED BY <2>3, <2>4, KnownAreUnits
<1> HIDE DEF body
<1>7. out \in Seq(KnownUnits) /\ out \in Seq(UnitsOf)
  BY <1>1, <1>6, ConcatProperties
<1>8. Only(out, Buffered) = Only(c.outbound, Buffered)
  <2>1. \A i \in 1 .. n : body[i] \notin Buffered
    <3> SUFFICES ASSUME NEW i \in 1 .. n PROVE body[i] \notin Buffered
      OBVIOUS
    <3>1. body[i][1] = c.file.req /\ body[i][2] # 1
      BY <1>4, <1>6
    <3> QED BY <1>1, <3>1 DEF Buffered
  <2>2. Only(body, Buffered) = <<>>
    BY <1>6, <2>1, OnlyNone
  <2>3. Only(out, Buffered) = Only(c.outbound, Buffered) \o Only(body, Buffered)
    BY <1>1, <1>6, OnlyConcat
  <2>4. PICK x : x = Only(c.outbound, Buffered)
    OBVIOUS
  <2>5. x \in Seq(UnitsOf)
    BY <1>1, <2>4, OnlyType
  <2> QED BY <2>2, <2>3, <2>4, <2>5, ConcatEmptySeq
<1>9. \A r \in Known : Only(received \o out, BodyOf(r)) =
        IF r = c.file.req THEN Body(c, r) \o body ELSE Body(c, r)
  <2> SUFFICES ASSUME NEW r \in Known
               PROVE  Only(received \o out, BodyOf(r)) =
                        IF r = c.file.req THEN Body(c, r) \o body ELSE Body(c, r)
    OBVIOUS
  <2>1. PICK x : x = received \o c.outbound
    OBVIOUS
  <2>2. x \in Seq(UnitsOf)
    BY <1>1, <2>1, ConcatProperties
  <2>3. received \o out = x \o body
    BY <1>1, <1>6, <2>1, UnitsAssociate
  <2>4. Only(x \o body, BodyOf(r)) = Only(x, BodyOf(r)) \o Only(body, BodyOf(r))
    BY <1>6, <2>2, OnlyConcat
  <2>5. PICK y : y = Only(x, BodyOf(r))
    OBVIOUS
  <2>6. y \in Seq(UnitsOf) /\ y = Body(c, r)
    BY <2>1, <2>2, <2>5, OnlyType DEF Body
  <2>7. CASE r = c.file.req
    <3>1. \A i \in 1 .. n : body[i] \in BodyOf(r)
      <4>1. \A i \in 1 .. n : 1 + i \in 2 .. 1 + BodyLen
        BY <1>3, <1>4
      <4>2. \A i \in 1 .. n : <<c.file.req, 1 + i>> \in {r} \X (2 .. 1 + BodyLen)
        BY <2>7, <4>1
      <4> QED BY <1>6, <4>2 DEF BodyOf
    <3>2. Only(body, BodyOf(r)) = body
      BY <1>6, <3>1, OnlyAll
    <3> QED BY <2>3, <2>4, <2>5, <2>6, <2>7, <3>2
  <2>8. CASE r # c.file.req
    <3>1. \A i \in 1 .. n : body[i] \notin BodyOf(r)
      BY <1>6, <2>8 DEF BodyOf
    <3>2. Only(body, BodyOf(r)) = <<>>
      BY <1>6, <3>1, OnlyNone
    <3>3. y \o <<>> = y
      BY <2>6, ConcatEmptySeq
    <3> QED BY <2>3, <2>4, <2>5, <2>6, <2>8, <3>2, <3>3
  <2> QED BY <2>7, <2>8
<1>10. /\ file.req = c.file.req /\ file.left = left - n
       /\ file \in [req : 0 .. MaxRequests, left : 0 .. BodyLen]
  BY <1>3, <1>4
<1> HIDE DEF out, file
<1>11. /\ d.handled = c.handled /\ d.outbound = out /\ d.writeBuffer = c.writeBuffer
       /\ d.file = file /\ d \in ConnType
  <2>1. out \in Seq(Requests \X (1 .. 1 + BodyLen))
    BY <1>7 DEF UnitsOf
  <2> QED BY <1>10, <2>1 DEF ConnType
<1> HIDE DEF d
<1>12. file # NoFile
  <2>1. c.file.req # 0
    BY BoundAssumption DEF Kept, Requests
  <2> QED BY <1>10, <2>1 DEF NoFile
<1>13. Streamed(d)
  <2>1. \A t, u \in Seq(UnitsOf) :
          Only(received \o (t \o u), Buffered)
            = Only(received, Buffered) \o (Only(t, Buffered) \o Only(u, Buffered))
    BY <1>1, OnlyStream
  <2>3. Only(received \o (out \o c.writeBuffer), Buffered) =
          Only(received, Buffered) \o (Only(out, Buffered) \o Only(c.writeBuffer, Buffered))
    BY <1>1, <1>7, <2>1
  <2>4. Only(received \o (c.outbound \o c.writeBuffer), Buffered) =
          Only(received, Buffered) \o (Only(c.outbound, Buffered) \o Only(c.writeBuffer, Buffered))
    BY <1>1, <2>1
  <2>2. Only(Stream(d), Buffered) = Only(Stream(c), Buffered)
    BY <1>8, <1>11, <2>3, <2>4 DEF Stream
  <2> QED BY <1>1, <1>7, <1>10, <1>11, <2>2 DEF Streamed
<1>14. Accounted(c) => Accounted(d)
  <2> SUFFICES ASSUME Accounted(c), NEW r \in Known, kind[r] = "file"
               PROVE  /\ Pieces(Body(d, r))
                      /\ IF d.file.req = r THEN Len(Body(d, r)) = BodyLen - d.file.left
                         ELSE Len(Body(d, r)) \in {0, BodyLen}
    BY DEF Accounted
  <2>1. /\ Pieces(Body(c, r))
        /\ IF c.file.req = r THEN Len(Body(c, r)) = BodyLen - left
           ELSE Len(Body(c, r)) \in {0, BodyLen}
    BY DEF Accounted
  <2>2. Body(d, r) = IF r = c.file.req THEN Body(c, r) \o body ELSE Body(c, r)
    BY <1>9, <1>11 DEF Body
  <2>3. CASE r # c.file.req
    BY <1>10, <1>11, <2>1, <2>2, <2>3
  <2>4. CASE r = c.file.req
    <3>1. PICK x : x = Body(c, r)
      OBVIOUS
    <3>2. x \in Seq(UnitsOf)
      <4>1. received \o c.outbound \in Seq(UnitsOf)
        BY <1>1, ConcatProperties
      <4> QED BY <3>1, <4>1, OnlyType DEF Body
    <3>3. Len(x \o body) = Len(x) + n
      BY <1>6, <3>2, ConcatProperties
    <3>4. Len(x \o body) = BodyLen - (left - n)
      BY <1>3, <1>4, <2>1, <2>4, <3>1, <3>3
    <3>5. \A i \in 1 .. Len(body) : body[i][2] = 1 + i
      BY <1>6
    <3>6. Pieces(x \o body)
      BY <1>6, <2>1, <3>1, <3>2, <3>5, PiecesConcat
    <3> QED BY <1>10, <1>11, <2>2, <2>4, <3>1, <3>4, <3>6
  <2> QED BY <2>3, <2>4
<1>15. CASE peer = "gone" /\ left > 0
  <2>1. SendFile(c).c = CloseFile(c) /\ SendFile(c).result = "error"
    BY <1>5, <1>15
  <2> QED BY <1>15, <2>1, CloseFileStream
<1>16. CASE ~(peer = "gone" /\ left > 0) /\ n < left
  <2>1. SendFile(c).c = d /\ SendFile(c).result = "again"
    BY <1>5, <1>16
  <2> QED BY <1>11, <1>13, <1>14, <2>1
<1>17. CASE ~(peer = "gone" /\ left > 0) /\ ~(n < left)
  <2>1. d.file.left = 0
    BY <1>4, <1>10, <1>11, <1>17
  <2>2. PICK e : e = CloseFile(d)
    OBVIOUS
  <2>3. /\ Streamed(e) /\ (Accounted(d) => Accounted(e))
        /\ e.file = NoFile /\ e.writeBuffer = d.writeBuffer
    BY <1>11, <1>13, <2>1, <2>2, CloseFileStream
  <2>4. SendFile(c).c = e
    BY <1>5, <1>17, <2>2
  <2> QED BY <1>11, <1>14, <2>3, <2>4
<1> QED BY <1>15, <1>16, <1>17

\* Nothing that goes out changes when EPOLLOUT is asked for or the end is queued.
LEMMA UnfinishedOut ==
  ASSUME NEW c \in ConnType, NEW result \in {"again", "error"}
  PROVE  SameOut(c, HandleWriteResult(c, result))
<1>1. CASE result = "again"
  <2>1. Same(c, EnableWriteEvent(c))
    BY EnableWriteEventSame
  <2>2. HandleWriteResult(c, result) = EnableWriteEvent(c)
    BY <1>1 DEF HandleWriteResult
  <2> QED BY <2>1, <2>2 DEF Same, SameOut
<1>2. CASE result = "error"
  <2>1. Same(c, QueueInLoop(c, "close"))
    BY QueueSame
  <2>2. HandleWriteResult(c, result) = QueueInLoop(c, "close")
    BY <1>2 DEF HandleWriteResult, HandleClose
  <2> QED BY <2>1, <2>2 DEF Same, SameOut
<1> QED BY <1>1, <1>2

\* When all of writeBuffer_ is out, what is reset has no more to send.
LEMMA OnResponseFinishedStream ==
  ASSUME NEW c \in ConnType, Kept(c), Streamed(c), c.writeBuffer = <<>>
  PROVE  LET d == OnResponseFinished(c)
         IN  /\ Streamed(d)
             /\ Accounted(c) /\ (c.file # NoFile => c.file.left \in {0, BodyLen}) => Accounted(d)
<1>1. CASE ~IsKeepAlive(c)
  <2> DEFINE d == [c EXCEPT !.state = "Closed"]
  <2>1. SameOut(c, d)
    BY DEF SameOut, ConnType
  <2>2. OnResponseFinished(c) = d
    BY <1>1 DEF OnResponseFinished
  <2> HIDE DEF d
  <2> QED BY <2>1, <2>2, SameStream
<1>2. CASE IsKeepAlive(c)
  <2> DEFINE b == CloseFile(c)
             f == [b EXCEPT !.context = <<>>, !.writeBuffer = <<>>, !.state = "Connected"]
             e == EnableReadEvent(f)
             d == OnResponseFinished(c)
  <2>1. b \in ConnType
    BY CloseFileDoes DEF Sends
  <2>2. /\ Streamed(b) /\ b.writeBuffer = c.writeBuffer
        /\ Accounted(c) /\ (c.file # NoFile => c.file.left \in {0, BodyLen}) => Accounted(b)
    BY CloseFileStream
  <2>3. d = IF e.readBuffer # <<>> THEN QueueInLoop(e, "process") ELSE e
    BY <1>2 DEF OnResponseFinished, ResetForNextRequest, HasPendingRequest
  <2> HIDE DEF b
  <2>4. f \in ConnType /\ SameOut(b, f)
    <3>1. <<>> \in Seq(Fragments) /\ <<>> \in Seq(UnitsOf)
      BY EmptySeq
    <3>2. b \in [ state : {"Connected", "Processing", "Writing", "Closed"},
                  readBuffer : Seq(Fragments), context : Seq(Fragments),
                  writeBuffer : Seq(UnitsOf),
                  file : [req : 0 .. MaxRequests, left : 0 .. BodyLen], openFiles : Nat,
                  handled : Seq(Requests), inbound : Seq(Fragments), outbound : Seq(UnitsOf),
                  interest : {{"in"}, {"in", "out"}}, edge : BOOLEAN,
                  pending : Seq(Functors) ]
      BY <2>1 DEF ConnType, Fragments, UnitsOf
    <3>3. f \in ConnType
      BY ZenonT(40), <3>1, <3>2 DEF ConnType, Fragments, UnitsOf
    <3>4. f.writeBuffer = b.writeBuffer /\ f.handled = b.handled /\ f.outbound = b.outbound
          /\ f.file = b.file
      BY <2>1, <2>2 DEF ConnType
    <3> QED BY <3>3, <3>4 DEF SameOut
  <2> HIDE DEF f
  <2>5. e \in ConnType /\ SameOut(f, e)
    <3>1. e = UpdateChannel([f EXCEPT !.interest = f.interest \cup {"in"}])
      BY DEF EnableReadEvent
    <3>2. Same(f, e)
      BY <2>4, <3>1, UpdateSame
    <3>3. f.interest \cup {"in"} = f.interest
      BY <2>4 DEF ConnType
    <3>4. e = [f EXCEPT !.interest = f.interest, !.edge = e.edge] /\ e.edge \in BOOLEAN
      BY <2>4, <3>1, <3>3 DEF UpdateChannel, ConnType
    <3> HIDE DEF e
    <3>5. e \in ConnType
      BY ZenonT(40), <2>4, <3>4 DEF ConnType
    <3> QED BY <3>2, <3>5 DEF Same, SameOut
  <2> HIDE DEF e
  <2>6. SameOut(e, d)
    <3>1. Same(e, QueueInLoop(e, "process"))
      BY <2>5, QueueSame
    <3> QED BY <2>3, <3>1 DEF Same, SameOut
  <2>7. SameOut(b, d)
    BY <2>4, <2>5, <2>6 DEF SameOut
  <2> HIDE DEF d
  <2> QED BY <2>2, <2>7, SameStream DEF d
<1> QED BY <1>1, <1>2

\* TrySend.  It may close the file that is open, of which nothing has been sent.
LEMMA TrySendStream ==
  ASSUME NEW c \in ConnType, Kept(c), Streamed(c)
  PROVE  LET d == TrySend(c)
         IN  Streamed(d) /\ (Accounted(c) /\ Untouched(c) => Accounted(d))
<1> DEFINE b == Write(c).c
           result == Write(c).result
           d == HandleWriteResult(b, result)
<1>1. b \in ConnType /\ Kept(b) /\ result \in {"complete", "again", "error"}
  BY WriteDoes DEF Sends
<1>2. /\ Streamed(b) /\ (Accounted(c) => Accounted(b)) /\ b.file = c.file
      /\ result = "complete" => b.writeBuffer = <<>>
  BY WriteStream
<1>3. TrySend(c) = d
  BY DEF TrySend
<1> HIDE DEF b, result
<1>4. CASE result = "complete"
  <2>1. d = OnResponseFinished(b)
    BY <1>4 DEF HandleWriteResult
  <2>2. Untouched(c) => (b.file # NoFile => b.file.left \in {0, BodyLen})
    BY <1>2 DEF Untouched
  <2> QED BY <1>1, <1>2, <1>3, <1>4, <2>1, <2>2, OnResponseFinishedStream
<1>5. CASE result # "complete"
  <2>1. SameOut(b, d)
    BY <1>1, <1>5, UnfinishedOut
  <2> HIDE DEF d
  <2> QED BY <1>2, <1>3, <2>1, SameStream
<1> QED BY <1>4, <1>5

\* HandleWrite.  When it ends a response the file has been closed, or there was none.
LEMMA WrittenStream ==
  ASSUME NEW c \in ConnType, Kept(c), Streamed(c)
  PROVE  LET d == Written(c)
         IN  Streamed(d) /\ (Accounted(c) /\ peer # "gone" => Accounted(d))
<1> DEFINE b == Write(c).c
           result == Write(c).result
           g == SendFile(b).c
           outcome == SendFile(b).result
           d == Written(c)
<1>1. b \in ConnType /\ Kept(b) /\ result \in {"complete", "again", "error"}
  BY WriteDoes DEF Sends
<1>2. /\ Streamed(b) /\ (Accounted(c) => Accounted(b))
      /\ result = "complete" => b.writeBuffer = <<>>
  BY WriteStream
<1>3. d = IF b.writeBuffer # <<>> THEN HandleWriteResult(EnableWriteEvent(b), result)
          ELSE IF b.file = NoFile THEN HandleWriteResult(DisableWriteEvent(b), "complete")
          ELSE IF outcome = "again" THEN EnableWriteEvent(g)
          ELSE IF outcome = "error" THEN HandleWriteResult(g, "error")
          ELSE HandleWriteResult(DisableWriteEvent(g), "complete")
  BY DEF Written
<1>4. b.file # NoFile =>
        /\ outcome \in {"complete", "again", "error"}
        /\ g \in ConnType /\ Kept(g)
        /\ Streamed(g) /\ (Accounted(b) /\ peer # "gone" => Accounted(g))
        /\ g.writeBuffer = b.writeBuffer
        /\ outcome = "complete" => g.file = NoFile
  BY <1>1, <1>2, SendFileStream, SendFileDoes DEF Sends
<1> SUFFICES Streamed(d) /\ (Accounted(c) /\ peer # "gone" => Accounted(d))
  OBVIOUS
<1> HIDE DEF b, result, g, outcome, d
<1>5. ASSUME NEW e \in ConnType, Kept(e), Streamed(e), Accounted(c) /\ peer # "gone" => Accounted(e),
             e.writeBuffer = <<>>, e.file = NoFile,
             d = HandleWriteResult(DisableWriteEvent(e), "complete")
      PROVE  Streamed(d) /\ (Accounted(c) /\ peer # "gone" => Accounted(d))
  <2> DEFINE f == DisableWriteEvent(e)
  <2>1. f \in ConnType /\ Kept(f) /\ SameOut(e, f)
    BY <1>5, DisableWriteEventSame, DisableWriteEventDoes DEF Sends, Same, SameOut
  <2>2. d = OnResponseFinished(f)
    BY <1>5 DEF HandleWriteResult
  <2> HIDE DEF f
  <2>3. Streamed(f) /\ (Accounted(e) => Accounted(f)) /\ f.writeBuffer = <<>> /\ f.file = NoFile
    BY <1>5, <2>1, SameStream DEF SameOut
  <2> QED BY <1>5, <2>1, <2>2, <2>3, OnResponseFinishedStream
<1>6. CASE b.writeBuffer # <<>>
  <2> DEFINE e == EnableWriteEvent(b)
  <2>1. e \in ConnType /\ SameOut(b, e)
    BY <1>1, EnableWriteEventSame, EnableWriteEventDoes DEF Sends, Same, SameOut
  <2>2. d = HandleWriteResult(e, result)
    BY <1>3, <1>6
  <2> HIDE DEF e
  <2>3. SameOut(e, d)
    BY <1>1, <1>2, <1>6, <2>1, <2>2, UnfinishedOut
  <2>4. SameOut(b, d)
    BY <2>1, <2>3 DEF SameOut
  <2> QED BY <1>2, <2>4, SameStream
<1>7. CASE b.writeBuffer = <<>> /\ b.file = NoFile
  BY <1>1, <1>2, <1>3, <1>5, <1>7
<1>8. CASE b.writeBuffer = <<>> /\ b.file # NoFile
  <2>1. CASE outcome = "again"
    <3>1. SameOut(g, EnableWriteEvent(g))
      BY <1>4, <1>8, EnableWriteEventSame DEF Same, SameOut
    <3>2. d = EnableWriteEvent(g)
      BY <1>3, <1>8, <2>1
    <3>3. SameOut(g, d)
      BY <3>1, <3>2
    <3> QED BY <1>2, <1>4, <1>8, <3>3, SameStream
  <2>2. CASE outcome = "error"
    <3>1. d = HandleWriteResult(g, "error")
      BY <1>3, <1>8, <2>2
    <3>2. SameOut(g, d)
      BY <1>4, <1>8, <3>1, UnfinishedOut
    <3> QED BY <1>2, <1>4, <1>8, <3>2, SameStream
  <2>3. CASE outcome = "complete"
    <3>1. d = HandleWriteResult(DisableWriteEvent(g), "complete")
      BY <1>3, <1>8, <2>3
    <3> QED BY <1>2, <1>4, <1>5, <1>8, <2>3, <3>1
  <2> QED BY <1>4, <1>8, <2>1, <2>2, <2>3
<1> QED BY <1>6, <1>7, <1>8

\* What is put into writeBuffer_ for a request.
LEMMA SerializedWaiting ==
  ASSUME NEW r \in Known
  PROVE  Serialized(r) \in Seq(Waiting)
<1>1. Units(kind[r]) \in 0 .. 1 + BodyLen /\ Units(kind[r]) \in Nat /\ BodyLen = 2
  BY DEF Units, BodyLen
<1>2. CASE kind[r] = "file"
  <2>1. <<r, 1>> \in UnitsOf
    BY <1>1 DEF Known, UnitsOf
  <2>2. <<r, 1>> \in Waiting
    BY <2>1 DEF Waiting, KnownUnits, Buffered, UnitsOf
  <2> QED BY <1>2, <2>2 DEF Serialized
<1>3. CASE kind[r] # "file"
  <2>1. ASSUME NEW i \in 1 .. Units(kind[r]) PROVE <<r, i>> \in Waiting
    <3>1. i \in 1 .. 1 + BodyLen
      BY <1>1
    <3>2. <<r, i>> \in UnitsOf
      BY <3>1 DEF Known, UnitsOf
    <3> QED BY <1>3, <3>2 DEF Waiting, KnownUnits, Buffered, UnitsOf
  <2>2. Response(r) \in [1 .. Units(kind[r]) -> Waiting]
    <3> HIDE DEF Units
    <3> QED BY <2>1 DEF Response
  <2> HIDE DEF Response, Units
  <2>3. Response(r) \in Seq(Waiting)
    BY <1>1, <2>2, FunctionIsSeq
  <2> QED BY <1>3, <2>3 DEF Serialized
<1> QED BY <1>2, <1>3

\* The responses, one after the other, and one more.
Serializing == [r \in Known |-> Serialized(r)]

LEMMA ResponsesIs ==
  ASSUME NEW s \in Seq(Known)
  PROVE  Responses(s) = FlattenSeq(Image(Serializing, s))
<1>1. \A i \in DOMAIN s : s[i] \in Known
  BY LenProperties, ElementOfSeq
<1>2. \A i \in DOMAIN s : Serializing[s[i]] = Serialized(s[i])
  BY <1>1 DEF Serializing
<1>3. [i \in DOMAIN s |-> Serialized(s[i])] = Image(Serializing, s)
  BY <1>2 DEF Image
<1> QED BY <1>3 DEF Responses

LEMMA ResponsesLast ==
  ASSUME NEW s \in Seq(Known), NEW r \in Known
  PROVE  Responses(Append(s, r)) = Responses(s) \o Serialized(r)
<1>1. IsMap(Serializing, Known, Seq(Waiting))
  BY SerializedWaiting DEF IsMap, Serializing
<1>2. FlattenSeq(Image(Serializing, Append(s, r))) =
        FlattenSeq(Image(Serializing, s)) \o Serializing[r]
  BY <1>1, FlattenImageLast
<1>3. Append(s, r) \in Seq(Known)
  BY AppendProperties
<1> QED BY <1>2, <1>3, ResponsesIs DEF Serializing

\* The request that is in context_ has been begun.
LEMMA TurnKnown ==
  ASSUME NEW c \in ConnType, Lined(c), Begun, Len(c.context) = Parts, c.context[1][1] = Turn(c)
  PROVE  Turn(c) \in Known
<1>1. Turn(c) \in Requests
  <2>1. c.context \in Seq(Fragments)
    BY DEF ConnType, Fragments
  <2>2. 1 \in 1 .. Len(c.context)
    BY DEF Parts
  <2>3. c.context[1] \in Fragments
    BY <2>1, <2>2, ElementOfSeq
  <2> QED BY <2>3 DEF Fragments
<1>2. Turn(c) \in Nat
  BY <1>1, BoundAssumption DEF Requests
<1>3. sent \in Nat /\ Done(c) \in Nat /\ Done(c) + 2 <= sent
  <2> DEFINE x == Len(c.inbound)
             y == Len(c.readBuffer)
             z == Len(c.context)
  <2>1. x \in Nat /\ y \in Nat
    <3>1. c.inbound \in Seq(Fragments) /\ c.readBuffer \in Seq(Fragments)
      BY DEF ConnType, Fragments
    <3> QED BY <3>1, LenProperties
  <2>2. z = 2 /\ sent \in Nat /\ Done(c) \in Nat /\ Done(c) = sent - ((x + y) + z)
    BY DEF Lined, Done, Parts
  <2> HIDE DEF x, y
  <2> QED BY <2>1, <2>2
<1>4. sent > Parts * (Turn(c) - 1)
  <2> DEFINE a == Done(c)
             r == Turn(c)
  <2>1. a \in Nat /\ a + 2 <= sent /\ r = (a \div 2) + 1
    BY <1>3 DEF Turn, Parts
  <2> HIDE DEF a, r
  <2>2. 2 * (r - 1) <= a
    BY <2>1
  <2>3. 2 * (r - 1) < sent /\ r - 1 \in Int
    BY <1>3, <2>1, <2>2
  <2>4. sent > Parts * (r - 1)
    BY <1>3, <2>3 DEF Parts
  <2> QED BY <2>4 DEF r
<1>5. kind[Turn(c)] \in Kinds
  BY <1>1, <1>4 DEF Begun
<1> QED BY <1>1, <1>5, KindAssumption DEF Known, AllKinds

\* A request is handled: its response follows those that went before, and of its file
\* nothing has been sent.
LEMMA RouteStream ==
  ASSUME NEW c \in ConnType, Fresh(c), Begun, Streamed(c),
         Len(c.context) = Parts, c.context[1][1] = Turn(c)
  PROVE  LET d == [Route(c) EXCEPT !.state = "Writing"]
         IN  /\ Streamed(d)
             /\ ~overlapped /\ Accounted(c) => Accounted(d) /\ Untouched(d)
<1> DEFINE r       == c.context[1][1]
           handled == Append(c.handled, r)
           serial  == Serialized(r)
           buffer  == c.writeBuffer \o serial
           isFile  == kind[r] = "file"
           file    == IF isFile THEN [req |-> r, left |-> BodyLen] ELSE c.file
           d       == [Route(c) EXCEPT !.state = "Writing"]
<1>1. r = Turn(c) /\ r \in Known
  BY TurnKnown DEF Fresh
<1>2. d.handled = handled /\ d.writeBuffer = buffer /\ d.file = file /\ d.outbound = c.outbound
  BY DEF ConnType, Route
<1> HIDE DEF r, d
<1>3. /\ c.handled \in Seq(Known) /\ received \in Seq(KnownUnits)
      /\ c.outbound \in Seq(KnownUnits) /\ c.writeBuffer \in Seq(Waiting)
      /\ received \in Seq(UnitsOf) /\ c.outbound \in Seq(UnitsOf) /\ c.writeBuffer \in Seq(UnitsOf)
  BY KnownAreUnits, WaitingUnits DEF Streamed
<1>4. serial \in Seq(Waiting) /\ serial \in Seq(UnitsOf)
  BY <1>1, SerializedWaiting, WaitingUnits
<1>5. handled \in Seq(Known) /\ Responses(handled) = Responses(c.handled) \o serial
  BY <1>1, <1>3, AppendProperties, ResponsesLast
<1> HIDE DEF handled, serial
<1>6. buffer \in Seq(Waiting)
  BY <1>3, <1>4, ConcatProperties
<1>7. Only(Stream(d), Buffered) = Only(Stream(c), Buffered) \o serial
  <2>1. PICK x, y : x = c.outbound \o c.writeBuffer /\ y = received \o x
    OBVIOUS
  <2>2. x \in Seq(UnitsOf) /\ y \in Seq(UnitsOf)
    BY <1>3, <2>1, ConcatProperties
  <2>3. c.outbound \o buffer = x \o serial
    BY <1>3, <1>4, <2>1, UnitsAssociate
  <2>4. received \o (x \o serial) = y \o serial
    <3>2. received \in Seq(UnitsOf) /\ x \in Seq(UnitsOf) /\ serial \in Seq(UnitsOf)
      BY <1>3, <1>4, <2>2
    <3>1. (received \o x) \o serial = received \o (x \o serial)
      BY ZenonT(40), <3>2, UnitsAssociate
    <3> QED BY <2>1, <3>1
  <2>5. Only(y \o serial, Buffered) = Only(y, Buffered) \o Only(serial, Buffered)
    BY <1>4, <2>2, OnlyConcat
  <2>6. \A i \in 1 .. Len(serial) : serial[i] \in Buffered
    BY <1>4, ElementOfSeq DEF Waiting
  <2>7. Only(serial, Buffered) = serial
    BY <1>4, <2>6, OnlyAll
  <2>8. Stream(d) = y \o serial
    BY <1>2, <2>3, <2>4 DEF Stream
  <2>9. Stream(c) = y
    BY <2>1 DEF Stream
  <2> QED BY <2>5, <2>7, <2>8, <2>9
<1> HIDE DEF buffer
<1>8. d.file # NoFile => d.file.req \in Known /\ kind[d.file.req] = "file"
  BY <1>1, <1>2 DEF Streamed
<1>9. Streamed(d)
  BY <1>2, <1>3, <1>5, <1>6, <1>7, <1>8 DEF Streamed
<1>10. ASSUME ~overlapped, Accounted(c)
       PROVE  Accounted(d) /\ Untouched(d)
  <2>1. /\ c.file = NoFile
        /\ \A i \in 1 .. Len(c.handled) : c.handled[i] < Turn(c)
        /\ \A u \in Emitted(c) : u[1] \in Range(c.handled)
    BY <1>10 DEF Fresh, Ready, Sourced
  <2>2. r \in Nat /\ r # 0
    BY <1>1, BoundAssumption DEF Known, Requests
  <2>3. r \notin Range(c.handled)
    <3>1. DOMAIN c.handled = 1 .. Len(c.handled)
      BY <1>3, LenProperties
    <3>2. \A i \in 1 .. Len(c.handled) : c.handled[i] \in Requests
      BY <1>3, ElementOfSeq DEF Known
    <3>3. \A i \in 1 .. Len(c.handled) : c.handled[i] # r
      BY <1>1, <2>1, <2>2, <3>2, BoundAssumption DEF Requests
    <3> QED BY <3>1, <3>3 DEF Range
  <2>4. Len(Body(c, r)) = 0
    <3>1. PICK x : x = received \o c.outbound
      OBVIOUS
    <3>2. x \in Seq(UnitsOf) /\ Range(x) = Emitted(c)
      BY <1>3, <3>1, ConcatProperties, RangeConcat DEF Emitted
    <3>3. ASSUME NEW i \in 1 .. Len(x) PROVE x[i] \notin BodyOf(r)
      <4>1. x[i] \in Range(x)
        BY <3>2, LenProperties DEF Range
      <4>2. x[i][1] # r
        BY <2>1, <2>3, <3>2, <4>1
      <4> QED BY <4>2 DEF BodyOf
    <3>4. Only(x, BodyOf(r)) = <<>>
      BY <3>2, <3>3, OnlyNone
    <3> QED BY <3>1, <3>4 DEF Body
  <2>5. Untouched(d)
    BY <1>2, <2>1 DEF Untouched
  <2>6. Accounted(d)
    <3> SUFFICES ASSUME NEW q \in Known, kind[q] = "file"
                 PROVE  /\ Pieces(Body(d, q))
                        /\ IF d.file.req = q THEN Len(Body(d, q)) = BodyLen - d.file.left
                           ELSE Len(Body(d, q)) \in {0, BodyLen}
      BY DEF Accounted
    <3>1. Body(d, q) = Body(c, q)
      BY <1>2 DEF Body
    <3>2. q # 0
      BY BoundAssumption DEF Known, Requests
    <3>3. Pieces(Body(c, q)) /\ Len(Body(c, q)) \in {0, BodyLen}
      BY <1>10, <2>1, <3>2 DEF Accounted, NoFile
    <3>4. d.file.req = q => q = r /\ d.file.left = BodyLen
      BY <1>2, <2>1, <3>2 DEF NoFile
    <3>5. BodyLen - BodyLen = 0
      BY DEF BodyLen
    <3> QED BY <2>4, <3>1, <3>3, <3>4, <3>5
  <2> QED BY <2>5, <2>6
<1> QED BY <1>9, <1>10 DEF d

\* ProcessInWorker: what is parsed changes nothing that goes out, and a request that is
\* whole is routed.
LEMMA ProcessStream ==
  ASSUME NEW c \in ConnType, Kept(c), Fresh(c), Begun, Streamed(c), NEW d \in ProcessInWorker(c)
  PROVE  /\ Streamed(d)
         /\ ~overlapped /\ Accounted(c) => Accounted(d) /\ Untouched(d)
<1> DEFINE Then(p) ==
      CASE p.result = "incomplete" -> [p.c EXCEPT !.state = "Connected"]
        [] p.result = "error"      -> QueueInLoop([p.c EXCEPT !.state = "Closed"], "error")
        [] p.result = "complete"   -> QueueInLoop([Route(p.c) EXCEPT !.state = "Writing"], "send")
<1>1. PICK p \in ParseRequest(c) : d = Then(p)
  BY DEF ProcessInWorker
<1> DEFINE b == p.c
<1>2. /\ Lined(b) /\ Done(b) = Done(c)
      /\ b.writeBuffer = c.writeBuffer /\ b.file = c.file
      /\ b.openFiles = c.openFiles /\ b.handled = c.handled /\ b.outbound = c.outbound
      /\ p.result = "complete" => Len(b.context) = Parts /\ b.context[1][1] = Turn(c)
      /\ p.result \in {"complete", "incomplete", "error"}
  BY ParseLined DEF Fresh
<1>3. b \in ConnType /\ Kept(b)
  BY ParseRequestDoes DEF Parses
<1>4. d = Then(p)
  BY <1>1
<1> HIDE DEF b
<1>5. Turn(b) = Turn(c) /\ Emitted(b) = Emitted(c) /\ SameOut(c, b)
  BY <1>2 DEF Turn, Emitted, SameOut
<1>6. Fresh(b) /\ Streamed(b) /\ (Accounted(c) => Accounted(b))
  BY <1>2, <1>5, SameStream DEF Fresh, Ordered, Strict, Sourced, FileKept, Ready
<1>7. ~overlapped => Untouched(b)
  BY <1>6 DEF Fresh, Ready, Untouched
<1>8. ASSUME NEW state \in {"Connected", "Closed"}
      PROVE  LET e == [b EXCEPT !.state = state] IN e \in ConnType /\ SameOut(b, e)
  <2>1. [b EXCEPT !.state = state] \in ConnType
    BY ZenonT(40), <1>3, <1>8 DEF ConnType
  <2>2. SameOut(b, [b EXCEPT !.state = state])
    BY <1>3 DEF ConnType, SameOut
  <2> QED BY <2>1, <2>2
<1>9. CASE p.result = "incomplete"
  <2>1. d = [b EXCEPT !.state = "Connected"]
    BY <1>4, <1>9 DEF b
  <2>2. SameOut(b, d)
    BY <1>8, <2>1
  <2> QED BY <1>6, <1>7, <2>2, SameStream
<1>10. CASE p.result = "error"
  <2> DEFINE e == [b EXCEPT !.state = "Closed"]
  <2>1. d = QueueInLoop(e, "error")
    BY <1>4, <1>10 DEF b
  <2>2. e \in ConnType /\ SameOut(b, e)
    BY <1>8
  <2> HIDE DEF e
  <2>3. SameOut(b, d)
    BY <2>1, <2>2, QueueSame DEF Same, SameOut
  <2> QED BY <1>6, <1>7, <2>3, SameStream
<1>11. CASE p.result = "complete"
  <2> DEFINE e == [Route(b) EXCEPT !.state = "Writing"]
  <2>1. d = QueueInLoop(e, "send")
    BY <1>4, <1>11 DEF b
  <2>2. Streamed(e) /\ (~overlapped /\ Accounted(b) => Accounted(e) /\ Untouched(e))
    BY <1>2, <1>3, <1>5, <1>6, <1>11, RouteStream
  <2>3. e \in ConnType
    <3> DEFINE a == Route(b)
    <3>1. b.context # <<>>
      BY <1>2, <1>11 DEF Parts
    <3>2. a \in ConnType
      BY <1>3, <3>1, RouteDoes
    <3> HIDE DEF a
    <3>3. [a EXCEPT !.state = "Writing"] \in ConnType
      BY ZenonT(40), <3>2 DEF ConnType
    <3> QED BY <3>3 DEF a
  <2> HIDE DEF e
  <2>4. SameOut(e, d)
    BY <2>1, <2>3, QueueSame DEF Same, SameOut
  <2> QED BY <1>6, <2>2, <2>4, SameStream
<1> QED BY <1>2, <1>9, <1>10, <1>11

\* Reading changes nothing that goes out.
LEMMA ReadOut ==
  ASSUME NEW c \in ConnType
  PROVE  SameOut(c, Read(c).c)
  BY DEF Read, SameOut, ConnType

-----------------------------------------------------------------------------
(* The steps.                                                              *)

\* A step of the loop.
LEMMA LoopStream ==
  ASSUME StreamInv, NEW d, conn' = d, UNCHANGED <<kind, received, overlapped>>,
         peer' # "gone" => peer # "gone", alive' => alive, Streamed(d),
         alive /\ peer # "gone" /\ ~overlapped =>
           (alive' => Accounted(d)) /\ ("send" \in Due' => Untouched(d))
  PROVE  StreamInv'
<1>1. Known' = Known /\ KnownUnits' = KnownUnits /\ Waiting' = Waiting /\ Buffered' = Buffered
  BY DEF Known, KnownUnits, Waiting, Buffered
<1>2. Stream(conn)' = Stream(d)
  BY DEF Stream
<1>3. Responses(conn.handled)' = Responses(d.handled)
  BY DEF Responses, Serialized, Response
<1>4. Streamed(conn)'
  BY <1>1, <1>2, <1>3 DEF Streamed
<1>5. Accounted(d) => Accounted(conn)'
  BY <1>1 DEF Accounted, Body
<1>6. Untouched(d) => Untouched(conn)'
  BY DEF Untouched
<1> QED BY <1>4, <1>5, <1>6 DEF StreamInv

\* TrySend is queued by nothing but ProcessInWorker.
LEMMA NoNewSend ==
  ASSUME TypeOK, Range(batch') \subseteq Range(batch),
         \/ conn'.pending = conn.pending
         \/ \E x \in Ends : conn'.pending = Append(conn.pending, x)
  PROVE  "send" \in Due' => "send" \in Due
<1>1. conn.pending \in Seq(Functors) /\ Ends \subseteq Functors /\ "send" \notin Ends
  BY DEF TypeOK, ConnType, Ends, Functors, Holders
<1>2. CASE conn'.pending = conn.pending
  BY <1>2 DEF Due
<1>3. ASSUME NEW x \in Ends, conn'.pending = Append(conn.pending, x)
      PROVE  "send" \in Due' => "send" \in Due
  <2>1. Range(conn'.pending) = Range(conn.pending) \cup {x}
    BY <1>1, <1>3, RangeAppend
  <2> QED BY <1>1, <1>3, <2>1 DEF Due
<1> QED BY <1>2, <1>3

\* Nothing that goes out changes.
LEMMA SameOutStep ==
  ASSUME StreamInv, Inv, SameOut(conn, conn'), UNCHANGED <<kind, received, overlapped>>,
         peer' # "gone" => peer # "gone", alive' => alive, Range(batch') \subseteq Range(batch),
         \/ conn'.pending = conn.pending
         \/ \E x \in Ends : conn'.pending = Append(conn.pending, x)
  PROVE  StreamInv'
<1>1. "send" \in Due' => "send" \in Due
  BY NoNewSend DEF Inv
<1>2. /\ Streamed(conn) => Streamed(conn')
      /\ Accounted(conn) => Accounted(conn')
      /\ Untouched(conn) => Untouched(conn')
  BY SameStream
<1> QED BY <1>1, <1>2, LoopStream DEF StreamInv

LEMMA PollStream == ASSUME StreamInv, Inv, Poll PROVE StreamInv'
<1>1. conn \in ConnType
  BY DEF Inv, TypeOK
<1>2. SameOut(conn, conn') /\ conn'.pending = conn.pending
  BY <1>1 DEF Poll, SameOut, ConnType
<1> QED BY <1>2, SameOutStep DEF Poll, lifeVars, clientVars

\* What queues the end of the connection, and nothing else.
LEMMA EndStream ==
  ASSUME StreamInv, Inv, NEW x \in Ends, conn' = QueueInLoop(conn, x),
         UNCHANGED <<kind, received, overlapped, peer, alive>>,
         Range(batch') \subseteq Range(batch)
  PROVE  StreamInv'
<1>1. conn \in ConnType
  BY DEF Inv, TypeOK
<1>2. SameOut(conn, conn') /\ conn'.pending = Append(conn.pending, x)
  BY <1>1, QueueSame DEF Same, SameOut
<1> QED BY <1>2, SameOutStep

LEMMA HandleHangupStream == ASSUME StreamInv, Inv, HandleHangup PROVE StreamInv'
<1>1. "close" \in Ends
  BY DEF Ends
<1> QED BY <1>1, EndStream DEF HandleHangup, HandleClose, lifeVars, clientVars

LEMMA FireTimerStream == ASSUME StreamInv, Inv, FireTimer PROVE StreamInv'
<1>1. "expire" \in Ends
  BY DEF Ends
<1> QED BY <1>1, EndStream DEF FireTimer, loopVars, clientVars

\* What leaves the connection as it is.
LEMMA EndTickStream == ASSUME StreamInv, Inv, EndTick PROVE StreamInv'
  BY SameOutStep DEF EndTick, SameOut, lifeVars, clientVars

LEMMA SigPipeStream == ASSUME StreamInv, Inv, SigPipe PROVE StreamInv'
  BY SameOutStep DEF SigPipe, SameOut, lifeVars, clientVars

\* HandleRead.
LEMMA HandleReadStream == ASSUME StreamInv, TurnInv, Inv, HandleRead PROVE StreamInv'
<1> DEFINE r == Read(conn)
           c == r.c
           b == [c EXCEPT !.state = "Processing"]
<1>1. conn \in ConnType /\ Kept(conn) /\ Turned(conn) /\ peer \in {"open", "fin", "gone"}
  BY DEF TurnInv, Inv, TypeOK
<1>2. /\ UNCHANGED <<batch, alive, peer, kind, received, overlapped>>
      /\ IF r.result # "success" THEN conn' = QueueInLoop(c, "close")
         ELSE IF c.state = "Connected" THEN conn' \in ProcessInWorker(b)
         ELSE conn' = c
  BY DEF HandleRead, HandleClose, lifeVars, clientVars
<1>3. Turned(c) /\ c.pending = conn.pending
  BY <1>1, ReadTurned
<1>4. c \in ConnType /\ Kept(c) /\ SameOut(conn, c)
  BY <1>1, ReadDoes, ReadOut
<1> HIDE DEF r, c
<1>5. CASE r.result # "success"
  <2>1. SameOut(c, conn') /\ conn'.pending = Append(c.pending, "close") /\ "close" \in Ends
    BY <1>2, <1>4, <1>5, QueueSame DEF Same, SameOut, Ends
  <2>2. SameOut(conn, conn') /\ conn'.pending = Append(conn.pending, "close")
    BY <1>3, <1>4, <2>1 DEF SameOut
  <2> QED BY <1>2, <2>1, <2>2, SameOutStep
<1>6. CASE r.result = "success" /\ c.state = "Connected"
  <2>1. /\ b \in ConnType /\ b.context = c.context /\ b.readBuffer = c.readBuffer
        /\ b.writeBuffer = c.writeBuffer /\ b.file = c.file /\ b.openFiles = c.openFiles
        /\ b.handled = c.handled /\ b.inbound = c.inbound /\ b.outbound = c.outbound
    BY <1>4 DEF ConnType
  <2>2. Kept(b)
    BY <1>4, <2>1 DEF Kept
  <2> HIDE DEF b
  <2>3. Done(b) = Done(c) /\ Turn(b) = Turn(c) /\ Emitted(b) = Emitted(c)
    BY <2>1 DEF Done, Turn, Emitted
  <2>4. Lined(b) /\ Ordered(b)
    BY <1>3, <2>1, <2>3 DEF Turned, Lined, Ordered
  <2>5. ~overlapped => Answering(c) /\ Ready(c) /\ Waited
    BY <1>3, <1>6 DEF Turned, TurnInv, Answering
  <2>6. ~overlapped => Strict(b) /\ Sourced(b) /\ FileKept(b) /\ Ready(b)
    BY <2>1, <2>3, <2>5 DEF Answering, Strict, Sourced, FileKept, Ready
  <2>7. Fresh(b) /\ Begun
    BY <2>4, <2>5, <2>6 DEF Fresh, TurnInv
  <2>8. SameOut(conn, b)
    BY <1>4, <2>1 DEF SameOut
  <2>9. Streamed(b) /\ (Accounted(conn) => Accounted(b))
    BY <2>8, SameStream DEF StreamInv
  <2>10. /\ Streamed(conn')
         /\ ~overlapped /\ Accounted(b) => Accounted(conn') /\ Untouched(conn')
    BY <1>2, <1>6, <2>1, <2>2, <2>7, <2>9, ProcessStream
  <2> QED BY <1>2, <2>9, <2>10, LoopStream DEF StreamInv
<1>7. CASE r.result = "success" /\ c.state # "Connected"
  BY <1>2, <1>3, <1>4, <1>7, SameOutStep
<1> QED BY <1>5, <1>6, <1>7

\* HandleWrite, for a client that waits after TrySend.
LEMMA HandleWriteStream == ASSUME StreamInv, TurnInv, Inv, HandleWrite PROVE StreamInv'
<1> DEFINE d == Written(conn)
<1>1. conn \in ConnType /\ Kept(conn) /\ Turned(conn) /\ TypeOK
  BY DEF TurnInv, Inv, TypeOK
<1>2. /\ conn' = d /\ "out" \in revents
      /\ UNCHANGED <<batch, alive, peer, kind, received, overlapped>>
  BY DEF HandleWrite, lifeVars, clientVars
<1>3. ~overlapped => conn.state = "Writing" /\ "send" \notin Due
  BY <1>2 DEF TurnInv, Quiet
<1>4. Answers(conn, d)
  BY <1>1, <1>3, WrittenAnswers
<1>5. Streamed(d) /\ (Accounted(conn) /\ peer # "gone" => Accounted(d))
  BY <1>1, WrittenStream DEF StreamInv
<1> HIDE DEF d
<1>6. ~overlapped => "send" \notin Due'
  <2>1. "close" \in Ends
    BY DEF Ends
  <2> QED BY <1>1, <1>2, <1>3, <1>4, <2>1, NoNewSend DEF Answers
<1> QED BY <1>2, <1>5, <1>6, LoopStream DEF StreamInv

LEMMA DoPendingFunctorsStream == ASSUME StreamInv, Inv, DoPendingFunctors PROVE StreamInv'
<1>1. conn \in ConnType /\ PhaseSound
  BY DEF Inv, TypeOK
<1>2. /\ phase = "events" /\ batch' = conn.pending /\ conn' = [conn EXCEPT !.pending = <<>>]
      /\ UNCHANGED <<alive, peer, kind, received, overlapped>>
  BY DEF DoPendingFunctors, lifeVars, clientVars
<1>3. SameOut(conn, conn') /\ conn'.pending = <<>>
  BY <1>1, <1>2 DEF SameOut, ConnType
<1>4. Due' = Due
  BY <1>1, <1>2, <1>3, RangeEmpty DEF Due, PhaseSound
<1> QED BY <1>2, <1>3, <1>4, SameStream, LoopStream DEF StreamInv

\* The functors that end a connection.
LEMMA RunEndStream ==
  ASSUME StreamInv, Inv, NEW functor, Running(functor), SameOut(conn, conn'),
         \/ conn'.pending = conn.pending
         \/ \E x \in Ends : conn'.pending = Append(conn.pending, x)
  PROVE  StreamInv'
<1>1. /\ batch # <<>> /\ batch' = Tail(batch) /\ batch \in Seq(Functors)
      /\ UNCHANGED <<alive, peer, kind, received, overlapped>>
  BY DEF Running, clientVars, Inv, TypeOK
<1>2. Range(batch') \subseteq Range(batch)
  BY <1>1, RangeTail
<1> QED BY <1>1, <1>2, SameOutStep

LEMMA RunErrorStream == ASSUME StreamInv, Inv, RunError PROVE StreamInv'
<1>1. conn \in ConnType /\ "close" \in Ends
  BY DEF Inv, TypeOK, Ends
<1>2. Running("error") /\ conn' = QueueInLoop(conn, "close")
  BY DEF RunError, HandleClose
<1>3. SameOut(conn, conn') /\ conn'.pending = Append(conn.pending, "close")
  BY <1>1, <1>2, QueueSame DEF Same, SameOut
<1> QED BY <1>1, <1>2, <1>3, RunEndStream

LEMMA RunCloseStream == ASSUME StreamInv, Inv, RunClose PROVE StreamInv'
<1>1. conn \in ConnType /\ "erase" \in Ends
  BY DEF Inv, TypeOK, Ends
<1>2. (Running("close") \/ Running("expire")) /\ conn' = QueueInLoop(conn, "erase")
  BY DEF RunClose
<1>3. SameOut(conn, conn') /\ conn'.pending = Append(conn.pending, "erase")
  BY <1>1, <1>2, QueueSame DEF Same, SameOut
<1> QED BY <1>1, <1>2, <1>3, RunEndStream

LEMMA RunEraseStream == ASSUME StreamInv, Inv, RunErase PROVE StreamInv'
  BY RunEndStream DEF RunErase, SameOut

\* TrySend is the last that was queued for a client that waits.
LEMMA RunSendStream == ASSUME StreamInv, TurnInv, Inv, RunSend PROVE StreamInv'
<1> DEFINE d == conn'
<1>1. /\ conn \in ConnType /\ Kept(conn) /\ Turned(conn) /\ batch \in Seq(Functors)
      /\ conn.pending \in Seq(Functors) /\ TypeOK
  BY DEF TurnInv, Inv, TypeOK, ConnType
<1>2. /\ batch # <<>> /\ Head(batch) = "send" /\ batch' = Tail(batch) /\ Running("send")
      /\ UNCHANGED <<alive, peer, kind, received, overlapped>>
      /\ d = IF conn.state = "Closed" THEN conn ELSE TrySend(conn)
  BY DEF RunSend, Running, clientVars
<1>3. "send" \in Due
  <2>1. Range(batch) = {"send"} \cup Range(Tail(batch))
    BY <1>1, <1>2, RangeTail
  <2> QED BY <2>1 DEF Due
<1>4. CASE conn.state = "Closed"
  BY <1>2, <1>4, RunEndStream DEF SameOut
<1>5. CASE conn.state # "Closed"
  <2>1. Streamed(d) /\ (Accounted(conn) /\ Untouched(conn) => Accounted(d))
    BY <1>1, <1>2, <1>5, TrySendStream DEF StreamInv
  <2>2. ASSUME ~overlapped
        PROVE  "send" \notin Due'
    <3>1. /\ conn.state = "Writing"
          /\ "send" \notin Range(conn.pending) /\ "send" \notin Range(batch')
      BY <1>1, <1>2, <2>2, RunFirst DEF TurnInv
    <3>2. Answers(conn, TrySend(conn))
      BY <1>1, <3>1, TrySendAnswers
    <3>3. d.pending \in {conn.pending, Append(conn.pending, "close")}
      BY <1>2, <1>5, <2>2, <3>2 DEF Answers
    <3>4. "close" \in Functors /\ "close" # "send"
      BY DEF Functors, Holders
    <3>5. Range(Append(conn.pending, "close")) = Range(conn.pending) \cup {"close"}
      BY <1>1, <3>4, RangeAppend
    <3>6. "send" \notin Range(d.pending)
      <4> HIDE DEF d
      <4>1. CASE d.pending = conn.pending
        BY <3>1, <4>1
      <4>2. CASE d.pending = Append(conn.pending, "close")
        BY <3>1, <3>4, <3>5, <4>2
      <4> QED BY <3>3, <4>1, <4>2
    <3> QED BY <3>1, <3>6 DEF Due
  <2> HIDE DEF d
  <2> QED BY <1>2, <1>3, <2>1, <2>2, LoopStream DEF StreamInv, d
<1> QED BY <1>4, <1>5

\* Only a client that has not waited finds a functor that processes.
LEMMA RunProcessStream == ASSUME StreamInv, TurnInv, Inv, RunProcess PROVE StreamInv'
<1>1. /\ conn \in ConnType /\ Kept(conn) /\ Turned(conn) /\ batch \in Seq(Functors)
      /\ conn.pending \in Seq(Functors)
  BY DEF TurnInv, Inv, TypeOK, ConnType
<1>2. /\ batch # <<>> /\ Head(batch) = "process"
      /\ UNCHANGED <<alive, peer, kind, received, overlapped>>
      /\ conn' \in ProcessInWorker(conn)
  BY DEF RunProcess, Running, clientVars
<1>3. overlapped
  BY <1>1, <1>2, RunFirst DEF TurnInv
<1>4. Fresh(conn) /\ Begun
  BY <1>1, <1>3 DEF TurnInv, Turned, Fresh
<1>5. Streamed(conn')
  BY <1>1, <1>2, <1>4, ProcessStream DEF StreamInv
<1> QED BY <1>2, <1>3, <1>5, LoopStream

\* The last reference is released.
LEMMA EndFunctorsStream == ASSUME StreamInv, Inv, EndFunctors PROVE StreamInv'
<1>1. conn \in ConnType
  BY DEF Inv, TypeOK
<1>2. /\ UNCHANGED <<batch, peer, kind, received, overlapped>>
      /\ \/ UNCHANGED <<alive, conn>>
         \/ alive' = FALSE /\ conn' = CloseFile(conn)
  BY DEF EndFunctors, clientVars
<1>3. CASE UNCHANGED <<alive, conn>>
  BY <1>2, <1>3, SameOutStep DEF SameOut
<1>4. CASE alive' = FALSE /\ conn' = CloseFile(conn)
  <2>1. Streamed(conn') /\ conn'.file = NoFile
    BY <1>1, <1>4, CloseFileStream DEF StreamInv
  <2> QED BY <1>2, <1>4, <2>1, LoopStream DEF Untouched
<1> QED BY <1>2, <1>3, <1>4

LEMMA ClientShutdownStream == ASSUME StreamInv, Inv, ClientShutdown PROVE StreamInv'
<1>1. conn \in ConnType
  BY DEF Inv, TypeOK
<1>2. SameOut(conn, conn') /\ conn'.pending = conn.pending
  BY <1>1 DEF ClientShutdown, Arrive, SameOut, ConnType
<1> QED BY <1>2, SameOutStep DEF ClientShutdown, loopVars, lifeVars

\* What is in the socket is lost, and nothing is promised any more.
LEMMA ClientResetStream == ASSUME StreamInv, Inv, ClientReset PROVE StreamInv'
<1> DEFINE d == [conn EXCEPT !.edge = TRUE, !.outbound = <<>>]
<1>1. conn \in ConnType
  BY DEF Inv, TypeOK
<1>2. /\ conn' = d /\ peer' = "gone" /\ UNCHANGED <<kind, received, overlapped>>
  BY DEF ClientReset, loopVars, lifeVars
<1>3. /\ d.writeBuffer = conn.writeBuffer /\ d.file = conn.file
      /\ d.handled = conn.handled /\ d.outbound = <<>>
  BY <1>1 DEF ConnType
<1> HIDE DEF d
<1>4. Known' = Known /\ KnownUnits' = KnownUnits /\ Waiting' = Waiting
  BY <1>2 DEF Known, KnownUnits, Waiting, Buffered
<1>5. Streamed(conn)'
  BY <1>2, <1>3, <1>4, EmptySeq DEF StreamInv, Streamed
<1> QED BY <1>2, <1>5 DEF StreamInv

\* What the client has begun stays what it is.
LEMMA ClientSendStream ==
  ASSUME StreamInv, Inv, NEW k \in Kinds, ClientSend(k)
  PROVE  StreamInv'
<1>1. conn \in ConnType /\ kind \in [Requests -> Kinds \cup {"none"}]
  BY DEF Inv, TypeOK
<1>2. PICK r, i :
        /\ kind[r] = IF i = 1 THEN "none" ELSE k
        /\ kind' = [kind EXCEPT ![r] = k]
        /\ conn' = Arrive([conn EXCEPT !.inbound = Append(@, <<r, i>>)], "in")
        /\ overlapped' = FALSE => overlapped = FALSE
        /\ UNCHANGED <<batch, alive, peer, received>>
  BY DEF ClientSend, loopVars, lifeVars, Inv, TypeOK
<1>3. SameOut(conn, conn') /\ conn'.pending = conn.pending
  BY <1>1, <1>2 DEF Arrive, SameOut, ConnType
<1>4. \A q \in Known : kind'[q] = kind[q]
  BY <1>1, <1>2 DEF Known
<1>5. Known \subseteq Known'
  BY <1>4 DEF Known
<1>6. KnownUnits \subseteq KnownUnits' /\ \A u \in KnownUnits : u \in Buffered <=> u \in Buffered'
  BY <1>4, <1>5 DEF KnownUnits, Known, Buffered, UnitsOf
<1>7. Waiting \subseteq Waiting'
  BY <1>6 DEF Waiting
<1>8. \A q \in Known : Serialized(q)' = Serialized(q)
  BY <1>4 DEF Serialized, Response
<1>9. PICK h, o, w, s :
        /\ h = conn.handled /\ o = conn.outbound /\ w = conn.writeBuffer /\ s = received
        /\ conn'.handled = h /\ conn'.outbound = o /\ conn'.writeBuffer = w /\ received' = s
        /\ conn'.file = conn.file
  BY <1>2, <1>3 DEF SameOut
<1>10. /\ h \in Seq(Known) /\ s \in Seq(KnownUnits) /\ o \in Seq(KnownUnits) /\ w \in Seq(Waiting)
       /\ w \in Seq(KnownUnits)
  BY <1>9, WaitingUnits DEF StreamInv, Streamed
<1>11. /\ h \in Seq(Known') /\ s \in Seq(KnownUnits') /\ o \in Seq(KnownUnits')
       /\ w \in Seq(Waiting')
  <2>1. /\ \A j \in 1 .. Len(h) : h[j] \in Known'
        /\ \A j \in 1 .. Len(s) : s[j] \in KnownUnits'
        /\ \A j \in 1 .. Len(o) : o[j] \in KnownUnits'
        /\ \A j \in 1 .. Len(w) : w[j] \in Waiting'
    BY <1>5, <1>6, <1>7, <1>10, ElementOfSeq
  <2> QED BY <1>10, <2>1, SeqWithin
<1>12. Stream(conn)' = Stream(conn) /\ Stream(conn) \in Seq(KnownUnits)
  BY <1>9, <1>10, ConcatProperties DEF Stream
<1>13. Only(Stream(conn), Buffered)' = Only(Stream(conn), Buffered)
  <2>1. PICK t : t = Stream(conn)
    OBVIOUS
  <2>2. \A j \in 1 .. Len(t) : t[j] \in Buffered <=> t[j] \in Buffered'
    BY <1>6, <1>12, <2>1, ElementOfSeq
  <2>3. Only(t, Buffered) = Only(t, Buffered')
    BY <1>12, <2>1, <2>2, OnlySame
  <2> QED BY <1>12, <2>1, <2>3 DEF Only
<1>14. Responses(conn.handled)' = Responses(conn.handled)
  <2>1. \A j \in DOMAIN h : Serialized(h[j])' = Serialized(h[j])
    BY <1>8, <1>10, ElementOfSeq, LenProperties
  <2> QED BY <1>9, <2>1 DEF Responses
<1>15. Streamed(conn)'
  BY <1>2, <1>4, <1>5, <1>9, <1>11, <1>13, <1>14 DEF StreamInv, Streamed
<1>16. ASSUME Accounted(conn) PROVE Accounted(conn)'
  <2> SUFFICES ASSUME NEW q \in Known', kind'[q] = "file"
               PROVE  /\ Pieces(Body(conn, q))'
                      /\ IF conn'.file.req = q THEN Len(Body(conn, q))' = BodyLen - conn'.file.left
                         ELSE Len(Body(conn, q))' \in {0, BodyLen}
    BY DEF Accounted
  <2>1. Body(conn, q)' = Body(conn, q)
    BY <1>9 DEF Body
  <2>2. CASE q \in Known
    BY <1>4, <1>9, <1>16, <2>1, <2>2 DEF Accounted
  <2>3. CASE q \notin Known
    <3>1. PICK t : t = s \o o
      OBVIOUS
    <3>2. t \in Seq(KnownUnits)
      BY <1>10, <3>1, ConcatProperties
    <3>3. \A j \in 1 .. Len(t) : t[j] \notin BodyOf(q)
      BY <2>3, <3>2, ElementOfSeq DEF KnownUnits, BodyOf
    <3>4. Only(t, BodyOf(q)) = <<>>
      BY <3>2, <3>3, OnlyNone
    <3>5. Body(conn, q) = <<>>
      BY <1>9, <3>1, <3>4 DEF Body
    <3>6. Len(<<>>) = 0 /\ Pieces(<<>>)
      BY DEF Pieces
    <3>7. q # 0
      BY BoundAssumption DEF Known, Requests
    <3>8. conn'.file.req # q
      BY <1>9, <2>3, <3>7 DEF StreamInv, Streamed, NoFile
    <3>9. Pieces(Body(conn, q))' /\ Len(Body(conn, q))' = 0
      <4>1. Body(conn, q)' = <<>>
        BY <2>1, <3>5
      <4> QED BY <3>6, <4>1 DEF Pieces
    <3> QED BY <3>8, <3>9
  <2> QED BY <2>2, <2>3
<1>17. "send" \in Due' => "send" \in Due
  BY <1>2, <1>3 DEF Due
<1>18. Untouched(conn) => Untouched(conn)'
  BY <1>9 DEF Untouched
<1>19. overlapped \in BOOLEAN /\ overlapped' \in BOOLEAN
  BY DEF ClientSend, Inv, TypeOK
<1> QED BY <1>2, <1>15, <1>16, <1>17, <1>18, <1>19 DEF StreamInv

\* The first of one sequence goes to the end of the other.
LEMMA HandOver ==
  ASSUME NEW S, NEW s \in Seq(S)
  PROVE  \A t \in Seq(S) : t # <<>> =>
           /\ Append(s, Head(t)) \in Seq(S) /\ Tail(t) \in Seq(S)
           /\ Append(s, Head(t)) \o Tail(t) = s \o t
<1> SUFFICES ASSUME NEW t \in Seq(S), t # <<>>
             PROVE  /\ Append(s, Head(t)) \in Seq(S) /\ Tail(t) \in Seq(S)
                    /\ Append(s, Head(t)) \o Tail(t) = s \o t
  OBVIOUS
<1>1. Head(t) \in S /\ Tail(t) \in Seq(S) /\ Len(Tail(t)) = Len(t) - 1
      /\ \A i \in 1 .. Len(Tail(t)) : Tail(t)[i] = t[i + 1]
  BY HeadTailProperties
<1>2. PICK h, u, a, b, v, m, n : h = Head(t) /\ u = Tail(t) /\ a = Append(s, h)
                                /\ b = a \o u /\ v = s \o t /\ m = Len(s) /\ n = Len(t)
  OBVIOUS
<1>3. m \in Nat /\ n \in Nat /\ n # 0 /\ t[1] = h
  BY <1>2, LenProperties, EmptySeq
<1>4. /\ a \in Seq(S) /\ Len(a) = m + 1 /\ (\A i \in 1 .. m : a[i] = s[i]) /\ a[m + 1] = h
  BY <1>1, <1>2, AppendProperties
<1>5. /\ b \in Seq(S) /\ Len(b) = (m + 1) + (n - 1)
      /\ \A i \in 1 .. (m + 1) + (n - 1) : b[i] = IF i <= m + 1 THEN a[i] ELSE u[i - (m + 1)]
  BY <1>1, <1>2, <1>4, ConcatProperties
<1>6. /\ v \in Seq(S) /\ Len(v) = m + n
      /\ \A i \in 1 .. m + n : v[i] = IF i <= m THEN s[i] ELSE t[i - m]
  BY <1>2, ConcatProperties
<1>7. (m + 1) + (n - 1) = m + n
  BY <1>3
<1>8. ASSUME NEW i \in 1 .. m + n PROVE b[i] = v[i]
  <2>1. b[i] = IF i <= m + 1 THEN a[i] ELSE u[i - (m + 1)]
    BY <1>5, <1>7
  <2>2. v[i] = IF i <= m THEN s[i] ELSE t[i - m]
    BY <1>6
  <2>3. CASE i <= m
    <3>1. i \in 1 .. m /\ i <= m + 1
      BY <1>3, <2>3
    <3> QED BY <1>4, <2>1, <2>2, <2>3, <3>1
  <2>4. CASE i = m + 1
    <3>1. ~(i <= m) /\ i <= m + 1 /\ i - m = 1
      BY <1>3, <2>4
    <3> QED BY <1>3, <1>4, <2>1, <2>2, <2>4, <3>1
  <2>5. CASE i > m + 1
    <3>1. ~(i <= m) /\ ~(i <= m + 1) /\ i - (m + 1) \in 1 .. n - 1 /\ (i - (m + 1)) + 1 = i - m
      BY <1>3, <2>5
    <3>2. u[i - (m + 1)] = t[(i - (m + 1)) + 1]
      BY <1>1, <1>2, <3>1
    <3> QED BY <2>1, <2>2, <3>1, <3>2
  <2> QED BY <1>3, <2>3, <2>4, <2>5
<1>9. b = v
  BY <1>5, <1>6, <1>7, <1>8, SeqEqual
<1> QED BY <1>1, <1>2, <1>4, <1>9

\* What the client reads it has had before it in the socket.
LEMMA ClientReadStream == ASSUME StreamInv, Inv, ClientRead PROVE StreamInv'
<1> DEFINE rest == Tail(conn.outbound)
           edge == conn.edge \/ "out" \in conn.interest
           d    == [conn EXCEPT !.outbound = rest, !.edge = edge]
<1>1. conn \in ConnType
  BY DEF Inv, TypeOK
<1>2. /\ conn.outbound # <<>> /\ received' = Append(received, Head(conn.outbound))
      /\ conn' = Arrive([conn EXCEPT !.outbound = rest], "out")
      /\ UNCHANGED <<batch, alive, peer, kind, overlapped>>
  BY DEF ClientRead, loopVars, lifeVars
<1>3. conn' = d
  BY <1>1, <1>2 DEF Arrive, ConnType
<1>4. /\ d.writeBuffer = conn.writeBuffer /\ d.file = conn.file /\ d.handled = conn.handled
      /\ d.outbound = rest /\ d.pending = conn.pending
  BY <1>1 DEF ConnType
<1> HIDE DEF d
<1>5. received \in Seq(KnownUnits) /\ conn.outbound \in Seq(KnownUnits)
      /\ conn.writeBuffer \in Seq(KnownUnits)
  BY WaitingUnits DEF StreamInv, Streamed
<1>6. /\ received' \in Seq(KnownUnits) /\ rest \in Seq(KnownUnits)
      /\ received' \o rest = received \o conn.outbound
  <2>1. \A t \in Seq(KnownUnits) : t # <<>> =>
          /\ Append(received, Head(t)) \in Seq(KnownUnits) /\ Tail(t) \in Seq(KnownUnits)
          /\ Append(received, Head(t)) \o Tail(t) = received \o t
    BY <1>5, HandOver
  <2> QED BY ZenonT(40), <1>2, <1>5, <2>1
<1> HIDE DEF rest
<1>7. Stream(conn)' = Stream(conn)
  <2>1. \A s, t, u \in Seq(KnownUnits) : (s \o t) \o u = s \o (t \o u)
    BY Associative
  <2>2. received' \o (rest \o conn.writeBuffer) = (received' \o rest) \o conn.writeBuffer
    BY ZenonT(40), <1>5, <1>6, <2>1
  <2>3. received \o (conn.outbound \o conn.writeBuffer)
          = (received \o conn.outbound) \o conn.writeBuffer
    BY ZenonT(40), <1>5, <2>1
  <2> QED BY <1>3, <1>4, <1>6, <2>2, <2>3 DEF Stream
<1>8. Known' = Known /\ KnownUnits' = KnownUnits /\ Waiting' = Waiting /\ Buffered' = Buffered
  BY <1>2 DEF Known, KnownUnits, Waiting, Buffered
<1>9. Responses(conn.handled)' = Responses(conn.handled)
  BY <1>2, <1>3, <1>4 DEF Responses, Serialized, Response
<1>10. Streamed(conn)'
  BY <1>2, <1>3, <1>4, <1>6, <1>7, <1>8, <1>9 DEF StreamInv, Streamed
<1>11. \A r : Body(conn, r)' = Body(conn, r)
  BY <1>3, <1>4, <1>6 DEF Body
<1>12. Accounted(conn) => Accounted(conn)'
  BY <1>2, <1>3, <1>4, <1>8, <1>11 DEF Accounted, Pieces
<1>13. Untouched(conn) => Untouched(conn)'
  BY <1>3, <1>4 DEF Untouched
<1>14. Due' = Due
  BY <1>2, <1>3, <1>4 DEF Due
<1> QED BY <1>2, <1>10, <1>12, <1>13, <1>14 DEF StreamInv

\* A new connection.
LEMMA StreamInit == Init => StreamInv
<1> SUFFICES ASSUME Init PROVE StreamInv
  OBVIOUS
<1>1. /\ conn.writeBuffer = <<>> /\ conn.file = NoFile /\ conn.handled = <<>>
      /\ conn.outbound = <<>> /\ received = <<>> /\ \A r \in Requests : kind[r] = "none"
  BY DEF Init
<1>2. Known = {}
  BY <1>1 DEF Known
<1>3. Stream(conn) = <<>>
  <2>1. <<>> \o <<>> = <<>>
    OBVIOUS
  <2> QED BY <1>1, <2>1 DEF Stream
<1>4. Only(Stream(conn), Buffered) = Responses(conn.handled)
  <2>1. <<>> \in Seq(Known)
    BY EmptySeq
  <2>2. Responses(<<>>) = <<>>
    BY <2>1, ResponsesIs, FlattenImageEmpty
  <2> QED BY <1>1, <1>3, <2>2, OnlyEmpty
<1>5. Streamed(conn)
  BY <1>1, <1>4, EmptySeq DEF Streamed
<1> QED BY <1>1, <1>2, <1>5 DEF StreamInv, Accounted, Untouched

\* Every step, by the lemma on it.
LEMMA StreamNext == Inv /\ TurnInv /\ StreamInv /\ [Next]_vars => StreamInv'
<1> SUFFICES ASSUME Inv, TurnInv, StreamInv, [Next]_vars PROVE StreamInv'
  OBVIOUS
<1>1. CASE Poll
  BY <1>1, PollStream
<1>2. CASE HandleHangup
  BY <1>2, HandleHangupStream
<1>3. CASE HandleRead
  BY <1>3, HandleReadStream
<1>4. CASE HandleWrite
  BY <1>4, HandleWriteStream
<1>5. CASE DoPendingFunctors
  BY <1>5, DoPendingFunctorsStream
<1>6. CASE RunSend
  BY <1>6, RunSendStream
<1>7. CASE RunProcess
  BY <1>7, RunProcessStream
<1>8. CASE RunError
  BY <1>8, RunErrorStream
<1>9. CASE RunClose
  BY <1>9, RunCloseStream
<1>10. CASE RunErase
  BY <1>10, RunEraseStream
<1>11. CASE EndFunctors
  BY <1>11, EndFunctorsStream
<1>12. CASE EndTick
  BY <1>12, EndTickStream
<1>13. CASE FireTimer
  BY <1>13, FireTimerStream
<1>14. CASE SigPipe
  BY <1>14, SigPipeStream
<1>15. CASE Client
  <2>1. CASE \E k \in Kinds : ClientSend(k)
    BY <2>1, ClientSendStream
  <2>2. CASE ClientRead
    BY <2>2, ClientReadStream
  <2>3. CASE ClientShutdown
    BY <2>3, ClientShutdownStream
  <2>4. CASE ClientReset
    BY <2>4, ClientResetStream
  <2> QED BY <1>15, <2>1, <2>2, <2>3, <2>4 DEF Client
<1>16. CASE UNCHANGED vars
  BY <1>16, SameOutStep DEF vars, SameOut
<1> QED BY <1>1, <1>2, <1>3, <1>4, <1>5, <1>6, <1>7, <1>8, <1>9, <1>10, <1>11, <1>12,
           <1>13, <1>14, <1>15, <1>16 DEF Next, LoopStep

\* All that goes to the client from writeBuffer_ is whole responses, in the order in
\* which their requests were handled; a client that waits for its answers gets of the
\* body of a file what sendFileLen_ has been reduced by, or all of it, or nothing.
THEOREM AnswersAreIntact == Spec => []AnswersIntact
<1>1. Inv /\ StreamInv => AnswersIntact
  <2>1. SUFFICES ASSUME Inv, StreamInv PROVE StreamIntact /\ BodyAccounted
    BY DEF AnswersIntact, Inv
  <2>2. /\ received \in Seq(UnitsOf) /\ conn.outbound \in Seq(UnitsOf)
        /\ conn.writeBuffer \in Seq(UnitsOf) /\ kind \in [Requests -> Kinds \cup {"none"}]
    BY <2>1 DEF Inv, TypeOK, ConnType, UnitsOf
  <2>3. StreamIntact
    <3>1. Stream(conn) = (received \o conn.outbound) \o conn.writeBuffer
      BY <2>2, UnitsAssociate DEF Stream
    <3> QED BY <2>1, <3>1 DEF StreamInv, Streamed, StreamIntact, Responses
  <2>4. BodyAccounted
    <3>1. SUFFICES ASSUME NEW r \in Requests, alive, peer # "gone", ~overlapped, kind[r] = "file"
                   PROVE  /\ IF conn.file.req = r THEN Len(Body(conn, r)) = BodyLen - conn.file.left
                             ELSE Len(Body(conn, r)) \in {0, BodyLen}
                          /\ \A i \in DOMAIN Body(conn, r) :
                               \/ Body(conn, r)[i][2] = 2
                               \/ i > 1 /\ Body(conn, r)[i][2] = Body(conn, r)[i - 1][2] + 1
      BY DEF BodyAccounted, Body
    <3>2. r \in Known
      BY <3>1 DEF Known
    <3>3. DOMAIN Body(conn, r) = 1 .. Len(Body(conn, r))
      <4>1. received \o conn.outbound \in Seq(UnitsOf)
        BY <2>2, ConcatProperties
      <4>2. Body(conn, r) \in Seq(UnitsOf)
        BY <4>1, OnlyType DEF Body
      <4> QED BY <4>2, LenProperties
    <3> QED BY <2>1, <3>1, <3>2, <3>3 DEF StreamInv, Accounted, Pieces
  <2> QED BY <2>3, <2>4
<1>2. Init => Inv /\ TurnInv /\ StreamInv
  BY InvInit, TurnInit, StreamInit
<1>3. (Inv /\ TurnInv /\ StreamInv) /\ [Next]_vars => (Inv /\ TurnInv /\ StreamInv)'
  BY InvNext, TurnNext, StreamNext
<1> QED BY <1>1, <1>2, <1>3, PTL DEF Spec
=============================================================================
