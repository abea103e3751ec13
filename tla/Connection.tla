----------------------------- MODULE Connection -----------------------------
(***************************************************************************)
(* One Connection on the thread of its EventLoop: reading, parsing,        *)
(* routing, writing, keep-alive, the sendfile body, closing and the idle   *)
(* timer, against a client and a non-blocking socket in edge-triggered     *)
(* epoll.                                                                  *)
(*                                                                         *)
(* All handlers run on one thread, so a handler is one action; between two *)
(* of them the client and the kernel may do anything.  The loop is         *)
(* EventLoop.tla as one connection sees it: rounds of epoll_wait, the      *)
(* handlers of the events reported, the functors queued so far, Tick.      *)
(*                                                                         *)
(* Data is abstract.  A request is Parts fragments <<r, i>>, a response is *)
(* units <<r, i>> whose number depends on the kind of the request.         *)
(***************************************************************************)
EXTENDS Integers, SequencesExt

CONSTANTS
  Kinds,         \* the kinds of request the client may send, see Units
  MaxRequests,   \* bound: requests of the client on this connection
  SockCap,       \* units the socket's send buffer holds
  MaxReadBuffer  \* MAX_READ_BUFFER_SIZE in fragments

\* "short"  one unit, kept alive       "file"   a header, and a body for sendfile
\* "long"   two units, kept alive      "close"  one unit, Connection: close
\* "bad"    the parser rejects it
AllKinds == {"short", "long", "file", "close", "bad"}

ASSUME KindAssumption  == Kinds \subseteq AllKinds
ASSUME BoundAssumption == {MaxRequests, SockCap, MaxReadBuffer} \subseteq Nat \ {0}

Parts == 2      \* fragments of a request
BodyLen == 2    \* units of a file's body

Requests == 1 .. MaxRequests
NoFile == [req |-> 0, left |-> 0]

VARIABLES
  conn,      \* the Connection, its socket, its channel, its functors
  phase,     \* where the loop is in its round; "killed": the process has died
  revents,   \* what epoll_wait reported and is not handled yet
  batch,     \* functors of this connection the loop is running
  mapped,    \* connections_ holds the connection
  alive,     \* the shared_ptr has not been released: fd open, handlers live
  timer,     \* the connection's node is in the timer heap
  peer,      \* the client: "open", "fin" (it sent FIN and reads), "gone" (RST)
  kind,      \* request -> its kind, once the client has begun to send it
  sent,      \* fragments sent by the client
  received,  \* units the client has read
  overlapped \* history: a request was begun before the last was answered

vars == <<conn, phase, revents, batch, mapped, alive, timer, peer, kind, sent,
          received, overlapped>>

loopVars == <<phase, revents, batch>>
lifeVars == <<mapped, alive, timer>>
clientVars == <<peer, kind, sent, received, overlapped>>

-----------------------------------------------------------------------------
(* Requests and responses.                                                 *)

Units(k) == CASE k = "short" -> 1
              [] k = "close" -> 1
              [] k = "long"  -> 2
              [] k = "file"  -> 1 + BodyLen
              [] OTHER       -> 0

Response(r) == [i \in 1 .. Units(kind[r]) |-> <<r, i>>]

\* What Process() puts into writeBuffer_: of a file only HeadersOnly().
Serialized(r) == IF kind[r] = "file" THEN <<<<r, 1>>>> ELSE Response(r)

\* The client has read all of the response to r.
Answered(r) == Range(Response(r)) \subseteq Range(received)

Init ==
  /\ conn = [ state       |-> "Connected",  \* state_
              readBuffer  |-> <<>>,         \* readBuffer_
              context     |-> <<>>,         \* context_: fragments parsed
              writeBuffer |-> <<>>,         \* writeBuffer_
              file        |-> NoFile,       \* sendFileFd_ and sendFileLen_
              openFiles   |-> 0,            \* files opened and not closed
              handled     |-> <<>>,         \* history: requests routed
              inbound     |-> <<>>,         \* the socket's receive buffer
              outbound    |-> <<>>,         \* the socket's send buffer
              interest    |-> {"in"},       \* channel_'s events
              edge        |-> FALSE,        \* on epoll's ready list
              pending     |-> <<>> ]        \* functors queued to the loop
  /\ phase = "poll"
  /\ revents = {}
  /\ batch = <<>>
  /\ mapped = TRUE
  /\ alive = TRUE
  /\ timer = TRUE
  /\ peer = "open"
  /\ kind = [r \in Requests |-> "none"]
  /\ sent = 0
  /\ received = <<>>
  /\ overlapped = FALSE

-----------------------------------------------------------------------------
(* The methods of Connection, as functions from a connection to what they  *)
(* leave of it.  Those that can end in several ways return a set.          *)

QueueInLoop(c, functor) == [c EXCEPT !.pending = Append(@, functor)]

\* What epoll finds when it polls the socket under the channel's interest.
Polled(c) ==
  IF peer = "gone" THEN {"hup"}
  ELSE {e \in c.interest : \/ e = "in" /\ (c.inbound # <<>> \/ peer = "fin")
                           \/ e = "out" /\ Len(c.outbound) < SockCap}

\* EPOLL_CTL_MOD polls again, so an edge that has passed is reported anew.
UpdateChannel(c) == [c EXCEPT !.edge = @ \/ Polled(c) # {}]

EnableReadEvent(c) == UpdateChannel([c EXCEPT !.interest = @ \cup {"in"}])
EnableWriteEvent(c) == UpdateChannel([c EXCEPT !.interest = @ \cup {"out"}])

DisableWriteEvent(c) == UpdateChannel([c EXCEPT !.interest = @ \ {"out"}])

HandleClose(c) == QueueInLoop(c, "close")

\* An empty context_ has no version, which IsKeepAlive() takes for no.
IsKeepAlive(c) == c.context # <<>> /\ kind[c.context[1][1]] # "close"

CloseFile(c) ==
  [c EXCEPT !.file = NoFile, !.openFiles = IF c.file = NoFile THEN @ ELSE @ - 1]

\* Mutant: the request that was answered is not taken out of context_.
ResetForgetsContext(c) ==
  EnableReadEvent([CloseFile(c) EXCEPT !.writeBuffer = <<>>, !.state = "Connected"])

ResetForNextRequest(c) ==
  EnableReadEvent([CloseFile(c) EXCEPT !.context = <<>>,
                                       !.writeBuffer = <<>>,
                                       !.state = "Connected"])

HasPendingRequest(c) == c.readBuffer # <<>>

OnResponseFinished(c) ==
  IF ~IsKeepAlive(c) THEN [c EXCEPT !.state = "Closed"]
  ELSE LET next == ResetForNextRequest(c)
       IN  IF HasPendingRequest(next) THEN QueueInLoop(next, "process") ELSE next

\* Mutant: WRITE_AGAIN does not ask for EPOLLOUT.
HandleWriteResultForgetful(c, result) ==
  CASE result = "complete" -> OnResponseFinished(c)
    [] result = "again"    -> c
    [] result = "error"    -> HandleClose(c)

HandleWriteResult(c, result) ==
  CASE result = "complete" -> OnResponseFinished(c)
    [] result = "again"    -> EnableWriteEvent(c)
    [] result = "error"    -> HandleClose(c)

\* Mutant: what a partial send has taken is not retrieved from the buffer.
WriteResends(c) ==
  LET room == SockCap - Len(c.outbound)
      n    == IF Len(c.writeBuffer) <= room THEN Len(c.writeBuffer) ELSE room
      all  == n = Len(c.writeBuffer)
  IN  IF peer = "gone" /\ c.writeBuffer # <<>> THEN [c |-> c, result |-> "error"]
      ELSE [ c |-> [c EXCEPT !.outbound = @ \o SubSeq(c.writeBuffer, 1, n),
                             !.writeBuffer = IF all THEN <<>> ELSE @],
             result |-> IF all THEN "complete" ELSE "again" ]

\* The send loop takes what the socket has room for.
Write(c) ==
  LET room == SockCap - Len(c.outbound)
      n    == IF Len(c.writeBuffer) <= room THEN Len(c.writeBuffer) ELSE room
  IN  IF peer = "gone" /\ c.writeBuffer # <<>> THEN [c |-> c, result |-> "error"]
      ELSE [ c |-> [c EXCEPT
                      !.outbound = @ \o SubSeq(c.writeBuffer, 1, n),
                      !.writeBuffer = SubSeq(@, n + 1, Len(@))],
             result |-> IF n = Len(c.writeBuffer) THEN "complete" ELSE "again" ]

TrySend(c) == LET w == Write(c) IN HandleWriteResult(w.c, w.result)

\* The sendfile loop.  Its offset is a local that starts at 0 in every call.
SendFile(c) ==
  LET room == SockCap - Len(c.outbound)
      n    == IF c.file.left <= room THEN c.file.left ELSE room
      next == [c EXCEPT !.outbound = @ \o [i \in 1 .. n |-> <<c.file.req, 1 + i>>],
                        !.file.left = @ - n]
  IN  IF peer = "gone" /\ c.file.left > 0
        THEN [c |-> CloseFile(c), result |-> "error"]
      ELSE IF n < c.file.left THEN [c |-> next, result |-> "again"]
      ELSE [c |-> CloseFile(next), result |-> "complete"]

\* HandleWrite, the handler of EPOLLOUT.
Written(c) ==
  LET w == Write(c)
      f == SendFile(w.c)
  IN  IF w.c.writeBuffer # <<>>
        THEN HandleWriteResult(EnableWriteEvent(w.c), w.result)
      ELSE IF w.c.file = NoFile
        THEN HandleWriteResult(DisableWriteEvent(w.c), "complete")
      ELSE IF f.result = "again" THEN EnableWriteEvent(f.c)
      ELSE IF f.result = "error" THEN HandleWriteResult(f.c, "error")
      ELSE HandleWriteResult(DisableWriteEvent(f.c), "complete")

\* ParseRequest resumes where it stopped.  Of an incomplete request it takes
\* the complete lines and leaves the rest, which may be nothing or all.
ParseRequest(c) ==
  LET need  == Parts - Len(c.context)
      whole == need <= Len(c.readBuffer)
      n     == IF whole THEN need ELSE Len(c.readBuffer)
      next  == [c EXCEPT !.context = @ \o SubSeq(c.readBuffer, 1, n),
                         !.readBuffer = SubSeq(@, n + 1, Len(@))]
      bad   == next.context # <<>> /\ kind[next.context[1][1]] = "bad"
  IN  IF whole THEN {[c |-> next, result |-> IF bad THEN "error" ELSE "complete"]}
      ELSE {[c |-> d, result |-> "incomplete"] : d \in {c, next}}
             \cup {[c |-> next, result |-> "error"] : b \in {bad} \cap {TRUE}}

\* The part of Process() after a complete parse.
Route(c) ==
  LET r    == c.context[1][1]
      next == [c EXCEPT !.handled = Append(@, r), !.writeBuffer = @ \o Serialized(r)]
  IN  IF kind[r] = "file"
      THEN [next EXCEPT !.file = [req |-> r, left |-> BodyLen], !.openFiles = @ + 1]
      ELSE next

\* Mutant: an incomplete request leaves the state at Processing.
ProcessStaysProcessing(c) ==
  {CASE p.result = "incomplete" -> p.c
     [] p.result = "error"      -> QueueInLoop([p.c EXCEPT !.state = "Closed"], "error")
     [] p.result = "complete"   -> QueueInLoop([Route(p.c) EXCEPT !.state = "Writing"], "send")
   : p \in ParseRequest(c)}

ProcessInWorker(c) ==
  {CASE p.result = "incomplete" -> [p.c EXCEPT !.state = "Connected"]
     [] p.result = "error"      -> QueueInLoop([p.c EXCEPT !.state = "Closed"], "error")
     [] p.result = "complete"   -> QueueInLoop([Route(p.c) EXCEPT !.state = "Writing"], "send")
   : p \in ParseRequest(c)}

\* The recv loop, up to EAGAIN, the end of the stream or the buffer's limit.
Read(c) ==
  LET room == MaxReadBuffer - Len(c.readBuffer)
      full == Len(c.inbound) >= room
      n    == IF ~full THEN Len(c.inbound) ELSE IF room > 0 THEN room ELSE 0
  IN  [ c |-> [c EXCEPT !.readBuffer = @ \o SubSeq(c.inbound, 1, n),
                        !.inbound = SubSeq(@, n + 1, Len(@))],
        result |-> IF full THEN "error"
                   ELSE IF peer = "fin" THEN "closed"
                   ELSE IF peer = "gone" THEN "error"
                   ELSE "success" ]

-----------------------------------------------------------------------------
(* One round of the loop.                                                  *)

\* epoll_wait, as far as this channel goes: it reports an edge once.
Poll ==
  /\ phase = "poll"
  /\ phase' = "events"
  /\ revents' = IF alive /\ conn.edge THEN Polled(conn) ELSE {}
  /\ conn' = [conn EXCEPT !.edge = FALSE]
  /\ UNCHANGED <<batch, lifeVars, clientVars>>

\* EPOLLERR or EPOLLHUP: the close callback, and no other.
HandleHangup ==
  /\ phase = "events"
  /\ "hup" \in revents
  /\ revents' = {}
  /\ conn' = HandleClose(conn)
  /\ UNCHANGED <<phase, batch, lifeVars, clientVars>>

\* EPOLLIN.  AdjustTimer only pushes the expiry back, which a model without
\* clock does not see.
HandleRead ==
  /\ phase = "events"
  /\ "in" \in revents
  /\ revents' = revents \ {"in"}
  /\ LET r == Read(conn)
     IN  IF r.result # "success" THEN conn' = HandleClose(r.c)
         ELSE IF r.c.state = "Connected"
           THEN conn' \in ProcessInWorker([r.c EXCEPT !.state = "Processing"])
         ELSE conn' = r.c
  /\ UNCHANGED <<phase, batch, lifeVars, clientVars>>

\* EPOLLOUT, after EPOLLIN.
HandleWrite ==
  /\ phase = "events"
  /\ "out" \in revents
  /\ "in" \notin revents
  /\ revents' = revents \ {"out"}
  /\ conn' = Written(conn)
  /\ UNCHANGED <<phase, batch, lifeVars, clientVars>>

\* DoPendingFunctors swaps the functors out and runs them.
DoPendingFunctors ==
  /\ phase = "events"
  /\ revents = {}
  /\ phase' = "functors"
  /\ batch' = conn.pending
  /\ conn' = [conn EXCEPT !.pending = <<>>]
  /\ UNCHANGED <<revents, lifeVars, clientVars>>

Running(functor) ==
  /\ phase = "functors"
  /\ batch # <<>>
  /\ Head(batch) = functor
  /\ batch' = Tail(batch)
  /\ UNCHANGED <<phase, revents, alive, timer, clientVars>>

\* Queued by ProcessInWorker: send the response, unless the state is Closed.
RunSend ==
  /\ Running("send")
  /\ conn' = IF conn.state = "Closed" THEN conn ELSE TrySend(conn)
  /\ UNCHANGED mapped

\* Queued by OnResponseFinished: there is input left to parse.
RunProcess ==
  /\ Running("process")
  /\ conn' \in ProcessInWorker(conn)
  /\ UNCHANGED mapped

\* Queued by ProcessInWorker after a parse error.
RunError ==
  /\ Running("error")
  /\ conn' = HandleClose(conn)
  /\ UNCHANGED mapped

\* Mutant: a connection that is writing is not removed.
RunCloseUnlessWriting ==
  /\ Running("close") \/ Running("expire")
  /\ conn' = IF conn.state = "Writing" THEN conn ELSE QueueInLoop(conn, "erase")
  /\ UNCHANGED mapped

\* Queued by HandleClose or by the timer: RemoveConnection, which queues again.
RunClose ==
  /\ Running("close") \/ Running("expire")
  /\ conn' = QueueInLoop(conn, "erase")
  /\ UNCHANGED mapped

\* Queued by RemoveConnection: connections_.erase(fd).
RunErase ==
  /\ Running("erase")
  /\ mapped' = FALSE
  /\ UNCHANGED conn

\* The functors that keep the connection alive by a captured shared_ptr.
Holders == {"send", "process", "error", "close"}

\* The batch is destroyed.  With the last shared_ptr the deleter runs Close(),
\* which takes the fd out of epoll.
EndFunctors ==
  /\ phase = "functors"
  /\ batch = <<>>
  /\ phase' = "tick"
  /\ IF mapped \/ Range(conn.pending) \cap Holders # {}
     THEN UNCHANGED <<alive, conn>>
     ELSE alive' = FALSE /\ conn' = CloseFile(conn)
  /\ UNCHANGED <<revents, batch, mapped, timer, clientVars>>

\* Tick: the timer, if it has expired, queues the removal; it leaves the heap.
\* Nothing takes it out of the heap when the connection goes.
FireTimer ==
  /\ phase = "tick"
  /\ timer
  /\ timer' = FALSE
  /\ conn' = QueueInLoop(conn, "expire")
  /\ UNCHANGED <<loopVars, mapped, alive, clientVars>>

EndTick ==
  /\ phase = "tick"
  /\ phase' = "poll"
  /\ UNCHANGED <<conn, revents, batch, lifeVars, clientVars>>

\* A write to a connection the client has reset may raise SIGPIPE, which
\* nothing in the server blocks, ignores or handles.
SigPipe ==
  /\ peer = "gone"
  /\ \/ /\ phase = "events"
        /\ revents = {"out"}
     \/ /\ phase = "functors"
        /\ batch # <<>>
        /\ Head(batch) = "send"
        /\ conn.state # "Closed"
  /\ conn.writeBuffer # <<>> \/ (phase = "events" /\ conn.file # NoFile)
  /\ phase' = "killed"
  /\ UNCHANGED <<conn, revents, batch, lifeVars, clientVars>>

-----------------------------------------------------------------------------
(* The client and the network.                                             *)

\* Data, a FIN or room in the send buffer raises an edge if the channel is
\* interested; a reset always does.
Arrive(c, e) == [c EXCEPT !.edge = @ \/ e \in c.interest]

Connected == alive /\ phase # "killed"

\* The client sends the next fragment of a request of kind k.
ClientSend(k) ==
  /\ Connected
  /\ peer = "open"
  /\ sent < Parts * MaxRequests
  /\ LET r == (sent \div Parts) + 1
         i == (sent % Parts) + 1
     IN  /\ kind[r] = (IF i = 1 THEN "none" ELSE k)
         /\ kind' = [kind EXCEPT ![r] = k]
         /\ overlapped' = (overlapped \/ (i = 1 /\ r > 1 /\ ~Answered(r - 1)))
         /\ conn' = Arrive([conn EXCEPT !.inbound = Append(@, <<r, i>>)], "in")
  /\ sent' = sent + 1
  /\ UNCHANGED <<loopVars, lifeVars, peer, received>>

ClientRead ==
  /\ Connected
  /\ peer # "gone"
  /\ conn.outbound # <<>>
  /\ received' = Append(received, Head(conn.outbound))
  /\ conn' = Arrive([conn EXCEPT !.outbound = Tail(@)], "out")
  /\ UNCHANGED <<loopVars, lifeVars, peer, kind, sent, overlapped>>

\* shutdown(SHUT_WR): no more requests, but the client still reads.
ClientShutdown ==
  /\ Connected
  /\ peer = "open"
  /\ peer' = "fin"
  /\ conn' = Arrive(conn, "in")
  /\ UNCHANGED <<loopVars, lifeVars, kind, sent, received, overlapped>>

\* A reset: what is in the send buffer is lost.
ClientReset ==
  /\ Connected
  /\ peer # "gone"
  /\ peer' = "gone"
  /\ conn' = [conn EXCEPT !.edge = TRUE, !.outbound = <<>>]
  /\ UNCHANGED <<loopVars, lifeVars, kind, sent, received, overlapped>>

-----------------------------------------------------------------------------
LoopStep ==
  \/ Poll \/ HandleHangup \/ HandleRead \/ HandleWrite
  \/ DoPendingFunctors \/ RunSend \/ RunProcess \/ RunError \/ RunClose \/ RunErase
  \/ EndFunctors \/ EndTick

Client == (\E k \in Kinds : ClientSend(k)) \/ ClientRead \/ ClientShutdown \/ ClientReset

Next == LoopStep \/ FireTimer \/ SigPipe \/ Client

Spec == Init /\ [][Next]_vars

\* The loop's thread is scheduled and wakes up for what is queued
\* (EventLoop!NoLostWakeup); a client that waits for an answer reads it.
FairSpec == Spec /\ WF_vars(LoopStep) /\ WF_vars(ClientRead)

-----------------------------------------------------------------------------
(* Properties.  Between two rounds, at epoll_wait, is where something that *)
(* was forgotten stays forgotten.                                          *)

AtWait == alive /\ phase = "poll"

Queued == Range(conn.pending)

\* The end of the connection is on its way.
Closing == ~mapped \/ Queued \cap {"close", "error", "expire", "erase"} # {}

Functors == Holders \cup {"expire", "erase"}

ConnType ==
  [ state       : {"Connected", "Processing", "Writing", "Closed"},
    readBuffer  : Seq(Requests \X (1 .. Parts)),
    context     : Seq(Requests \X (1 .. Parts)),
    writeBuffer : Seq(Requests \X (1 .. 1 + BodyLen)),
    file        : [req : 0 .. MaxRequests, left : 0 .. BodyLen],
    openFiles   : Nat,
    handled     : Seq(Requests),
    inbound     : Seq(Requests \X (1 .. Parts)),
    outbound    : Seq(Requests \X (1 .. 1 + BodyLen)),
    interest    : {{"in"}, {"in", "out"}},
    edge        : BOOLEAN,
    pending     : Seq(Functors) ]

\* Every variable has its type.  The channel is interested in EPOLLIN as long
\* as it lives.
TypeOK ==
  /\ conn \in ConnType
  /\ phase \in {"poll", "events", "functors", "tick", "killed"}
  /\ revents \subseteq {"in", "out", "hup"}
  /\ batch \in Seq(Functors)
  /\ mapped \in BOOLEAN
  /\ alive \in BOOLEAN
  /\ timer \in BOOLEAN
  /\ peer \in {"open", "fin", "gone"}
  /\ kind \in [Requests -> Kinds \cup {"none"}]
  /\ sent \in 0 .. Parts * MaxRequests
  /\ received \in Seq(Requests \X (1 .. 1 + BodyLen))
  /\ overlapped \in BOOLEAN

\* A response that is not out is never left behind: a TrySend is queued, or
\* EPOLLOUT is awaited with its edge still to come or already on the list.
WriteArmed ==
  AtWait /\ conn.state = "Writing" =>
    \/ "send" \in Queued
    \/ Closing
    \/ "out" \in conn.interest /\ ("out" \in Polled(conn) => conn.edge)

\* Input or the end of the stream is never left in the socket without an edge.
ReadArmed ==
  AtWait /\ (conn.inbound # <<>> \/ peer # "open") => conn.edge \/ Closing

\* A whole request that is in readBuffer_ already, for which no EPOLLIN will
\* come any more, is not left there when the connection is free for it.
NoStalledRequest ==
  AtWait /\ conn.state = "Connected" /\ Len(conn.context) + Len(conn.readBuffer) >= Parts
    => "process" \in Queued \/ Closing

\* Whenever the loop is at epoll_wait, what the connection still has to do will be
\* announced to it.
NothingLeftBehind == WriteArmed /\ ReadArmed /\ NoStalledRequest

\* The elements of s that are in T, in their order.
Only(s, T) == FlattenSeq([i \in DOMAIN s |-> IF s[i] \in T THEN <<s[i]>> ELSE <<>>])

\* What goes through writeBuffer_, and the body of a file, which does not.
Buffered == {u \in Requests \X (1 .. 1 + BodyLen) : kind[u[1]] = "file" => u[2] = 1}
BodyOf(r) == {r} \X (2 .. 1 + BodyLen)

\* All that ever went or will go to the client from writeBuffer_ is whole
\* responses, in the order in which their requests were handled, however the
\* sends were cut and whatever arrived in between.
StreamIntact ==
  peer # "gone" =>
    Only(received \o conn.outbound \o conn.writeBuffer, Buffered)
      = FlattenSeq([i \in DOMAIN conn.handled |-> Serialized(conn.handled[i])])

\* Of the body of a file a client that waits for its answers gets as many units as the
\* file has, or none (the header went out at once): sendFileLen_ accounts for all that
\* has been sent, in however many calls.  What it gets in each call is the beginning of
\* the file, since the offset starts again, and so is the file only if one call was
\* enough.  A client that does not wait may get a part: a request that was handled twice
\* leaves EPOLLOUT on, HandleWrite begins with the file of the next one before its
\* TrySend, and TrySend, with nothing left to send, closes it.
BodyAccounted ==
  \A r \in Requests :
    LET body == Only(received \o conn.outbound, BodyOf(r))
    IN  alive /\ peer # "gone" /\ ~overlapped /\ kind[r] = "file"
          => /\ IF conn.file.req = r THEN Len(body) = BodyLen - conn.file.left
                ELSE Len(body) \in {0, BodyLen}
             /\ \A i \in DOMAIN body :
                  body[i][2] = 2 \/ (i > 1 /\ body[i][2] = body[i - 1][2] + 1)

\* What the client gets is sound, and so is what is kept of it.
AnswersIntact == TypeOK /\ StreamIntact /\ BodyAccounted

\* Requests are handled in the order they were sent, and each once if the
\* client waits for each answer before it sends the next request.
HandledInOrder ==
  \A i, j \in DOMAIN conn.handled :
    i < j => IF overlapped THEN conn.handled[i] <= conn.handled[j]
             ELSE conn.handled[i] < conn.handled[j]

\* With such a client no file stays open but the one being sent.
FilesClosed ==
  ~overlapped => conn.openFiles = IF conn.file = NoFile THEN 0 ELSE 1

\* A reset for the next request forgets the request that was answered and nothing of
\* another: what is handled is handled in turn, and what was opened for it is closed.
EachInTurn == HandledInOrder /\ FilesClosed

\* Whatever the connection is doing, and whatever has been queued for it, the end of
\* the client or the timer ends it: HandleClose or RemoveConnection, the two rounds of
\* functors, and the last shared_ptr.
EndsConnection == peer # "open" \/ ~timer ~> ~alive \/ phase = "killed"

Undisturbed == peer = "open" /\ timer

\* A client that sends one request at a time and stays gets each answer, in
\* however many pieces requests and responses travel; and after a request that
\* cannot be parsed, to which there is no answer, the connection ends without
\* waiting for the timer.
AnswersFollow ==
  \A r \in Requests :
    (/\ Undisturbed /\ ~overlapped
     /\ sent >= Parts * r
     /\ \A q \in 1 .. r - 1 : kind[q] \in {"short", "long"}
     /\ kind[r] \in {"short", "long", "bad"})
    ~> \/ IF kind[r] = "bad" THEN ~alive ELSE Answered(r)
       \/ overlapped \/ ~Undisturbed

-----------------------------------------------------------------------------
(* What the documents say and the code does not do.                        *)

\* A client may send a request before it has the answer to the one before
\* ("half packets and sticky packets", README).  False: OnResponseFinished
\* queues ProcessInWorker and leaves the state Connected, HandleRead parses the
\* same request first, it is handled twice, and the second TrySend, with
\* nothing to send and an empty context_, closes the connection.
PipelinedAnswered ==
  \A r \in Requests :
    (/\ Undisturbed
     /\ sent >= Parts * r
     /\ \A q \in 1 .. r : kind[q] \in {"short", "long"})
    ~> (Answered(r) \/ ~Undisturbed)
=============================================================================
