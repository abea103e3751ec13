---------------------------- MODULE HttpContext ----------------------------
(***************************************************************************)
(* The incremental parser of requests over the read buffer of a            *)
(* connection: input arrives in pieces of any size, ParseRequest takes     *)
(* from it what is complete, gives up until there is more, and leaves what *)
(* belongs to the next request where it is.                                *)
(*                                                                         *)
(* A token stands for the text of a line without its CR LF, or for a byte  *)
(* of a body, where "cr" and "lf" may occur too.  One line, or the body,   *)
(* is one step.  One request is handled after the other; what happens when *)
(* a request meets the response to the one before is in Connection.tla.    *)
(***************************************************************************)
EXTENDS Buffer, SequencesExt

CONSTANTS
  Conversations,  \* what a client may send: messages, which are lines before the
                  \* empty one, and a body
  MaxReceive,     \* size of recvbuffer
  InitSize,       \* initSize of Buffer
  MaxBody,        \* MAX_BODY_SIZE
  MaxConnections  \* bound: how often the Connection object is used

ASSUME BoundAssumption ==
  {MaxReceive, InitSize, MaxBody, MaxConnections} \subseteq Nat \ {0}

CRLF == <<"cr", "lf">>

\* Header lines with a Content-Length; "nan" has one that stoul rejects, "other"
\* is any other header, and every other token is not one.
LengthOf == [len0 |-> 0, len1 |-> 1, len2 |-> 2, huge |-> MaxBody + 1]
Headers == DOMAIN LengthOf \cup {"nan", "other"}

ASSUME TokenAssumption == Headers \cup {"start", "cr", "lf"} \subseteq Bytes
ASSUME ConversationAssumption ==
  Conversations \subseteq Seq([lines : Seq(Bytes \ {"cr", "lf"}), body : Seq(Bytes)])

\* A method, a path and a version; a colon, and a number in a Content-Length.
StartLines == {"start"}
HeaderLines == Headers \ {"nan"}

\* A request line, and then header lines, all of which can be parsed.
CanBeParsed(lines) ==
  /\ lines # <<>> /\ lines[1] \in StartLines
  /\ \A i \in 2 .. Len(lines) : lines[i] \in HeaderLines

\* The last Content-Length of these lines is n; without one it is 0.
LengthIs(lines, n) ==
  \/ n = 0 /\ \A i \in DOMAIN lines : lines[i] \notin DOMAIN LengthOf
  \/ \E i \in DOMAIN lines :
       /\ lines[i] \in DOMAIN LengthOf /\ n = LengthOf[lines[i]]
       /\ \A j \in i + 1 .. Len(lines) : lines[j] \notin DOMAIN LengthOf

\* Where a message ends is what its Content-Length says, unless it is rejected
\* before.
ASSUME FramingAssumption ==
  \A c \in Conversations : \A i \in DOMAIN c :
    CanBeParsed(c[i].lines) =>
      \/ LengthIs(c[i].lines, Len(c[i].body))
      \/ \E n \in Nat : n > MaxBody /\ LengthIs(c[i].lines, n)

VARIABLES
  readBuffer,     \* readBuffer_
  state,          \* state_ of the context
  contentLength,  \* contentLength_
  request,        \* request_: its lines so far, and its body
  at,             \* the connection: "idle", "read" (there is input to parse),
                  \* "parse" (in ParseRequest), "respond", "error" or "closed"
  sent,           \* history: the messages of this client
  coming,         \* what of them has not arrived
  taken,          \* history: what the parser has taken, as it understood it
  handled,        \* history: the requests handled
  connections     \* how many clients there have been

context == <<state, contentLength, request>>
histories == <<sent, taken, handled, connections>>
vars == <<readBuffer, state, contentLength, request, at, sent, coming, taken,
          handled, connections>>

NoRequest == [lines |-> <<>>, body |-> <<>>]

\* The bytes of a line, of lines, of a message and of a conversation.
LineBytes(text) == <<text>> \o CRLF

LinesBytes(lines) == FlattenSeq([i \in DOMAIN lines |-> LineBytes(lines[i])])

MessageBytes(m) == LinesBytes(m.lines) \o CRLF \o m.body

Wire(messages) == FlattenSeq([i \in DOMAIN messages |-> MessageBytes(messages[i])])

Init ==
  /\ readBuffer = NewBuffer(InitSize)
  /\ state = "REQUEST_LINE"
  /\ contentLength = 0
  /\ request = NoRequest
  /\ at = "idle"
  /\ sent \in Conversations
  /\ coming = Wire(sent)
  /\ taken = <<>>
  /\ handled = <<>>
  /\ connections = 1

-----------------------------------------------------------------------------
(* Parsing.                                                                *)

Parsing(s) == at = "parse" /\ state = s

FirstLineEnd ==
  CHOOSE i \in LineEnds(readBuffer) : \A j \in LineEnds(readBuffer) : i <= j

HasLine == LineEnds(readBuffer) # {}

Line == SubSeq(Unread(readBuffer), 1, FirstLineEnd - 1)

\* ReadLine, when it finds one.
TakeLine ==
  /\ HasLine
  /\ readBuffer' = Consume(readBuffer, Len(Line) + 2)
  /\ taken' = taken \o Line \o CRLF

AddLine == request' = [request EXCEPT !.lines = @ \o Line]

IsStartLine(line) == line \in {<<l>> : l \in StartLines}

IsHeaderLine(line) == line \in {<<l>> : l \in HeaderLines}

\* Nobody looks any more at what a rejected line leaves in request_.
Reject ==
  /\ at' = "error"
  /\ UNCHANGED <<state, contentLength, request>>

ParseRequestLine ==
  /\ Parsing("REQUEST_LINE")
  /\ TakeLine
  /\ IF IsStartLine(Line)
     THEN state' = "HEADERS" /\ AddLine /\ UNCHANGED <<contentLength, at>>
     ELSE Reject
  /\ UNCHANGED <<sent, coming, handled, connections>>

\* A later Content-Length replaces an earlier one.
ParseHeaderLine ==
  /\ Parsing("HEADERS")
  /\ TakeLine
  /\ Line # <<>>
  /\ IF IsHeaderLine(Line)
     THEN /\ AddLine
          /\ contentLength' = IF Line = <<"other">> THEN contentLength
                              ELSE LengthOf[Line[1]]
          /\ UNCHANGED <<state, at>>
     ELSE Reject
  /\ UNCHANGED <<sent, coming, handled, connections>>

EndHeaders ==
  /\ Parsing("HEADERS")
  /\ TakeLine
  /\ Line = <<>>
  /\ state' = IF contentLength > 0 THEN "BODY" ELSE "FINISH"
  /\ UNCHANGED <<contentLength, request, at, sent, coming, handled, connections>>

BodyTooLarge ==
  /\ Parsing("BODY")
  /\ contentLength > MaxBody
  /\ Reject
  /\ UNCHANGED <<readBuffer, sent, coming, taken, handled, connections>>

ParseBody ==
  /\ Parsing("BODY")
  /\ contentLength <= MaxBody
  /\ ReadableBytes(readBuffer) >= contentLength
  /\ LET body == SubSeq(Unread(readBuffer), 1, contentLength)
     IN  /\ request' = [request EXCEPT !.body = body]
         /\ taken' = taken \o body
  /\ readBuffer' = Consume(readBuffer, contentLength)
  /\ state' = "FINISH"
  /\ UNCHANGED <<contentLength, at, sent, coming, handled, connections>>

\* ParseRequest returns Incomplete: the connection waits for more input.
Incomplete ==
  /\ \/ Parsing("REQUEST_LINE") /\ ~HasLine
     \/ Parsing("HEADERS") /\ ~HasLine
     \/ /\ Parsing("BODY")
        /\ contentLength <= MaxBody
        /\ ReadableBytes(readBuffer) < contentLength
  /\ at' = "idle"
  /\ UNCHANGED <<readBuffer, context, coming, histories>>

\* ParseRequest returns Complete: the request is handled.
Complete ==
  /\ Parsing("FINISH")
  /\ at' = "respond"
  /\ handled' = Append(handled, request)
  /\ UNCHANGED <<readBuffer, context, coming, sent, taken, connections>>

-----------------------------------------------------------------------------
(* The connection around it.                                               *)

\* recv, in any state of the connection; if it is busy nothing else is done.
Receive ==
  /\ at \in {"idle", "read", "respond"}
  /\ \E n \in 1 .. MaxReceive :
       /\ n <= Len(coming)
       /\ readBuffer' = AppendBytes(readBuffer, SubSeq(coming, 1, n))
       /\ coming' = SubSeq(coming, n + 1, Len(coming))
  /\ at' = IF at = "idle" THEN "read" ELSE at
  /\ UNCHANGED <<context, histories>>

\* recv has no more: ProcessInWorker.
ProcessInWorker ==
  /\ at = "read"
  /\ at' = "parse"
  /\ UNCHANGED <<readBuffer, context, coming, histories>>

\* Mutant: the length of the last body is kept.
ResetExceptLength ==
  /\ request' = NoRequest
  /\ state' = "REQUEST_LINE"
  /\ UNCHANGED contentLength

\* HttpContext::Reset.
Reset ==
  /\ request' = NoRequest
  /\ state' = "REQUEST_LINE"
  /\ contentLength' = 0

\* Mutant: what is buffered already waits for new input.
OnResponseFinishedAndWait ==
  /\ at = "respond"
  /\ Reset
  /\ at' = "idle"
  /\ UNCHANGED <<readBuffer, coming, histories>>

\* The response is out: what is buffered is parsed next, as no input need come.
OnResponseFinished ==
  /\ at = "respond"
  /\ Reset
  /\ at' = IF ReadableBytes(readBuffer) > 0 THEN "parse" ELSE "idle"
  /\ UNCHANGED <<readBuffer, coming, histories>>

\* The client leaves, the timer fires, or there is no keep-alive.
Close ==
  /\ at \in {"idle", "read", "respond"}
  /\ at' = "closed"
  /\ UNCHANGED <<readBuffer, context, coming, histories>>

\* The object comes from the pool for another client.
Reuse ==
  /\ at \in {"closed", "error"}
  /\ connections < MaxConnections
  /\ connections' = connections + 1
  /\ Reset
  /\ readBuffer' = Clear(readBuffer)
  /\ at' = "idle"
  /\ sent' \in Conversations
  /\ coming' = Wire(sent')
  /\ taken' = <<>>
  /\ handled' = <<>>

ParseStep ==
  \/ ParseRequestLine \/ ParseHeaderLine \/ EndHeaders
  \/ BodyTooLarge \/ ParseBody \/ Incomplete \/ Complete

LoopStep == ParseStep \/ ProcessInWorker \/ OnResponseFinished

Next == LoopStep \/ Receive \/ Close \/ Reuse

Spec == Init /\ [][Next]_vars

\* The loop runs on; clients need not send.
FairSpec == Spec /\ WF_vars(LoopStep)

-----------------------------------------------------------------------------
(* Properties.                                                             *)

\* Every variable has its type; the positions stay within the buffer.
TypeOK ==
  /\ IsBuffer(readBuffer)
  /\ state \in {"REQUEST_LINE", "HEADERS", "BODY", "FINISH"}
  /\ contentLength \in Nat
  /\ request \in [lines : Seq(Bytes), body : Seq(Bytes)]
  /\ at \in {"idle", "read", "parse", "respond", "error", "closed"}
  /\ sent \in Conversations
  /\ coming \in Seq(Bytes)
  /\ taken \in Seq(Bytes)
  /\ handled \in Seq([lines : Seq(Bytes), body : Seq(Bytes)])
  /\ connections \in Nat

\* What the parser has taken, what is buffered and what has not come is what the
\* client sends: no byte is lost, repeated or moved, however the buffer is shifted
\* and grown, and none is left over from the object's last connection.
NoByteLost == taken \o Unread(readBuffer) \o coming = Wire(sent)

\* The positions of the buffer stay within its string, and what lies between them is
\* what has to.
BufferSound == TypeOK /\ NoByteLost

\* A message is well-formed if its lines are, and its body is as long as the last
\* Content-Length says, or empty.
WellFormed(m) ==
  /\ CanBeParsed(m.lines)
  /\ LengthIs(m.lines, Len(m.body))
  /\ Len(m.body) <= MaxBody

\* The requests handled are the messages sent, in order, each whole and once,
\* wherever they were cut and joined on their way, and bodies that look like
\* lines are bodies.  None of them is malformed, and a message is rejected only if
\* it is the first that is.
RequestsAsSent ==
  /\ IsPrefix(handled, sent)
  /\ \A i \in DOMAIN handled : WellFormed(handled[i])
  /\ at = "error" => Len(handled) < Len(sent) /\ ~WellFormed(sent[Len(handled) + 1])

\* When all has come, all is handled: none is stuck in the buffer behind
\* another.  What is malformed ends the connection.
AllHandled == coming = <<>> ~> handled = sent \/ at \in {"error", "closed"}
=============================================================================
