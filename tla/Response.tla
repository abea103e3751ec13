------------------------------ MODULE Response ------------------------------
(***************************************************************************)
(* From a parsed request to the bytes of its answer: Connection::Process   *)
(* with Router, PathUtil, FileUtil, MimeType, GzipUtil and HttpResponse,   *)
(* one request after another on a Connection object.                       *)
(*                                                                         *)
(* Process reads the file system in several steps (realpath, three stats,  *)
(* opens), and each is an action: the file may change between any two.     *)
(* A read of a file is one step.  A request target is a sequence of tokens *)
(* between its slashes, a body what it is of, a size and whether it is     *)
(* compressed.                                                             *)
(***************************************************************************)
EXTENDS Integers, SequencesExt

CONSTANTS
  Requests,    \* what clients may ask, see IsRequest
  MaxChanges   \* bound: changes of the file while one request is answered

\* What the path of a request may lead to: nothing, an empty file, a file, one
\* above the limit, a directory, a file that cannot be opened, and a symbolic
\* link to a file outside of resourceDir_.
Things == {"none", "empty", "file", "big", "dir", "locked", "outside"}

Methods == {"GET", "HEAD", "POST", "malformed"}

IsRequest(r) ==
  /\ r.method \in Methods
  /\ r.gzip \in BOOLEAN                     \* Accept-Encoding has gzip
  /\ r.version \in {"1.0", "1.1", "other"}
  /\ r.connection \in {"", "close", "keep-alive"}
  /\ r.target \in Seq(STRING)

ASSUME RequestAssumption == \A r \in Requests : IsRequest(r)
ASSUME BoundAssumption == MaxChanges \in Nat

VARIABLES
  at,        \* the next step of Process, or "idle", "sent", "closed"
  request,   \* context_.Request()
  file,      \* what the path of the request leads to now
  path,      \* the local variable, once SafePath has returned it
  response,  \* response_
  wire,      \* what has been given to the socket for this request
  held,      \* history: what the path has led to since the request came
  failed     \* history: an open has failed for want of descriptors

vars == <<at, request, file, path, response, wire, held, failed>>

-----------------------------------------------------------------------------
(* HttpResponse, as functions from a response to the next.                 *)

NoBody == [of |-> "", size |-> 0, zipped |-> FALSE]
Page(what) == [of |-> what, size |-> 2, zipped |-> FALSE]

\* Reset, and the constructor.
Blank == [ status |-> 200, headers |-> [k \in {} |-> ""], body |-> NoBody,
           keepAlive |-> FALSE, contentLengthSet |-> FALSE ]

SetStatus(r, code) == [r EXCEPT !.status = code]
SetKeepAlive(r, keep) == [r EXCEPT !.keepAlive = keep]
With(h, key, value) == [k \in DOMAIN h \cup {key} |-> IF k = key THEN value ELSE h[k]]
SetHeader(r, key, value) == [r EXCEPT !.headers = With(@, key, value)]
GetHeader(r, key) == IF key \in DOMAIN r.headers THEN r.headers[key] ELSE ""

SetBody(r, body) ==
  [SetHeader(r, "Content-Length", body.size) EXCEPT !.body = body, !.contentLengthSet = TRUE]

\* The header stays as SetBody left it.
ClearBody(r) == [r EXCEPT !.body = NoBody]

SetText(r, what) == SetBody(SetHeader(r, "Content-Type", "text/plain"), Page(what))
SetHtml(r, what) == SetBody(SetHeader(r, "Content-Type", "text/html"), Page(what))

BuildDefaultHeaders(r) ==
  LET typed == IF "Content-Type" \in DOMAIN r.headers THEN r
               ELSE SetHeader(r, "Content-Type", "text/plain")
      sized == IF r.contentLengthSet THEN typed
               ELSE SetHeader(typed, "Content-Length", r.body.size)
  IN  SetHeader(sized, "Connection", IF r.keepAlive THEN "keep-alive" ELSE "close")

\* The body follows the header from the buffer or, after HeadersOnly, from a file.
Serialize(r) == [status |-> r.status, headers |-> r.headers, body |-> r.body, sendfile |-> FALSE]
HeadersOnly(r, content) == [Serialize(r) EXCEPT !.body = content, !.sendfile = TRUE]

Nothing == Serialize(Blank)

-----------------------------------------------------------------------------
(* HttpRequest, MimeType and GzipUtil.                                     *)

IsKeepAlive(r) ==
  \/ r.version = "1.1" /\ r.connection # "close"
  \/ r.version = "1.0" /\ r.connection = "keep-alive"

GetMime(p) ==
  CASE p # <<>> /\ Last(p) \in {"index.html", "page.html"} -> "text/html"
    [] p # <<>> /\ Last(p) = "logo.png" -> "image/png"
    [] OTHER -> "application/octet-stream"

ShouldCompress(type) == type \in {"text/html", "text/plain"}

\* A body is compressed, if zlib can, for a client that accepts it; it may grow.
Compressed(r) ==
  IF ~request.gzip \/ ~ShouldCompress(GetHeader(r, "Content-Type")) \/ r.body.size = 0
  THEN {r}
  ELSE {r} \cup {SetHeader(SetBody(r, [r.body EXCEPT !.size = n, !.zipped = TRUE]),
                           "Content-Encoding", "gzip") : n \in {1, 3}}

-----------------------------------------------------------------------------
(* PathUtil and UrlDecode.                                                 *)

\* What a token decodes to: once, and slashes that were encoded divide it.
UrlDecode(token) ==
  CASE token = "%2e%2e"     -> <<"..">>
    [] token = "%252e%252e" -> <<"%2e%2e">>
    [] token = "x%2f.."     -> <<"x", "..">>
    [] token = "%00"        -> <<"NUL">>
    [] OTHER                -> <<token>>

Decoded(target) == FlattenSeq([i \in DOMAIN target |-> UrlDecode(target[i])])

\* Mutant: only what is not encoded is taken for "..".
NormalizeEncoded(components) ==
  SelectSeq(components, LAMBDA c : c \notin {"", ".", ".."})

\* One component after those seen: a name is kept, and ".." takes the last one back.
Enter(seen, c) ==
  IF c \in {"", "."} THEN seen
  ELSE IF c # ".." THEN Append(seen, c)
  ELSE IF seen = <<>> THEN seen ELSE Front(seen)

NormalizePath(components) ==
  LET seen[i \in 0 .. Len(components)] ==
        IF i = 0 THEN <<>> ELSE Enter(seen[i - 1], components[i])
  IN  seen[Len(components)]

HasDots(p) == ".." \in ToSet(p) \/ "a..b" \in ToSet(p)

\* The relative path; the empty set stands for the empty string.  realpath fails
\* if there is nothing, and resolves a link.  Of "/" it resolves the directory.
SafePath(target) ==
  LET normalized == NormalizePath(Decoded(target))
  IN  IF \/ "NUL" \in ToSet(Decoded(target))
         \/ HasDots(normalized)
         \/ normalized # <<>> /\ file \in {"none", "outside"}
      THEN {} ELSE {normalized}

-----------------------------------------------------------------------------
(* FileUtil.                                                               *)

Limit == 2
StatSize(thing) == CASE thing \in {"none", "empty"} -> 0
                     [] thing = "big" -> Limit + 1
                     [] thing = "dir" -> 1
                     [] OTHER -> Limit

Exists(thing) == thing # "none"
IsRegularFile(thing) == thing \notin {"none", "dir"}
Opens(thing) == thing \notin {"none", "locked"}

\* A directory can be opened, and read as nothing.
Content(thing) ==
  [of |-> thing, size |-> IF thing = "dir" THEN 0 ELSE StatSize(thing), zipped |-> FALSE]

\* An open that succeeds, or fails though the file is there.
OpenSucceeds == Opens(file) /\ UNCHANGED failed
OpenFails == failed' = (failed \/ Opens(file))

-----------------------------------------------------------------------------
\* context_ after its Reset.
NoRequest == [method |-> "", gzip |-> FALSE, version |-> "", connection |-> "", target |-> <<>>]

Init ==
  /\ at = "idle" /\ request = NoRequest
  /\ file = "none" /\ path = <<>>
  /\ response = Blank /\ wire = Nothing
  /\ held = {} /\ failed = FALSE

\* A request is complete; any files may have come and gone since the last one.
Arrive ==
  /\ at = "idle" /\ at' = "parsed"
  /\ request' \in Requests
  /\ file' \in Things /\ held' = {file'} /\ failed' = FALSE
  /\ UNCHANGED <<path, response, wire>>

\* Somebody changes the file while the request is answered.
Change ==
  /\ at \notin {"idle", "parsed", "sent", "closed"}
  /\ Cardinality(held) <= MaxChanges
  /\ file' \in Things \ held
  /\ held' = held \cup {file'}
  /\ UNCHANGED <<at, request, path, response, wire, failed>>

Environment == <<request, file, held>>
Step(from, to) == at = from /\ at' = to /\ UNCHANGED Environment

Send(r) ==
  /\ response' = BuildDefaultHeaders(r)
  /\ wire' = Serialize(response')

\* 400 is put into response_ and not sent: ProcessInWorker closes.
Reject ==
  /\ request.method = "malformed" /\ Step("parsed", "closed")
  /\ response' = SetKeepAlive(SetText(SetStatus(response, 400), "400 text"), FALSE)
  /\ UNCHANGED <<path, wire, failed>>

\* Router::Route by the path as it came; the handlers set a page or a text (the
\* one for /hello as the one for /login).
IsRouted(r) ==
  \/ r.method = "GET" /\ r.target = <<"register">>
  \/ r.method = "POST" /\ r.target = <<"login">>

Handled(r) ==
  IF request.method = "POST" THEN {SetHtml(r, "handler")}
  ELSE { SetHeader(SetBody(SetStatus(r, 200), Page("handler")), "Content-Type", "text/html"),
         SetText(SetStatus(r, 404), "404 text") }

Route ==
  /\ IsRouted(request) /\ Step("parsed", "sent")
  /\ \E r \in Handled(response) :
       \E c \in Compressed(SetKeepAlive(r, IsKeepAlive(request))) : Send(c)
  /\ UNCHANGED <<path, failed>>

NotRouted ==
  /\ ~IsRouted(request) /\ request.method # "malformed" /\ Step("parsed", "safePath")
  /\ UNCHANGED <<path, response, wire, failed>>

Refuse(code, what) == Send(SetKeepAlive(SetText(SetStatus(response, code), what), FALSE))

Forbid ==
  /\ SafePath(request.target) = {} /\ Step("safePath", "sent")
  /\ Refuse(403, "403 text")
  /\ UNCHANGED <<path, failed>>

Resolve ==
  /\ Step("safePath", "fileSize")
  /\ \E p \in SafePath(request.target) : path' = IF p = <<>> THEN <<"index.html">> ELSE p
  /\ UNCHANGED <<response, wire, failed>>

TooLarge ==
  /\ StatSize(file) > Limit /\ Step("fileSize", "sent")
  /\ Refuse(413, "413 text")
  /\ UNCHANGED <<path, failed>>

SizeFits ==
  /\ StatSize(file) <= Limit
  /\ Step("fileSize", IF request.method = "HEAD" THEN "read" ELSE "exists")
  /\ UNCHANGED <<path, response, wire, failed>>

CheckExists ==
  /\ Step("exists", IF Exists(file) THEN "isRegularFile" ELSE "read")
  /\ UNCHANGED <<path, response, wire, failed>>

CheckRegular ==
  /\ Step("isRegularFile",
          IF ~IsRegularFile(file) THEN "read"
          ELSE IF request.gzip /\ ShouldCompress(GetMime(path)) THEN "readToZip"
          ELSE "open")
  /\ UNCHANGED <<path, response, wire, failed>>

WithFile(r) ==
  SetHeader(SetBody(SetStatus(r, 200), Content(file)), "Content-Type", GetMime(path))

\* What is read to be compressed is read once more below.
ReadToZip ==
  /\ Step("readToZip", "read")
  /\ \/ OpenSucceeds /\ response' = WithFile(response)
     \/ OpenFails /\ response' = SetText(SetStatus(response, 404), "404 text")
  /\ UNCHANGED <<path, wire>>

\* SetHeader does not set contentLengthSet_, so the length it gives is replaced.
SendFile ==
  /\ Step("open", "sent")
  /\ OpenSucceeds
  /\ LET r == SetHeader(SetHeader(SetStatus(response, 200), "Content-Type", GetMime(path)),
                        "Content-Length", StatSize(file))
     IN  response' = BuildDefaultHeaders(SetKeepAlive(r, IsKeepAlive(request)))
  /\ wire' = HeadersOnly(response', Content(file))
  /\ UNCHANGED path

OpenNot ==
  /\ Step("open", "read")
  /\ OpenFails
  /\ UNCHANGED <<path, response, wire>>

\* SetKeepAlive, ClearBody for HEAD, gzip and ToString.
Complete(r) ==
  LET kept == SetKeepAlive(r, IsKeepAlive(request))
  IN  \E c \in Compressed(IF request.method = "HEAD" THEN ClearBody(kept) ELSE kept) : Send(c)

ReadFile ==
  /\ Step("read", "sent")
  /\ OpenSucceeds
  /\ Complete(WithFile(response))
  /\ UNCHANGED path

\* 404.html, or a text when it cannot be read either.
NotFound ==
  /\ Step("read", "sent")
  /\ OpenFails
  /\ LET r == SetStatus(response, 404)
     IN  \/ Complete(SetHeader(SetBody(r, Page("404.html")), "Content-Type", "text/html"))
         \/ Complete(SetText(r, "404 text"))
  /\ UNCHANGED path

\* The end of an answer, for the histories and the variables of Process.
Done ==
  /\ at' = "idle" /\ request' = NoRequest
  /\ file' = "none" /\ path' = <<>>
  /\ wire' = Nothing /\ held' = {} /\ failed' = FALSE

\* Mutant: response_ is not reset.
ResetContextOnly ==
  /\ at = "sent" /\ IsKeepAlive(request) /\ Done
  /\ UNCHANGED response

\* OnResponseFinished: the object goes on with the next request if the request
\* says so, whatever the response says; else the connection is closed.
ResetForNextRequest ==
  /\ at = "sent" /\ IsKeepAlive(request) /\ Done
  /\ response' = Blank

Close ==
  /\ ~IsKeepAlive(request) /\ Step("sent", "closed")
  /\ UNCHANGED <<path, response, wire, failed>>

\* The object comes back from the ObjectPool for another client.
Reuse ==
  /\ at = "closed" /\ Done
  /\ response' = Blank

Process ==
  \/ Reject \/ Route \/ NotRouted \/ Forbid \/ Resolve \/ TooLarge \/ SizeFits
  \/ CheckExists \/ CheckRegular \/ ReadToZip \/ SendFile \/ OpenNot
  \/ ReadFile \/ NotFound

Next == Arrive \/ Change \/ Process \/ ResetForNextRequest \/ Close \/ Reuse

Spec == Init /\ [][Next]_vars

-----------------------------------------------------------------------------
TypeOK ==
  /\ request \in Requests \cup {NoRequest}
  /\ file \in Things /\ held \subseteq Things
  /\ failed \in BOOLEAN
  /\ DOMAIN response.headers \subseteq
       {"Content-Type", "Content-Length", "Content-Encoding", "Connection"}

Header(key) == GetHeader(wire, key)

\* A client can tell where the answer ends and how to read it, also after other
\* answers of the same object and whatever happened to the file: the length is
\* that of the body that follows, Content-Encoding is there just when the body is
\* compressed, for a client that accepts it, and "keep-alive" is promised only
\* of a connection that stays.  The two exceptions the code has are spelt out: a
\* HEAD has the length of the body left out, and a sendfile answer says 0.
Framed ==
  /\ TypeOK
  /\ at = "sent" =>
       /\ (request.method # "HEAD" /\ ~wire.sendfile) =>
            Header("Content-Length") = wire.body.size
       /\ request.method = "HEAD" => wire.status \in {403, 413} \/ wire.body = NoBody
       /\ wire.sendfile => Header("Content-Length") = 0
       /\ wire.body.zipped = ("Content-Encoding" \in DOMAIN wire.headers)
       /\ wire.body.zipped => request.gzip /\ ShouldCompress(Header("Content-Type"))
       /\ Header("Connection") =
            IF IsKeepAlive(request) /\ wire.status \notin {403, 413}
            THEN "keep-alive" ELSE "close"

\* Where a path leads, without a stack: of its first n components a name stays
\* unless, at some point after it, there are more ".." than names.
IsName(c) == c \notin {"", ".", ".."}

Names(c, i, j) == Cardinality({k \in i + 1 .. j : IsName(c[k])})
Ups(c, i, j) == Cardinality({k \in i + 1 .. j : c[k] = ".."})

Stay(c, n) ==
  {i \in 1 .. n : IsName(c[i]) /\ \A j \in i .. n : Ups(c, i, j) <= Names(c, i, j)}

Place(S, i) == Cardinality({k \in S : k <= i})

\* Those that stay, in their order.
Spells(p, c, S) ==
  /\ Len(p) = Cardinality(S)
  /\ \A n \in 1 .. Len(p) : \E i \in S : Place(S, i) = n /\ p[n] = c[i]

Components == Decoded(request.target)
Kept == Stay(Components, Len(Components))

\* What a request for a file that nobody touches gets, as a table.
Due(thing) ==
  IF \/ "NUL" \in ToSet(Components)
     \/ \E i \in Kept : HasDots(<<Components[i]>>)
     \/ Kept # {} /\ thing \in {"none", "outside"}
  THEN 403
  ELSE IF thing = "big" THEN 413
  ELSE IF thing \in {"none", "locked"} THEN 404 ELSE 200

\* The path that is opened is the one the target leads to.  A file that is left
\* alone gets the answer due to it.  One that is changed between the checks and
\* the opens may be sent though the checks would have refused it, but neither
\* check is passed by a file that it refuses all the while; and what is sent
\* with 200 is what the path held at some moment since the request came.
Served ==
  /\ at \in {"fileSize", "exists", "isRegularFile", "readToZip", "open", "read"} =>
       IF Kept = {} THEN path = <<"index.html">> ELSE Spells(path, Components, Kept)
  /\ at = "sent" /\ ~IsRouted(request) =>
       /\ (held = {file} /\ ~failed) => wire.status = Due(file)
       /\ wire.status \in {Due(t) : t \in held} \cup {200, 404}
       /\ (wire.status = 200 /\ wire.body # NoBody) => wire.body.of \in held
       /\ wire.status = 200 => \A refusal \in {403, 413} : \E t \in held : Due(t) # refusal
=============================================================================
