------------------------------ MODULE LifeCycle ------------------------------
(***************************************************************************)
(* The server as a process: Start with its handshakes, the signals, and    *)
(* the way down, when the main loop has ended: Start destroys the database *)
(* pool and stops the logger while the IO threads still run, and after it  *)
(* the destructors stop and join the IO threads one after the other.       *)
(*                                                                         *)
(* A loop is the object and the thread that runs it: 0 is the main thread  *)
(* with the server's loop_.  What a connection does is Connection.tla and  *)
(* how loops share connections is Server.tla; here a loop has connections  *)
(* or has none, and a request uses the database pool or the logger.  The   *)
(* first use of something that has been deleted ends the behaviour.        *)
(***************************************************************************)
EXTENDS Integers, Sequences

CONSTANTS
  ThreadNum, \* threadNum_ of the EventLoopThreadPool
  MaxSignals \* bound: how many SIGINT and SIGTERM come

ASSUME ThreadAssumption == ThreadNum \in Nat \ {0}
ASSUME SignalAssumption == MaxSignals \in Nat

IoThreads == 1 .. ThreadNum
Loops == 0 .. ThreadNum
Singletons == {"pool", "logger"}

VARIABLES
  main,      \* where main() is, and the EventLoopThread it is at
  at,        \* thread -> where it is in ThreadFunc
  using,     \* thread -> the singleton a request is using
  loop,      \* loop -> "none", "live", "dying" (in its destructor) or "dead"
  published, \* the threads that have set loop_ of their EventLoopThread
  loops,     \* loops_ of the pool; 0 stands for nullptr
  quit,      \* loop -> quit_
  wakeup,    \* loop -> its eventfd is readable
  open,      \* loop -> it has connections
  singleton, \* ConnectionPool::instance_ and AsyncLogger::s_instance
  handler,   \* SignalHandler: where it is, and the thread it interrupts
  signals,   \* how many have come
  busy,      \* history: there were connections when the main loop ended
  fault      \* "none", or what was used after its end

loopVars == <<loop, quit, wakeup, open>>
vars == <<main, at, using, loopVars, published, loops, singleton, handler,
          signals, busy, fault>>

Init ==
  /\ main = [at |-> "boot", thread |-> 1]
  /\ at = [t \in IoThreads |-> "none"]
  /\ using = [t \in IoThreads |-> "none"]
  /\ loop = [l \in Loops |-> IF l = 0 THEN "live" ELSE "none"]
  /\ published = {}
  /\ loops = <<>>
  /\ quit = [l \in Loops |-> FALSE]
  /\ wakeup = [l \in Loops |-> FALSE]
  /\ open = [l \in Loops |-> FALSE]
  /\ singleton = [s \in Singletons |-> "none"]
  /\ handler = [at |-> "idle", on |-> 0]
  /\ signals = 0
  /\ busy = FALSE
  /\ fault = "none"

\* The process is there.
Running == main.at \notin {"killed", "failed", "ended"} /\ fault = "none"

\* A thread stands still while it runs the signal handler.
Interrupted(t) == handler.at # "idle" /\ handler.on = t

MainAt(where) == Running /\ main.at = where /\ ~Interrupted(0)
ThreadAt(t, where) == Running /\ at[t] = where /\ ~Interrupted(t)

Goto(where) == main' = [main EXCEPT !.at = where]
ThreadGoto(t, where) == at' = [at EXCEPT ![t] = where]

-----------------------------------------------------------------------------
(* main(): construction and Start.                                         *)

InstallHandlers ==
  /\ MainAt("boot")
  /\ Goto("logger")
  /\ UNCHANGED <<at, using, loopVars, published, loops, singleton, handler, signals, busy, fault>>

InitLogger ==
  /\ MainAt("logger")
  /\ singleton' = [singleton EXCEPT !["logger"] = "live"]
  /\ Goto("config")
  /\ UNCHANGED <<at, using, loopVars, published, loops, handler, signals, busy, fault>>

\* DB_PASSWORD is not set: exit(EXIT_FAILURE).
ConfigMissing ==
  /\ MainAt("config")
  /\ Goto("failed")
  /\ UNCHANGED <<at, using, loopVars, published, loops, singleton, handler, signals, busy, fault>>

InitPool ==
  /\ MainAt("config")
  /\ singleton' = [singleton EXCEPT !["pool"] = "live"]
  /\ Goto("spawn")
  /\ UNCHANGED <<at, using, loopVars, published, loops, handler, signals, busy, fault>>

\* StartLoop of the next EventLoopThread: the thread is created.
Spawn ==
  /\ MainAt("spawn")
  /\ ThreadGoto(main.thread, "new")
  /\ Goto("handshake")
  /\ UNCHANGED <<using, loopVars, published, loops, singleton, handler, signals, busy, fault>>

\* StartLoop returns and Start goes on.
Started ==
  /\ loops' = Append(loops, IF main.thread \in published THEN main.thread ELSE 0)
  /\ main' = IF main.thread = ThreadNum THEN [at |-> "check", thread |-> 1]
             ELSE [at |-> "spawn", thread |-> main.thread + 1]

\* Mutant: StartLoop returns loop_ without waiting for it.
HandshakeWithoutWait ==
  /\ MainAt("handshake")
  /\ Started
  /\ UNCHANGED <<at, using, loopVars, published, singleton, handler, signals, busy, fault>>

\* Under the mutex: loop_ is there, or main waits for the condition variable.
Handshake ==
  /\ MainAt("handshake")
  /\ IF main.thread \in published THEN Started
     ELSE Goto("asleep") /\ UNCHANGED loops
  /\ UNCHANGED <<at, using, loopVars, published, singleton, handler, signals, busy, fault>>

SpuriousStartWakeup ==
  /\ MainAt("asleep")
  /\ Goto("handshake")
  /\ UNCHANGED <<at, using, loopVars, published, loops, singleton, handler, signals, busy, fault>>

-----------------------------------------------------------------------------
(* main(): its loop.                                                       *)

\* while(!quit_)
MainCheck ==
  /\ MainAt("check")
  /\ IF quit[0] THEN Goto("delete pool") /\ busy' = (\E t \in IoThreads : open[t])
     ELSE Goto("poll") /\ UNCHANGED busy
  /\ UNCHANGED <<at, using, loopVars, published, loops, singleton, handler, signals, fault>>

MainWakes ==
  /\ MainAt("poll")
  /\ wakeup[0]
  /\ wakeup' = [wakeup EXCEPT ![0] = FALSE]
  /\ Goto("check")
  /\ UNCHANGED <<at, using, loop, quit, open, published, loops, singleton, handler,
                 signals, busy, fault>>

\* HandleListenEvent puts a connection into the loop whose turn it is.
Accept ==
  /\ MainAt("poll")
  /\ \E i \in DOMAIN loops :
       IF loops[i] # 0 /\ loop[loops[i]] = "live"
       THEN open' = [open EXCEPT ![loops[i]] = TRUE] /\ UNCHANGED fault
       ELSE fault' = "accept" /\ UNCHANGED open
  /\ Goto("check")
  /\ UNCHANGED <<at, using, loop, quit, wakeup, published, loops, singleton, handler,
                 signals, busy>>

-----------------------------------------------------------------------------
(* main(): the way down.                                                   *)

\* Destroy and Stop: the object is deleted, then the pointer is reset.
Delete(s, next) ==
  /\ singleton' = [singleton EXCEPT ![s] = "dangling"]
  /\ Goto(next)
  /\ UNCHANGED <<at, using, loopVars, published, loops, handler, signals, busy, fault>>

Reset(s, next) ==
  /\ singleton' = [singleton EXCEPT ![s] = "none"]
  /\ Goto(next)
  /\ UNCHANGED <<at, using, loopVars, published, loops, handler, signals, busy, fault>>

DeletePool   == MainAt("delete pool") /\ Delete("pool", "reset pool")
ResetPool    == MainAt("reset pool") /\ Reset("pool", "delete logger")
DeleteLogger == MainAt("delete logger") /\ Delete("logger", "reset logger")
ResetLogger  == MainAt("reset logger") /\ Reset("logger", "quit")

\* Start has returned and ~Server runs.  ~EventLoopThread, first half of Quit:
\* the loop cannot be gone yet, since nobody else ends it.
StoreQuit ==
  /\ MainAt("quit")
  /\ quit' = [quit EXCEPT ![main.thread] = TRUE]
  /\ Goto("wakeup")
  /\ UNCHANGED <<at, using, loop, wakeup, open, published, loops, singleton, handler,
                 signals, busy, fault>>

\* Second half: the write to the eventfd of a loop that may have seen quit_.
WakeLoop ==
  /\ MainAt("wakeup")
  /\ IF loop[main.thread] = "live"
     THEN wakeup' = [wakeup EXCEPT ![main.thread] = TRUE] /\ UNCHANGED fault
     ELSE fault' = "wakeup" /\ UNCHANGED wakeup
  /\ Goto("join")
  /\ UNCHANGED <<at, using, loop, quit, open, published, loops, singleton, handler,
                 signals, busy>>

\* The next EventLoopThread, or the end of the pool.
NextThread ==
  main' = IF main.thread = ThreadNum THEN [main EXCEPT !.at = "destroy"]
          ELSE [at |-> "quit", thread |-> main.thread + 1]

\* Mutant: the thread is detached.
JoinNot ==
  /\ MainAt("join")
  /\ NextThread
  /\ UNCHANGED <<at, using, loopVars, published, loops, singleton, handler, signals, busy, fault>>

JoinThread ==
  /\ MainAt("join")
  /\ at[main.thread] = "ended"
  /\ NextThread
  /\ UNCHANGED <<at, using, loopVars, published, loops, singleton, handler, signals, busy, fault>>

\* The rest of ~Server; instance_ keeps pointing at it.
DestroyServer ==
  /\ MainAt("destroy")
  /\ loop' = [loop EXCEPT ![0] = "dead"]
  /\ Goto("returned")
  /\ UNCHANGED <<at, using, quit, wakeup, open, published, loops, singleton, handler,
                 signals, busy, fault>>

Exit ==
  /\ MainAt("returned")
  /\ Goto("ended")
  /\ UNCHANGED <<at, using, loopVars, published, loops, singleton, handler, signals, busy, fault>>

-----------------------------------------------------------------------------
(* The IO threads.                                                         *)

NewLoop(t) ==
  /\ ThreadAt(t, "new")
  /\ loop' = [loop EXCEPT ![t] = "live"]
  /\ ThreadGoto(t, "publish")
  /\ UNCHANGED <<main, using, quit, wakeup, open, published, loops, singleton, handler,
                 signals, busy, fault>>

Publish(t) ==
  /\ ThreadAt(t, "publish")
  /\ published' = published \cup {t}
  /\ ThreadGoto(t, "notify")
  /\ UNCHANGED <<main, using, loopVars, loops, singleton, handler, signals, busy, fault>>

\* notify_one, after the mutex has been released.
Notify(t) ==
  /\ ThreadAt(t, "notify")
  /\ IF main = [at |-> "asleep", thread |-> t] THEN Goto("handshake") ELSE UNCHANGED main
  /\ ThreadGoto(t, "check")
  /\ UNCHANGED <<using, loopVars, published, loops, singleton, handler, signals, busy, fault>>

\* while(!quit_)
Check(t) ==
  /\ ThreadAt(t, "check")
  /\ ThreadGoto(t, IF quit[t] THEN "delete" ELSE "poll")
  /\ UNCHANGED <<main, using, loopVars, published, loops, singleton, handler, signals, busy, fault>>

Wakes(t) ==
  /\ ThreadAt(t, "poll")
  /\ wakeup[t]
  /\ wakeup' = [wakeup EXCEPT ![t] = FALSE]
  /\ ThreadGoto(t, "check")
  /\ UNCHANGED <<main, using, loop, quit, open, published, loops, singleton, handler,
                 signals, busy, fault>>

\* The last connection of the loop ends.
CloseConnections(t) ==
  /\ ThreadAt(t, "poll")
  /\ open[t]
  /\ open' = [open EXCEPT ![t] = FALSE]
  /\ ThreadGoto(t, "check")
  /\ UNCHANGED <<main, using, loop, quit, wakeup, published, loops, singleton, handler,
                 signals, busy, fault>>

\* A request: what uses a singleton reads its pointer first, and does without
\* when that is nullptr.
BeginUse(t) ==
  /\ ThreadAt(t, "poll")
  /\ open[t]
  /\ \E s \in Singletons :
       /\ singleton[s] # "none"
       /\ using' = [using EXCEPT ![t] = s]
  /\ ThreadGoto(t, "using")
  /\ UNCHANGED <<main, loopVars, published, loops, singleton, handler, signals, busy, fault>>

EndUse(t) ==
  /\ ThreadAt(t, "using")
  /\ fault' = IF singleton[using[t]] = "live" THEN "none" ELSE using[t]
  /\ using' = [using EXCEPT ![t] = "none"]
  /\ ThreadGoto(t, "check")
  /\ UNCHANGED <<main, loopVars, published, loops, singleton, handler, signals, busy>>

\* delete loop: the eventfd is closed, and connPool_ is the first member to go.
DestroyLoop(t) ==
  /\ ThreadAt(t, "delete")
  /\ loop' = [loop EXCEPT ![t] = "dying"]
  /\ ThreadGoto(t, "release")
  /\ UNCHANGED <<main, using, quit, wakeup, open, published, loops, singleton, handler,
                 signals, busy, fault>>

\* Then connections_ and pendingFunctors_: the deleter of each connection
\* returns it to connPool_.
ReleaseConnections(t) ==
  /\ ThreadAt(t, "release")
  /\ fault' = IF open[t] THEN "release" ELSE "none"
  /\ loop' = [loop EXCEPT ![t] = "dead"]
  /\ open' = [open EXCEPT ![t] = FALSE]
  /\ ThreadGoto(t, "ended")
  /\ UNCHANGED <<main, using, quit, wakeup, published, loops, singleton, handler,
                 signals, busy>>

-----------------------------------------------------------------------------
(* Signals, which the kernel delivers to any thread.                       *)

Alive(t) == IF t = 0 THEN TRUE ELSE at[t] \notin {"none", "ended"}

Signal ==
  /\ Running
  /\ handler.at = "idle"
  /\ signals < MaxSignals
  /\ signals' = signals + 1
  /\ CASE main.at = "boot"     -> Goto("killed") /\ UNCHANGED <<handler, fault>>
       [] main.at = "returned" -> fault' = "signal" /\ UNCHANGED <<main, handler>>
       [] OTHER -> /\ \E t \in Loops : Alive(t) /\ handler' = [at |-> "store", on |-> t]
                   /\ UNCHANGED <<main, fault>>
  /\ UNCHANGED <<at, using, loopVars, published, loops, singleton, busy>>

\* Mutant: the handler destroys the pool itself.
HandlerStoreAndDestroy ==
  /\ Running
  /\ handler.at = "store"
  /\ quit' = [quit EXCEPT ![0] = TRUE]
  /\ singleton' = [singleton EXCEPT !["pool"] = IF @ = "live" THEN "dangling" ELSE @]
  /\ handler' = [handler EXCEPT !.at = "wakeup"]
  /\ UNCHANGED <<main, at, using, loop, wakeup, open, published, loops, signals, busy, fault>>

\* loop_.Quit(), in two steps.
HandlerStore ==
  /\ Running
  /\ handler.at = "store"
  /\ quit' = [quit EXCEPT ![0] = TRUE]
  /\ handler' = [handler EXCEPT !.at = "wakeup"]
  /\ UNCHANGED <<main, at, using, loop, wakeup, open, published, loops, singleton,
                 signals, busy, fault>>

\* The interrupted thread goes on.  If it was in epoll_wait that fails with
\* EINTR, which Loop logs before it tests quit_ again.
Resume ==
  LET t == handler.on
  IN  /\ handler' = [at |-> "idle", on |-> 0]
      /\ \/ UNCHANGED <<main, at, using>>
         \/ /\ t = 0 /\ main.at = "poll"
            /\ Goto("check")
            /\ UNCHANGED <<at, using>>
         \/ /\ t # 0 /\ at[t] = "poll"
            /\ IF singleton["logger"] = "none"
               THEN ThreadGoto(t, "check") /\ UNCHANGED using
               ELSE ThreadGoto(t, "using") /\ using' = [using EXCEPT ![t] = "logger"]
            /\ UNCHANGED main

\* Mutant: only the flag is stored.
HandlerWakesNot ==
  /\ Running
  /\ handler.at = "wakeup"
  /\ Resume
  /\ UNCHANGED <<loopVars, published, loops, singleton, signals, busy, fault>>

HandlerWakeup ==
  /\ Running
  /\ handler.at = "wakeup"
  /\ wakeup' = [wakeup EXCEPT ![0] = TRUE]
  /\ Resume
  /\ UNCHANGED <<loop, quit, open, published, loops, singleton, signals, busy, fault>>

-----------------------------------------------------------------------------
MainStep ==
  \/ InstallHandlers \/ InitLogger \/ ConfigMissing \/ InitPool
  \/ Spawn \/ Handshake \/ MainCheck \/ MainWakes
  \/ DeletePool \/ ResetPool \/ DeleteLogger \/ ResetLogger
  \/ StoreQuit \/ WakeLoop \/ JoinThread \/ DestroyServer \/ Exit

ThreadStep(t) ==
  \/ NewLoop(t) \/ Publish(t) \/ Notify(t) \/ Check(t) \/ Wakes(t) \/ EndUse(t)
  \/ DestroyLoop(t) \/ ReleaseConnections(t)

HandlerStep == HandlerStore \/ HandlerWakeup

Next ==
  \/ MainStep \/ Accept \/ SpuriousStartWakeup
  \/ \E t \in IoThreads : ThreadStep(t) \/ BeginUse(t) \/ CloseConnections(t)
  \/ Signal \/ HandlerStep

Spec == Init /\ [][Next]_vars

\* Threads are scheduled; clients and signals come when they like.
FairSpec ==
  /\ Spec
  /\ WF_vars(MainStep)
  /\ WF_vars(HandlerStep)
  /\ \A t \in IoThreads : WF_vars(ThreadStep(t))

-----------------------------------------------------------------------------
(* Properties.                                                             *)

MainPlaces ==
  {"boot", "killed", "logger", "config", "failed", "spawn", "handshake", "asleep",
   "check", "poll", "delete pool", "reset pool", "delete logger", "reset logger",
   "quit", "wakeup", "join", "destroy", "returned", "ended"}

GoingDown ==
  {"delete pool", "reset pool", "delete logger", "reset logger", "quit", "wakeup",
   "join", "destroy", "returned", "ended"}

\* Every variable has its type.
TypeOK ==
  /\ main \in [at : MainPlaces, thread : IoThreads]
  /\ at \in [IoThreads -> {"none", "new", "publish", "notify", "check", "poll", "using",
                             "delete", "release", "ended"}]
  /\ using \in [IoThreads -> Singletons \cup {"none"}]
  /\ loop \in [Loops -> {"none", "live", "dying", "dead"}]
  /\ published \subseteq IoThreads
  /\ loops \in Seq(Loops)
  /\ quit \in [Loops -> BOOLEAN]
  /\ wakeup \in [Loops -> BOOLEAN]
  /\ open \in [Loops -> BOOLEAN]
  /\ singleton \in [Singletons -> {"none", "live", "dangling"}]
  /\ handler \in [at : {"idle", "store", "wakeup"}, on : Loops]
  /\ signals \in 0 .. MaxSignals
  /\ busy \in BOOLEAN
  /\ fault \in {"none", "accept", "wakeup", "release", "signal"} \cup Singletons

\* While the main loop runs, connections are given to loops that exist, each to
\* its own thread's, and that nobody has told to quit; and nothing is used
\* after its end before the main loop has ended, whenever signals come.
ServesSafely ==
  /\ TypeOK
  /\ main.at \in {"check", "poll"} =>
       /\ loops = [i \in IoThreads |-> i]
       /\ \A t \in IoThreads : loop[t] = "live" /\ ~quit[t]
  /\ fault # "none" => main.at \in GoingDown

\* When ~Server is done no thread is left that could use it: all have ended,
\* with their loops and connections, and no signal handler is under way, though
\* the handler may have interrupted any of them.
CleanEnd ==
  main.at \in {"returned", "ended"} =>
    /\ \A t \in IoThreads : at[t] = "ended" /\ loop[t] = "dead" /\ ~open[t]
    /\ \A s \in Singletons : singleton[s] = "none"
    /\ handler.at = "idle"

\* A server that has no connections when its main loop ends does not use the
\* database pool, or release a connection, after the end of either.  Three
\* windows remain: a loop that sees quit_ before it is woken, a signal after the
\* end of the server, and the logging of EINTR by a thread the signal has hit.
GracefulWhenIdle == fault \in {"accept", "pool", "release"} => busy

\* A signal ends the process, whenever it comes and whatever thread it hits:
\* the handshakes, the loops and the joins all come to their end.
SignalEnds == signals > 0 ~> ~Running

=============================================================================
