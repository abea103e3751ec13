----------------------------- MODULE EventLoop -----------------------------
(***************************************************************************)
(* The reactor of one thread: EventLoop::Loop over an edge-triggered epoll *)
(* set, the functors other threads queue for it, the eventfd that gets it  *)
(* out of epoll_wait, its timers, and Quit.                                *)
(*                                                                         *)
(* One action is one step between two points where another thread can get  *)
(* in: a critical section of mutex_, a system call, an access to the       *)
(* atomic quit_, or the start of a callback.  What a callback does to its  *)
(* own connection is not here (Connection.tla); here a callback may queue  *)
(* functors and change timers.                                             *)
(***************************************************************************)
EXTENDS Naturals, Sequences, FiniteSets

CONSTANTS Callers,        \* threads other than the one that runs Loop()
          Loop,           \* the thread that runs Loop()
          Tasks,          \* functors that may be queued, each at most once
          Channels,       \* channels of sockets registered with epoller_
          WakeupChannel,  \* wakeupChannel_, the channel of the eventfd
          Timers,         \* the keys (fds) of timer_
          MaxEvents,      \* size of Epoller::events_
          MaxCount,       \* largest value of the eventfd counter
          MaxSignals      \* bound: signals delivered to the loop's thread

ASSUME ThreadAssumption  == Loop \notin Callers
ASSUME ChannelAssumption == WakeupChannel \notin Channels
ASSUME BoundAssumption   == /\ MaxEvents \in Nat \ {0}
                            /\ MaxCount \in Nat \ {0}
                            /\ MaxSignals \in Nat

Threads == Callers \cup {Loop}

VARIABLES
  quit,             \* quit_
  pc,               \* where the loop's thread is in Loop()
  inCallback,       \* a handler, functor or timer callback is running
  pendingFunctors,  \* pendingFunctors_, guarded by mutex_
  funcs,            \* the local vector of DoPendingFunctors, what is left of it
  wakeupCount,      \* the counter of the eventfd wakeupFd_
  ready,            \* epoll's ready list: channels with an edge not reported
  events,           \* reported by epoll_wait, not handled yet
  waking,           \* thread -> it has yet to call Wakeup()
  timer,            \* timer -> not in heap_, in it, or in it and expired
  firing,           \* the timers the current Tick() found expired
  timeout,          \* what GetNextTick returned: -1 ("forever") or not
  signals,          \* signals that may still come
  submitted,        \* history: functors queued, in order
  executed          \* history: functors called, in order

vars == <<quit, pc, inCallback, pendingFunctors, funcs, wakeupCount, ready,
          events, waking, timer, firing, timeout, signals, submitted, executed>>

queueVars == <<pendingFunctors, funcs, submitted, executed>>
epollVars == <<wakeupCount, ready, events>>
timerVars == <<timer, firing, timeout>>

Due == {k \in Timers : timer[k] = "due"}

\* What epoll_wait would report now: an edge counts only while the fd is
\* still readable, which an eventfd with counter 0 is not.
Deliverable == {ch \in ready : ch = WakeupChannel => wakeupCount > 0}

Init ==
  /\ quit = FALSE
  /\ pc = "check"
  /\ inCallback = FALSE
  /\ pendingFunctors = <<>>
  /\ funcs = <<>>
  /\ wakeupCount = 0
  /\ ready = {}
  /\ events = {}
  /\ waking = [t \in Threads |-> FALSE]
  /\ timer = [k \in Timers |-> "off"]
  /\ firing = {}
  /\ timeout = "forever"
  /\ signals = MaxSignals
  /\ submitted = <<>>
  /\ executed = <<>>

\* The loop's thread may take its next step: no callback of its own is in the
\* way, and it is not between the two halves of a QueueInLoop of its own.
Control(at) == pc = at /\ ~inCallback /\ ~waking[Loop]

\* The loop's own thread calls into the EventLoop only from callbacks.
MayCall(t) == ~waking[t] /\ (t = Loop => inCallback)

-----------------------------------------------------------------------------
(* Mutants: what a slip in the code would make of an action.  The          *)
(* properties below are known to notice them; nothing else uses them.      *)

\* Wakeup() only when another thread queues ("the loop is awake anyway").
QueueInLoopForeignWakeup(t, cb) ==
  /\ MayCall(t)
  /\ cb \notin {submitted[i] : i \in DOMAIN submitted}
  /\ pendingFunctors' = Append(pendingFunctors, cb)
  /\ submitted' = Append(submitted, cb)
  /\ waking' = [waking EXCEPT ![t] = (t # Loop)]
  /\ UNCHANGED <<quit, pc, inCallback, funcs, executed, signals,
                 epollVars, timerVars>>

\* The signal handler stores quit_ and trusts EINTR to end epoll_wait.
SignalHandlerStoreOnly ==
  /\ signals > 0
  /\ pc # "done"
  /\ signals' = signals - 1
  /\ quit' = TRUE
  /\ pc' \in {pc, IF pc = "wait" THEN "check" ELSE pc}
  /\ UNCHANGED <<inCallback, waking, queueVars, epollVars, timerVars>>

\* epoll_wait(-1) whatever the heap holds.
GetNextTickReturnsForever ==
  /\ Control("tick1")
  /\ firing = {}
  /\ timeout' = "forever"
  /\ pc' = "wait"
  /\ UNCHANGED <<quit, inCallback, waking, timer, firing, signals,
                 queueVars, epollVars>>

\* The functors are copied out instead of swapped out.
DoPendingFunctorsCopy ==
  /\ Control("dispatch")
  /\ events = {}
  /\ funcs' = pendingFunctors
  /\ pc' = "run"
  /\ UNCHANGED <<quit, inCallback, waking, signals, pendingFunctors, submitted,
                 executed, epollVars, timerVars>>

\* The loop goes on with what was queued while it ran functors.
RunFunctorRefill ==
  /\ Control("run")
  /\ funcs # <<>>
  /\ executed' = Append(executed, Head(funcs))
  /\ funcs' = Tail(funcs) \o pendingFunctors
  /\ pendingFunctors' = <<>>
  /\ inCallback' = TRUE
  /\ UNCHANGED <<quit, pc, waking, signals, submitted, epollVars, timerVars>>

\* pop_back instead of the front.
RunFunctorLast ==
  /\ Control("run")
  /\ funcs # <<>>
  /\ executed' = Append(executed, funcs[Len(funcs)])
  /\ funcs' = SubSeq(funcs, 1, Len(funcs) - 1)
  /\ inCallback' = TRUE
  /\ UNCHANGED <<quit, pc, pendingFunctors, waking, signals, submitted,
                 epollVars, timerVars>>

-----------------------------------------------------------------------------
(* Called by any thread.                                                   *)

\* QueueInLoop, first half: push_back under mutex_.
QueueInLoop(t, cb) ==
  /\ MayCall(t)
  /\ cb \notin {submitted[i] : i \in DOMAIN submitted}
  /\ pendingFunctors' = Append(pendingFunctors, cb)
  /\ submitted' = Append(submitted, cb)
  /\ waking' = [waking EXCEPT ![t] = TRUE]
  /\ UNCHANGED <<quit, pc, inCallback, funcs, executed, signals,
                 epollVars, timerVars>>

\* The write of Wakeup(): it adds one and raises an edge; at the counter's
\* limit it fails with EAGAIN and changes nothing.
WriteEventfd ==
  IF wakeupCount < MaxCount
  THEN /\ wakeupCount' = wakeupCount + 1
       /\ ready' = ready \cup {WakeupChannel}
       /\ UNCHANGED events
  ELSE UNCHANGED epollVars

\* QueueInLoop and Quit, second half.
Wakeup(t) ==
  /\ waking[t]
  /\ waking' = [waking EXCEPT ![t] = FALSE]
  /\ WriteEventfd
  /\ UNCHANGED <<quit, pc, inCallback, signals, queueVars, timerVars>>

\* Quit, first half, from another thread (~EventLoopThread, ~Server).
Quit(t) ==
  /\ MayCall(t)
  /\ quit' = TRUE
  /\ waking' = [waking EXCEPT ![t] = TRUE]
  /\ UNCHANGED <<pc, inCallback, signals, queueVars, epollVars, timerVars>>

\* SIGINT or SIGTERM on the thread that runs the main loop: the handler calls
\* Quit() in the middle of whatever the thread does, and epoll_wait, if the
\* thread is in it, fails with EINTR or had not begun.
SignalHandler ==
  /\ signals > 0
  /\ pc # "done"
  /\ signals' = signals - 1
  /\ quit' = TRUE
  /\ WriteEventfd
  /\ pc' \in {pc, IF pc = "wait" THEN "check" ELSE pc}
  /\ UNCHANGED <<inCallback, waking, queueVars, timerVars>>

\* AddTimer: the accepting thread adds a timer to the loop of the new
\* connection (HandleListenEvent), whatever that loop is doing.
AddTimer(t, k) ==
  /\ t \in Callers
  /\ MayCall(t)
  /\ timer' = [timer EXCEPT ![k] = "armed"]
  /\ firing' = firing \ {k}
  /\ UNCHANGED <<quit, pc, inCallback, waking, timeout, signals,
                 queueVars, epollVars>>

\* AdjustTimer, from HandleRead: later, if the timer is in the heap at all.
AdjustTimer(k) ==
  /\ MayCall(Loop)
  /\ timer[k] # "off"
  /\ timer' = [timer EXCEPT ![k] = "armed"]
  /\ firing' = firing \ {k}
  /\ UNCHANGED <<quit, pc, inCallback, waking, timeout, signals,
                 queueVars, epollVars>>

-----------------------------------------------------------------------------
(* Loop(), in the order of its body.                                       *)

\* while(!quit_); the round begins with the Tick() inside GetNextTick.
CheckQuit ==
  /\ Control("check")
  /\ IF quit
     THEN pc' = "done" /\ UNCHANGED firing
     ELSE pc' = "tick1" /\ firing' = Due
  /\ UNCHANGED <<quit, inCallback, waking, timer, timeout, signals,
                 queueVars, epollVars>>

\* Tick(): the node leaves the heap before its callback is called.
FireTimer(k) ==
  /\ Control("tick1") \/ Control("tick2")
  /\ k \in firing
  /\ firing' = firing \ {k}
  /\ timer' = [timer EXCEPT ![k] = "off"]
  /\ inCallback' = TRUE
  /\ UNCHANGED <<quit, pc, waking, timeout, signals, queueVars, epollVars>>

\* A handler, functor or timer callback returns.
ReturnFromCallback ==
  /\ inCallback
  /\ ~waking[Loop]
  /\ inCallback' = FALSE
  /\ UNCHANGED <<quit, pc, waking, signals, queueVars, epollVars, timerVars>>

\* GetNextTick after its Tick(): -1 when the heap is empty.
GetNextTickReturns ==
  /\ Control("tick1")
  /\ firing = {}
  /\ timeout' = IF \A k \in Timers : timer[k] = "off" THEN "forever" ELSE "finite"
  /\ pc' = "wait"
  /\ UNCHANGED <<quit, inCallback, waking, timer, firing, signals,
                 queueVars, epollVars>>

\* epoll_wait reports at most MaxEvents channels, in an order of its own.
WaitEvents ==
  /\ Control("wait")
  /\ Deliverable # {}
  /\ \E batch \in SUBSET Deliverable :
       /\ batch # {}
       /\ Cardinality(batch) <= MaxEvents
       /\ batch = Deliverable \/ Cardinality(batch) = MaxEvents
       /\ events' = batch
       /\ ready' = ready \ batch
  /\ pc' = "dispatch"
  /\ UNCHANGED <<quit, inCallback, wakeupCount, waking, signals,
                 queueVars, timerVars>>

\* epoll_wait returns 0.
WaitTimeout ==
  /\ Control("wait")
  /\ Deliverable = {}
  /\ timeout = "finite"
  /\ pc' = "dispatch"
  /\ UNCHANGED <<quit, inCallback, waking, signals, queueVars, epollVars, timerVars>>

\* epoll_wait returns -1, after a signal whose handler stopped another loop:
\* "continue" skips the functors and the second Tick() of this round.
WaitInterrupted ==
  /\ Control("wait")
  /\ Deliverable = {}
  /\ signals > 0
  /\ signals' = signals - 1
  /\ pc' = "check"
  /\ UNCHANGED <<quit, inCallback, waking, queueVars, epollVars, timerVars>>

\* The read callback of wakeupChannel_: one read empties the counter.
HandleWakeup ==
  /\ Control("dispatch")
  /\ WakeupChannel \in events
  /\ events' = events \ {WakeupChannel}
  /\ wakeupCount' = 0
  /\ UNCHANGED <<quit, pc, inCallback, ready, waking, signals,
                 queueVars, timerVars>>

\* Channel::HandleEvent of a socket.
HandleEvent(ch) ==
  /\ Control("dispatch")
  /\ ch \in events
  /\ events' = events \ {ch}
  /\ inCallback' = TRUE
  /\ UNCHANGED <<quit, pc, wakeupCount, ready, waking, signals,
                 queueVars, timerVars>>

\* DoPendingFunctors, the swap under mutex_.
DoPendingFunctors ==
  /\ Control("dispatch")
  /\ events = {}
  /\ funcs' = pendingFunctors
  /\ pendingFunctors' = <<>>
  /\ pc' = "run"
  /\ UNCHANGED <<quit, inCallback, waking, signals, submitted, executed,
                 epollVars, timerVars>>

\* DoPendingFunctors, one turn of the for loop.
RunFunctor ==
  /\ Control("run")
  /\ funcs # <<>>
  /\ executed' = Append(executed, Head(funcs))
  /\ funcs' = Tail(funcs)
  /\ inCallback' = TRUE
  /\ UNCHANGED <<quit, pc, pendingFunctors, waking, signals, submitted,
                 epollVars, timerVars>>

\* DoPendingFunctors returns and timer_.Tick() begins.
EndFunctors ==
  /\ Control("run")
  /\ funcs = <<>>
  /\ pc' = "tick2"
  /\ firing' = Due
  /\ UNCHANGED <<quit, inCallback, waking, timer, timeout, signals,
                 queueVars, epollVars>>

\* The second Tick() of the round returns.
EndTick ==
  /\ Control("tick2")
  /\ firing = {}
  /\ pc' = "check"
  /\ UNCHANGED <<quit, inCallback, waking, signals, queueVars, epollVars, timerVars>>

-----------------------------------------------------------------------------
(* The environment.                                                        *)

\* A socket becomes readable or writable.
IoEvent(ch) ==
  /\ ch \notin ready
  /\ ready' = ready \cup {ch}
  /\ UNCHANGED <<quit, pc, inCallback, wakeupCount, events, waking, signals,
                 queueVars, timerVars>>

\* The expiry of a timer passes.
Elapse(k) ==
  /\ timer[k] = "armed"
  /\ timer' = [timer EXCEPT ![k] = "due"]
  /\ UNCHANGED <<quit, pc, inCallback, firing, timeout, waking, signals,
                 queueVars, epollVars>>

-----------------------------------------------------------------------------
LoopStep ==
  \/ CheckQuit \/ GetNextTickReturns \/ WaitEvents \/ WaitTimeout \/ HandleWakeup
  \/ DoPendingFunctors \/ RunFunctor \/ EndFunctors \/ EndTick
  \/ ReturnFromCallback
  \/ \E k \in Timers : FireTimer(k)
  \/ \E ch \in Channels : HandleEvent(ch)

Next ==
  \/ LoopStep
  \/ WaitInterrupted
  \/ SignalHandler
  \/ \E t \in Threads : Wakeup(t)
  \/ \E t \in Threads, cb \in Tasks : QueueInLoop(t, cb)
  \/ \E t \in Callers : Quit(t)
  \/ \E t \in Callers, k \in Timers : AddTimer(t, k)
  \/ \E k \in Timers : AdjustTimer(k) \/ Elapse(k)
  \/ \E ch \in Channels : IoEvent(ch)

Spec == Init /\ [][Next]_vars

\* Every thread is scheduled: the loop takes its steps, and a thread that has
\* pushed a functor or set quit_ gets to its write.  Nothing obliges anybody
\* to call, to send, or to stop the loop.
FairSpec == Spec /\ WF_vars(LoopStep) /\ \A t \in Threads : WF_vars(Wakeup(t))

-----------------------------------------------------------------------------
(* Properties.                                                             *)

Signalled == WakeupChannel \in Deliverable

\* Every variable has its type.
TypeOK ==
  /\ quit \in BOOLEAN
  /\ pc \in {"check", "tick1", "wait", "dispatch", "run", "tick2", "done"}
  /\ inCallback \in BOOLEAN
  /\ pendingFunctors \in Seq(Tasks)
  /\ funcs \in Seq(Tasks)
  /\ wakeupCount \in 0 .. MaxCount
  /\ ready \subseteq Channels \cup {WakeupChannel}
  /\ events \subseteq Channels \cup {WakeupChannel}
  /\ waking \in [Threads -> BOOLEAN]
  /\ timer \in [Timers -> {"off", "armed", "due"}]
  /\ firing \subseteq Timers
  /\ timeout \in {"forever", "finite"}
  /\ signals \in 0 .. MaxSignals
  /\ submitted \in Seq(Tasks)
  /\ executed \in Seq(Tasks)

\* Nothing queued is lost, run twice or overtaken, whichever threads queue and
\* wherever the loop is: what was submitted is what was run, then what the
\* running batch still holds, then what waits for the next one.
FifoExactlyOnce == submitted = executed \o (funcs \o pendingFunctors)

\* The loop never blocks in epoll_wait with work for it unless the wake-up is
\* already in the eventfd or a thread is about to write it.
NoLostWakeup ==
  pc = "wait" /\ pendingFunctors # <<>> => Signalled \/ \E t \in Threads : waking[t]

\* Nor does it block after Quit() was called, in any order of the store, the
\* write and the test of quit_.
QuitNotSlept ==
  pc = "wait" /\ quit => Signalled \/ \E t \in Threads : waking[t]

\* HandleWakeup is only called when there is something to read, so its read
\* never takes the error branch.
WakeupReadable ==
  pc = "dispatch" /\ WakeupChannel \in events => wakeupCount > 0

\* An expired timer fires, or is pushed back, once the loop is on its way: it
\* may be late by one sleep only.
AwakeLoopFiresTimers ==
  \A k \in Timers :
    (timer[k] = "due" /\ pc # "wait") ~> (timer[k] # "due" \/ pc = "done")

\* The batch of functors only shrinks: a functor that queues another one
\* cannot keep the loop from its sockets and timers.
BatchIsFixed == [][funcs # <<>> => funcs' \in {funcs, Tail(funcs)}]_vars

\* Quit() ends Loop().
QuitTerminates == quit ~> (pc = "done")

\* The loop is a functor queue.
Queue == INSTANCE FunctorQueue
           WITH queue <- funcs \o pendingFunctors, stopped <- (pc = "done")
QueueSpec == Queue!Spec
QueueSafety == Queue!Safety

-----------------------------------------------------------------------------
(* The invariant behind NoLostWakeup and QuitNotSlept, for the proofs.     *)

\* An edge of the eventfd is never lost while its counter is not zero.
EdgeKept == wakeupCount > 0 => WakeupChannel \in ready \cup events

\* events is empty except while it is being handled.
BatchHandled == events # {} => pc = "dispatch"

\* The local vector of DoPendingFunctors is empty while it is not running.
BatchRun == pc # "run" => funcs = <<>>

\* Functors queued after the swap have their wake-up in the eventfd or on its
\* way to it.
FunctorsSignalled ==
  pc \notin {"dispatch", "done"} /\ pendingFunctors # <<>>
    => Signalled \/ \E t \in Threads : waking[t]

\* A quit the loop has not seen when it last tested quit_ has its wake-up too.
QuitSignalled ==
  pc \in {"tick1", "wait"} /\ quit => Signalled \/ \E t \in Threads : waking[t]

IInv == /\ TypeOK
        /\ FifoExactlyOnce
        /\ EdgeKept
        /\ BatchHandled
        /\ BatchRun
        /\ WakeupReadable
        /\ FunctorsSignalled
        /\ QuitSignalled
=============================================================================
