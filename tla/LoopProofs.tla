----------------------------- MODULE LoopProofs -----------------------------
(***************************************************************************)
(* Proofs about an event loop and its timer.                               *)
(*                                                                         *)
(* EventLoop, for any number of threads, functors, channels and timers and *)
(* any limits: the invariant is proved in three layers, types, the two     *)
(* vectors of functors, and the wake-ups, which rest on the first two.     *)
(*                                                                         *)
(* Timer, for any descriptors and timeouts and heaps of any size: the      *)
(* invariant is that of the run, types, the index, and the order of the    *)
(* heap but for the node that is being moved.  From it follows that the    *)
(* first node is the earliest, and so that Timer implements TimerQueue.    *)
(***************************************************************************)
EXTENDS EventLoop, Timer, SequenceLemmas

-----------------------------------------------------------------------------
(* Sequences.                                                              *)

\* Pushing at the back of the second of two queues pushes at the back of both.
LEMMA PushBack ==
  ASSUME NEW S, NEW s \in Seq(S), NEW t \in Seq(S), NEW e \in S
  PROVE  s \o Append(t, e) = Append(s \o t, e)
<1>1. /\ Append(t, e) = t \o <<e>>
      /\ s \o t \in Seq(S)
      /\ <<e>> \in Seq(S)
  BY AppendIsConcat, ConcatProperties
<1>2. Append(s \o t, e) = (s \o t) \o <<e>>
  BY <1>1, AppendIsConcat
<1>3. (s \o t) \o <<e>> = s \o (t \o <<e>>)
  BY <1>1, ConcatAssociative
<1> QED BY <1>1, <1>2, <1>3

\* Taking from the front of the first of two queues takes from the front of both.
LEMMA PopFront ==
  ASSUME NEW S, NEW s \in Seq(S), NEW t \in Seq(S), s # <<>>
  PROVE  /\ Head(s \o t) = Head(s)
         /\ Tail(s \o t) = Tail(s) \o t
         /\ s \o t # <<>>
<1> DEFINE h == Head(s)
           r == Tail(s)
<1>1. h \in S /\ r \in Seq(S) /\ Len(r) = Len(s) - 1 /\ Len(s) \in Nat \ {0}
  BY HeadTailProperties, EmptySeq
<1>2. /\ s \o t \in Seq(S)
      /\ Len(s \o t) = Len(s) + Len(t)
      /\ \A i \in 1 .. Len(s) + Len(t) :
           (s \o t)[i] = IF i <= Len(s) THEN s[i] ELSE t[i - Len(s)]
  BY ConcatProperties
<1>3. Len(t) \in Nat /\ Len(s \o t) # 0 /\ s \o t # <<>>
  BY <1>1, <1>2, LenProperties, EmptySeq
<1>4. Head(s \o t) = Head(s)
  BY <1>1, <1>2, <1>3
<1>5. /\ Tail(s \o t) \in Seq(S)
      /\ Len(Tail(s \o t)) = Len(s \o t) - 1
      /\ \A i \in 1 .. Len(Tail(s \o t)) : Tail(s \o t)[i] = (s \o t)[i + 1]
  BY <1>2, <1>3, HeadTailProperties
<1>6. /\ r \o t \in Seq(S)
      /\ Len(r \o t) = Len(r) + Len(t)
      /\ \A i \in 1 .. Len(r) + Len(t) :
           (r \o t)[i] = IF i <= Len(r) THEN r[i] ELSE t[i - Len(r)]
  BY <1>1, ConcatProperties
<1>7. \A i \in 1 .. Len(r) : r[i] = s[i + 1]
  BY HeadTailProperties
<1>8. ASSUME NEW i \in 1 .. Len(r \o t)
      PROVE  Tail(s \o t)[i] = (r \o t)[i]
  BY <1>1, <1>2, <1>3, <1>5, <1>6, <1>7
<1>9. Len(Tail(s \o t)) = Len(r \o t)
  BY <1>1, <1>2, <1>3, <1>5, <1>6
<1>10. Tail(s \o t) = r \o t
  BY <1>5, <1>6, <1>8, <1>9, SeqEqual
<1> QED BY <1>3, <1>4, <1>10

\* Moving the front element over keeps the concatenation.
LEMMA MoveFront ==
  ASSUME NEW S, NEW d \in Seq(S), NEW s \in Seq(S), s # <<>>
  PROVE  Append(d, Head(s)) \o Tail(s) = d \o s
<1>1. Head(s) \in S /\ Tail(s) \in Seq(S) /\ <<Head(s)>> \in Seq(S)
  BY HeadTailProperties
<1>2. Append(d, Head(s)) = d \o <<Head(s)>>
  BY <1>1, AppendIsConcat
<1>3. (d \o <<Head(s)>>) \o Tail(s) = d \o (<<Head(s)>> \o Tail(s))
  BY <1>1, ConcatAssociative
<1>4. <<Head(s)>> \o Tail(s) = s
  <2> DEFINE u == <<Head(s)>> \o Tail(s)
  <2>1. /\ u \in Seq(S)
        /\ Len(u) = 1 + Len(Tail(s))
        /\ \A i \in 1 .. 1 + Len(Tail(s)) :
             u[i] = IF i <= 1 THEN <<Head(s)>>[i] ELSE Tail(s)[i - 1]
    BY <1>1, ConcatProperties
  <2>2. /\ Len(s) \in Nat \ {0}
        /\ Len(Tail(s)) = Len(s) - 1
        /\ \A i \in 1 .. Len(Tail(s)) : Tail(s)[i] = s[i + 1]
    BY HeadTailProperties, EmptySeq
  <2>3. \A i \in 1 .. Len(s) : u[i] = s[i]
    BY <2>1, <2>2
  <2>4. Len(u) = Len(s)
    BY <2>1, <2>2
  <2> QED BY <2>1, <2>3, <2>4, SeqEqual
<1> QED BY <1>2, <1>3, <1>4

-----------------------------------------------------------------------------
(* Types.                                                                  *)

LEMMA InitType == Init => TypeOK
<1> SUFFICES ASSUME Init PROVE TypeOK
  OBVIOUS
<1>1. <<>> \in Seq(Tasks) /\ 0 \in 0 .. MaxCount /\ MaxSignals \in 0 .. MaxSignals
  BY EmptySeq, BoundAssumption
<1> QED BY <1>1 DEF Init, TypeOK

\* The write to the eventfd keeps the counter within its limit.
LEMMA WriteType ==
  ASSUME TypeOK, WriteEventfd
  PROVE  /\ wakeupCount' \in 0 .. MaxCount
         /\ ready' \subseteq Channels \cup {WakeupChannel}
         /\ events' \subseteq Channels \cup {WakeupChannel}
BY BoundAssumption DEF TypeOK, WriteEventfd, epollVars

LEMMA StepType == TypeOK /\ [Next]_vars => TypeOK'
<1> SUFFICES ASSUME TypeOK, [Next]_vars PROVE TypeOK'
  OBVIOUS
<1> USE DEF queueVars, epollVars, timerVars, Control, Due
<1>1. CASE UNCHANGED vars
  BY <1>1 DEF TypeOK, vars
<1>2. CASE CheckQuit
  BY <1>2 DEF TypeOK, CheckQuit
<1>3. CASE GetNextTickReturns
  BY <1>3 DEF TypeOK, GetNextTickReturns
<1>4. CASE WaitEvents
  <2>1. PICK batch \in SUBSET Deliverable : events' = batch /\ ready' = ready \ batch
    BY <1>4 DEF WaitEvents
  <2>2. batch \subseteq Channels \cup {WakeupChannel}
    BY <2>1 DEF TypeOK, Deliverable
  <2> QED BY <1>4, <2>1, <2>2 DEF TypeOK, WaitEvents
<1>5. CASE WaitTimeout
  BY <1>5 DEF TypeOK, WaitTimeout
<1>6. CASE HandleWakeup
  BY <1>6, BoundAssumption DEF TypeOK, HandleWakeup
<1>7. CASE DoPendingFunctors
  BY <1>7, EmptySeq DEF TypeOK, DoPendingFunctors
<1>8. CASE RunFunctor
  <2>1. Append(executed, Head(funcs)) \in Seq(Tasks) /\ Tail(funcs) \in Seq(Tasks)
    BY <1>8, HeadTailProperties, AppendProperties DEF TypeOK, RunFunctor
  <2> QED BY <1>8, <2>1 DEF TypeOK, RunFunctor
<1>9. CASE EndFunctors
  BY <1>9 DEF TypeOK, EndFunctors
<1>10. CASE EndTick
  BY <1>10 DEF TypeOK, EndTick
<1>11. CASE ReturnFromCallback
  BY <1>11 DEF TypeOK, ReturnFromCallback
<1>12. ASSUME NEW k \in Timers, FireTimer(k) PROVE TypeOK'
  BY <1>12 DEF TypeOK, FireTimer
<1>13. ASSUME NEW ch \in Channels, HandleEvent(ch) PROVE TypeOK'
  BY <1>13 DEF TypeOK, HandleEvent
<1>14. CASE WaitInterrupted
  BY <1>14, BoundAssumption DEF TypeOK, WaitInterrupted
<1>15. CASE SignalHandler
  BY <1>15, WriteType, BoundAssumption DEF TypeOK, SignalHandler
<1>16. ASSUME NEW t \in Threads, Wakeup(t) PROVE TypeOK'
  BY <1>16, WriteType DEF TypeOK, Wakeup
<1>17. ASSUME NEW t \in Threads, NEW cb \in Tasks, QueueInLoop(t, cb) PROVE TypeOK'
  <2>1. /\ Append(pendingFunctors, cb) \in Seq(Tasks)
        /\ Append(submitted, cb) \in Seq(Tasks)
    BY AppendProperties DEF TypeOK
  <2> QED BY <1>17, <2>1 DEF TypeOK, QueueInLoop
<1>18. ASSUME NEW t \in Callers, Quit(t) PROVE TypeOK'
  BY <1>18 DEF TypeOK, Quit, Threads
<1>19. ASSUME NEW t \in Callers, NEW k \in Timers, AddTimer(t, k) PROVE TypeOK'
  BY <1>19 DEF TypeOK, AddTimer
<1>20. ASSUME NEW k \in Timers, AdjustTimer(k) PROVE TypeOK'
  BY <1>20 DEF TypeOK, AdjustTimer
<1>21. ASSUME NEW k \in Timers, Elapse(k) PROVE TypeOK'
  BY <1>21 DEF TypeOK, Elapse
<1>22. ASSUME NEW ch \in Channels, IoEvent(ch) PROVE TypeOK'
  BY <1>22 DEF TypeOK, IoEvent
<1> QED
  BY <1>1, <1>2, <1>3, <1>4, <1>5, <1>6, <1>7, <1>8, <1>9, <1>10, <1>11, <1>12,
     <1>13, <1>14, <1>15, <1>16, <1>17, <1>18, <1>19, <1>20, <1>21, <1>22
  DEF Next, LoopStep

\* TypeOK holds in every reachable state of the loop.
THEOREM TypeCorrect == Spec => []TypeOK
BY InitType, StepType, PTL DEF Spec

-----------------------------------------------------------------------------
(* The functors.                                                           *)

\* The steps that touch neither vector: all but these three.
Idle == UNCHANGED <<pendingFunctors, funcs, submitted, executed>>

LEMMA IdleSteps ==
  ASSUME TypeOK, [Next]_vars
  PROVE  \/ Idle
         \/ \E t \in Threads, cb \in Tasks : QueueInLoop(t, cb)
         \/ DoPendingFunctors
         \/ RunFunctor
BY DEF Idle, Next, LoopStep, vars, queueVars, CheckQuit, GetNextTickReturns, WaitEvents,
       WaitTimeout, HandleWakeup, EndFunctors, EndTick, ReturnFromCallback, FireTimer,
       HandleEvent, WaitInterrupted, SignalHandler, Wakeup, Quit, AddTimer,
       AdjustTimer, Elapse, IoEvent

\* The local vector stays empty outside the for loop of DoPendingFunctors.
LEMMA StepBatchRun == TypeOK /\ BatchRun /\ [Next]_vars => BatchRun'
<1> SUFFICES ASSUME TypeOK, BatchRun, [Next]_vars PROVE BatchRun'
  OBVIOUS
<1> USE DEF BatchRun, queueVars, Control
<1>1. CASE UNCHANGED vars
  BY <1>1 DEF vars
<1>2. CASE LoopStep
  BY <1>2 DEF LoopStep, CheckQuit, GetNextTickReturns, WaitEvents, WaitTimeout, HandleWakeup,
              DoPendingFunctors, RunFunctor, EndFunctors, EndTick, ReturnFromCallback,
              FireTimer, HandleEvent
<1>3. CASE \E t \in Threads, cb \in Tasks : QueueInLoop(t, cb)
  BY <1>3 DEF QueueInLoop
<1>4. CASE WaitInterrupted \/ SignalHandler
  BY <1>4 DEF WaitInterrupted, SignalHandler
<1>5. CASE \/ \E t \in Threads : Wakeup(t)
           \/ \E t \in Callers : Quit(t)
           \/ \E t \in Callers, k \in Timers : AddTimer(t, k)
           \/ \E k \in Timers : AdjustTimer(k) \/ Elapse(k)
           \/ \E ch \in Channels : IoEvent(ch)
  BY <1>5 DEF Wakeup, Quit, AddTimer, AdjustTimer, Elapse, IoEvent
<1> QED BY <1>1, <1>2, <1>3, <1>4, <1>5 DEF Next

LEMMA StepFifo ==
  TypeOK /\ BatchRun /\ FifoExactlyOnce /\ [Next]_vars => FifoExactlyOnce'
<1> SUFFICES ASSUME TypeOK, BatchRun, FifoExactlyOnce, [Next]_vars
             PROVE  FifoExactlyOnce'
  OBVIOUS
<1>t. /\ pendingFunctors \in Seq(Tasks)
      /\ funcs \in Seq(Tasks)
      /\ submitted \in Seq(Tasks)
      /\ executed \in Seq(Tasks)
  BY DEF TypeOK
<1>f. funcs \o pendingFunctors \in Seq(Tasks)
  BY <1>t, ConcatProperties
<1>1. CASE Idle
  BY <1>1 DEF Idle, FifoExactlyOnce
<1>2. ASSUME NEW t \in Threads, NEW cb \in Tasks, QueueInLoop(t, cb)
      PROVE  FifoExactlyOnce'
  <2>1. funcs \o Append(pendingFunctors, cb) = Append(funcs \o pendingFunctors, cb)
    BY <1>t, PushBack
  <2>2. executed \o Append(funcs \o pendingFunctors, cb)
          = Append(executed \o (funcs \o pendingFunctors), cb)
    BY <1>t, <1>f, PushBack
  <2> QED BY <1>2, <2>1, <2>2 DEF QueueInLoop, FifoExactlyOnce
<1>3. CASE DoPendingFunctors
  <2>1. funcs = <<>>
    BY <1>3 DEF DoPendingFunctors, Control, BatchRun
  <2>2. <<>> \o pendingFunctors = pendingFunctors \o <<>>
    BY <1>t, ConcatEmptySeq
  <2> QED BY <1>3, <2>1, <2>2 DEF DoPendingFunctors, FifoExactlyOnce
<1>4. CASE RunFunctor
  <2> DEFINE q == funcs \o pendingFunctors
  <2>1. funcs # <<>>
    BY <1>4 DEF RunFunctor
  <2>2. Head(q) = Head(funcs) /\ Tail(q) = Tail(funcs) \o pendingFunctors /\ q # <<>>
    BY <1>t, <2>1, PopFront
  <2>3. Append(executed, Head(q)) \o Tail(q) = executed \o q
    BY <1>t, <1>f, <2>2, MoveFront
  <2> QED BY <1>4, <2>2, <2>3 DEF RunFunctor, FifoExactlyOnce
<1> QED BY <1>1, <1>2, <1>3, <1>4, IdleSteps

FunctorInv == TypeOK /\ BatchRun /\ FifoExactlyOnce

LEMMA InitFunctor == Init => FunctorInv
<1>1. <<>> = <<>> \o (<<>> \o <<>>)
  BY EmptySeq, ConcatEmptySeq
<1> QED BY <1>1, InitType DEF Init, FunctorInv, BatchRun, FifoExactlyOnce

LEMMA FunctorInvariant == Spec => []FunctorInv
<1>1. FunctorInv /\ [Next]_vars => FunctorInv'
  BY StepType, StepBatchRun, StepFifo DEF FunctorInv
<1> QED BY <1>1, InitFunctor, PTL DEF Spec

\* Whatever QueueInLoop was given has been run, is in the running batch or
\* waits for the next one: once, and in the order of the calls.
THEOREM FunctorsFifo == Spec => []FifoExactlyOnce
<1>1. FunctorInv => FifoExactlyOnce
  BY DEF FunctorInv
<1> QED BY <1>1, FunctorInvariant, PTL

\* While DoPendingFunctors runs its batch nothing is added to the batch.
THEOREM BatchFixed == Spec => BatchIsFixed
<1>1. FunctorInv /\ [Next]_vars => [funcs # <<>> => funcs' \in {funcs, Tail(funcs)}]_vars
  <2> SUFFICES ASSUME FunctorInv, [Next]_vars, funcs # <<>>
               PROVE  funcs' \in {funcs, Tail(funcs)}
    OBVIOUS
  <2>1. CASE Idle
    BY <2>1 DEF Idle
  <2>2. CASE \E t \in Threads, cb \in Tasks : QueueInLoop(t, cb)
    BY <2>2 DEF QueueInLoop
  <2>3. CASE DoPendingFunctors
    BY <2>3 DEF DoPendingFunctors, Control, FunctorInv, BatchRun
  <2>4. CASE RunFunctor
    BY <2>4 DEF RunFunctor
  <2> QED BY <2>1, <2>2, <2>3, <2>4, IdleSteps DEF FunctorInv
<1> QED BY <1>1, FunctorInvariant, PTL DEF Spec, BatchIsFixed

-----------------------------------------------------------------------------
(* The wake-ups.                                                           *)

\* What each thread that is about to write, and the edge itself, add up to.
Roused == Signalled \/ \E t \in Threads : waking[t]

\* IInv without what is proved above.
WakeInv == EdgeKept /\ BatchHandled /\ WakeupReadable /\ FunctorsSignalled /\ QuitSignalled

\* A write leaves the edge raised, at the limit of the counter too, unless the
\* wake-up channel is being handled.
LEMMA WriteSignals ==
  ASSUME TypeOK, EdgeKept, WriteEventfd
  PROVE  /\ wakeupCount' > 0
         /\ WakeupChannel \in ready' \cup events'
         /\ events' = events
         /\ events = {} => Signalled'
BY BoundAssumption
DEF TypeOK, EdgeKept, WriteEventfd, epollVars, Signalled, Deliverable

\* Steps that leave the eventfd, its edge and all wake-ups owed alone keep
\* what has been roused.
LEMMA KeepRoused ==
  ASSUME UNCHANGED <<epollVars, waking>>
  PROVE  /\ Roused' = Roused
         /\ EdgeKept' = EdgeKept
BY DEF Roused, Signalled, Deliverable, EdgeKept, epollVars

LEMMA StepWake == TypeOK /\ WakeInv /\ [Next]_vars => WakeInv'
<1> SUFFICES ASSUME TypeOK, WakeInv, [Next]_vars PROVE WakeInv'
  OBVIOUS
<1> USE DEF WakeInv, BatchHandled, WakeupReadable, FunctorsSignalled, QuitSignalled,
            Roused, queueVars, timerVars, Control
<1>1. CASE UNCHANGED vars
  <2>1. UNCHANGED <<epollVars, waking, pc, quit, pendingFunctors>>
    BY <1>1 DEF vars, epollVars
  <2> QED BY <2>1, KeepRoused DEF epollVars
<1>2. CASE CheckQuit
  BY <1>2, KeepRoused DEF CheckQuit, epollVars
<1>3. CASE GetNextTickReturns
  BY <1>3, KeepRoused DEF GetNextTickReturns, epollVars
<1>4. CASE WaitEvents
  <2>1. PICK batch \in SUBSET Deliverable : events' = batch /\ ready' = ready \ batch
    BY <1>4 DEF WaitEvents
  <2>2. EdgeKept'
    BY <1>4, <2>1 DEF WaitEvents, EdgeKept
  <2>3. WakeupChannel \in events' => wakeupCount' > 0
    BY <1>4, <2>1 DEF WaitEvents, Deliverable
  <2> QED BY <1>4, <2>2, <2>3 DEF WaitEvents
<1>5. CASE WaitTimeout
  BY <1>5, KeepRoused DEF WaitTimeout, epollVars
<1>6. CASE HandleWakeup
  BY <1>6 DEF HandleWakeup, EdgeKept
<1>7. CASE DoPendingFunctors
  BY <1>7, KeepRoused DEF DoPendingFunctors, epollVars
<1>8. CASE RunFunctor
  BY <1>8, KeepRoused DEF RunFunctor, epollVars
<1>9. CASE EndFunctors
  BY <1>9, KeepRoused DEF EndFunctors, epollVars
<1>10. CASE EndTick
  BY <1>10, KeepRoused DEF EndTick, epollVars
<1>11. CASE ReturnFromCallback
  BY <1>11, KeepRoused DEF ReturnFromCallback, epollVars
<1>12. ASSUME NEW k \in Timers, FireTimer(k) PROVE WakeInv'
  BY <1>12, KeepRoused DEF FireTimer, epollVars
<1>13. ASSUME NEW ch \in Channels, HandleEvent(ch) PROVE WakeInv'
  <2>1. WakeupChannel \in events' <=> WakeupChannel \in events
    BY <1>13, ChannelAssumption DEF HandleEvent
  <2> QED BY <1>13, <2>1 DEF HandleEvent, EdgeKept
<1>14. CASE WaitInterrupted
  BY <1>14, KeepRoused DEF WaitInterrupted, epollVars
<1>15. CASE SignalHandler
  BY <1>15, WriteSignals DEF SignalHandler, EdgeKept
<1>16. ASSUME NEW t \in Threads, Wakeup(t) PROVE WakeInv'
  BY <1>16, WriteSignals DEF Wakeup, EdgeKept
<1>17. ASSUME NEW t \in Threads, NEW cb \in Tasks, QueueInLoop(t, cb) PROVE WakeInv'
  <2>1. waking'[t]
    BY <1>17 DEF QueueInLoop, TypeOK
  <2> QED BY <1>17, <2>1 DEF QueueInLoop, epollVars, EdgeKept
<1>18. ASSUME NEW t \in Callers, Quit(t) PROVE WakeInv'
  <2>1. t \in Threads /\ waking'[t]
    BY <1>18 DEF Quit, TypeOK, Threads
  <2> QED BY <1>18, <2>1 DEF Quit, epollVars, EdgeKept
<1>19. ASSUME NEW t \in Callers, NEW k \in Timers, AddTimer(t, k) PROVE WakeInv'
  BY <1>19, KeepRoused DEF AddTimer, epollVars
<1>20. ASSUME NEW k \in Timers, AdjustTimer(k) PROVE WakeInv'
  BY <1>20, KeepRoused DEF AdjustTimer, epollVars
<1>21. ASSUME NEW k \in Timers, Elapse(k) PROVE WakeInv'
  BY <1>21, KeepRoused DEF Elapse, epollVars
<1>22. ASSUME NEW ch \in Channels, IoEvent(ch) PROVE WakeInv'
  <2>1. Signalled => Signalled'
    BY <1>22 DEF IoEvent, Signalled, Deliverable
  <2> QED BY <1>22, <2>1 DEF IoEvent, EdgeKept
<1> QED
  BY <1>1, <1>2, <1>3, <1>4, <1>5, <1>6, <1>7, <1>8, <1>9, <1>10, <1>11, <1>12,
     <1>13, <1>14, <1>15, <1>16, <1>17, <1>18, <1>19, <1>20, <1>21, <1>22
  DEF Next, LoopStep

\* The invariant of the loop.
LEMMA Invariant == Spec => []IInv
<1>1. Init => WakeInv
  BY DEF Init, WakeInv, EdgeKept, BatchHandled, WakeupReadable, FunctorsSignalled,
         QuitSignalled
<1>2. FunctorInv /\ WakeInv /\ [Next]_vars => WakeInv'
  BY StepWake DEF FunctorInv
<1>3. FunctorInv /\ WakeInv => IInv
  BY DEF FunctorInv, WakeInv, IInv
<1> QED BY <1>1, <1>2, <1>3, FunctorInvariant, PTL DEF Spec

\* Nobody who calls QueueInLoop is left waiting for a loop that sleeps.
THEOREM WakeupNotLost == Spec => []NoLostWakeup
<1>1. IInv => NoLostWakeup
  BY DEF IInv, FunctorsSignalled, NoLostWakeup
<1> QED BY <1>1, Invariant, PTL

\* Nobody who calls Quit is left waiting for a loop that sleeps.
THEOREM QuitNoticed == Spec => []QuitNotSlept
<1>1. IInv => QuitNotSlept
  BY DEF IInv, QuitSignalled, QuitNotSlept
<1> QED BY <1>1, Invariant, PTL

-----------------------------------------------------------------------------
(* The loop implements FunctorQueue.                                       *)

\* Every step of the loop is a step of the abstract queue or a stutter.
THEOREM ImplementsQueue == Spec => QueueSafety
<1> DEFINE q == funcs \o pendingFunctors
<1>1. Init => Queue!Init
  <2>1. <<>> \o <<>> = <<>>
    BY EmptySeq, ConcatEmptySeq
  <2> QED BY <2>1 DEF Init, Queue!Init
<1>2. FunctorInv /\ [Next]_vars => [Queue!Next]_(Queue!vars)
  <2> SUFFICES ASSUME FunctorInv, [Next]_vars PROVE [Queue!Next]_(Queue!vars)
    OBVIOUS
  <2>t. TypeOK /\ BatchRun
    BY DEF FunctorInv
  <2>s. pc = "done" => pc' = "done" /\ ~RunFunctor /\ ~DoPendingFunctors
    BY DEF Next, LoopStep, vars, CheckQuit, GetNextTickReturns, WaitEvents, WaitTimeout,
           HandleWakeup, DoPendingFunctors, RunFunctor, EndFunctors, EndTick,
           ReturnFromCallback, FireTimer, HandleEvent, WaitInterrupted, SignalHandler,
           Wakeup, QueueInLoop, Quit, AddTimer, AdjustTimer, Elapse, IoEvent, Control
  <2>1. CASE Idle
    <3>1. q' = q /\ executed' = executed
      BY <2>1 DEF Idle
    <3>2. CASE (pc' = "done") = (pc = "done")
      BY <3>1, <3>2 DEF Queue!vars
    <3>3. CASE (pc' = "done") # (pc = "done")
      BY <2>s, <3>1, <3>3 DEF Queue!Next, Queue!Stop
    <3> QED BY <3>2, <3>3
  <2>2. ASSUME NEW t \in Threads, NEW cb \in Tasks, QueueInLoop(t, cb)
        PROVE  Queue!Submit(cb)
    <3>1. q' = Append(q, cb)
      BY SMTT(30), <2>2, <2>t, PushBack DEF QueueInLoop, TypeOK
    <3> QED BY <2>2, <3>1 DEF QueueInLoop, Queue!Submit, queueVars
  <2>3. CASE DoPendingFunctors
    <3>1. funcs = <<>> /\ q' = pendingFunctors \o <<>>
      BY <2>3, <2>t DEF DoPendingFunctors, Control, BatchRun
    <3>2. q' = q
      BY <3>1, <2>t, ConcatEmptySeq DEF TypeOK
    <3>3. executed' = executed /\ (pc' = "done") = (pc = "done")
      BY <2>3 DEF DoPendingFunctors, Control
    <3> QED BY <3>2, <3>3 DEF Queue!vars
  <2>4. CASE RunFunctor
    <3>1. Head(q) = Head(funcs) /\ Tail(q) = Tail(funcs) \o pendingFunctors /\ q # <<>>
      BY <2>4, <2>t, PopFront DEF RunFunctor, TypeOK
    <3>2. Queue!Run
      BY <2>4, <3>1 DEF RunFunctor, Control, Queue!Run
    <3> QED BY <3>2 DEF Queue!Next
  <2> QED BY <2>1, <2>2, <2>3, <2>4, <2>t, IdleSteps DEF Queue!Next
<1> QED BY <1>1, <1>2, FunctorInvariant, PTL DEF Spec, QueueSafety, Queue!Safety

-----------------------------------------------------------------------------
(* Timer: numbers.                                                         *)

\* The position of the parent.
LEMMA Parent ==
  ASSUME NEW i \in Nat \ {0}, i # 1
  PROVE  i \div 2 \in Nat \ {0} /\ i \div 2 < i /\ IsChild(i, i \div 2)
BY DEF IsChild

-----------------------------------------------------------------------------
(* The effect of the operations on the heap and its index.                 *)

Swapped(i, j) ==
  /\ heap' \in Seq(Node)
  /\ Len(heap') = Len(heap)
  /\ heap'[i] = heap[j]
  /\ heap'[j] = heap[i]
  /\ \A k \in DOMAIN heap \ {i, j} : heap'[k] = heap[k]

LEMMA SwapHeap ==
  ASSUME HeapTypeOK, Indexed, NEW i \in DOMAIN heap, NEW j \in DOMAIN heap, i # j,
         SwapNode(i, j)
  PROVE  /\ Swapped(i, j)
         /\ ref' \in [Fds -> Nat]
         /\ Indexed'
         /\ Deadline' = Deadline
<1>1. /\ DOMAIN heap = 1 .. Len(heap) /\ Len(heap) \in Nat
      /\ heap \in [1 .. Len(heap) -> Node]
  BY LenProperties DEF HeapTypeOK
<1>2. heap' = [heap EXCEPT ![i] = heap[j], ![j] = heap[i]]
  BY DEF SwapNode
<1>3. heap' \in [1 .. Len(heap) -> Node]
  BY <1>1, <1>2
<1>4. heap' \in Seq(Node) /\ Len(heap') = Len(heap) /\ DOMAIN heap' = DOMAIN heap
  BY <1>1, <1>3
<1>5. Swapped(i, j)
  BY <1>1, <1>2, <1>4 DEF Swapped
<1>6. \A k \in DOMAIN heap : heap[k].fd \in Fds
  BY <1>1 DEF Node
<1>7. ref' = [ref EXCEPT ![heap[j].fd] = i, ![heap[i].fd] = j]
  BY DEF SwapNode
<1>8. heap[i].fd # heap[j].fd
  BY DEF Indexed
<1>9. /\ ref'[heap[j].fd] = i /\ ref'[heap[i].fd] = j
      /\ \A fd \in Fds \ {heap[i].fd, heap[j].fd} : ref'[fd] = ref[fd]
      /\ ref' \in [Fds -> Nat]
  BY <1>1, <1>6, <1>7, <1>8 DEF HeapTypeOK
<1>10. ASSUME NEW k \in DOMAIN heap PROVE ref'[heap'[k].fd] = k
  BY SMTT(30), <1>5, <1>6, <1>9 DEF Indexed, Swapped
<1>11. ASSUME NEW fd \in Fds, ref'[fd] # 0
       PROVE  ref'[fd] \in DOMAIN heap /\ heap'[ref'[fd]].fd = fd
  BY <1>5, <1>6, <1>9, <1>11 DEF Indexed, Swapped
<1>12. Indexed'
  BY <1>4, <1>10, <1>11 DEF Indexed
<1>13. ASSUME NEW fd \in Fds
       PROVE  /\ ref'[fd] = 0 <=> ref[fd] = 0
              /\ ref[fd] # 0 => heap'[ref'[fd]] = heap[ref[fd]]
  BY <1>1, <1>5, <1>6, <1>9 DEF Indexed, Swapped
<1>14. Deadline' = Deadline
  BY <1>13 DEF Deadline
<1> QED BY <1>5, <1>9, <1>12, <1>14

\* What Smallest finds.
LEMMA SmallestIs ==
  ASSUME HeapTypeOK, NEW i \in DOMAIN heap
  PROVE  /\ Smallest(i) \in DOMAIN heap
         /\ Smallest(i) # i => /\ IsChild(Smallest(i), i)
                               /\ Expire(Smallest(i)) < Expire(i)
         /\ Expire(Smallest(i)) <= Expire(i)
         /\ \A c \in DOMAIN heap : IsChild(c, i) => Expire(Smallest(i)) <= Expire(c)
<1>1. /\ DOMAIN heap = 1 .. Len(heap) /\ Len(heap) \in Nat
      /\ heap \in [1 .. Len(heap) -> Node]
  BY LenProperties DEF HeapTypeOK
<1>2. \A k \in DOMAIN heap : Expire(k) \in Nat
  BY <1>1 DEF Node, Expire
<1> QED BY SMTT(30), <1>1, <1>2 DEF Smallest, IsChild

-----------------------------------------------------------------------------
(* The order of a heap of n nodes whose times are e.                       *)

\* Nothing is being moved.
HeapOrder(e, n) == \A i, c \in 1 .. n : IsChild(c, i) => e[i] <= e[c]

\* The parent of k is not later than the children of k.
Bridged(e, n, k) ==
  \A i, c \in 1 .. n : IsChild(k, i) /\ IsChild(c, k) => e[i] <= e[c]

\* k is sinking from where it started.
DownOrder(e, n, k, start) ==
  /\ \A i, c \in 1 .. n :
       IsChild(c, i) /\ i # k /\ (c # k \/ k # start) => e[i] <= e[c]
  /\ Bridged(e, n, k)

\* k is rising.
UpOrder(e, n, k) ==
  /\ \A i, c \in 1 .. n : IsChild(c, i) /\ c # k => e[i] <= e[c]
  /\ Bridged(e, n, k)

Expires == [i \in 1 .. Len(heap) |-> Expire(i)]

HeapTyped ==
  /\ DOMAIN heap = 1 .. Len(heap) /\ Len(heap) \in Nat
  /\ heap \in [1 .. Len(heap) -> Node]
  /\ Expires \in [1 .. Len(heap) -> Nat]
  /\ \A i \in 1 .. Len(heap) : Expires[i] = heap[i].expire

LEMMA HeapTypes == HeapTypeOK => HeapTyped
<1> SUFFICES ASSUME HeapTypeOK PROVE HeapTyped
  OBVIOUS
<1>1. /\ DOMAIN heap = 1 .. Len(heap) /\ Len(heap) \in Nat
      /\ heap \in [1 .. Len(heap) -> Node]
  BY LenProperties DEF HeapTypeOK
<1>2. Expires \in [1 .. Len(heap) -> Nat]
  BY <1>1 DEF Expires, Expire, Node
<1> QED BY <1>1, <1>2 DEF HeapTyped, Expires, Expire

LEMMA HeapTypesNext == HeapTypeOK' => HeapTyped'
BY HeapTypes, PTL

\* Ordered, in these terms.
SiftOrder ==
  LET n == Len(heap)
      k == sift.at
  IN  /\ sift.dir = "none" => HeapOrder(Expires, n)
      /\ sift.dir = "down" => /\ k \in 1 .. n /\ sift.start \in 1 .. n
                              /\ sift.start <= k
                              /\ DownOrder(Expires, n, k, sift.start)
      /\ sift.dir = "up" => /\ k \in 1 .. n /\ sift.start \in 1 .. n
                            /\ UpOrder(Expires, n, k)

LEMMA OrderedIs == HeapTypeOK => (Ordered <=> SiftOrder)
<1> SUFFICES ASSUME HeapTypeOK PROVE Ordered <=> SiftOrder
  OBVIOUS
<1>1. /\ DOMAIN heap = 1 .. Len(heap)
      /\ \A i \in 1 .. Len(heap) : Expires[i] = Expire(i)
  BY HeapTypes DEF HeapTyped, Expire
<1>2. CASE sift.dir = "none"
  BY <1>1, <1>2 DEF Ordered, SiftOrder, HeapOrder
<1>3. CASE sift.dir = "down"
  BY <1>1, <1>3 DEF Ordered, SiftOrder, DownOrder, Bridged
<1>4. CASE sift.dir = "up"
  BY <1>1, <1>4 DEF Ordered, SiftOrder, UpOrder, Bridged
<1> QED BY <1>2, <1>3, <1>4 DEF HeapTypeOK

LEMMA OrderedIsNext == HeapTypeOK' => (Ordered' <=> SiftOrder')
BY OrderedIs, PTL

\* An iteration of SiftDown that swaps: the node sinks by one level.
LEMMA Sink ==
  ASSUME NEW n \in Nat, NEW e \in [1 .. n -> Nat], NEW f \in [1 .. n -> Nat],
         NEW k \in 1 .. n, NEW start \in 1 .. n, NEW s \in 1 .. n,
         DownOrder(e, n, k, start), start <= k, IsChild(s, k),
         e[s] < e[k], \A c \in 1 .. n : IsChild(c, k) => e[s] <= e[c],
         f = [e EXCEPT ![k] = e[s], ![s] = e[k]]
  PROVE  start <= s /\ DownOrder(f, n, s, start)
<1>1. s > k
  BY DEF IsChild
<1>2. f[k] = e[s] /\ f[s] = e[k] /\ \A i \in 1 .. n \ {k, s} : f[i] = e[i]
  BY <1>1
<1>3. \A c \in 1 .. n : IsChild(c, k) => c # k
  BY DEF IsChild
<1>4. ASSUME NEW i \in 1 .. n, NEW c \in 1 .. n, IsChild(c, i), i # s
      PROVE  f[i] <= f[c]
  <2>1. CASE i = k
    BY <1>2, <1>3, <1>4, <2>1
  <2>2. CASE i # k /\ c = k
    <3>1. IsChild(k, i) /\ IsChild(s, k)
      BY <1>4, <2>2
    <3>2. e[i] <= e[s]
      BY <3>1 DEF DownOrder, Bridged
    <3> QED BY <1>2, <1>4, <2>2, <3>2
  <2>3. CASE i # k /\ c # k
    <3>1. c # s
      BY <1>4, <2>3 DEF IsChild
    <3>2. e[i] <= e[c]
      BY <1>4, <2>3 DEF DownOrder
    <3> QED BY <1>2, <1>4, <2>3, <3>1, <3>2
  <2> QED BY <2>1, <2>2, <2>3
<1>5. ASSUME NEW i \in 1 .. n, NEW c \in 1 .. n, IsChild(s, i), IsChild(c, s)
      PROVE  f[i] <= f[c]
  <2>1. i = k /\ c # k /\ c # s
    BY <1>5 DEF IsChild
  <2>2. e[s] <= e[c]
    BY <1>1, <1>5, <2>1 DEF DownOrder
  <2> QED BY <1>2, <2>1, <2>2
<1>6. Bridged(f, n, s)
  BY <1>5 DEF Bridged
<1>7. start <= s
  BY <1>1
<1> QED BY <1>4, <1>6, <1>7 DEF DownOrder

\* SiftDown stops.
LEMMA Sunk ==
  ASSUME NEW n \in Nat, NEW e \in [1 .. n -> Nat],
         NEW k \in 1 .. n, NEW start \in 1 .. n,
         DownOrder(e, n, k, start),
         \A c \in 1 .. n : IsChild(c, k) => e[k] <= e[c]
  PROVE  UpOrder(e, n, start)
<1>1. ASSUME NEW i \in 1 .. n, NEW c \in 1 .. n, IsChild(c, i), c # start
      PROVE  e[i] <= e[c]
  BY <1>1 DEF DownOrder
<1>2. Bridged(e, n, start)
  <2>1. CASE k = start
    BY <2>1 DEF DownOrder
  <2>2. CASE k # start
    <3>1. \A i, c \in 1 .. n : IsChild(c, i) => e[i] <= e[c]
      BY <2>2 DEF DownOrder
    <3> QED BY <3>1 DEF Bridged
  <2> QED BY <2>1, <2>2
<1> QED BY <1>1, <1>2 DEF UpOrder

\* An iteration of SiftUp that swaps.
LEMMA Rise ==
  ASSUME NEW n \in Nat, NEW e \in [1 .. n -> Nat], NEW f \in [1 .. n -> Nat],
         NEW k \in 1 .. n, NEW p \in 1 .. n,
         UpOrder(e, n, k), IsChild(k, p), e[k] < e[p],
         f = [e EXCEPT ![p] = e[k], ![k] = e[p]]
  PROVE  UpOrder(f, n, p)
<1>1. p < k
  BY DEF IsChild
<1>2. f[p] = e[k] /\ f[k] = e[p] /\ \A i \in 1 .. n \ {k, p} : f[i] = e[i]
  BY <1>1
<1>3. ASSUME NEW i \in 1 .. n, NEW c \in 1 .. n, IsChild(c, i), c # p
      PROVE  f[i] <= f[c]
  <2>1. CASE c = k
    <3>1. i = p
      BY <1>3, <2>1 DEF IsChild
    <3> QED BY <1>2, <2>1, <3>1
  <2>2. CASE c # k /\ i = p
    <3>1. e[p] <= e[c]
      BY <1>3, <2>2 DEF UpOrder
    <3> QED BY <1>2, <1>3, <2>2, <3>1
  <2>3. CASE c # k /\ i = k
    <3>1. e[p] <= e[c]
      BY <1>3, <2>3 DEF UpOrder, Bridged
    <3> QED BY <1>2, <1>3, <2>3, <3>1
  <2>4. CASE c # k /\ i # p /\ i # k
    <3>1. e[i] <= e[c]
      BY <1>3, <2>4 DEF UpOrder
    <3> QED BY <1>2, <1>3, <2>4, <3>1
  <2> QED BY <2>1, <2>2, <2>3, <2>4
<1>4. ASSUME NEW i \in 1 .. n, NEW c \in 1 .. n, IsChild(p, i), IsChild(c, p)
      PROVE  f[i] <= f[c]
  <2>1. i # p /\ i # k /\ c # p
    BY <1>1, <1>4 DEF IsChild
  <2>2. e[i] <= e[p]
    BY <1>1, <1>4 DEF UpOrder
  <2>3. CASE c = k
    BY <1>2, <2>1, <2>2, <2>3
  <2>4. CASE c # k
    <3>1. e[p] <= e[c]
      BY <1>4, <2>4 DEF UpOrder
    <3> QED BY <1>2, <1>4, <2>1, <2>2, <2>4, <3>1
  <2> QED BY <2>3, <2>4
<1> QED BY <1>3, <1>4 DEF UpOrder, Bridged

\* SiftUp stops.
LEMMA Risen ==
  ASSUME NEW n \in Nat, NEW e \in [1 .. n -> Nat], NEW k \in 1 .. n,
         UpOrder(e, n, k),
         \A p \in 1 .. n : IsChild(k, p) => e[p] <= e[k]
  PROVE  HeapOrder(e, n)
BY DEF UpOrder, HeapOrder

\* In a heap that is in order the first node is the earliest: else there would
\* be a first one that is earlier, but its parent comes before it.
LEMMA RootIsEarliest ==
  ASSUME NEW n \in Nat, NEW e \in [1 .. n -> Nat], HeapOrder(e, n),
         NEW i \in 1 .. n
  PROVE  e[1] <= e[i]
<1> DEFINE T == {j \in 1 .. n : e[j] < e[1]}
<1>1. SUFFICES ASSUME T # {} PROVE FALSE
  OBVIOUS
<1>2. T \in SUBSET Nat
  OBVIOUS
<1>3. PICK x \in T : \A y \in T : x <= y
  BY <1>1, <1>2, Least
<1>4. x \in 1 .. n /\ e[x] < e[1] /\ x # 1
  BY <1>3
<1>5. x \div 2 \in 1 .. n /\ x \div 2 < x /\ IsChild(x, x \div 2)
  BY <1>4, Parent
<1>6. e[x \div 2] <= e[x]
  BY <1>4, <1>5 DEF HeapOrder
<1>7. x \div 2 \in T
  BY <1>4, <1>5, <1>6
<1> QED BY <1>3, <1>5, <1>7

\* One node in an ordered heap gets another time: it may have to sink or rise.
LEMMA Disturbed ==
  ASSUME NEW n \in Nat, NEW e \in [1 .. n -> Nat], NEW m \in Nat, m <= n,
         NEW f \in [1 .. m -> Nat], NEW k \in 1 .. m,
         HeapOrder(e, n), \A i \in 1 .. m \ {k} : f[i] = e[i]
  PROVE  DownOrder(f, m, k, k)
<1>1. ASSUME NEW i \in 1 .. m, NEW c \in 1 .. m, IsChild(c, i), i # k, c # k
      PROVE  f[i] <= f[c]
  BY <1>1 DEF HeapOrder
<1>2. ASSUME NEW i \in 1 .. m, NEW c \in 1 .. m, IsChild(k, i), IsChild(c, k)
      PROVE  f[i] <= f[c]
  <2>1. i # k /\ c # k
    BY <1>2 DEF IsChild
  <2>2. e[i] <= e[k] /\ e[k] <= e[c]
    BY SMTT(30), <1>2 DEF HeapOrder
  <2>3. f[i] = e[i] /\ f[c] = e[c] /\ e[i] \in Nat /\ e[k] \in Nat /\ e[c] \in Nat
    BY <2>1
  <2> QED BY <2>2, <2>3
<1>3. Bridged(f, m, k)
  BY <1>2 DEF Bridged
<1> QED BY <1>1, <1>3 DEF DownOrder

\* A node is appended to an ordered heap: it may have to rise.
LEMMA Appended ==
  ASSUME NEW n \in Nat, NEW e \in [1 .. n -> Nat], NEW f \in [1 .. n + 1 -> Nat],
         HeapOrder(e, n), \A i \in 1 .. n : f[i] = e[i]
  PROVE  UpOrder(f, n + 1, n + 1)
BY DEF HeapOrder, UpOrder, Bridged, IsChild

\* Or shortened.
LEMMA Shortened ==
  ASSUME NEW n \in Nat, NEW e \in [1 .. n -> Nat], NEW m \in Nat, m <= n,
         NEW f \in [1 .. m -> Nat],
         HeapOrder(e, n), \A i \in 1 .. m : f[i] = e[i]
  PROVE  HeapOrder(f, m)
BY DEF HeapOrder

-----------------------------------------------------------------------------
(* Deleting, for Delete and Tick.                                          *)

LEMMA TakeNode ==
  ASSUME HeapTypeOK, Indexed, Ordered, sift.dir = "none",
         NEW fd \in Fds, ref[fd] # 0, Take(fd)
  PROVE  /\ heap' \in Seq(Node)
         /\ ref' \in [Fds -> Nat]
         /\ sift' \in [dir : {"none", "down", "up"}, at : Nat \ {0}, start : Nat \ {0}]
         /\ Indexed'
         /\ HeapTypeOK' => Ordered'
         /\ Deadline' = [Deadline EXCEPT ![fd] = None]
<1> DEFINE i == ref[fd]
           n == Len(heap)
           g == [heap EXCEPT ![i] = heap[n]]
<1>1. /\ DOMAIN heap = 1 .. n /\ n \in Nat
      /\ heap \in [1 .. n -> Node]
      /\ Expires \in [1 .. n -> Nat]
      /\ \A k \in 1 .. n : Expires[k] = heap[k].expire
  BY HeapTypes DEF HeapTyped
<1>2. i \in 1 .. n /\ heap[i].fd = fd /\ n > 0
  BY <1>1 DEF Indexed
<1>3. /\ heap' = SubSeq(g, 1, n - 1)
      /\ ref' = [ref EXCEPT ![heap[n].fd] = i, ![fd] = 0]
      /\ sift' = IF i = n THEN Still ELSE DownFrom(i)
  BY DEF Take
<1> HIDE DEF i, n
<1>4. g \in [1 .. n -> Node]
  BY <1>1, <1>2
<1>5. \A k \in 1 .. n - 1 : g[k] \in Node
  BY <1>1, <1>4
<1>6. /\ heap' \in Seq(Node) /\ Len(heap') = n - 1
      /\ \A k \in 1 .. n - 1 : heap'[k] = g[k]
  BY <1>1, <1>2, <1>3, <1>5, SubSeqProperties
<1>7. /\ DOMAIN heap' = 1 .. n - 1
      /\ \A k \in 1 .. n - 1 : heap'[k] = IF k = i THEN heap[n] ELSE heap[k]
  BY <1>1, <1>2, <1>6, LenProperties
<1> HIDE DEF g
<1>8. \A k \in 1 .. n : heap[k].fd \in Fds
  BY <1>1 DEF Node
<1>9. /\ ref' \in [Fds -> Nat] /\ ref'[fd] = 0
      /\ \A other \in Fds \ {fd} :
           ref'[other] = IF other = heap[n].fd THEN i ELSE ref[other]
  <2> DEFINE h == heap[n].fd
  <2>1. h \in Fds /\ i \in Nat
    BY <1>1, <1>2, <1>8
  <2>2. ref' = [ref EXCEPT ![h] = i, ![fd] = 0] /\ ref \in [Fds -> Nat]
    BY <1>3 DEF HeapTypeOK
  <2> HIDE DEF h
  <2>3. /\ ref' \in [Fds -> Nat] /\ ref'[fd] = 0
        /\ \A other \in Fds \ {fd} : ref'[other] = IF other = h THEN i ELSE ref[other]
    BY <2>1, <2>2
  <2> QED BY <2>3 DEF h
<1>10. \A k, j \in 1 .. n : heap[k].fd = heap[j].fd => k = j
  <2>1. \A k \in 1 .. n : ref[heap[k].fd] = k
    BY <1>1 DEF Indexed
  <2> QED BY <2>1, Zenon
<1>11. ASSUME NEW k \in 1 .. n - 1 PROVE ref'[heap'[k].fd] = k
  <2>1. CASE k = i
    <3>1. heap'[k] = heap[n] /\ heap[n].fd # fd
      BY <1>1, <1>2, <1>7, <1>10, <2>1
    <3>2. ref'[heap[n].fd] = i
      BY <1>1, <1>2, <1>8, <1>9, <3>1
    <3> QED BY <2>1, <3>1, <3>2
  <2>2. CASE k # i
    <3>1. heap'[k] = heap[k] /\ heap[k].fd # fd /\ heap[k].fd # heap[n].fd
      BY <1>1, <1>2, <1>7, <1>10, <2>2
    <3>2. ref[heap[k].fd] = k
      BY <1>1 DEF Indexed
    <3> QED BY <1>1, <1>8, <1>9, <3>1, <3>2
  <2> QED BY <2>1, <2>2
<1>12. ASSUME NEW other \in Fds \ {fd}
       PROVE  /\ ref'[other] = 0 <=> ref[other] = 0
              /\ ref'[other] # 0 => /\ ref'[other] \in 1 .. n - 1
                                    /\ heap'[ref'[other]] = heap[ref[other]]
                                    /\ heap[ref[other]].fd = other
  <2>1. ref[other] # 0 => ref[other] \in 1 .. n /\ heap[ref[other]].fd = other
    BY <1>1 DEF Indexed
  <2>2. ref[heap[n].fd] = n
    <3>1. n \in DOMAIN heap
      BY <1>1, <1>2
    <3> QED BY <3>1 DEF Indexed
  <2>3. CASE other = heap[n].fd
    <3>1. ref[other] = n /\ ref'[other] = i /\ i # n
      BY <1>2, <1>9, <2>2, <2>3
    <3> QED BY <1>1, <1>2, <1>7, <2>1, <2>3, <3>1
  <2>4. CASE other # heap[n].fd
    <3>1. ref'[other] = ref[other] /\ ref[other] # n /\ ref[other] # i
      BY <1>1, <1>2, <1>9, <2>1, <2>4
    <3> QED BY SMTT(30), <1>1, <1>2, <1>7, <2>1, <3>1
  <2> QED BY <2>3, <2>4
<1>13. Indexed'
  <2>1. \A k \in DOMAIN heap' : ref'[heap'[k].fd] = k
    BY <1>7, <1>11
  <2>2. ASSUME NEW other \in Fds, ref'[other] # 0
        PROVE  ref'[other] \in DOMAIN heap' /\ heap'[ref'[other]].fd = other
    BY <1>7, <1>9, <1>12, <2>2
  <2> QED BY <2>1, <2>2 DEF Indexed
<1>14. Deadline' = [Deadline EXCEPT ![fd] = None]
  <2>1. Deadline'[fd] = None
    BY <1>9 DEF Deadline
  <2>2. \A other \in Fds \ {fd} : Deadline'[other] = Deadline[other]
    BY <1>12 DEF Deadline
  <2>3. DOMAIN Deadline = Fds /\ DOMAIN Deadline' = Fds
    BY DEF Deadline
  <2>4. Deadline = [other \in Fds |-> Deadline[other]]
        /\ Deadline' = [other \in Fds |-> Deadline'[other]]
    BY DEF Deadline
  <2> QED BY <2>1, <2>2, <2>3, <2>4
<1>15. sift' \in [dir : {"none", "down", "up"}, at : Nat \ {0}, start : Nat \ {0}]
  BY <1>1, <1>2, <1>3 DEF Still, DownFrom
<1>16. ASSUME HeapTypeOK' PROVE Ordered'
  <2> DEFINE e == Expires
             f == Expires'
  <2>1. HeapOrder(e, n)
    BY OrderedIs DEF n, SiftOrder
  <2>2. /\ f \in [1 .. n - 1 -> Nat]
        /\ \A k \in 1 .. n - 1 : f[k] = heap'[k].expire
    BY <1>6, <1>16, HeapTypesNext DEF HeapTyped
  <2>3. ASSUME NEW k \in (1 .. n - 1) \ {i} PROVE f[k] = e[k]
    <3>1. k \in 1 .. n /\ k \in 1 .. n - 1
      BY <1>1
    <3>2. heap'[k] = heap[k] /\ Expires[k] = heap[k].expire
      BY <1>1, <1>7, <3>1
    <3>3. f[k] = heap'[k].expire
      BY <2>2, <3>1
    <3> QED BY <3>2, <3>3
  <2>4. n - 1 \in Nat /\ n - 1 <= n
    BY <1>1, <1>2
  <2>5. CASE i = n
    <3>1. \A k \in 1 .. n - 1 : f[k] = e[k]
      BY <1>1, <2>3, <2>5
    <3> HIDE DEF e, f
    <3>2. HeapOrder(f, n - 1)
      BY <1>1, <2>1, <2>2, <2>4, <3>1, Shortened DEF e
    <3> QED BY <1>3, <1>6, <1>16, <2>5, <3>2, OrderedIsNext DEF f, Still, SiftOrder
  <2>6. CASE i # n
    <3>1. i \in 1 .. n - 1
      BY <1>1, <1>2, <2>6
    <3> HIDE DEF e, f
    <3>2. DownOrder(f, n - 1, i, i)
      BY <1>1, <2>1, <2>2, <2>3, <2>4, <3>1, Disturbed DEF e
    <3>3. sift' = DownFrom(i)
      BY <1>3, <2>6
    <3> QED BY <1>6, <1>16, <3>1, <3>2, <3>3, OrderedIsNext DEF f, DownFrom, SiftOrder
  <2> QED BY <2>5, <2>6
<1> QED BY <1>6, <1>9, <1>13, <1>14, <1>15, <1>16

-----------------------------------------------------------------------------
(* The invariant.                                                          *)

HeapInv == HeapTypeOK /\ Valid

LEMMA InitInv == HeapInit => HeapInv
<1> SUFFICES ASSUME HeapInit PROVE HeapInv
  OBVIOUS
<1>1. heap = <<>> /\ heap \in Seq(Node) /\ DOMAIN heap = {} /\ sift = Still
  BY EmptySeq DEF HeapInit
<1>2. HeapTypeOK
  BY <1>1 DEF HeapInit, HeapTypeOK, Still
<1>3. Indexed
  BY <1>1 DEF HeapInit, Indexed
<1>4. Ordered
  BY <1>1 DEF Ordered, Still
<1> QED BY <1>2, <1>3, <1>4 DEF HeapInv, Valid

\* The swap of two nodes, as the order lemmas see it.
LEMMA SwapTimes ==
  ASSUME HeapTypeOK, HeapTypeOK', NEW i \in DOMAIN heap, NEW j \in DOMAIN heap, i # j,
         Swapped(i, j)
  PROVE  Expires' = [Expires EXCEPT ![i] = Expires[j], ![j] = Expires[i]]
<1> DEFINE e == Expires
           f == Expires'
           n == Len(heap)
<1>1. /\ DOMAIN heap = 1 .. n /\ e \in [1 .. n -> Nat]
      /\ \A k \in 1 .. n : e[k] = heap[k].expire
  BY HeapTypes DEF HeapTyped
<1>2. /\ Len(heap') = n /\ f \in [1 .. n -> Nat]
      /\ \A k \in 1 .. n : f[k] = heap'[k].expire
  BY HeapTypesNext DEF HeapTyped, Swapped
<1>3. /\ f[i] = e[j] /\ f[j] = e[i]
      /\ \A k \in (1 .. n) \ {i, j} : f[k] = e[k]
  BY <1>1, <1>2 DEF Swapped
<1> HIDE DEF e, f, n
<1>4. f = [e EXCEPT ![i] = e[j], ![j] = e[i]]
  BY <1>1, <1>2, <1>3
<1> QED BY <1>4 DEF e, f

LEMMA SiftDownInv ==
  ASSUME HeapInv, SiftDown
  PROVE  HeapInv' /\ Deadline' = Deadline
<1> DEFINE i == sift.at
           s == Smallest(i)
           start == sift.start
           n == Len(heap)
           e == Expires
           f == Expires'
<1>1. HeapTypeOK /\ Indexed /\ Ordered
  BY DEF HeapInv, Valid
<1>2. /\ DOMAIN heap = 1 .. n /\ n \in Nat /\ e \in [1 .. n -> Nat]
      /\ \A k \in 1 .. n : e[k] = Expire(k)
  BY <1>1, HeapTypes DEF HeapTyped, Expire
<1>3. sift.dir = "down" /\ UNCHANGED <<tick, limit, now, answer>>
  BY DEF SiftDown
<1>4. i \in 1 .. n /\ start \in 1 .. n /\ start <= i /\ DownOrder(e, n, i, start)
  BY <1>1, <1>3, OrderedIs DEF SiftOrder
<1>5. /\ s \in 1 .. n /\ (s # i => IsChild(s, i) /\ e[s] < e[i]) /\ e[s] <= e[i]
      /\ \A c \in 1 .. n : IsChild(c, i) => e[s] <= e[c]
  BY SMTT(30), <1>1, <1>2, <1>4, SmallestIs
<1>6. CASE s = i
  <2>1. sift' = UpFrom(start) /\ UNCHANGED <<heap, ref>>
    BY <1>6 DEF SiftDown
  <2>2. HeapTypeOK'
    BY <1>1, <1>2, <1>3, <1>4, <2>1 DEF HeapTypeOK, UpFrom
  <2>3. Indexed' /\ Deadline' = Deadline /\ Expires' = Expires /\ Len(heap') = Len(heap)
    BY <1>1, <2>1 DEF Indexed, Deadline, Expires, Expire
  <2> HIDE DEF i, s, start, n, e
  <2>4. UpOrder(e, n, start)
    BY <1>2, <1>4, <1>5, <1>6, Sunk
  <2>5. Ordered'
    BY <1>4, <2>1, <2>2, <2>3, <2>4, OrderedIsNext DEF SiftOrder, UpFrom, e, n
  <2> QED BY <2>2, <2>3, <2>5 DEF HeapInv, Valid
<1>7. CASE s # i
  <2>1. SwapNode(i, s) /\ sift' = [sift EXCEPT !.at = s]
    BY <1>7 DEF SiftDown
  <2>2. Swapped(i, s) /\ ref' \in [Fds -> Nat] /\ Indexed' /\ Deadline' = Deadline
    BY <1>1, <1>2, <1>4, <1>5, <1>7, <2>1, SwapHeap
  <2>3. sift' = [dir |-> "down", at |-> s, start |-> start]
    BY <1>1, <1>3, <2>1 DEF HeapTypeOK
  <2>4. HeapTypeOK'
    BY <1>1, <1>2, <1>3, <1>4, <1>5, <2>2, <2>3 DEF HeapTypeOK, Swapped
  <2>5. f = [e EXCEPT ![i] = e[s], ![s] = e[i]]
    BY <1>1, <1>2, <1>4, <1>5, <1>7, <2>2, <2>4, SwapTimes
  <2>6. Len(heap') = n
    BY <2>2 DEF Swapped
  <2> HIDE DEF i, s, start, n, e, f
  <2>7. f \in [1 .. n -> Nat]
    BY <1>2, <1>4, <1>5, <2>5
  <2>8. start <= s /\ DownOrder(f, n, s, start)
    BY ZenonT(40), <1>2, <1>4, <1>5, <1>7, <2>5, <2>7, Sink
  <2>9. Ordered'
    BY <1>4, <1>5, <2>3, <2>4, <2>6, <2>8, OrderedIsNext DEF SiftOrder, f
  <2> QED BY <2>2, <2>4, <2>9 DEF HeapInv, Valid
<1> QED BY <1>6, <1>7

LEMMA SiftUpInv ==
  ASSUME HeapInv, SiftUp
  PROVE  HeapInv' /\ Deadline' = Deadline
<1> DEFINE i == sift.at
           p == i \div 2
           start == sift.start
           n == Len(heap)
           e == Expires
           f == Expires'
<1>1. HeapTypeOK /\ Indexed /\ Ordered
  BY DEF HeapInv, Valid
<1>2. /\ DOMAIN heap = 1 .. n /\ n \in Nat /\ e \in [1 .. n -> Nat]
      /\ \A k \in 1 .. n : e[k] = Expire(k)
  BY <1>1, HeapTypes DEF HeapTyped, Expire
<1>3. sift.dir = "up" /\ UNCHANGED <<tick, limit, now, answer>>
  BY DEF SiftUp
<1>4. i \in 1 .. n /\ start \in 1 .. n /\ UpOrder(e, n, i)
  BY <1>1, <1>3, OrderedIs DEF SiftOrder
<1>5. i # 1 => p \in 1 .. n /\ p < i /\ IsChild(i, p)
  BY <1>2, <1>4, Parent
<1>6. CASE i = 1 \/ e[p] <= e[i]
  <2>1. sift' = Still /\ UNCHANGED <<heap, ref>>
    BY <1>2, <1>4, <1>5, <1>6 DEF SiftUp
  <2>2. HeapTypeOK'
    BY <1>1, <1>3, <2>1 DEF HeapTypeOK, Still
  <2>3. Indexed' /\ Deadline' = Deadline /\ Expires' = Expires /\ Len(heap') = Len(heap)
    BY <1>1, <2>1 DEF Indexed, Deadline, Expires, Expire
  <2>4. ASSUME NEW q \in 1 .. n, IsChild(i, q) PROVE e[q] <= e[i]
    <3>1. i # 1
      BY <2>4 DEF IsChild
    <3> HIDE DEF i, p, e, n
    <3>2. p \in 1 .. n /\ IsChild(i, p)
      BY <1>5, <3>1
    <3>3. q = p
      BY <2>4, <3>2 DEF IsChild
    <3> QED BY <1>6, <3>1, <3>3
  <2> HIDE DEF i, p, start, n, e
  <2>5. HeapOrder(e, n)
    BY <1>2, <1>4, <2>4, Risen
  <2>6. Ordered'
    BY <2>1, <2>2, <2>3, <2>5, OrderedIsNext DEF SiftOrder, Still, e, n
  <2> QED BY <2>2, <2>3, <2>6 DEF HeapInv, Valid
<1>7. CASE ~(i = 1 \/ e[p] <= e[i])
  <2>1. SwapNode(p, i) /\ sift' = [sift EXCEPT !.at = p]
    BY <1>2, <1>4, <1>5, <1>7 DEF SiftUp
  <2>2. Swapped(p, i) /\ ref' \in [Fds -> Nat] /\ Indexed' /\ Deadline' = Deadline
    BY <1>1, <1>2, <1>4, <1>5, <1>7, <2>1, SwapHeap
  <2>3. sift' = [dir |-> "up", at |-> p, start |-> start]
    BY <1>1, <1>3, <2>1 DEF HeapTypeOK
  <2>4. HeapTypeOK'
    <3> HIDE DEF i, p, start, n
    <3> QED BY SMTT(30), <1>1, <1>2, <1>3, <1>4, <1>5, <1>7, <2>2, <2>3 DEF HeapTypeOK, Swapped
  <2>5. f = [e EXCEPT ![p] = e[i], ![i] = e[p]]
    BY <1>1, <1>2, <1>4, <1>5, <1>7, <2>2, <2>4, SwapTimes
  <2>6. Len(heap') = n
    BY <2>2 DEF Swapped
  <2> HIDE DEF i, p, start, n, e, f
  <2>7. f \in [1 .. n -> Nat] /\ e[i] < e[p]
    <3>1. e[i] \in Nat /\ e[p] \in Nat
      BY <1>2, <1>4, <1>5, <1>7
    <3>2. e[i] < e[p]
      BY <1>7, <3>1
    <3> QED BY <1>2, <2>5, <3>1, <3>2
  <2>8. UpOrder(f, n, p)
    BY <1>2, <1>4, <1>5, <1>7, <2>5, <2>7, Rise
  <2>9. Ordered'
    BY <1>4, <1>5, <1>7, <2>3, <2>4, <2>6, <2>8, OrderedIsNext DEF SiftOrder, f
  <2> QED BY <2>2, <2>4, <2>9 DEF HeapInv, Valid
<1> QED BY <1>6, <1>7

LEMMA AddInv ==
  ASSUME HeapInv, NEW fd \in Fds, NEW delay \in Delays, Add(fd, delay)
  PROVE  HeapInv' /\ Deadline' = [Deadline EXCEPT ![fd] = now + delay]
<1> DEFINE n == Len(heap)
           e == Expires
           f == Expires'
           node == [fd |-> fd, expire |-> now + delay]
<1>1. HeapTypeOK /\ Indexed /\ Ordered
  BY DEF HeapInv, Valid
<1>2. /\ DOMAIN heap = 1 .. n /\ n \in Nat /\ e \in [1 .. n -> Nat]
      /\ heap \in [1 .. n -> Node]
      /\ \A k \in 1 .. n : e[k] = heap[k].expire
  BY <1>1, HeapTypes DEF HeapTyped
<1>3. /\ sift.dir = "none" /\ ref[fd] = 0 /\ heap' = Append(heap, node)
      /\ ref' = [ref EXCEPT ![fd] = n + 1] /\ sift' = UpFrom(n + 1)
      /\ tick \in {"off", "callback"} /\ tick' = IF tick = "callback" THEN "called" ELSE tick
      /\ UNCHANGED <<limit, now, answer>>
  BY DEF Add, MayUse, Called
<1>4. node \in Node
  BY <1>1, DelayAssumption DEF HeapTypeOK, Node
<1> HIDE DEF node, n
<1>5. /\ heap' \in Seq(Node) /\ Len(heap') = n + 1
      /\ \A k \in 1 .. n : heap'[k] = heap[k]
      /\ heap'[n + 1] = node
  BY <1>1, <1>3, <1>4, AppendProperties DEF HeapTypeOK, n
<1>6. HeapTypeOK'
  BY <1>1, <1>2, <1>3, <1>5 DEF HeapTypeOK, UpFrom
<1>7. node.fd = fd /\ node.expire = now + delay
  BY DEF node
<1>8. DOMAIN heap' = 1 .. n + 1 /\ \A k \in 1 .. n : heap[k].fd \in Fds \ {fd}
  <2>1. DOMAIN heap' = 1 .. n + 1
    BY <1>5, LenProperties
  <2>2. \A k \in 1 .. n : heap[k].fd \in Fds /\ ref[heap[k].fd] = k
    BY <1>1, <1>2 DEF Indexed, Node
  <2> QED BY <1>3, <2>1, <2>2
<1>9. ref'[fd] = n + 1 /\ \A other \in Fds \ {fd} : ref'[other] = ref[other]
  BY <1>1, <1>3 DEF HeapTypeOK
<1>10. Indexed'
  <2>1. ASSUME NEW k \in 1 .. n + 1 PROVE ref'[heap'[k].fd] = k
    <3>1. CASE k = n + 1
      BY <1>5, <1>7, <1>9, <3>1
    <3>2. CASE k # n + 1
      <4>1. k \in 1 .. n
        BY <1>2, <3>2
      <4> QED BY SMTT(30), <1>1, <1>2, <1>5, <1>8, <1>9, <4>1 DEF Indexed
    <3> QED BY <3>1, <3>2
  <2>2. ASSUME NEW other \in Fds, ref'[other] # 0
        PROVE  ref'[other] \in 1 .. n + 1 /\ heap'[ref'[other]].fd = other
    <3>1. CASE other = fd
      BY <1>2, <1>5, <1>7, <1>9, <3>1
    <3>2. CASE other # fd
      <4>1. ref'[other] = ref[other] /\ ref[other] \in 1 .. n /\ heap[ref[other]].fd = other
        BY <1>1, <1>2, <1>9, <2>2, <3>2 DEF Indexed
      <4> QED BY <1>2, <1>5, <4>1
    <3> QED BY <3>1, <3>2
  <2> QED BY <1>8, <2>1, <2>2 DEF Indexed
<1>11. Deadline' = [Deadline EXCEPT ![fd] = now + delay]
  <2>1. Deadline'[fd] = now + delay
    BY <1>2, <1>5, <1>7, <1>9 DEF Deadline
  <2>2. ASSUME NEW other \in Fds \ {fd} PROVE Deadline'[other] = Deadline[other]
    <3>1. ref'[other] = ref[other]
      BY <1>9
    <3>2. ref[other] # 0 => heap'[ref[other]] = heap[ref[other]]
      BY <1>1, <1>2, <1>5 DEF Indexed
    <3> QED BY <3>1, <3>2 DEF Deadline
  <2>3. /\ Deadline = [other \in Fds |-> Deadline[other]]
        /\ Deadline' = [other \in Fds |-> Deadline'[other]]
    BY DEF Deadline
  <2> QED BY <2>1, <2>2, <2>3
<1>12. Ordered'
  <2>1. HeapOrder(e, n)
    BY <1>1, <1>3, OrderedIs DEF SiftOrder, n
  <2>2. f \in [1 .. n + 1 -> Nat] /\ \A k \in 1 .. n + 1 : f[k] = heap'[k].expire
    BY <1>5, <1>6, HeapTypesNext DEF HeapTyped
  <2>3. ASSUME NEW k \in 1 .. n PROVE f[k] = e[k]
    <3>1. k \in 1 .. n + 1 /\ heap'[k] = heap[k]
      BY <1>2, <1>5
    <3>2. f[k] = heap'[k].expire
      BY <2>2, <3>1
    <3> QED BY <1>2, <3>1, <3>2
  <2> HIDE DEF e, f
  <2>4. UpOrder(f, n + 1, n + 1)
    BY <1>2, <2>1, <2>2, <2>3, Appended
  <2>5. n + 1 \in 1 .. n + 1
    BY <1>2
  <2> QED BY <1>3, <1>5, <1>6, <2>4, <2>5, OrderedIsNext DEF SiftOrder, UpFrom, f
<1> QED BY <1>6, <1>10, <1>11, <1>12 DEF HeapInv, Valid

LEMMA AdjustInv ==
  ASSUME HeapInv, NEW fd \in Fds, NEW delay \in Delays, Adjust(fd, delay)
  PROVE  HeapInv' /\ Deadline' = [Deadline EXCEPT ![fd] = now + delay]
<1> DEFINE n == Len(heap)
           e == Expires
           f == Expires'
           i == ref[fd]
<1>1. HeapTypeOK /\ Indexed /\ Ordered
  BY DEF HeapInv, Valid
<1>2. /\ DOMAIN heap = 1 .. n /\ n \in Nat /\ e \in [1 .. n -> Nat]
      /\ heap \in [1 .. n -> Node]
      /\ \A k \in 1 .. n : e[k] = heap[k].expire
  BY <1>1, HeapTypes DEF HeapTyped
<1>3. /\ sift.dir = "none" /\ i # 0 /\ heap' = [heap EXCEPT ![i].expire = now + delay]
      /\ ref' = ref /\ sift' = DownFrom(i)
      /\ tick \in {"off", "callback"} /\ tick' = IF tick = "callback" THEN "called" ELSE tick
      /\ UNCHANGED <<limit, now, answer>>
  BY DEF Adjust, MayUse, Called
<1>4. i \in 1 .. n /\ heap[i].fd = fd /\ now + delay \in Nat
  BY <1>1, <1>2, <1>3, DelayAssumption DEF Indexed, HeapTypeOK
<1> HIDE DEF i, n
<1>5. /\ heap' \in [1 .. n -> Node]
      /\ \A k \in (1 .. n) \ {i} : heap'[k] = heap[k]
      /\ heap'[i].fd = fd /\ heap'[i].expire = now + delay
  <2>1. heap[i] \in Node
    BY <1>2, <1>4
  <2>2. [heap[i] EXCEPT !.expire = now + delay] \in Node
    BY <1>4, <2>1 DEF Node
  <2>3. heap' = [heap EXCEPT ![i] = [heap[i] EXCEPT !.expire = now + delay]]
    BY <1>3
  <2> QED BY <1>2, <1>4, <2>1, <2>2, <2>3 DEF Node
<1>6. heap' \in Seq(Node) /\ Len(heap') = n /\ DOMAIN heap' = 1 .. n
  BY <1>2, <1>5
<1>7. HeapTypeOK'
  BY <1>1, <1>2, <1>3, <1>4, <1>6 DEF HeapTypeOK, DownFrom
<1>8. \A k \in 1 .. n : heap'[k].fd = heap[k].fd
  BY <1>4, <1>5
<1>9. Indexed'
  BY <1>1, <1>2, <1>3, <1>6, <1>8 DEF Indexed
<1>10. Deadline' = [Deadline EXCEPT ![fd] = now + delay]
  <2>1. Deadline'[fd] = now + delay
    BY <1>3, <1>5 DEF Deadline, i
  <2>2. ASSUME NEW other \in Fds \ {fd} PROVE Deadline'[other] = Deadline[other]
    <3>1. ref[other] # 0 => ref[other] \in 1 .. n /\ ref[other] # i
      BY <1>1, <1>2, <1>4 DEF Indexed
    <3> QED BY <1>3, <1>5, <3>1 DEF Deadline
  <2>3. /\ Deadline = [other \in Fds |-> Deadline[other]]
        /\ Deadline' = [other \in Fds |-> Deadline'[other]]
    BY DEF Deadline
  <2> QED BY <2>1, <2>2, <2>3
<1>11. Ordered'
  <2>1. HeapOrder(e, n)
    BY <1>1, <1>3, OrderedIs DEF SiftOrder, n
  <2>2. f \in [1 .. n -> Nat] /\ \A k \in 1 .. n : f[k] = heap'[k].expire
    BY <1>6, <1>7, HeapTypesNext DEF HeapTyped
  <2>3. \A k \in (1 .. n) \ {i} : f[k] = e[k]
    BY <1>2, <1>5, <2>2
  <2> HIDE DEF e, f
  <2>4. DownOrder(f, n, i, i)
    <3>1. n \in Nat /\ n <= n /\ e \in [1 .. n -> Nat] /\ i \in 1 .. n
      BY <1>2, <1>4
    <3> QED BY <2>1, <2>2, <2>3, <3>1, Disturbed
  <2> QED BY <1>3, <1>4, <1>6, <1>7, <2>4, OrderedIsNext DEF SiftOrder, DownFrom, f
<1> QED BY <1>7, <1>9, <1>10, <1>11 DEF HeapInv, Valid

LEMMA DeleteInv ==
  ASSUME HeapInv, NEW fd \in Fds, Delete(fd)
  PROVE  HeapInv' /\ Deadline' = [Deadline EXCEPT ![fd] = None]
<1>1. HeapTypeOK /\ Indexed /\ Ordered
  BY DEF HeapInv, Valid
<1>2. /\ sift.dir = "none" /\ ref[fd] # 0 /\ Take(fd)
      /\ tick \in {"off", "callback"} /\ tick' = IF tick = "callback" THEN "called" ELSE tick
      /\ UNCHANGED <<limit, now, answer>>
  BY DEF Delete, MayUse, Called
<1>3. /\ heap' \in Seq(Node) /\ ref' \in [Fds -> Nat] /\ Indexed'
      /\ sift' \in [dir : {"none", "down", "up"}, at : Nat \ {0}, start : Nat \ {0}]
      /\ HeapTypeOK' => Ordered'
      /\ Deadline' = [Deadline EXCEPT ![fd] = None]
  BY <1>1, <1>2, TakeNode
<1>4. HeapTypeOK'
  BY <1>1, <1>2, <1>3 DEF HeapTypeOK
<1> QED BY <1>3, <1>4 DEF HeapInv, Valid

LEMMA FireInv ==
  ASSUME HeapInv, Fire
  PROVE  /\ HeapInv' /\ heap[1].fd \in Fds /\ ref[heap[1].fd] = 1
         /\ Deadline' = [Deadline EXCEPT ![heap[1].fd] = None]
<1> DEFINE fd == heap[1].fd
<1>1. HeapTypeOK /\ Indexed /\ Ordered
  BY DEF HeapInv, Valid
<1>2. /\ sift.dir = "none" /\ tick = "loop" /\ tick' = "callback" /\ heap # <<>>
      /\ Take(fd) /\ UNCHANGED <<limit, now, answer>>
  BY DEF Fire
<1>3. 1 \in DOMAIN heap
  BY <1>1, <1>2, EmptySeq, LenProperties DEF HeapTypeOK
<1>4. fd \in Fds /\ ref[fd] = 1
  BY <1>1, <1>3, HeapTypes DEF HeapTyped, Indexed, Node
<1> HIDE DEF fd
<1>5. /\ heap' \in Seq(Node) /\ ref' \in [Fds -> Nat] /\ Indexed'
      /\ sift' \in [dir : {"none", "down", "up"}, at : Nat \ {0}, start : Nat \ {0}]
      /\ HeapTypeOK' => Ordered'
      /\ Deadline' = [Deadline EXCEPT ![fd] = None]
  BY <1>1, <1>2, <1>4, TakeNode
<1>6. HeapTypeOK'
  BY <1>1, <1>2, <1>5 DEF HeapTypeOK
<1> QED BY <1>4, <1>5, <1>6 DEF HeapInv, Valid, fd

\* The steps that leave the heap alone.
LEMMA OtherInv ==
  ASSUME HeapInv,
         \/ BeginTick \/ CallbackReturns \/ ReturnFromTick \/ GetNextTick
         \/ TimePasses \/ UNCHANGED heapVars
  PROVE  HeapInv' /\ Deadline' = Deadline
<1>1. HeapTypeOK /\ Indexed /\ Ordered
  BY DEF HeapInv, Valid
<1>2. UNCHANGED <<heap, ref, sift>>
  BY DEF BeginTick, CallbackReturns, ReturnFromTick, GetNextTick, TimePasses, heapVars
<1>3. Indexed' /\ Ordered' /\ Deadline' = Deadline
  BY <1>1, <1>2 DEF Indexed, Ordered, Deadline, Expire
<1>4. heap # <<>> => Expire(1) \in Nat
  BY <1>1, HeapTypes, EmptySeq DEF HeapTypeOK, HeapTyped, Expire, Node
<1>5. HeapTypeOK'
  BY <1>1, <1>2, <1>4, NoneAssumption
     DEF HeapTypeOK, BeginTick, CallbackReturns, ReturnFromTick, GetNextTick, TimePasses,
         heapVars, MayUse
<1> QED BY <1>3, <1>5 DEF HeapInv, Valid

LEMMA StepInv == HeapInv /\ [HeapNext]_heapVars => HeapInv'
<1> SUFFICES ASSUME HeapInv, [HeapNext]_heapVars PROVE HeapInv'
  OBVIOUS
<1>1. CASE SiftDown
  BY <1>1, SiftDownInv
<1>2. CASE SiftUp
  BY <1>2, SiftUpInv
<1>3. ASSUME NEW fd \in Fds, NEW delay \in Delays, Add(fd, delay) PROVE HeapInv'
  BY <1>3, AddInv
<1>4. ASSUME NEW fd \in Fds, NEW delay \in Delays, Adjust(fd, delay) PROVE HeapInv'
  BY <1>4, AdjustInv
<1>5. ASSUME NEW fd \in Fds, Delete(fd) PROVE HeapInv'
  BY <1>5, DeleteInv
<1>6. CASE Fire
  BY <1>6, FireInv
<1>7. CASE \/ BeginTick \/ CallbackReturns \/ ReturnFromTick \/ GetNextTick
           \/ TimePasses \/ UNCHANGED heapVars
  BY <1>7, OtherInv
<1> QED BY <1>1, <1>2, <1>3, <1>4, <1>5, <1>6, <1>7 DEF HeapNext

-----------------------------------------------------------------------------
(* The theorems.                                                           *)

LEMMA Invariance == HeapSpec => []HeapInv
<1>1. HeapInit => HeapInv
  BY InitInv
<1>2. HeapInv /\ [HeapNext]_heapVars => HeapInv'
  BY StepInv
<1> QED BY <1>1, <1>2, PTL DEF HeapSpec

\* Type correctness.
THEOREM HeapTypeCorrect == HeapSpec => []HeapTypeOK
<1>1. HeapInv => HeapTypeOK
  BY DEF HeapInv
<1> QED BY <1>1, Invariance, PTL

\* The index follows every swap, and the heap is in order but for the node that
\* is being moved, for heaps of any size, also under operations from callbacks.
THEOREM HeapIsValid == HeapSpec => []Valid
<1>1. HeapInv => Valid
  BY DEF HeapInv
<1> QED BY <1>1, Invariance, PTL

\* The abstract queue's view of a state in which nothing is being moved.
LEMMA FrontIsEarliest ==
  ASSUME HeapInv, sift.dir = "none"
  PROVE  /\ \A fd \in Fds : Deadline[fd] # None <=> ref[fd] # 0
         /\ heap = <<>> <=> \A fd \in Fds : Deadline[fd] = None
         /\ heap # <<>> =>
              /\ heap[1].fd \in Fds
              /\ Deadline[heap[1].fd] = Expire(1)
              /\ Deadlines!Earliest(heap[1].fd)
              /\ Expire(1) \in Nat
         /\ \A fd \in Fds : Deadline[fd] # None =>
              Deadline[fd] \in Nat /\ heap # <<>> /\ Expire(1) <= Deadline[fd]
<1> DEFINE n == Len(heap)
<1>1. HeapTypeOK /\ Indexed /\ Ordered
  BY DEF HeapInv, Valid
<1>2. /\ DOMAIN heap = 1 .. n /\ n \in Nat /\ Expires \in [1 .. n -> Nat]
      /\ heap \in [1 .. n -> Node]
      /\ \A k \in 1 .. n : Expires[k] = heap[k].expire
  BY <1>1, HeapTypes DEF HeapTyped
<1>3. HeapOrder(Expires, n)
  BY <1>1, OrderedIs DEF SiftOrder
<1>4. \A i \in 1 .. n : Expires[1] <= Expires[i]
  BY <1>2, <1>3, RootIsEarliest
<1>5. heap = <<>> <=> n = 0
  BY <1>1, EmptySeq DEF HeapTypeOK
<1>6. ASSUME NEW fd \in Fds, ref[fd] # 0
      PROVE  /\ ref[fd] \in 1 .. n /\ n > 0 /\ Deadline[fd] = Expires[ref[fd]]
             /\ Deadline[fd] \in Nat /\ Deadline[fd] # None /\ Expires[1] <= Deadline[fd]
  <2>1. ref[fd] \in 1 .. n
    BY <1>1, <1>2, <1>6 DEF Indexed
  <2>2. Deadline[fd] = Expires[ref[fd]] /\ Expires[ref[fd]] \in Nat
    BY <1>2, <1>6, <2>1 DEF Deadline
  <2> QED BY <1>2, <1>4, <2>1, <2>2, NoneAssumption
<1>7. \A fd \in Fds : Deadline[fd] # None <=> ref[fd] # 0
  BY <1>6 DEF Deadline
<1>8. ASSUME n > 0
      PROVE  /\ heap[1].fd \in Fds /\ ref[heap[1].fd] = 1
             /\ Deadline[heap[1].fd] = Expire(1) /\ Expire(1) = Expires[1]
             /\ Expire(1) \in Nat
  <2>1. 1 \in 1 .. n
    BY <1>2, <1>8
  <2>2. heap[1].fd \in Fds /\ ref[heap[1].fd] = 1 /\ Expire(1) = Expires[1]
        /\ Expire(1) \in Nat
    BY <1>1, <1>2, <2>1 DEF Indexed, Node, Expire
  <2> QED BY <2>2 DEF Deadline, Expire
<1> HIDE DEF n
<1>9. heap # <<>> => Deadlines!Earliest(heap[1].fd)
  <2> SUFFICES ASSUME heap # <<>> PROVE Deadlines!Earliest(heap[1].fd)
    OBVIOUS
  <2>1. n > 0
    BY <1>2, <1>5
  <2>2. heap[1].fd \in Deadlines!Pending
    BY <1>7, <1>8, <2>1 DEF Deadlines!Pending
  <2>3. \A other \in Deadlines!Pending : Deadline[heap[1].fd] <= Deadline[other]
    BY <1>6, <1>7, <1>8, <2>1 DEF Deadlines!Pending
  <2> QED BY <2>2, <2>3 DEF Deadlines!Earliest
<1>10. heap = <<>> <=> \A fd \in Fds : Deadline[fd] = None
  BY <1>2, <1>5, <1>6, <1>7, <1>8
<1>11. \A fd \in Fds : Deadline[fd] # None =>
         Deadline[fd] \in Nat /\ heap # <<>> /\ Expire(1) <= Deadline[fd]
  BY <1>2, <1>5, <1>6, <1>7, <1>8
<1> QED BY <1>2, <1>5, <1>7, <1>8, <1>9, <1>10, <1>11

LEMMA StepRefines == HeapInv /\ [HeapNext]_heapVars => [Deadlines!Next]_Deadlines!vars
<1> SUFFICES ASSUME HeapInv, [HeapNext]_heapVars PROVE Deadlines!Next \/ UNCHANGED Deadlines!vars
  OBVIOUS
<1> USE DEF Deadlines!vars
<1>1. CASE SiftDown
  BY <1>1, SiftDownInv DEF SiftDown
<1>2. CASE SiftUp
  BY <1>2, SiftUpInv DEF SiftUp
<1>3. ASSUME NEW fd \in Fds, NEW delay \in Delays, Add(fd, delay) \/ Adjust(fd, delay)
      PROVE  Deadlines!Next
  <2>1. Deadlines!Set(fd, delay)
    BY <1>3, AddInv, AdjustInv DEF Add, Adjust, Deadlines!Set
  <2> QED BY <2>1 DEF Deadlines!Next
<1>4. ASSUME NEW fd \in Fds, Delete(fd) PROVE Deadlines!Next
  <2>1. Deadlines!Remove(fd)
    BY <1>4, DeleteInv DEF Delete, Deadlines!Remove
  <2> QED BY <2>1 DEF Deadlines!Next
<1>5. CASE BeginTick
  <2>1. limit = None
    BY <1>5 DEF BeginTick, HeapInv, HeapTypeOK
  <2>2. Deadlines!BeginTick
    BY <1>5, <2>1, OtherInv DEF BeginTick, Deadlines!BeginTick
  <2> QED BY <2>2 DEF Deadlines!Next
<1>6. CASE Fire
  <2> DEFINE fd == heap[1].fd
  <2>1. /\ fd \in Fds /\ Deadlines!Earliest(fd) /\ Deadline[fd] = Expire(1)
    BY <1>6, FrontIsEarliest DEF Fire
  <2>2. limit # None /\ Deadline[fd] <= limit /\ UNCHANGED <<now, limit, answer>>
    BY <1>6, <2>1 DEF Fire, HeapInv, HeapTypeOK
  <2>3. Deadline' = [Deadline EXCEPT ![fd] = None]
    BY <1>6, FireInv
  <2> HIDE DEF fd
  <2>4. Deadlines!Fire(fd)
    BY <2>1, <2>2, <2>3 DEF Deadlines!Fire
  <2> QED BY <2>1, <2>4 DEF Deadlines!Next
<1>7. CASE CallbackReturns
  BY <1>7, OtherInv DEF CallbackReturns
<1>8. CASE ReturnFromTick
  <2>1. sift.dir = "none" /\ limit \in Nat /\ limit # None
    BY <1>8, NoneAssumption DEF ReturnFromTick, HeapInv, HeapTypeOK
  <2>2. \A fd \in Deadlines!Pending : Deadline[fd] > limit
    <3> SUFFICES ASSUME NEW fd \in Deadlines!Pending PROVE Deadline[fd] > limit
      OBVIOUS
    <3>1. fd \in Fds /\ Deadline[fd] # None
      BY DEF Deadlines!Pending
    <3>2. heap # <<>> /\ Deadline[fd] \in Nat /\ Expire(1) \in Nat /\ Expire(1) <= Deadline[fd]
      BY <2>1, <3>1, FrontIsEarliest
    <3>3. Expire(1) > limit
      BY <1>8, <3>2 DEF ReturnFromTick
    <3> QED BY <2>1, <3>2, <3>3
  <2>3. Deadline' = Deadline
    BY <1>8, OtherInv
  <2>4. Deadlines!EndTick
    BY <1>8, <2>1, <2>2, <2>3 DEF ReturnFromTick, Deadlines!EndTick
  <2> QED BY <2>4 DEF Deadlines!Next
<1>9. CASE GetNextTick
  <2>1. sift.dir = "none" /\ limit = None /\ UNCHANGED <<now, limit>>
    BY <1>9 DEF GetNextTick, MayUse, HeapInv, HeapTypeOK
  <2>2. Deadline' = Deadline
    BY <1>9, OtherInv
  <2>3. CASE heap = <<>>
    <3>1. Deadlines!Pending = {}
      BY <2>1, <2>3, FrontIsEarliest DEF Deadlines!Pending
    <3>2. Deadlines!Answer
      BY <1>9, <2>1, <2>2, <2>3, <3>1 DEF GetNextTick, Deadlines!Answer
    <3> QED BY <3>2 DEF Deadlines!Next
  <2>4. CASE heap # <<>>
    <3>1. /\ heap[1].fd \in Fds /\ Deadlines!Earliest(heap[1].fd)
          /\ Deadline[heap[1].fd] = Expire(1)
      BY <2>1, <2>4, FrontIsEarliest
    <3>2. answer' = IF Expire(1) > now THEN Expire(1) - now ELSE 0
      BY <1>9, <2>4 DEF GetNextTick
    <3>3. Deadlines!Answer
      BY <2>1, <2>2, <3>1, <3>2 DEF Deadlines!Answer
    <3> QED BY <3>3 DEF Deadlines!Next
  <2> QED BY <2>3, <2>4
<1>10. CASE TimePasses
  <2>1. Deadlines!Elapse
    BY <1>10, OtherInv DEF TimePasses, Deadlines!Elapse
  <2> QED BY <2>1 DEF Deadlines!Next
<1>11. CASE UNCHANGED heapVars
  BY <1>11, OtherInv DEF heapVars
<1> QED
  BY <1>1, <1>2, <1>3, <1>4, <1>5, <1>6, <1>7, <1>8, <1>9, <1>10, <1>11 DEF HeapNext

\* For any descriptors, timeouts and sizes the heap with its index is the queue
\* of deadlines: at most one for each descriptor; Tick fires what is due, the
\* earliest first, and leaves nothing due; and the time to sleep is right.
THEOREM ImplementsDeadlines == HeapSpec => DeadlinesSpec
<1>1. HeapInit => Deadlines!Init
  <2> SUFFICES ASSUME HeapInit PROVE Deadlines!Init
    OBVIOUS
  <2>1. Deadline = [fd \in Fds |-> None]
    BY DEF HeapInit, Deadline
  <2> QED BY <2>1 DEF HeapInit, Deadlines!Init
<1>2. HeapInv /\ [HeapNext]_heapVars => [Deadlines!Next]_Deadlines!vars
  BY StepRefines
<1> QED BY <1>1, <1>2, Invariance, PTL DEF HeapSpec, DeadlinesSpec, Deadlines!Spec
=============================================================================
