------------------------------- MODULE Timer -------------------------------
(***************************************************************************)
(* The timer of an event loop: a binary min-heap of deadlines and an index *)
(* from descriptors into it, which every swap has to keep.                 *)
(*                                                                         *)
(* One iteration of SiftDown or SiftUp is one step, so that what holds     *)
(* within them can be stated; Tick runs callbacks in between, which may    *)
(* use the timer themselves.  Positions count from 1, not 0, and 0 in ref  *)
(* is a descriptor that ref_ does not have.                                *)
(***************************************************************************)
EXTENDS Integers, Sequences

CONSTANTS
  Fds,      \* the keys of timers
  Delays,   \* the timeouts that are asked for, in milliseconds
  MaxTime,  \* bound: what the clock goes up to
  None

ASSUME DelayAssumption == Delays \subseteq Nat
ASSUME TimeAssumption == MaxTime \in Nat
ASSUME NoneAssumption == None \notin Int

VARIABLES
  heap,    \* heap_
  ref,     \* ref_: descriptor -> its position in heap
  sift,    \* the loop under way: "down", "up" or "none", where it is, its start
  tick,    \* Tick: "off", "loop", in a "callback", or in one that has "called"
  limit,   \* now, the local variable of Tick, or None
  now,     \* GetMs()
  answer   \* what GetNextTick returned

heapVars == <<heap, ref, sift, tick, limit, now, answer>>

Still == [dir |-> "none", at |-> 1, start |-> 1]
DownFrom(i) == [dir |-> "down", at |-> i, start |-> i]
UpFrom(i) == [dir |-> "up", at |-> i, start |-> i]

HeapInit ==
  /\ heap = <<>>
  /\ ref = [fd \in Fds |-> 0]
  /\ sift = Still
  /\ tick = "off"
  /\ limit = None
  /\ now = 0
  /\ answer = -1

-----------------------------------------------------------------------------
(* The heap.                                                               *)

Expire(i) == heap[i].expire

\* Mutant: only the heap is swapped.
SwapHeapOnly(i, j) ==
  /\ heap' = [heap EXCEPT ![i] = heap[j], ![j] = heap[i]]
  /\ UNCHANGED ref

SwapNode(i, j) ==
  /\ heap' = [heap EXCEPT ![i] = heap[j], ![j] = heap[i]]
  /\ ref' = [ref EXCEPT ![heap[j].fd] = i, ![heap[i].fd] = j]

\* Of i and its children the one that expires first, i if it is one of them.
Smallest(i) ==
  LET left  == 2 * i
      right == 2 * i + 1
      least == IF left <= Len(heap) /\ Expire(left) < Expire(i) THEN left ELSE i
  IN  IF right <= Len(heap) /\ Expire(right) < Expire(least) THEN right ELSE least

\* One iteration of SiftDown; SiftUp follows, from where SiftDown started.
SiftDown ==
  /\ sift.dir = "down"
  /\ LET i == sift.at
         s == Smallest(i)
     IN  IF s = i THEN sift' = UpFrom(sift.start) /\ UNCHANGED <<heap, ref>>
         ELSE SwapNode(i, s) /\ sift' = [sift EXCEPT !.at = s]
  /\ UNCHANGED <<tick, limit, now, answer>>

\* One iteration of SiftUp.
SiftUp ==
  /\ sift.dir = "up"
  /\ LET i == sift.at
         parent == i \div 2
     IN  IF i = 1 \/ Expire(parent) <= Expire(i)
         THEN sift' = Still /\ UNCHANGED <<heap, ref>>
         ELSE SwapNode(parent, i) /\ sift' = [sift EXCEPT !.at = parent]
  /\ UNCHANGED <<tick, limit, now, answer>>

\* Delete, of a descriptor that has a timer: the last node takes its place, and
\* is moved from there unless it was the last itself.
Take(fd) ==
  LET i == ref[fd]
      last == Len(heap)
  IN  /\ heap' = SubSeq([heap EXCEPT ![i] = heap[last]], 1, last - 1)
      /\ ref' = [ref EXCEPT ![heap[last].fd] = i, ![fd] = 0]
      /\ sift' = IF i = last THEN Still ELSE DownFrom(i)

-----------------------------------------------------------------------------
(* The operations, called from outside of Tick or from a callback, which   *)
(* makes at most one call.                                                 *)

MayUse == sift.dir = "none" /\ tick \in {"off", "callback"}

Called == tick' = IF tick = "callback" THEN "called" ELSE tick

Add(fd, delay) ==
  /\ MayUse
  /\ ref[fd] = 0
  /\ heap' = Append(heap, [fd |-> fd, expire |-> now + delay])
  /\ ref' = [ref EXCEPT ![fd] = Len(heap) + 1]
  /\ sift' = UpFrom(Len(heap) + 1)
  /\ Called
  /\ UNCHANGED <<limit, now, answer>>

\* Adjust, or Add of a descriptor that has a timer.
Adjust(fd, delay) ==
  /\ MayUse
  /\ ref[fd] # 0
  /\ heap' = [heap EXCEPT ![ref[fd]].expire = now + delay]
  /\ sift' = DownFrom(ref[fd])
  /\ Called
  /\ UNCHANGED <<ref, limit, now, answer>>

Delete(fd) ==
  /\ MayUse
  /\ ref[fd] # 0
  /\ Take(fd)
  /\ Called
  /\ UNCHANGED <<limit, now, answer>>

BeginTick ==
  /\ MayUse
  /\ tick = "off"
  /\ tick' = "loop"
  /\ limit' = now
  /\ UNCHANGED <<heap, ref, sift, now, answer>>

\* The front has expired: it is deleted, and its callback called.
Fire ==
  /\ sift.dir = "none"
  /\ tick = "loop"
  /\ heap # <<>>
  /\ Expire(1) <= limit
  /\ Take(heap[1].fd)
  /\ tick' = "callback"
  /\ UNCHANGED <<limit, now, answer>>

CallbackReturns ==
  /\ sift.dir = "none"
  /\ tick \in {"callback", "called"}
  /\ tick' = "loop"
  /\ UNCHANGED <<heap, ref, sift, limit, now, answer>>

ReturnFromTick ==
  /\ sift.dir = "none"
  /\ tick = "loop"
  /\ heap # <<>> => Expire(1) > limit
  /\ tick' = "off"
  /\ limit' = None
  /\ UNCHANGED <<heap, ref, sift, now, answer>>

\* Mutant: what is left is not compared with 0, and -1 is for ever.
GetNextTickSigned ==
  /\ MayUse
  /\ tick = "off"
  /\ answer' = IF heap = <<>> THEN -1 ELSE Expire(1) - now
  /\ UNCHANGED <<heap, ref, sift, tick, limit, now>>

\* What GetNextTick does after its Tick.
GetNextTick ==
  /\ MayUse
  /\ tick = "off"
  /\ answer' = IF heap = <<>> THEN -1
               ELSE IF Expire(1) > now THEN Expire(1) - now ELSE 0
  /\ UNCHANGED <<heap, ref, sift, tick, limit, now>>

TimePasses ==
  /\ now < MaxTime
  /\ now' = now + 1
  /\ UNCHANGED <<heap, ref, sift, tick, limit, answer>>

HeapNext ==
  \/ SiftDown \/ SiftUp
  \/ \E fd \in Fds, delay \in Delays : Add(fd, delay) \/ Adjust(fd, delay)
  \/ \E fd \in Fds : Delete(fd)
  \/ BeginTick \/ Fire \/ CallbackReturns \/ ReturnFromTick \/ GetNextTick
  \/ TimePasses

HeapSpec == HeapInit /\ [][HeapNext]_heapVars

-----------------------------------------------------------------------------
(* Properties.                                                             *)

Node == [fd : Fds, expire : Nat]

\* Every variable has its type.
HeapTypeOK ==
  /\ heap \in Seq(Node)
  /\ ref \in [Fds -> Nat]
  /\ sift \in [dir : {"none", "down", "up"}, at : Nat \ {0}, start : Nat \ {0}]
  /\ tick \in {"off", "loop", "callback", "called"}
  /\ limit \in Nat \cup {None} /\ (limit = None <=> tick = "off")
  /\ now \in Nat
  /\ answer \in Nat \cup {-1}

\* ref_ has the position of every node, and nothing else, after each swap of a
\* SiftUp or SiftDown, also of one that a callback of Tick has begun.
Indexed ==
  /\ \A i \in DOMAIN heap : ref[heap[i].fd] = i
  /\ \A fd \in Fds : ref[fd] # 0 => ref[fd] \in DOMAIN heap /\ heap[ref[fd]].fd = fd

IsChild(c, i) == c \in {2 * i, 2 * i + 1}

\* The order of the heap holds but for the node that is being moved: when it
\* sinks below its children, and before its first step with its parent too;
\* when it rises with its parent.  What it leaves is in order without it.
Ordered ==
  LET k == sift.at
      Excused(i, c) == \/ sift.dir = "down" /\ i = k
                       \/ sift.dir = "down" /\ c = k /\ k = sift.start
                       \/ sift.dir = "up" /\ c = k
  IN  /\ sift.dir # "none" => k \in DOMAIN heap /\ sift.start \in DOMAIN heap
      /\ sift.dir = "down" => sift.start <= k
      /\ \A i, c \in DOMAIN heap :
           IsChild(c, i) /\ ~Excused(i, c) => Expire(i) <= Expire(c)
      /\ sift.dir # "none" =>
           \A i, c \in DOMAIN heap :
             IsChild(k, i) /\ IsChild(c, k) => Expire(i) <= Expire(c)

\* Whatever is added, adjusted and deleted, from callbacks too, the index and
\* the heap stay what the next operation takes them for.
Valid == Indexed /\ Ordered

\* The timer is the queue of deadlines it stands for.
Deadline == [fd \in Fds |-> IF ref[fd] = 0 THEN None ELSE heap[ref[fd]].expire]

Deadlines == INSTANCE TimerQueue WITH deadline <- Deadline

\* A Tick fires what has expired when it begins, each timer once and an earlier
\* one first, also when callbacks change the timers; GetNextTick is never later
\* than the next deadline, and -1 only if there is none.
DeadlinesSpec == Deadlines!Spec
=============================================================================
