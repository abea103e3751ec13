---------------------------- MODULE ThreadProofs ----------------------------
(***************************************************************************)
(* Proofs about the threads of the process and the components that share a *)
(* queue among them under a mutex: ThreadPool, for any workers and tasks,  *)
(* AsyncLogger, for any threads, lines, thresholds, file sizes and numbers *)
(* of files, and LifeCycle, for any number of IO threads and of signals.   *)
(*                                                                         *)
(* The pool's queue is the end of the sequence of all tasks added, and a   *)
(* task that has left it is with one worker or has been run (Accounted).   *)
(* The logger's lines flow in one order from Append to the console         *)
(* (Stream), and its files are the end of what was written to them         *)
(* (FilesKept).                                                            *)
(*                                                                         *)
(* The invariant of LifeCycle says how far each IO thread is at each place *)
(* of main: the threads are started one after the other (StartedInOrder)   *)
(* and told to quit and joined in the same order (StoppedInOrder); what a  *)
(* thread is at determines its loop (ThreadSound); a request uses what was *)
(* there when it began (UsesLive, UsesForConnection); the handler          *)
(* interrupts a thread that is there, which it keeps from ending           *)
(* (HandlerSound).                                                         *)
(***************************************************************************)
EXTENDS LifeCycle, ThreadPool, AsyncLogger, SequenceLemmas, FiniteSetTheorems

\* The end of a sequence, read from its own end as IsSuffix does.
LEMMA SuffixIs ==
  ASSUME NEW S, NEW s \in Seq(S), NEW t \in Seq(S), Len(s) <= Len(t),
         \A i \in 1 .. Len(s) : s[i] = t[Len(t) - Len(s) + i]
  PROVE  IsSuffix(s, t)
<1> DEFINE n == Len(s)  m == Len(t)  a == Reverse(s)  b == Reverse(t)
<1>1. n \in Nat /\ m \in Nat /\ n <= m /\ \A i \in 1 .. n : s[i] = t[m - n + i]
  BY LenProperties
<1>2. a \in Seq(S) /\ Len(a) = n /\ \A i \in 1 .. n : a[i] = s[n - i + 1]
  <2>1. a \in [1 .. n -> S]
    BY <1>1, ElementOfSeq DEF Reverse
  <2> QED BY <1>1, <2>1, FunctionIsSeq DEF Reverse
<1>3. b \in Seq(S) /\ Len(b) = m /\ \A i \in 1 .. m : b[i] = t[m - i + 1]
  <2>1. b \in [1 .. m -> S]
    BY <1>1, ElementOfSeq DEF Reverse
  <2> QED BY <1>1, <2>1, FunctionIsSeq DEF Reverse
<1> HIDE DEF a, b
<1>4. \A i \in 1 .. n : b[i] = a[i]
  <2> TAKE i \in 1 .. n
  <2>1. n - i + 1 \in 1 .. n /\ m - n + (n - i + 1) = m - i + 1
    BY <1>1
  <2>2. i \in 1 .. m
    BY <1>1
  <2>3. b[i] = t[m - i + 1] /\ a[i] = s[n - i + 1]
    BY <1>2, <1>3, <2>2
  <2>4. s[n - i + 1] = t[m - n + (n - i + 1)]
    BY <1>1, <2>1
  <2> QED BY <2>1, <2>3, <2>4
<1>5. SubSeq(b, 0 + 1, n) = SubSeq(a, 0 + 1, n)
  <2>1. \A i \in 1 .. n - 0 : b[0 + i] = a[0 + i]
    BY <1>1, <1>4
  <2> HIDE DEF n, m
  <2> QED BY <1>1, <1>2, <1>3, <2>1, SameSlice
<1> QED BY <1>1, <1>2, <1>3, <1>5 DEF IsSuffix, IsPrefix, a, b

\* What was appended to a sequence is a suffix of the whole.
LEMMA ConcatSuffix ==
  ASSUME NEW S, NEW s \in Seq(S), NEW t \in Seq(S)
  PROVE  IsSuffix(t, s \o t)
<1>1. /\ s \o t \in Seq(S) /\ Len(s) \in Nat /\ Len(t) \in Nat
      /\ Len(s \o t) = Len(s) + Len(t)
      /\ \A i \in 1 .. Len(s) + Len(t) :
           (s \o t)[i] = IF i <= Len(s) THEN s[i] ELSE t[i - Len(s)]
  BY ConcatProperties, LenProperties
<1>2. \A i \in 1 .. Len(t) : t[i] = (s \o t)[Len(s \o t) - Len(t) + i]
  <2> TAKE i \in 1 .. Len(t)
  <2>1. PICK j \in Nat : j = Len(s) + i
    BY <1>1
  <2>2. /\ j \in 1 .. Len(s) + Len(t) /\ ~(j <= Len(s)) /\ j - Len(s) = i
        /\ Len(s \o t) - Len(t) + i = j
    BY <1>1, <2>1
  <2>3. (s \o t)[j] = t[j - Len(s)]
    BY <1>1, <2>2
  <2> QED BY <2>2, <2>3
<1>3. PICK u \in Seq(S) : u = s \o t
  BY <1>1
<1>4. Len(t) <= Len(u) /\ \A i \in 1 .. Len(t) : t[i] = u[Len(u) - Len(t) + i]
  BY <1>1, <1>2, <1>3
<1>5. IsSuffix(t, u)
  BY <1>4, SuffixIs
<1> QED BY <1>3, <1>5

-----------------------------------------------------------------------------
(* ThreadPool.                                                             *)

\* How many tasks have left the queue, and which.
Gone == Len(added) - Len(tasks)
Taken(t) == \E i \in 1 .. Gone : added[i] = t

\* The queue is what is left of the tasks added, none of which was added twice.
Queued ==
  /\ Len(tasks) <= Len(added)
  /\ \A i \in DOMAIN tasks : tasks[i] = added[Gone + i]
  /\ \A i, j \in DOMAIN added : added[i] = added[j] => i = j

\* A task that has left the queue has been run, or one worker has it; an empty
\* one is neither.
Accounted ==
  /\ \A w \in Workers : task[w] # None => Taken(task[w]) /\ task[w] \notin Empty
  /\ \A v, w \in Workers : task[v] = task[w] /\ task[v] # None => v = w
  /\ \A t \in Tasks \ Empty :
       ran[t] = IF Taken(t) /\ \A w \in Workers : task[w] # t THEN 1 ELSE 0

\* A worker has a task just while it runs it.
Busy == \A w \in Workers : task[w] # None <=> workerAt[w] \in {"run", "notify"}

\* The destructor stops the pool, workers end only then, and the last of them has
\* left nothing in the queue.
Drained ==
  /\ stop <=> owner \in {"notifyAll", "join", "done"}
  /\ \A w \in Workers : workerAt[w] = "ended" => stop
  /\ (\A w \in Workers : workerAt[w] = "ended") => tasks = <<>>
  /\ owner = "done" => \A w \in Workers : workerAt[w] = "ended"

PoolInv == PoolTypeOK /\ Queued /\ Accounted /\ Busy /\ Drained

LEMMA PoolInitInv == PoolInit => PoolInv
<1> SUFFICES ASSUME PoolInit PROVE PoolInv
  OBVIOUS
<1> USE DEF PoolInit
<1>1. PoolTypeOK
  BY ThreadCountAssumption, EmptySeq DEF PoolTypeOK, Workers
<1>2. Queued /\ Gone = 0
  BY EmptySeq DEF Queued, Gone
<1>3. Accounted
  BY <1>2 DEF Accounted, Taken
<1>4. Busy
  BY DEF Busy
<1>5. Drained
  BY DEF Drained
<1> QED BY <1>1, <1>2, <1>3, <1>4, <1>5 DEF PoolInv

\* AddTask puts the task behind those of the queue, and takes none from it.
LEMMA PushQueues ==
  ASSUME PoolInv, NEW t \in Tasks, Push(t)
  PROVE  /\ tasks' \in Seq(Tasks) /\ tasks' # <<>> /\ added' \in Seq(Tasks)
         /\ Queued'
         /\ \A u : Taken(u)' <=> Taken(u)
<1>1. /\ tasks \in Seq(Tasks) /\ added \in Seq(Tasks)
      /\ Len(tasks) \in Nat /\ Len(added) \in Nat
      /\ DOMAIN tasks = 1 .. Len(tasks) /\ DOMAIN added = 1 .. Len(added)
  BY LenProperties DEF PoolInv, PoolTypeOK
<1>2. /\ tasks' \in Seq(Tasks) /\ tasks' # <<>> /\ Len(tasks') = Len(tasks) + 1
      /\ \A i \in 1 .. Len(tasks) : tasks'[i] = tasks[i]
      /\ tasks'[Len(tasks) + 1] = t
  BY <1>1, AppendProperties DEF Push
<1>3. /\ added' \in Seq(Tasks) /\ Len(added') = Len(added) + 1
      /\ \A i \in 1 .. Len(added) : added'[i] = added[i]
      /\ added'[Len(added) + 1] = t
  BY <1>1, AppendProperties DEF Push
<1>4. DOMAIN tasks' = 1 .. Len(tasks) + 1 /\ DOMAIN added' = 1 .. Len(added) + 1
  BY <1>1, <1>2, <1>3, LenProperties
<1>5. Gone' = Gone /\ Gone \in Nat
  BY <1>1, <1>2, <1>3 DEF Gone, PoolInv, Queued
<1>6. \A i \in DOMAIN added : added[i] # t
  BY DEF Push, ToSet
<1>7. Queued'
  <2>1. Len(tasks') <= Len(added')
    BY <1>1, <1>2, <1>3 DEF PoolInv, Queued
  <2>2. ASSUME NEW i \in DOMAIN tasks' PROVE tasks'[i] = added'[Gone + i]
    <3>1. CASE i \in 1 .. Len(tasks)
      <4>1. Gone + i \in 1 .. Len(added) /\ tasks[i] = added[Gone + i]
        BY <1>1, <1>5, <3>1 DEF Gone, PoolInv, Queued
      <4> QED BY <1>2, <1>3, <3>1, <4>1
    <3>2. CASE i = Len(tasks) + 1
      BY <1>1, <1>2, <1>3, <3>2 DEF Gone
    <3> QED BY <1>1, <1>4, <3>1, <3>2
  <2>3. ASSUME NEW i \in DOMAIN added', NEW j \in DOMAIN added', added'[i] = added'[j]
        PROVE  i = j
    <3>1. \A k \in DOMAIN added' : k \in DOMAIN added \/ k = Len(added) + 1
      BY <1>1, <1>4
    <3>2. CASE i \in DOMAIN added /\ j \in DOMAIN added
      BY <1>1, <1>3, <2>3, <3>2 DEF PoolInv, Queued
    <3>3. CASE i \notin DOMAIN added \/ j \notin DOMAIN added
      BY <1>1, <1>3, <1>6, <2>3, <3>1, <3>3
    <3> QED BY <3>2, <3>3
  <2> QED BY <1>5, <2>1, <2>2, <2>3 DEF Queued
<1>8. \A i \in 1 .. Gone : added'[i] = added[i]
  BY <1>1, <1>3, <1>5 DEF Gone
<1>9. \A u : Taken(u)' <=> Taken(u)
  BY <1>5, <1>8 DEF Taken
<1> QED BY <1>2, <1>3, <1>7, <1>9

\* A notification wakes waiting threads, and disturbs no other.
LEMMA Woken ==
  ASSUME NEW now \in [Workers -> {"lock", "wait", "run", "notify", "ended"}], NotifyOne(now)
  PROVE  /\ workerAt' \in [Workers -> {"lock", "wait", "run", "notify", "ended"}]
         /\ \A w \in Workers : workerAt'[w] = now[w] \/ (now[w] = "wait" /\ workerAt'[w] = "lock")
BY DEF NotifyOne

\* A worker that is not taking a task leaves the queue alone.
LEMMA QueueStays ==
  ASSUME PoolInv, UNCHANGED <<tasks, added>>
  PROVE  Queued' /\ \A u : Taken(u)' <=> Taken(u)
BY DEF PoolInv, Queued, Taken, Gone

LEMMA AddTaskInv == PoolInv /\ AddTask => PoolInv'
<1> SUFFICES ASSUME PoolInv, AddTask PROVE PoolInv'
  OBVIOUS
<1>1. PICK t \in Tasks : Push(t)
  BY DEF AddTask
<1>2. /\ tasks' \in Seq(Tasks) /\ tasks' # <<>> /\ added' \in Seq(Tasks)
      /\ Queued'
      /\ \A u : Taken(u)' <=> Taken(u)
  BY <1>1, PushQueues
<1>3. /\ owner = "adding" /\ owner' = "notify" /\ UNCHANGED <<stop, workerAt, task, ran>>
  BY DEF AddTask
<1>4. PoolTypeOK'
  BY <1>2, <1>3 DEF PoolInv, PoolTypeOK
<1>5. Accounted'
  BY <1>2, <1>3 DEF PoolInv, Accounted
<1>6. Busy'
  BY <1>3 DEF PoolInv, Busy
<1>7. Drained'
  BY <1>3, ThreadCountAssumption DEF PoolInv, Drained, Workers
<1> QED BY <1>2, <1>4, <1>5, <1>6, <1>7 DEF PoolInv

LEMMA TaskAddsInv == ASSUME NEW w \in Workers PROVE PoolInv /\ TaskAdds(w) => PoolInv'
<1> SUFFICES ASSUME PoolInv, TaskAdds(w) PROVE PoolInv'
  OBVIOUS
<1>1. PICK t \in Tasks : Push(t)
  BY DEF TaskAdds
<1>2. /\ tasks' \in Seq(Tasks) /\ tasks' # <<>> /\ added' \in Seq(Tasks)
      /\ Queued'
      /\ \A u : Taken(u)' <=> Taken(u)
  BY <1>1, PushQueues
<1>3. /\ workerAt[w] = "run" /\ workerAt' = [workerAt EXCEPT ![w] = "notify"]
      /\ UNCHANGED <<stop, task, owner, ran>>
      /\ workerAt \in [Workers -> {"lock", "wait", "run", "notify", "ended"}]
  BY DEF TaskAdds, PoolInv, PoolTypeOK
<1>4. PoolTypeOK'
  BY <1>2, <1>3 DEF PoolInv, PoolTypeOK
<1>5. Accounted'
  BY <1>2, <1>3 DEF PoolInv, Accounted
<1>6. Busy'
  BY <1>3 DEF PoolInv, Busy
<1>7. Drained'
  BY <1>3 DEF PoolInv, Drained
<1> QED BY <1>2, <1>4, <1>5, <1>6, <1>7 DEF PoolInv

\* What moves threads between places that are all idle, or all busy, and lets none
\* end, keeps the invariant.
LEMMA MovesInv ==
  ASSUME PoolInv, UNCHANGED <<tasks, stop, task, owner, added, ran>>,
         workerAt' \in [Workers -> {"lock", "wait", "run", "notify", "ended"}],
         \A w \in Workers : \/ workerAt'[w] = workerAt[w]
                            \/ {workerAt[w], workerAt'[w]} \subseteq {"lock", "wait"}
                            \/ {workerAt[w], workerAt'[w]} \subseteq {"run", "notify"}
  PROVE  PoolInv'
<1>1. Queued' /\ \A u : Taken(u)' <=> Taken(u)
  BY QueueStays
<1>2. PoolTypeOK'
  BY DEF PoolInv, PoolTypeOK
<1>3. Accounted'
  BY <1>1 DEF PoolInv, Accounted
<1>4. Busy'
  BY DEF PoolInv, Busy
<1>5. \A w \in Workers : workerAt'[w] = "ended" <=> workerAt[w] = "ended"
  OBVIOUS
<1>6. Drained'
  BY <1>5 DEF PoolInv, Drained
<1> QED BY <1>1, <1>2, <1>3, <1>4, <1>6 DEF PoolInv

LEMMA TaskNotifiesInv == ASSUME NEW w \in Workers PROVE PoolInv /\ TaskNotifies(w) => PoolInv'
<1> SUFFICES ASSUME PoolInv, TaskNotifies(w) PROVE PoolInv'
  OBVIOUS
<1> DEFINE now == [workerAt EXCEPT ![w] = "run"]
<1>1. workerAt \in [Workers -> {"lock", "wait", "run", "notify", "ended"}] /\ workerAt[w] = "notify"
  BY DEF PoolInv, PoolTypeOK, TaskNotifies
<1>2. now \in [Workers -> {"lock", "wait", "run", "notify", "ended"}] /\ NotifyOne(now)
  BY <1>1 DEF TaskNotifies
<1>3. \A v \in Workers : now[v] = workerAt[v] \/ {workerAt[v], now[v]} \subseteq {"run", "notify"}
  BY <1>1
<1> HIDE DEF now
<1>4. /\ workerAt' \in [Workers -> {"lock", "wait", "run", "notify", "ended"}]
      /\ \A v \in Workers : workerAt'[v] = now[v] \/ (now[v] = "wait" /\ workerAt'[v] = "lock")
  BY <1>2, Woken
<1>5. \A v \in Workers : \/ workerAt'[v] = workerAt[v]
                         \/ {workerAt[v], workerAt'[v]} \subseteq {"lock", "wait"}
                         \/ {workerAt[v], workerAt'[v]} \subseteq {"run", "notify"}
  BY <1>3, <1>4
<1> QED BY <1>4, <1>5, MovesInv DEF TaskNotifies

LEMMA AddTaskNotifiesInv == PoolInv /\ AddTaskNotifies => PoolInv'
<1> SUFFICES ASSUME PoolInv, AddTaskNotifies PROVE PoolInv'
  OBVIOUS
<1>1. workerAt \in [Workers -> {"lock", "wait", "run", "notify", "ended"}] /\ NotifyOne(workerAt)
  BY DEF PoolInv, PoolTypeOK, AddTaskNotifies
<1>2. /\ workerAt' \in [Workers -> {"lock", "wait", "run", "notify", "ended"}]
      /\ \A v \in Workers : workerAt'[v] = workerAt[v] \/ (workerAt[v] = "wait" /\ workerAt'[v] = "lock")
  BY <1>1, Woken
<1>3. /\ owner = "notify" /\ owner' = "adding"
      /\ UNCHANGED <<tasks, stop, task, added, ran>>
  BY DEF AddTaskNotifies
<1>4. Queued' /\ \A u : Taken(u)' <=> Taken(u)
  BY <1>3, QueueStays
<1>5. PoolTypeOK'
  BY <1>2, <1>3 DEF PoolInv, PoolTypeOK
<1>6. Accounted'
  BY <1>3, <1>4 DEF PoolInv, Accounted
<1>7. Busy'
  BY <1>2, <1>3 DEF PoolInv, Busy
<1>8. \A w \in Workers : workerAt'[w] = "ended" <=> workerAt[w] = "ended"
  BY <1>2
<1>9. Drained'
  BY <1>3, <1>8 DEF PoolInv, Drained
<1> QED BY <1>4, <1>5, <1>6, <1>7, <1>9 DEF PoolInv

LEMMA StopInv == PoolInv /\ Stop => PoolInv'
<1> SUFFICES ASSUME PoolInv, Stop PROVE PoolInv'
  OBVIOUS
<1> USE DEF Stop
<1>1. Queued' /\ \A u : Taken(u)' <=> Taken(u)
  BY QueueStays
<1>2. PoolTypeOK' /\ Busy'
  BY DEF PoolInv, PoolTypeOK, Busy
<1>3. Accounted'
  BY <1>1 DEF PoolInv, Accounted
<1>4. Drained'
  BY DEF PoolInv, Drained
<1> QED BY <1>1, <1>2, <1>3, <1>4 DEF PoolInv

LEMMA NotifyAllInv == PoolInv /\ NotifyAll => PoolInv'
<1> SUFFICES ASSUME PoolInv, NotifyAll PROVE PoolInv'
  OBVIOUS
<1>1. workerAt \in [Workers -> {"lock", "wait", "run", "notify", "ended"}]
  BY DEF PoolInv, PoolTypeOK
<1>2. /\ workerAt' \in [Workers -> {"lock", "wait", "run", "notify", "ended"}]
      /\ \A v \in Workers : workerAt'[v] = workerAt[v] \/ (workerAt[v] = "wait" /\ workerAt'[v] = "lock")
  BY <1>1 DEF NotifyAll
<1>3. /\ owner = "notifyAll" /\ owner' = "join"
      /\ UNCHANGED <<tasks, stop, task, added, ran>>
  BY DEF NotifyAll
<1>4. Queued' /\ \A u : Taken(u)' <=> Taken(u)
  BY <1>3, QueueStays
<1>5. PoolTypeOK'
  BY <1>2, <1>3 DEF PoolInv, PoolTypeOK
<1>6. Accounted'
  BY <1>3, <1>4 DEF PoolInv, Accounted
<1>7. Busy'
  BY <1>2, <1>3 DEF PoolInv, Busy
<1>8. \A w \in Workers : workerAt'[w] = "ended" <=> workerAt[w] = "ended"
  BY <1>2
<1>9. Drained'
  BY <1>3, <1>8 DEF PoolInv, Drained
<1> QED BY <1>4, <1>5, <1>6, <1>7, <1>9 DEF PoolInv

LEMMA JoinWorkersInv == PoolInv /\ JoinWorkers => PoolInv'
<1> SUFFICES ASSUME PoolInv, JoinWorkers PROVE PoolInv'
  OBVIOUS
<1> USE DEF JoinWorkers
<1>1. Queued' /\ \A u : Taken(u)' <=> Taken(u)
  BY QueueStays
<1>2. PoolTypeOK' /\ Busy'
  BY DEF PoolInv, PoolTypeOK, Busy
<1>3. Accounted'
  BY <1>1 DEF PoolInv, Accounted
<1>4. Drained'
  BY DEF PoolInv, Drained
<1> QED BY <1>1, <1>2, <1>3, <1>4 DEF PoolInv

LEMMA WaitInv == ASSUME NEW w \in Workers PROVE PoolInv /\ (Wait(w) \/ SpuriousWakeup(w)) => PoolInv'
<1> SUFFICES ASSUME PoolInv, Wait(w) \/ SpuriousWakeup(w) PROVE PoolInv'
  OBVIOUS
<1>1. workerAt \in [Workers -> {"lock", "wait", "run", "notify", "ended"}]
  BY DEF PoolInv, PoolTypeOK
<1>2. /\ UNCHANGED <<tasks, stop, task, owner, added, ran>>
      /\ \E a \in {"lock", "wait"} : workerAt' = [workerAt EXCEPT ![w] = a]
      /\ workerAt[w] \in {"lock", "wait"}
  BY DEF Wait, SpuriousWakeup
<1> QED BY <1>1, <1>2, MovesInv

\* The last worker to end has found the queue empty, and only a running task or the
\* owner could have filled it since.
LEMMA LeaveInv == ASSUME NEW w \in Workers PROVE PoolInv /\ Leave(w) => PoolInv'
<1> SUFFICES ASSUME PoolInv, Leave(w) PROVE PoolInv'
  OBVIOUS
<1>1. workerAt \in [Workers -> {"lock", "wait", "run", "notify", "ended"}]
  BY DEF PoolInv, PoolTypeOK
<1>2. /\ workerAt[w] = "lock" /\ stop /\ tasks = <<>> /\ workerAt' = [workerAt EXCEPT ![w] = "ended"]
      /\ UNCHANGED <<tasks, stop, task, owner, added, ran>>
  BY DEF Leave
<1>3. Queued' /\ \A u : Taken(u)' <=> Taken(u)
  BY <1>2, QueueStays
<1>4. PoolTypeOK'
  BY <1>1, <1>2 DEF PoolInv, PoolTypeOK
<1>5. Accounted'
  BY <1>2, <1>3 DEF PoolInv, Accounted
<1>6. Busy'
  BY <1>1, <1>2 DEF PoolInv, Busy
<1>7. \A v \in Workers : workerAt[v] = "ended" => workerAt'[v] = "ended"
  BY <1>1, <1>2
<1>8. Drained'
  BY <1>2, <1>7 DEF PoolInv, Drained
<1> QED BY <1>3, <1>4, <1>5, <1>6, <1>8 DEF PoolInv

\* The oldest task of the queue, which no worker has had before, goes to one worker.
LEMMA TakeInv == ASSUME NEW w \in Workers PROVE PoolInv /\ Take(w) => PoolInv'
<1> SUFFICES ASSUME PoolInv, Take(w) PROVE PoolInv'
  OBVIOUS
<1> DEFINE t == Head(tasks)
<1>1. /\ tasks \in Seq(Tasks) /\ added \in Seq(Tasks) /\ tasks # <<>>
      /\ workerAt \in [Workers -> {"lock", "wait", "run", "notify", "ended"}]
      /\ task \in [Workers -> Tasks \cup {None}]
      /\ None \notin Tasks
  BY TaskAssumption DEF PoolInv, PoolTypeOK, Take
<1>2. /\ Len(tasks) \in Nat \ {0} /\ Len(added) \in Nat
      /\ DOMAIN tasks = 1 .. Len(tasks) /\ DOMAIN added = 1 .. Len(added)
  BY <1>1, LenProperties, EmptySeq
<1>3. /\ t \in Tasks /\ tasks' \in Seq(Tasks) /\ Len(tasks') = Len(tasks) - 1
      /\ \A i \in 1 .. Len(tasks) - 1 : tasks'[i] = tasks[i + 1]
      /\ t = tasks[1]
  BY <1>1, <1>2, HeadTailProperties DEF Take
<1>4. DOMAIN tasks' = 1 .. Len(tasks) - 1
  BY <1>3, LenProperties
<1>5. UNCHANGED <<stop, owner, added, ran>>
  BY DEF Take
<1>6. Gone \in Nat /\ Gone' = Gone + 1 /\ Gone' <= Len(added) /\ t = added[Gone + 1]
  <2>1. Len(tasks) <= Len(added) /\ tasks[1] = added[Gone + 1]
    BY <1>2 DEF PoolInv, Queued
  <2>2. Gone' = Len(added) - (Len(tasks) - 1)
    BY <1>3, <1>5 DEF Gone
  <2> HIDE DEF t
  <2> QED BY <1>2, <1>3, <2>1, <2>2 DEF Gone
<1>7. Queued'
  <2>1. Len(tasks') <= Len(added')
    BY <1>2, <1>3, <1>5 DEF PoolInv, Queued
  <2>2. ASSUME NEW i \in DOMAIN tasks' PROVE tasks'[i] = added'[Gone' + i]
    <3>1. i \in 1 .. Len(tasks) - 1 /\ i + 1 \in DOMAIN tasks
      BY <1>2, <1>4
    <3>2. tasks'[i] = tasks[i + 1] /\ tasks[i + 1] = added[Gone + (i + 1)]
      BY <1>3, <3>1 DEF PoolInv, Queued
    <3> QED BY <1>5, <1>6, <3>1, <3>2
  <2> QED BY <1>5, <2>1, <2>2 DEF PoolInv, Queued
<1>8. \A u : Taken(u)' <=> Taken(u) \/ u = t
  <2>1. \A i : i \in 1 .. Gone + 1 <=> i \in 1 .. Gone \/ i = Gone + 1
    BY <1>6
  <2> QED BY <1>5, <1>6, <2>1 DEF Taken
<1>9. ~Taken(t)
  <2>1. \A i \in 1 .. Gone : i \in DOMAIN added /\ i # Gone + 1
    BY <1>2, <1>6, <1>5
  <2>2. Gone + 1 \in DOMAIN added
    BY <1>2, <1>5, <1>6
  <2> QED BY <1>6, <2>1, <2>2 DEF Taken, PoolInv, Queued
<1>10. \A v \in Workers : task[v] # t
  BY <1>1, <1>3, <1>9 DEF PoolInv, Accounted
<1>11. task[w] = None
  BY DEF PoolInv, Busy, Take
<1> HIDE DEF t
<1>12. CASE t \in Empty
  <2>1. UNCHANGED <<workerAt, task>>
    BY <1>12 DEF Take, t
  <2>2. PoolTypeOK'
    BY <1>3, <1>5, <2>1 DEF PoolInv, PoolTypeOK
  <2>3. Accounted'
    BY <1>5, <1>8, <1>12, <2>1 DEF PoolInv, Accounted
  <2>4. Busy' /\ Drained'
    BY <1>1, <1>5, <2>1 DEF PoolInv, Busy, Drained, Take
  <2> QED BY <1>7, <2>2, <2>3, <2>4 DEF PoolInv
<1>13. CASE t \notin Empty
  <2>1. /\ workerAt[w] = "lock" /\ workerAt' = [workerAt EXCEPT ![w] = "run"] /\ task' = [task EXCEPT ![w] = t]
    BY <1>13 DEF Take, t
  <2>2. PoolTypeOK'
    BY <1>1, <1>3, <1>5, <2>1 DEF PoolInv, PoolTypeOK
  <2>3. Accounted'
    <3>1. \A v \in Workers : task'[v] = IF v = w THEN t ELSE task[v]
      BY <1>1, <2>1
    <3>2. \A v \in Workers : task'[v] # None =>
            (\E i \in 1 .. Gone' : added'[i] = task'[v]) /\ task'[v] \notin Empty
      <4>1. \A u : Taken(u) \/ u = t => \E i \in 1 .. Gone' : added'[i] = u
        BY <1>8 DEF Taken
      <4>2. \A v \in Workers : task[v] # None => Taken(task[v]) /\ task[v] \notin Empty
        BY DEF PoolInv, Accounted
      <4> QED BY <1>13, <3>1, <4>1, <4>2
    <3>3. \A v, x \in Workers : task'[v] = task'[x] /\ task'[v] # None => v = x
      BY <1>10, <3>1 DEF PoolInv, Accounted
    <3>4. \A u \in Tasks \ Empty :
            ran'[u] = IF Taken(u)' /\ \A v \in Workers : task'[v] # u THEN 1 ELSE 0
      <4> SUFFICES ASSUME NEW u \in Tasks \ Empty
                   PROVE  ran'[u] = IF Taken(u)' /\ \A v \in Workers : task'[v] # u
                                    THEN 1 ELSE 0
        OBVIOUS
      <4>1. ran[u] = IF Taken(u) /\ \A v \in Workers : task[v] # u THEN 1 ELSE 0
        BY DEF PoolInv, Accounted
      <4>2. CASE u = t
        BY <1>5, <1>9, <3>1, <4>1, <4>2
      <4>3. CASE u # t
        <5>1. Taken(u)' <=> Taken(u)
          BY <1>8, <4>3
        <5>2. \A v \in Workers : task'[v] # u <=> task[v] # u
          BY <1>1, <1>11, <3>1, <4>3
        <5> QED BY <1>5, <4>1, <5>1, <5>2
      <4> QED BY <4>2, <4>3
    <3> QED BY <3>2, <3>3, <3>4 DEF Accounted, Taken
  <2>4. Busy'
    BY <1>1, <1>3, <2>1 DEF PoolInv, Busy
  <2>5. Drained'
    BY <1>1, <1>5, <2>1 DEF PoolInv, Drained
  <2> QED BY <1>7, <2>2, <2>3, <2>4, <2>5 DEF PoolInv
<1> QED BY <1>12, <1>13

LEMMA ReturnInv == ASSUME NEW w \in Workers PROVE PoolInv /\ Return(w) => PoolInv'
<1> SUFFICES ASSUME PoolInv, Return(w) PROVE PoolInv'
  OBVIOUS
<1> DEFINE t == task[w]
<1>1. /\ workerAt \in [Workers -> {"lock", "wait", "run", "notify", "ended"}]
      /\ task \in [Workers -> Tasks \cup {None}] /\ ran \in [Tasks -> Nat]
      /\ None \notin Tasks
  BY TaskAssumption DEF PoolInv, PoolTypeOK
<1>2. /\ workerAt[w] = "run" /\ workerAt' = [workerAt EXCEPT ![w] = "lock"]
      /\ task' = [task EXCEPT ![w] = None]
      /\ ran' = [ran EXCEPT ![t] = @ + 1]
      /\ UNCHANGED <<tasks, stop, owner, added>>
  BY DEF Return
<1>3. t # None /\ t \in Tasks \ Empty /\ Taken(t)
  BY <1>1, <1>2 DEF PoolInv, Busy, Accounted
<1>4. Queued' /\ \A u : Taken(u)' <=> Taken(u)
  BY <1>2, QueueStays
<1>5. PoolTypeOK'
  BY <1>1, <1>2, <1>3 DEF PoolInv, PoolTypeOK
<1>6. Accounted'
  <2>1. \A v \in Workers : task'[v] = IF v = w THEN None ELSE task[v]
    BY <1>1, <1>2
  <2>2. \A v \in Workers : task'[v] # None =>
          (\E i \in 1 .. Gone' : added'[i] = task'[v]) /\ task'[v] \notin Empty
    <3>1. \A u : Taken(u) => \E i \in 1 .. Gone' : added'[i] = u
      BY <1>4 DEF Taken
    <3>2. \A v \in Workers : task[v] # None => Taken(task[v]) /\ task[v] \notin Empty
      BY DEF PoolInv, Accounted
    <3> QED BY <2>1, <3>1, <3>2
  <2>3. \A v, x \in Workers : task'[v] = task'[x] /\ task'[v] # None => v = x
    BY <2>1 DEF PoolInv, Accounted
  <2>4. \A u \in Tasks \ Empty :
          ran'[u] = IF Taken(u)' /\ \A v \in Workers : task'[v] # u THEN 1 ELSE 0
    <3> SUFFICES ASSUME NEW u \in Tasks \ Empty
                 PROVE  ran'[u] = IF Taken(u)' /\ \A v \in Workers : task'[v] # u
                                  THEN 1 ELSE 0
      OBVIOUS
    <3>1. ran[u] = IF Taken(u) /\ \A v \in Workers : task[v] # u THEN 1 ELSE 0
      BY DEF PoolInv, Accounted
    <3>2. CASE u = t
      <4>1. ran'[u] = 1
        BY <1>1, <1>2, <3>1, <3>2
      <4>2. \A v \in Workers : task'[v] # u
        BY <1>3, <2>1, <3>2 DEF PoolInv, Accounted
      <4> QED BY <1>3, <1>4, <3>2, <4>1, <4>2
    <3>3. CASE u # t
      <4>1. ran'[u] = ran[u]
        BY <1>1, <1>2, <3>3
      <4>2. \A v \in Workers : task'[v] # u <=> task[v] # u
        BY <1>1, <2>1, <3>3
      <4> QED BY <1>4, <3>1, <4>1, <4>2
    <3> QED BY <3>2, <3>3
  <2> QED BY <2>2, <2>3, <2>4 DEF Accounted, Taken
<1>7. Busy'
  BY <1>1, <1>2 DEF PoolInv, Busy
<1>8. Drained'
  BY <1>1, <1>2 DEF PoolInv, Drained
<1> QED BY <1>4, <1>5, <1>6, <1>7, <1>8 DEF PoolInv

LEMMA PoolNextInv == PoolInv /\ [PoolNext]_poolVars => PoolInv'
<1> SUFFICES ASSUME PoolInv, [PoolNext]_poolVars PROVE PoolInv'
  OBVIOUS
<1>1. CASE AddTask \/ AddTaskNotifies \/ Stop \/ NotifyAll \/ JoinWorkers
  BY <1>1, AddTaskInv, AddTaskNotifiesInv, StopInv, NotifyAllInv, JoinWorkersInv
<1>2. ASSUME NEW w \in Workers, Worker(w) \/ SpuriousWakeup(w) PROVE PoolInv'
  BY <1>2, WaitInv, LeaveInv, TakeInv, ReturnInv, TaskAddsInv, TaskNotifiesInv DEF Worker
<1>3. CASE UNCHANGED poolVars
  <2> USE <1>3 DEF poolVars
  <2>1. Queued' /\ \A u : Taken(u)' <=> Taken(u)
    BY QueueStays
  <2>2. PoolTypeOK' /\ Busy' /\ Drained'
    BY DEF PoolInv, PoolTypeOK, Busy, Drained
  <2>3. Accounted'
    BY <2>1 DEF PoolInv, Accounted
  <2> QED BY <2>1, <2>2, <2>3 DEF PoolInv
<1> QED BY <1>1, <1>2, <1>3 DEF PoolNext

LEMMA PoolInvariance == PoolSpec => []PoolInv
BY PoolInitInv, PoolNextInv, PTL DEF PoolSpec

\* Type correctness of the pool.
THEOREM PoolTypeCorrect == PoolSpec => []PoolTypeOK
<1>1. PoolInv => PoolTypeOK
  BY DEF PoolInv
<1> QED BY <1>1, PoolInvariance, PTL

LEMMA QueuedIsSuffix == PoolInv => IsSuffix(tasks, added)
<1> SUFFICES ASSUME PoolInv PROVE IsSuffix(tasks, added)
  OBVIOUS
<1>1. /\ tasks \in Seq(Tasks) /\ added \in Seq(Tasks) /\ Len(tasks) <= Len(added)
      /\ \A i \in DOMAIN tasks : tasks[i] = added[Len(added) - Len(tasks) + i]
  BY DEF PoolInv, PoolTypeOK, Queued, Gone
<1>2. DOMAIN tasks = 1 .. Len(tasks)
  BY <1>1, LenProperties
<1> QED BY <1>1, <1>2, SuffixIs

\* A task is at one place: with one worker, once in the queue, or run once.
LEMMA OnePlace ==
  ASSUME PoolInv, NEW t \in Tasks \ Empty
  PROVE  ran[t] + Cardinality({w \in Workers : task[w] = t})
                + Cardinality({i \in DOMAIN tasks : tasks[i] = t})
           = IF t \in ToSet(added) THEN 1 ELSE 0
<1> DEFINE W == {w \in Workers : task[w] = t}  I == {i \in DOMAIN tasks : tasks[i] = t}
<1>1. /\ Len(tasks) \in Nat /\ Len(added) \in Nat /\ Len(tasks) <= Len(added)
      /\ DOMAIN tasks = 1 .. Len(tasks) /\ DOMAIN added = 1 .. Len(added)
      /\ \A i \in DOMAIN tasks : tasks[i] = added[Gone + i]
      /\ \A i, j \in DOMAIN added : added[i] = added[j] => i = j
      /\ Gone = Len(added) - Len(tasks)
  BY LenProperties DEF PoolInv, PoolTypeOK, Queued, Gone
<1>2. /\ t # None
      /\ \A w \in Workers : task[w] = t => Taken(t)
      /\ \A v, w \in Workers : task[v] = t /\ task[w] = t => v = w
      /\ ran[t] = IF Taken(t) /\ \A w \in Workers : task[w] # t THEN 1 ELSE 0
  BY TaskAssumption DEF PoolInv, Accounted
<1>3. \A i \in DOMAIN tasks : Gone + i \in DOMAIN added /\ Gone + i \notin 1 .. Gone
  BY <1>1
<1>4. \A i \in DOMAIN tasks : tasks[i] = t => ~Taken(t)
  <2> SUFFICES ASSUME NEW i \in DOMAIN tasks, tasks[i] = t, Taken(t) PROVE FALSE
    OBVIOUS
  <2>1. PICK j \in 1 .. Gone : added[j] = t
    BY DEF Taken
  <2>2. j \in DOMAIN added
    BY <1>1
  <2> QED BY <1>1, <1>3, <2>1, <2>2
<1>5. \A i, j \in DOMAIN tasks : tasks[i] = t /\ tasks[j] = t => i = j
  <2> SUFFICES ASSUME NEW i \in DOMAIN tasks, NEW j \in DOMAIN tasks, tasks[i] = t, tasks[j] = t
               PROVE  i = j
    OBVIOUS
  <2>1. Gone + i = Gone + j
    BY <1>1, <1>3
  <2> QED BY <1>1, <2>1
<1>6. t \in ToSet(added) <=> Taken(t) \/ \E i \in DOMAIN tasks : tasks[i] = t
  <2>1. ASSUME t \in ToSet(added) PROVE Taken(t) \/ \E i \in DOMAIN tasks : tasks[i] = t
    <3>1. PICK k \in DOMAIN added : added[k] = t
      BY <2>1 DEF ToSet
    <3>2. CASE k <= Gone
      BY <1>1, <3>1, <3>2 DEF Taken
    <3>3. CASE k > Gone
      <4>1. k - Gone \in DOMAIN tasks /\ Gone + (k - Gone) = k
        BY <1>1, <3>3
      <4> QED BY <1>1, <3>1, <4>1
    <3> QED BY <1>1, <3>2, <3>3
  <2>2. ASSUME Taken(t) PROVE t \in ToSet(added)
    <3>1. PICK k \in 1 .. Gone : added[k] = t
      BY <2>2 DEF Taken
    <3>2. k \in DOMAIN added
      BY <1>1
    <3> QED BY <3>1, <3>2 DEF ToSet
  <2>3. ASSUME NEW i \in DOMAIN tasks, tasks[i] = t PROVE t \in ToSet(added)
    BY <1>1, <1>3, <2>3 DEF ToSet
  <2> QED BY <2>1, <2>2, <2>3
<1>7. W = {} \/ \E w : W = {w}
  BY <1>2
<1>8. I = {} \/ \E i : I = {i}
  BY <1>5
<1>9. Cardinality(W) = IF W = {} THEN 0 ELSE 1
  BY <1>7, FS_EmptySet, FS_Singleton, ZenonT(20)
<1>10. Cardinality(I) = IF I = {} THEN 0 ELSE 1
  BY <1>8, FS_EmptySet, FS_Singleton, ZenonT(20)
<1>11. W # {} => ran[t] = 0 /\ I = {} /\ t \in ToSet(added)
  BY <1>2, <1>4, <1>6
<1>12. I # {} => ran[t] = 0 /\ W = {} /\ t \in ToSet(added)
  BY <1>2, <1>4, <1>6
<1>13. W = {} /\ I = {} => ran[t] = IF t \in ToSet(added) THEN 1 ELSE 0
  BY <1>2, <1>6
<1> HIDE DEF W, I
<1>14. ran[t] + Cardinality(W) + Cardinality(I) = IF t \in ToSet(added) THEN 1 ELSE 0
  BY <1>9, <1>10, <1>11, <1>12, <1>13
<1> QED BY <1>14 DEF W, I

\* When every worker has ended, nothing is queued or under way.
LEMMA AllRun ==
  ASSUME PoolInv, owner = "done", NEW t \in ToSet(added) \ Empty
  PROVE  ran[t] = 1
<1>1. t \in Tasks \ Empty
  BY ElementOfSeq, LenProperties DEF PoolInv, PoolTypeOK, ToSet
<1>2. tasks = <<>> /\ \A w \in Workers : task[w] = None
  BY DEF PoolInv, Drained, Busy
<1>3. PICK k \in DOMAIN added : added[k] = t
  BY DEF ToSet
<1>4. k \in 1 .. Gone
  BY <1>2, LenProperties, EmptySeq DEF PoolInv, PoolTypeOK, Gone
<1>5. Taken(t)
  BY <1>3, <1>4 DEF Taken
<1> QED BY <1>1, <1>2, <1>5, TaskAssumption DEF PoolInv, Accounted

\* For any workers and tasks, whoever adds them: no task is lost or run twice,
\* and when the destructor returns all have been run.
THEOREM TasksRunOnce == PoolSpec => []RunsOnce
<1>1. PoolInv => RunsOnce
  <2> SUFFICES ASSUME PoolInv PROVE RunsOnce
    OBVIOUS
  <2>1. PoolTypeOK
    BY DEF PoolInv
  <2>2. IsSuffix(tasks, added)
    BY QueuedIsSuffix
  <2>3. \A t \in Tasks \ Empty :
          ran[t] + Cardinality({w \in Workers : task[w] = t})
                 + Cardinality({i \in DOMAIN tasks : tasks[i] = t})
            = IF t \in ToSet(added) THEN 1 ELSE 0
    BY OnePlace
  <2>4. owner = "done" => \A t \in ToSet(added) \ Empty : ran[t] = 1
    BY AllRun
  <2> QED BY <2>1, <2>2, <2>3, <2>4 DEF RunsOnce
<1> QED BY <1>1, PoolInvariance, PTL

-----------------------------------------------------------------------------
(* AsyncLogger.                                                            *)

\* What is still to reach the console, in the order in which it would.
Coming ==
  CASE stopping \in {"delete", "done"}      -> <<>>
    [] writer.at = "write"                  -> writer.left \o current
    [] writer.at \in {"recycle", "clear"}   -> current
    [] OTHER                                -> FlattenSeq(flush) \o current

Stream == console \o Coming

\* The lines of each thread are in the order of their numbers,
InOrder(s) == \A i, j \in DOMAIN s : i < j /\ s[i][1] = s[j][1] => s[i][2] < s[j][2]

\* and each of them has been logged.
Said(s) == \A i \in DOMAIN s : s[i][2] <= logged[s[i][1]]

\* Stop lets the writer end first; a thread inside Append has a line to log.
Stages ==
  /\ stopping \in {"flush", "delete", "done"} => writer.at = "done"
  /\ instance = "none" <=> stopping = "done"
  /\ writer.at # "write" => writer.left = <<>>
  /\ \A t \in Threads : thread[t] => logged[t] < MaxLines

\* Unless a buffer was pushed under the writer's feet, nothing pushed is missing, and
\* the writer's lines are still in flushBuffers_.
NoneMissing ==
  ~raced => /\ pushed \subseteq Range(Stream)
            /\ Range(writer.left) \subseteq Range(FlattenSeq(flush))

\* The log files from the oldest to the current one.
AllFiles == FlattenSeq(Reverse(files))

\* A file that has been rotated is full, unless there never was one at its place;
\* what the files no longer have was unlinked when all places were taken.
FilesFull ==
  /\ \A i \in 2 .. MaxFiles : files[i] # <<>> => Len(files[i]) >= MaxFileSize
  /\ \A i, j \in 2 .. MaxFiles : i < j /\ files[i] = <<>> => files[j] = <<>>

FilesKept ==
  \E lost \in Seq(Lines) :
    /\ inFile = lost \o AllFiles
    /\ lost # <<>> => \A i \in 2 .. MaxFiles : files[i] # <<>>

SizeRight == isOpen /\ stopping \notin {"delete", "done"} => size = Len(files[1])

FilesInv == FilesFull /\ FilesKept /\ SizeRight

\* Appending a line of the right number, and cutting at the end, keep the order.
LEMMA OrderAppend ==
  ASSUME LogTypeOK, NEW s \in Seq(Lines), InOrder(s), Said(s), NEW t \in Threads,
         Line(t) \in Lines
  PROVE  /\ InOrder(Append(s, Line(t)))
         /\ \A i \in DOMAIN Append(s, Line(t)) :
              Append(s, Line(t))[i][2] <= [logged EXCEPT ![t] = @ + 1][Append(s, Line(t))[i][1]]
<1> DEFINE x == Line(t)  u == Append(s, x)  n == Len(s)  now == [logged EXCEPT ![t] = @ + 1]
<1>1. /\ n \in Nat /\ DOMAIN s = 1 .. n /\ DOMAIN u = 1 .. n + 1
      /\ \A i \in 1 .. n : u[i] = s[i] /\ s[i] \in Lines
      /\ u[n + 1] = x
  BY LenProperties, AppendProperties, ElementOfSeq
<1>2. /\ x[1] = t /\ x[2] = logged[t] + 1
      /\ logged \in [Threads -> Nat]
      /\ \A y \in Lines : y[1] \in Threads /\ y[2] \in Nat
  <2>1. MaxLines \in Nat /\ logged \in [Threads -> 0 .. MaxLines]
    BY BoundAssumption DEF LogTypeOK
  <2>2. logged \in [Threads -> Nat]
    BY <2>1
  <2>3. \A y \in Lines : y[1] \in Threads /\ y[2] \in Nat
    BY <2>1 DEF Lines
  <2> QED BY <2>2, <2>3 DEF Line
<1>3. /\ \A y \in Threads : now[y] \in Nat /\ now[y] >= logged[y]
      /\ now[t] = logged[t] + 1
  BY <1>2
<1> HIDE DEF x, u, n, now
<1>4. \A i \in 1 .. n : s[i][2] <= logged[s[i][1]] /\ s[i][1] \in Threads /\ s[i][2] \in Nat
  BY <1>1, <1>2 DEF Said
<1>5. ASSUME NEW i \in DOMAIN u, NEW j \in DOMAIN u, i < j, u[i][1] = u[j][1]
      PROVE  u[i][2] < u[j][2]
  <2>1. i \in 1 .. n
    BY <1>1, <1>5
  <2>2. CASE j \in 1 .. n
    BY <1>1, <1>5, <2>1, <2>2 DEF InOrder
  <2>3. CASE j = n + 1
    BY <1>1, <1>2, <1>4, <1>5, <2>1, <2>3
  <2> QED BY <1>1, <2>2, <2>3
<1>6. ASSUME NEW i \in DOMAIN u PROVE u[i][2] <= now[u[i][1]]
  <2>1. CASE i \in 1 .. n
    BY <1>1, <1>2, <1>3, <1>4, <2>1
  <2>2. CASE i = n + 1
    BY <1>1, <1>2, <1>3, <2>2
  <2> QED BY <1>1, <2>1, <2>2
<1>7. InOrder(u)
  BY <1>5 DEF InOrder
<1> QED BY <1>6, <1>7 DEF x, u, now

LEMMA OrderPrefix ==
  ASSUME NEW s \in Seq(Lines), NEW u \in Seq(Lines), InOrder(s \o u), Said(s \o u)
  PROVE  InOrder(s) /\ Said(s)
<1>1. /\ Len(s) \in Nat /\ Len(u) \in Nat /\ DOMAIN s = 1 .. Len(s)
      /\ DOMAIN (s \o u) = 1 .. Len(s) + Len(u)
      /\ \A i \in DOMAIN s : i \in DOMAIN (s \o u) /\ (s \o u)[i] = s[i]
  BY LenProperties, ConcatProperties
<1> QED BY <1>1 DEF InOrder, Said

\* Lines that are next to come have their place in the stream.
LEMMA ComingType ==
  ASSUME LogTypeOK
  PROVE  /\ FlattenSeq(flush) \in Seq(Lines) /\ Coming \in Seq(Lines) /\ Stream \in Seq(Lines)
         /\ console \in Seq(Lines) /\ current \in Seq(Lines) /\ writer.left \in Seq(Lines)
<1>1. /\ flush \in Seq(Seq(Lines)) /\ writer.left \in Seq(Lines) /\ current \in Seq(Lines)
      /\ console \in Seq(Lines)
  BY DEF LogTypeOK
<1>2. FlattenSeq(flush) \in Seq(Lines)
  BY <1>1, FlattenType
<1>3. /\ writer.left \o current \in Seq(Lines)
      /\ FlattenSeq(flush) \o current \in Seq(Lines)
      /\ <<>> \in Seq(Lines)
  BY <1>1, <1>2, ConcatProperties, EmptySeq
<1>4. Coming \in Seq(Lines)
  BY <1>1, <1>3 DEF Coming
<1> QED BY <1>1, <1>2, <1>4, ConcatProperties DEF Stream

-----------------------------------------------------------------------------
(* Types and stages.                                                       *)

LEMMA LogConstants ==
  /\ MaxLines \in Nat \ {0} /\ BufferThreshold \in Nat \ {0} /\ MaxFileSize \in Nat \ {0}
  /\ MaxFiles \in Nat \ {0, 1} /\ MaxRestarts \in Nat
  /\ 1 \in 1 .. MaxFiles
BY BoundAssumption

\* The line a thread is about to log.
LEMMA LineType ==
  ASSUME LogTypeOK, NEW t \in Threads, logged[t] < MaxLines
  PROVE  /\ Line(t) \in Lines
         /\ [logged EXCEPT ![t] = @ + 1] \in [Threads -> 0 .. MaxLines]
<1>1. MaxLines \in Nat /\ logged \in [Threads -> 0 .. MaxLines]
  BY LogConstants DEF LogTypeOK
<1>2. logged[t] + 1 \in 1 .. MaxLines /\ logged[t] + 1 \in 0 .. MaxLines
  BY <1>1
<1> QED BY <1>1, <1>2 DEF Line, Lines

\* The files after a line, or a rotation.
LEMMA RotatedType ==
  ASSUME NEW fs \in [1 .. MaxFiles -> Seq(Lines)]
  PROVE  /\ Rotated(fs) \in [1 .. MaxFiles -> Seq(Lines)]
         /\ Rotated(fs)[1] = <<>> /\ OpenedSize(Rotated(fs)) = 0
         /\ \A i \in 2 .. MaxFiles : Rotated(fs)[i] = fs[i - 1]
<1>1. \A i \in 1 .. MaxFiles : i # 1 => i - 1 \in 1 .. MaxFiles
  BY LogConstants
<1>2. \A i \in 2 .. MaxFiles : i \in 1 .. MaxFiles /\ i # 1
  BY LogConstants
<1> QED BY <1>1, <1>2, LogConstants, EmptySeq DEF Rotated, OpenedSize

LEMMA WriteToFileType ==
  ASSUME LogTypeOK, NEW x \in Lines, WriteToFile(x)
  PROVE  /\ files' \in [1 .. MaxFiles -> Seq(Lines)] /\ inFile' \in Seq(Lines)
         /\ isOpen' \in BOOLEAN /\ size' \in Nat /\ synced' \in Nat
<1>1. /\ files \in [1 .. MaxFiles -> Seq(Lines)] /\ inFile \in Seq(Lines)
      /\ isOpen \in BOOLEAN /\ size \in Nat /\ synced \in Nat
  BY DEF LogTypeOK
<1>2. CASE ~isOpen
  BY <1>1, <1>2 DEF WriteToFile, fileVars
<1>3. CASE isOpen
  <2> DEFINE fs == [files EXCEPT ![1] = Append(@, x)]
  <2>1. Append(files[1], x) \in Seq(Lines) /\ Append(inFile, x) \in Seq(Lines)
    BY <1>1, LogConstants, AppendProperties
  <2>2. fs \in [1 .. MaxFiles -> Seq(Lines)]
    BY <1>1, <2>1
  <2>3. Rotated(fs) \in [1 .. MaxFiles -> Seq(Lines)] /\ OpenedSize(Rotated(fs)) = 0
    BY <2>2, RotatedType
  <2>4. /\ inFile' = Append(inFile, x)
        /\ IF size + 1 >= MaxFileSize
           THEN /\ files' = Rotated(fs) /\ isOpen' \in BOOLEAN
                /\ size' = (IF isOpen' THEN OpenedSize(files') ELSE size + 1)
                /\ synced' = 0
           ELSE files' = fs /\ size' = size + 1 /\ UNCHANGED <<isOpen, synced>>
    BY <1>3 DEF WriteToFile
  <2> HIDE DEF fs
  <2>5. CASE size + 1 >= MaxFileSize
    BY <1>1, <2>1, <2>3, <2>4, <2>5
  <2>6. CASE ~(size + 1 >= MaxFileSize)
    BY <1>1, <2>1, <2>2, <2>4, <2>6
  <2> QED BY <2>5, <2>6
<1> QED BY <1>2, <1>3

LEMMA LogInitTypes == LogInit => LogTypeOK /\ Stages
<1> SUFFICES ASSUME LogInit PROVE LogTypeOK /\ Stages
  OBVIOUS
<1>1. <<>> \in Seq(Lines) /\ <<>> \in Seq(Seq(Lines)) /\ Len(<<>>) = 0
  BY EmptySeq
<1>2. writer.at = "loop" /\ writer.left = <<>>
  BY DEF LogInit, Idle
<1>3. LogTypeOK
  <2>1. /\ writer \in [at : {"loop", "wait", "write", "recycle", "clear", "done"}, left : Seq(Lines)]
        /\ thread \in [Threads -> BOOLEAN] /\ logged \in [Threads -> 0 .. MaxLines]
        /\ files \in [1 .. MaxFiles -> Seq(Lines)]
        /\ current \in Seq(Lines) /\ Len(current) < BufferThreshold
    BY <1>1, LogConstants DEF LogInit, Idle
  <2>2. /\ instance = "up" /\ flush = <<>> /\ running = TRUE /\ stopping = "no" /\ console = <<>>
        /\ isOpen \in BOOLEAN /\ size = 0 /\ synced = 0 /\ inFile = <<>> /\ pushed = {}
        /\ raced = FALSE /\ undefined = FALSE /\ restarts = 0
    BY DEF LogInit
  <2>3. flush \in Seq(Seq(Lines)) /\ console \in Seq(Lines) /\ inFile \in Seq(Lines)
    BY <1>1, <2>2
  <2>4. size \in Nat /\ synced \in Nat /\ restarts \in 0 .. MaxRestarts /\ pushed \subseteq Lines
    BY <2>2, LogConstants
  <2>5. instance \in {"up", "none"} /\ stopping \in {"no", "join", "flush", "delete", "done"}
    BY <2>2
  <2>6. running \in BOOLEAN /\ isOpen \in BOOLEAN /\ raced \in BOOLEAN /\ undefined \in BOOLEAN
    BY <2>2
  <2> QED BY <2>1, <2>3, <2>4, <2>5, <2>6 DEF LogTypeOK
<1>4. Stages
  BY <1>2, LogConstants DEF LogInit, Stages
<1> QED BY <1>3, <1>4

\* Append, by a thread.
LEMMA AppendTypes ==
  ASSUME LogTypeOK, Stages, NEW t \in Threads,
         AppendSync(t) \/ EnterAppend(t) \/ PushLine(t)
  PROVE  LogTypeOK' /\ Stages'
<1>1. CASE AppendSync(t)
  <2>1. Line(t) \in Lines /\ logged' \in [Threads -> 0 .. MaxLines]
    BY <1>1, LineType DEF AppendSync
  <2>2. console' \in Seq(Lines)
    BY <1>1, <2>1, AppendProperties DEF AppendSync, LogTypeOK
  <2>3. LogTypeOK'
    BY <1>1, <2>1, <2>2 DEF AppendSync, LogTypeOK, bufferVars, fileVars, history
  <2>4. \A y \in Threads : y # t => logged'[y] = logged[y]
    BY <1>1 DEF AppendSync, LogTypeOK
  <2>5. Stages'
    BY <1>1, <2>4 DEF AppendSync, Stages
  <2> QED BY <2>3, <2>5
<1>2. CASE EnterAppend(t)
  <2>1. thread' \in [Threads -> BOOLEAN] /\ \A y \in Threads : y # t => thread'[y] = thread[y]
    BY <1>2 DEF EnterAppend, LogTypeOK
  <2>2. LogTypeOK'
    BY <1>2, <2>1 DEF EnterAppend, LogTypeOK, bufferVars, fileVars, history
  <2>3. Stages'
    BY <1>2, <2>1 DEF EnterAppend, Stages
  <2> QED BY <2>2, <2>3
<1>3. CASE PushLine(t)
  <2>1. logged[t] < MaxLines
    BY <1>3 DEF PushLine, Stages
  <2>2. Line(t) \in Lines /\ logged' \in [Threads -> 0 .. MaxLines]
    BY <1>3, <2>1, LineType DEF PushLine
  <2>3. /\ Append(current, Line(t)) \in Seq(Lines)
        /\ Len(Append(current, Line(t))) = Len(current) + 1
        /\ flush \in Seq(Seq(Lines))
    BY <2>2, AppendProperties DEF LogTypeOK
  <2>4. Append(flush, Append(current, Line(t))) \in Seq(Seq(Lines))
    BY <2>3, AppendProperties
  <2>5. current' \in Seq(Lines) /\ Len(current') < BufferThreshold /\ flush' \in Seq(Seq(Lines))
    <3>1. CASE Fills
      <4>1. current' = <<>> /\ flush' = Append(flush, Append(current, Line(t)))
        BY <1>3, <3>1 DEF PushLine
      <4>2. <<>> \in Seq(Lines) /\ Len(<<>>) = 0
        BY EmptySeq
      <4> QED BY <2>4, <4>1, <4>2, LogConstants
    <3>2. CASE ~Fills
      <4>1. current' = Append(current, Line(t)) /\ flush' = flush
        BY <1>3, <3>2 DEF PushLine
      <4>2. Len(current) \in Nat
        BY LenProperties DEF LogTypeOK
      <4> QED BY <2>3, <3>2, <4>1, <4>2, LogConstants DEF Fills
    <3> QED BY <3>1, <3>2
  <2>6. /\ thread' \in [Threads -> BOOLEAN] /\ ~thread'[t]
        /\ \A y \in Threads : y # t => thread'[y] = thread[y] /\ logged'[y] = logged[y]
    BY <1>3 DEF PushLine, LogTypeOK
  <2>7. pushed' \subseteq Lines /\ raced' \in BOOLEAN
    BY <1>3, <2>2 DEF PushLine, LogTypeOK
  <2>8. UNCHANGED <<instance, running, writer, stopping, console, files, isOpen, size, synced,
                    inFile, undefined, restarts>>
    BY <1>3 DEF PushLine, fileVars
  <2>9. LogTypeOK'
    BY <2>2, <2>5, <2>6, <2>7, <2>8 DEF LogTypeOK
  <2>10. Stages'
    BY <2>6, <2>8 DEF Stages
  <2> QED BY <2>9, <2>10
<1> QED BY <1>1, <1>2, <1>3

LEMMA WriterTypes ==
  ASSUME LogTypeOK, Stages, WriterStep
  PROVE  LogTypeOK' /\ Stages'
<1>1. CASE CheckRunning
  <2> USE <1>1 DEF CheckRunning, WriterAt
  <2>1. writer' \in [at : {"wait", "done"}, left : Seq(Lines)] /\ writer'.left = writer.left
    BY DEF LogTypeOK
  <2>2. LogTypeOK'
    BY <2>1 DEF LogTypeOK, bufferVars, fileVars, history
  <2>3. Stages'
    BY <2>1 DEF Stages, LogTypeOK
  <2> QED BY <2>2, <2>3
<1>2. CASE TakeBuffers
  <2> DEFINE taken == IF current = <<>> THEN flush ELSE Append(flush, current)
  <2>1. /\ flush \in Seq(Seq(Lines)) /\ current \in Seq(Lines) /\ writer.at = "wait"
    BY <1>2 DEF LogTypeOK, TakeBuffers, WriterAt
  <2>2. taken \in Seq(Seq(Lines)) /\ FlattenSeq(taken) \in Seq(Lines)
    <3>1. taken \in Seq(Seq(Lines))
      BY <2>1, AppendProperties
    <3> HIDE DEF taken
    <3> QED BY <3>1, FlattenType
  <2>3. /\ UNCHANGED <<instance, running, stopping, thread, logged, console, files, isOpen, size,
                       synced, inFile, pushed, raced, undefined, restarts>>
        /\ \/ writer' = Idle /\ UNCHANGED <<current, flush>>
           \/ /\ flush' = taken /\ current' = <<>>
              /\ writer' = [at |-> "write", left |-> FlattenSeq(taken)]
    BY <1>2 DEF TakeBuffers, bufferVars, fileVars, history
  <2> HIDE DEF taken
  <2>4. Idle.at = "loop" /\ Idle.left = <<>> /\ Idle \in [at : {"loop"}, left : Seq(Lines)]
    BY EmptySeq DEF Idle
  <2>5. /\ writer' \in [at : {"loop", "write"}, left : Seq(Lines)]
        /\ writer'.at # "write" => writer'.left = <<>>
        /\ flush' \in Seq(Seq(Lines)) /\ current' \in Seq(Lines) /\ Len(current') < BufferThreshold
    BY <2>2, <2>3, <2>4, EmptySeq, LogConstants DEF LogTypeOK
  <2>6. LogTypeOK'
    BY <2>3, <2>5 DEF LogTypeOK
  <2>7. Stages'
    BY <2>1, <2>3, <2>5 DEF Stages
  <2> QED BY <2>6, <2>7
<1>3. CASE WriteLine
  <2>1. /\ writer.at = "write" /\ writer.left # <<>> /\ writer.left \in Seq(Lines)
        /\ console \in Seq(Lines)
    BY <1>3 DEF WriteLine, WriterAt, LogTypeOK
  <2>2. Head(writer.left) \in Lines /\ Tail(writer.left) \in Seq(Lines)
    BY <2>1, HeadTailProperties
  <2>3. /\ console' = Append(console, Head(writer.left)) /\ WriteToFile(Head(writer.left))
        /\ writer' = [writer EXCEPT !.left = Tail(@)]
        /\ UNCHANGED <<instance, current, flush, running, stopping, thread, logged, pushed, raced,
                       undefined, restarts>>
    BY <1>3 DEF WriteLine, bufferVars, history
  <2>4. console' \in Seq(Lines)
    BY <2>1, <2>2, <2>3, AppendProperties
  <2>5. /\ files' \in [1 .. MaxFiles -> Seq(Lines)] /\ inFile' \in Seq(Lines)
        /\ isOpen' \in BOOLEAN /\ size' \in Nat /\ synced' \in Nat
    BY <2>2, <2>3, WriteToFileType
  <2>6. writer' \in [at : {"write"}, left : Seq(Lines)]
    BY <2>1, <2>2, <2>3 DEF LogTypeOK
  <2>7. LogTypeOK'
    BY <2>3, <2>4, <2>5, <2>6 DEF LogTypeOK
  <2>8. Stages'
    BY <2>1, <2>3, <2>6 DEF Stages
  <2> QED BY <2>7, <2>8
<1>4. CASE FlushFile
  <2>1. writer.at = "write" /\ writer.left = <<>>
    BY <1>4 DEF FlushFile, WriterAt
  <2>2. synced' \in Nat
    <3>1. files[1] \in Seq(Lines) /\ synced \in Nat
      BY LogConstants DEF LogTypeOK
    <3> QED BY <1>4, <3>1, LenProperties DEF FlushFile
  <2>3. writer' \in [at : {"recycle"}, left : Seq(Lines)] /\ writer'.left = <<>>
    BY <1>4, <2>1 DEF FlushFile, LogTypeOK
  <2>4. LogTypeOK'
    BY <1>4, <2>2, <2>3 DEF FlushFile, LogTypeOK, bufferVars, fileVars, history
  <2>5. Stages'
    BY <1>4, <2>1, <2>3 DEF FlushFile, Stages
  <2> QED BY <2>4, <2>5
<1>5. CASE Recycle
  <2>1. writer.at = "recycle"
    BY <1>5 DEF Recycle, WriterAt
  <2>2. flush' \in Seq(Seq(Lines))
    <3>1. flush \in Seq(Seq(Lines)) /\ <<>> \in Seq(Lines) /\ Len(flush) \in Nat
          /\ flush \in [1 .. Len(flush) -> Seq(Lines)]
      BY EmptySeq, LenProperties DEF LogTypeOK
    <3>2. flush' \in [1 .. Len(flush) -> Seq(Lines)]
      BY <1>5, <3>1 DEF Recycle
    <3> QED BY <3>1, <3>2, FunctionIsSeq
  <2>3. writer' \in [at : {"clear"}, left : Seq(Lines)] /\ writer'.left = writer.left
    BY <1>5 DEF Recycle, LogTypeOK
  <2>4. LogTypeOK'
    BY <1>5, <2>2, <2>3 DEF Recycle, LogTypeOK, fileVars, history
  <2>5. Stages'
    BY <1>5, <2>1, <2>3 DEF Recycle, Stages
  <2> QED BY <2>4, <2>5
<1>6. CASE Clear
  <2>1. writer.at = "clear" /\ writer' = Idle
    BY <1>6 DEF Clear, WriterAt
  <2>2. Idle.at = "loop" /\ Idle.left = <<>> /\ Idle \in [at : {"loop"}, left : Seq(Lines)]
    BY EmptySeq DEF Idle
  <2>3. LogTypeOK'
    BY <1>6, <2>1, <2>2, EmptySeq DEF Clear, LogTypeOK, fileVars, history
  <2>4. Stages'
    BY <1>6, <2>1, <2>2 DEF Clear, Stages
  <2> QED BY <2>3, <2>4
<1> QED BY <1>1, <1>2, <1>3, <1>4, <1>5, <1>6 DEF WriterStep

LEMMA StopTypes ==
  ASSUME LogTypeOK, Stages, StopRunning \/ StopStep
  PROVE  LogTypeOK' /\ Stages'
<1>1. CASE StopRunning
  BY <1>1 DEF StopRunning, LogTypeOK, Stages, bufferVars, fileVars, history
<1>2. CASE Join
  BY <1>2 DEF Join, LogTypeOK, Stages, bufferVars, fileVars, history
<1>3. CASE StopFlush
  <2> DEFINE rest == FlattenSeq(flush) \o current
  <2>1. rest \in Seq(Lines) /\ console \in Seq(Lines)
    BY ComingType, ConcatProperties
  <2>2. /\ stopping = "flush" /\ stopping' = "delete" /\ console' = console \o rest
        /\ UNCHANGED <<instance, current, flush, running, writer, thread, logged, pushed, raced,
                       undefined, restarts>>
        /\ IF ~isOpen THEN UNCHANGED <<files, isOpen, size, synced, inFile>>
           ELSE /\ files' = [files EXCEPT ![1] = @ \o rest] /\ inFile' = inFile \o rest
                /\ synced' = Len(files'[1]) /\ UNCHANGED <<isOpen, size>>
    BY <1>3 DEF StopFlush, WriteRest, bufferVars, fileVars, history
  <2> HIDE DEF rest
  <2>3. console' \in Seq(Lines)
    BY <2>1, <2>2, ConcatProperties
  <2>4. /\ files' \in [1 .. MaxFiles -> Seq(Lines)] /\ inFile' \in Seq(Lines) /\ synced' \in Nat
        /\ isOpen' \in BOOLEAN /\ size' \in Nat
    <3>1. /\ files \in [1 .. MaxFiles -> Seq(Lines)] /\ inFile \in Seq(Lines)
          /\ isOpen \in BOOLEAN /\ size \in Nat /\ synced \in Nat
      BY DEF LogTypeOK
    <3>2. files[1] \o rest \in Seq(Lines) /\ inFile \o rest \in Seq(Lines)
      BY <2>1, <3>1, LogConstants, ConcatProperties
    <3>3. Len(files[1] \o rest) \in Nat
      BY <3>2, LenProperties
    <3> QED BY <2>2, <3>1, <3>2, <3>3, LogConstants
  <2>5. LogTypeOK'
    BY <2>2, <2>3, <2>4 DEF LogTypeOK
  <2>6. Stages'
    BY <2>2 DEF Stages
  <2> QED BY <2>5, <2>6
<1>4. CASE StopDelete
  <2>1. LogTypeOK'
    BY <1>4, EmptySeq, LogConstants DEF StopDelete, LogTypeOK, fileVars, history
  <2>2. Stages'
    BY <1>4 DEF StopDelete, Stages, fileVars, history
  <2> QED BY <2>1, <2>2
<1> QED BY <1>1, <1>2, <1>3, <1>4 DEF StopStep

\* What is left of the current file after the process was killed.
LEMMA RestartKeeps ==
  ASSUME LogTypeOK, Restart
  PROVE  \E kept \in 0 .. Len(files[1]) :
           /\ files' = [files EXCEPT ![1] = SubSeq(@, 1, kept)]
           /\ inFile' = SubSeq(inFile, 1, Len(inFile) - (Len(files[1]) - kept))
           /\ synced' = kept
<1>1. files[1] \in Seq(Lines) /\ synced \in Nat /\ Len(files[1]) \in Nat
  BY LogConstants, LenProperties DEF LogTypeOK
<1>2. PICK kept \in synced .. Len(files[1]) :
        /\ files' = [files EXCEPT ![1] = SubSeq(@, 1, kept)]
        /\ inFile' = SubSeq(inFile, 1, Len(inFile) - (Len(files[1]) - kept))
        /\ synced' = kept
  BY DEF Restart
<1>3. kept \in 0 .. Len(files[1])
  BY <1>1
<1> QED BY <1>2, <1>3

-----------------------------------------------------------------------------
(* The order of the lines.                                                 *)

LEMMA LinesAssociate == \A s, t, u \in Seq(Lines) : (s \o t) \o u = s \o (t \o u)
BY Associative

LEMMA NoMore ==
  ASSUME NEW s \in Seq(Lines)
  PROVE  s \o <<>> = s /\ <<>> \o s = s
BY ConcatEmptySeq

\* A line logged by a thread is the next of the stream, or the buffer it filled is lost.
LEMMA AppendStream ==
  ASSUME LogTypeOK, Stages, LogTypeOK', NEW t \in Threads, AppendSync(t) \/ PushLine(t)
  PROVE  /\ Line(t) \in Lines
         /\ logged' = [logged EXCEPT ![t] = @ + 1]
         /\ \/ Stream' = Append(Stream, Line(t))
            \/ Stream' \in Seq(Lines) /\ \E u \in Seq(Lines) : Stream = Stream' \o u
         /\ \/ Stream' = Append(Stream, Line(t))
            \/ Fills /\ writer.at \in {"write", "recycle", "clear"}
            \/ stopping = "delete"
<1> DEFINE x == Line(t)  all == FlattenSeq(flush)
<1>1. /\ all \in Seq(Lines) /\ Coming \in Seq(Lines) /\ Stream \in Seq(Lines)
      /\ console \in Seq(Lines) /\ current \in Seq(Lines) /\ writer.left \in Seq(Lines)
      /\ flush \in Seq(Seq(Lines))
  BY ComingType DEF LogTypeOK
<1>2. x \in Lines
  BY LineType DEF AppendSync, PushLine, Stages
<1>3. logged' = [logged EXCEPT ![t] = @ + 1]
  BY DEF AppendSync, PushLine
<1>4. \A s, u \in Seq(Lines) : s \o Append(u, x) = Append(s \o u, x)
  <2> TAKE s \in Seq(Lines), u \in Seq(Lines)
  <2> HIDE DEF x
  <2>1. s \o u \in Seq(Lines) /\ <<x>> \in Seq(Lines)
    BY <1>2, ConcatProperties
  <2>2. Append(u, x) = u \o <<x>> /\ Append(s \o u, x) = (s \o u) \o <<x>>
    BY <1>2, <2>1, AppendIsConcat
  <2>3. (s \o u) \o <<x>> = s \o (u \o <<x>>)
    BY <2>1, Associative
  <2> QED BY <2>2, <2>3
<1> HIDE DEF x, all
<1>5. CASE AppendSync(t)
  <2>1. Coming = <<>> /\ Coming' = <<>>
    BY <1>5 DEF AppendSync, Stages, Coming
  <2>2. console' = Append(console, x)
    BY <1>5 DEF AppendSync, x
  <2>3. console' \in Seq(Lines)
    BY DEF LogTypeOK
  <2>4. Stream = console /\ Stream' = console'
    BY <1>1, <2>1, <2>3, NoMore DEF Stream
  <2>5. Stream' = Append(Stream, x)
    BY <2>2, <2>4
  <2> QED BY <1>2, <1>3, <2>5 DEF x
<1>6. CASE PushLine(t)
  <2>1. /\ UNCHANGED <<writer, stopping, console>>
        /\ IF Fills THEN flush' = Append(flush, Append(current, x)) /\ current' = <<>>
           ELSE current' = Append(current, x) /\ flush' = flush
        /\ Append(current, x) \in Seq(Lines) /\ current' \in Seq(Lines)
    <3>1. Append(current, x) \in Seq(Lines)
      BY <1>1, <1>2, AppendProperties
    <3> QED BY <1>6, <3>1 DEF PushLine, LogTypeOK, x
  <2>2. CASE stopping \in {"delete", "done"}
    <3>1. stopping = "delete"
      BY <1>6, <2>2 DEF PushLine, Stages
    <3>2. Coming = <<>> /\ Coming' = <<>>
      <4>1. stopping' = "delete"
        BY <2>1, <3>1
      <4>2. writer.at = "done" /\ writer'.at = "done"
        BY <2>1, <3>1 DEF Stages
      <4> QED BY <3>1, <4>1, <4>2 DEF Coming
    <3>3. Stream = Stream' \o <<>> /\ <<>> \in Seq(Lines) /\ Stream' \in Seq(Lines)
      BY <1>1, <2>1, <3>2, NoMore, EmptySeq DEF Stream
    <3> QED BY <1>2, <1>3, <3>1, <3>3 DEF x
  <2>3. CASE stopping \notin {"delete", "done"} /\ writer.at \in {"write", "recycle", "clear"}
    <3> DEFINE left == IF writer.at = "write" THEN writer.left ELSE <<>>
    <3>1. left \in Seq(Lines) /\ \A u \in Seq(Lines) : left \o u \in Seq(Lines)
      BY <1>1, EmptySeq, ConcatProperties
    <3>2. Coming = left \o current /\ Coming' = left \o current'
      <4>1. \A u \in Seq(Lines) : <<>> \o u = u
        BY NoMore
      <4> QED BY <1>1, <2>1, <2>3, <4>1 DEF Coming
    <3> HIDE DEF left
    <3>3. CASE ~Fills
      <4>1. Coming' = Append(Coming, x)
        BY <1>1, <1>4, <2>1, <3>1, <3>2, <3>3
      <4>2. Stream' = Append(Stream, x)
        BY <1>1, <1>4, <2>1, <4>1 DEF Stream
      <4> QED BY <1>2, <1>3, <4>2 DEF x
    <3>4. CASE Fills
      <4>1. Coming' = left
        BY <2>1, <3>1, <3>2, <3>4, NoMore
      <4>2. Stream = console \o (left \o current) /\ Stream' = console \o left
        BY <2>1, <3>2, <4>1 DEF Stream
      <4>3. console \o (left \o current) = (console \o left) \o current
        <5>1. left \in Seq(Lines) /\ console \in Seq(Lines) /\ current \in Seq(Lines)
          BY <1>1, <3>1
        <5>2. \A s, v, u \in Seq(Lines) : s \o (v \o u) = (s \o v) \o u
          BY LinesAssociate
        <5> QED BY ONLY <5>1, <5>2, ZenonT(20)
      <4>4. Stream = Stream' \o current /\ Stream' \in Seq(Lines)
        BY <1>1, <3>1, <4>2, <4>3, ConcatProperties
      <4> QED BY <1>1, <1>2, <1>3, <2>3, <3>4, <4>4 DEF x
    <3> QED BY <3>3, <3>4
  <2>4. CASE stopping \notin {"delete", "done"} /\ writer.at \notin {"write", "recycle", "clear"}
    <3>1. Coming = all \o current /\ Coming' = FlattenSeq(flush') \o current'
      BY <2>1, <2>4 DEF Coming, all
    <3>2. Coming' = all \o Append(current, x)
      <4>1. CASE ~Fills
        BY <2>1, <3>1, <4>1 DEF all
      <4>2. CASE Fills
        <5>1. FlattenSeq(Append(flush, Append(current, x))) = all \o Append(current, x)
          BY <1>1, <2>1, FlattenLast DEF all
        <5>2. all \o Append(current, x) \in Seq(Lines)
          BY <1>1, <2>1, ConcatProperties
        <5>3. flush' = Append(flush, Append(current, x)) /\ current' = <<>>
          BY <2>1, <4>2
        <5> QED BY <3>1, <5>1, <5>2, <5>3, NoMore
      <4> QED BY <4>1, <4>2
    <3>3. Coming' = Append(Coming, x)
      BY <1>1, <1>4, <3>1, <3>2
    <3>4. Stream' = Append(Stream, x)
      BY <1>1, <1>4, <2>1, <3>3 DEF Stream
    <3> QED BY <1>2, <1>3, <3>4 DEF x
  <2> QED BY <2>2, <2>3, <2>4
<1> QED BY <1>5, <1>6

\* The writer and Stop only carry lines on, in their order.
LEMMA TakeBuffersStream ==
  ASSUME LogTypeOK, Stages, TakeBuffers
  PROVE  /\ Stream' = Stream
         /\ Range(writer'.left) \subseteq Range(FlattenSeq(flush'))
<1> DEFINE all == FlattenSeq(flush)
           taken == IF current = <<>> THEN flush ELSE Append(flush, current)
<1>1. /\ all \in Seq(Lines) /\ console \in Seq(Lines) /\ current \in Seq(Lines)
      /\ flush \in Seq(Seq(Lines)) /\ writer.at = "wait"
  BY ComingType DEF LogTypeOK, TakeBuffers, WriterAt
<1>2. stopping \notin {"delete", "done"} /\ UNCHANGED <<stopping, console>>
  BY <1>1 DEF Stages, TakeBuffers
<1>3. Coming = all \o current
  BY <1>1, <1>2 DEF Coming
<1>4. FlattenSeq(taken) = all \o current
  <2>1. CASE current = <<>>
    BY <1>1, <2>1, NoMore
  <2>2. CASE current # <<>>
    BY <1>1, <2>2, FlattenLast
  <2> QED BY <2>1, <2>2
<1>5. IF taken = <<>> THEN writer' = Idle /\ UNCHANGED <<current, flush>>
      ELSE /\ flush' = taken /\ current' = <<>>
           /\ writer' = [at |-> "write", left |-> FlattenSeq(taken)]
  BY DEF TakeBuffers, bufferVars
<1> HIDE DEF all
<1>6. CASE taken = <<>>
  <2>1. writer'.at = "loop" /\ writer'.left = <<>> /\ UNCHANGED <<current, flush>>
    BY <1>5, <1>6 DEF Idle
  <2>2. Coming' = Coming
    BY <1>2, <1>3, <2>1 DEF Coming, all
  <2>3. Range(writer'.left) = {}
    BY <2>1, EmptySeq DEF Range
  <2> QED BY <1>2, <2>2, <2>3 DEF Stream
<1>7. CASE taken # <<>>
  <2>1. /\ flush' = taken /\ current' = <<>> /\ writer'.at = "write"
        /\ writer'.left = FlattenSeq(taken)
    BY <1>5, <1>7
  <2> HIDE DEF taken
  <2>2. all \o current \in Seq(Lines)
    BY <1>1, ConcatProperties
  <2>3. Coming' = (all \o current) \o <<>>
    BY <1>2, <1>4, <2>1 DEF Coming
  <2>4. Coming' = Coming
    BY <1>3, <2>2, <2>3, NoMore
  <2> QED BY <1>2, <2>1, <2>4 DEF Stream
<1> QED BY <1>6, <1>7

LEMMA WriteLineStream ==
  ASSUME LogTypeOK, Stages, WriteLine
  PROVE  /\ Stream' = Stream
         /\ Range(writer'.left) \subseteq Range(writer.left) /\ flush' = flush
<1> DEFINE x == Head(writer.left)  rest == Tail(writer.left)
<1>1. /\ console \in Seq(Lines) /\ current \in Seq(Lines) /\ writer.left \in Seq(Lines)
      /\ writer.at = "write" /\ writer.left # <<>>
  BY DEF LogTypeOK, WriteLine, WriterAt
<1>2. stopping \notin {"delete", "done"} /\ UNCHANGED <<stopping, current, flush>>
  BY <1>1 DEF Stages, WriteLine, bufferVars
<1>3. /\ x \in Lines /\ rest \in Seq(Lines) /\ Len(rest) = Len(writer.left) - 1
      /\ \A i \in 1 .. Len(rest) : rest[i] = writer.left[i + 1]
      /\ writer.left = <<x>> \o rest /\ <<x>> \in Seq(Lines)
  BY <1>1, HeadTailProperties, ConcatProperties
<1>4. /\ console' = Append(console, x) /\ writer'.at = "write" /\ writer'.left = rest
  BY <1>1 DEF WriteLine, LogTypeOK
<1> HIDE DEF x, rest
<1>5. console' = console \o <<x>> /\ rest \o current \in Seq(Lines)
  BY <1>1, <1>3, <1>4, AppendIsConcat, ConcatProperties
<1>6. Coming = (<<x>> \o rest) \o current /\ Coming' = rest \o current
  BY <1>1, <1>2, <1>3, <1>4 DEF Coming
<1>7. Coming = <<x>> \o (rest \o current)
  BY <1>1, <1>3, <1>6, Associative
<1>8. Stream' = Stream
  <2>1. PICK c \in Seq(Lines) : c = rest \o current
    BY <1>5
  <2>2. console \in Seq(Lines) /\ <<x>> \in Seq(Lines) /\ c \in Seq(Lines)
    BY <1>1, <1>3
  <2>3. (console \o <<x>>) \o c = console \o (<<x>> \o c)
    BY ONLY <2>2, LinesAssociate, ZenonT(20)
  <2>4. Stream = console \o (<<x>> \o c) /\ Stream' = (console \o <<x>>) \o c
    BY <1>5, <1>6, <1>7, <2>1 DEF Stream
  <2> QED BY <2>3, <2>4
<1>9. Range(rest) \subseteq Range(writer.left)
  <2> SUFFICES ASSUME NEW i \in DOMAIN rest PROVE rest[i] \in Range(writer.left)
    BY DEF Range
  <2>1. i \in 1 .. Len(rest) /\ i + 1 \in DOMAIN writer.left
    BY <1>1, <1>3, LenProperties
  <2> QED BY <1>3, <2>1 DEF Range
<1> QED BY <1>2, <1>4, <1>8, <1>9

LEMMA RecycleStream ==
  ASSUME LogTypeOK, Stages, CheckRunning \/ FlushFile \/ Recycle \/ Clear
  PROVE  Stream' = Stream /\ writer'.left = <<>>
<1>1. /\ console \in Seq(Lines) /\ current \in Seq(Lines)
      /\ writer \in [at : {"loop", "wait", "write", "recycle", "clear", "done"}, left : Seq(Lines)]
  BY DEF LogTypeOK
<1>2. \A u \in Seq(Lines) : <<>> \o u = u
  BY NoMore
<1>3. CASE CheckRunning
  <2>1. /\ writer.at = "loop" /\ writer.left = <<>> /\ stopping \notin {"delete", "done"}
        /\ writer'.at \in {"wait", "done"} /\ writer'.left = <<>>
        /\ UNCHANGED <<stopping, console, current, flush>>
    BY <1>1, <1>3 DEF CheckRunning, WriterAt, Stages, bufferVars
  <2> QED BY <2>1 DEF Stream, Coming
<1>4. CASE FlushFile
  <2>1. /\ writer.at = "write" /\ writer.left = <<>> /\ stopping \notin {"delete", "done"}
        /\ writer'.at = "recycle" /\ writer'.left = <<>>
        /\ UNCHANGED <<stopping, console, current, flush>>
    BY <1>1, <1>4 DEF FlushFile, WriterAt, Stages, bufferVars
  <2> QED BY <1>1, <1>2, <2>1 DEF Stream, Coming
<1>5. CASE Recycle
  <2>1. /\ writer.at = "recycle" /\ writer.left = <<>> /\ stopping \notin {"delete", "done"}
        /\ writer'.at = "clear" /\ writer'.left = <<>>
        /\ UNCHANGED <<stopping, console, current>>
    BY <1>1, <1>5 DEF Recycle, WriterAt, Stages
  <2> QED BY <1>1, <1>2, <2>1 DEF Stream, Coming
<1>6. CASE Clear
  <2>1. /\ writer.at = "clear" /\ stopping \notin {"delete", "done"}
        /\ writer'.at = "loop" /\ writer'.left = <<>> /\ flush' = <<>>
        /\ UNCHANGED <<stopping, console, current>>
    BY <1>1, <1>6 DEF Clear, WriterAt, Stages, Idle
  <2>2. FlattenSeq(flush') = <<>>
    BY <2>1, FlattenEmpty
  <2> QED BY <1>1, <1>2, <2>1, <2>2 DEF Stream, Coming
<1> QED BY <1>3, <1>4, <1>5, <1>6

LEMMA StopStream ==
  ASSUME LogTypeOK, Stages, StopRunning \/ StopStep
  PROVE  /\ Stream' = Stream /\ writer' = writer
         /\ flush' = flush \/ writer.left = <<>>
<1>1. CASE StopRunning \/ Join
  <2>1. /\ stopping \notin {"delete", "done"} /\ stopping' \notin {"delete", "done"}
        /\ UNCHANGED <<console, current, flush, writer>>
    BY <1>1 DEF StopRunning, Join, bufferVars
  <2> QED BY <2>1 DEF Stream, Coming
<1>2. CASE StopFlush
  <2> DEFINE rest == FlattenSeq(flush) \o current
  <2>1. /\ stopping = "flush" /\ stopping' = "delete" /\ writer.at = "done"
        /\ console' = console \o rest /\ UNCHANGED <<writer, flush>>
    BY <1>2 DEF StopFlush, WriteRest, Stages, bufferVars
  <2>2. Coming = rest /\ Coming' = <<>>
    BY <2>1 DEF Coming
  <2>3. console \o rest \in Seq(Lines)
    BY ComingType, ConcatProperties
  <2> HIDE DEF rest
  <2>4. Stream = console \o rest /\ Stream' = (console \o rest) \o <<>>
    BY <2>1, <2>2 DEF Stream
  <2> QED BY <2>1, <2>3, <2>4, NoMore
<1>3. CASE StopDelete
  <2>1. /\ stopping = "delete" /\ stopping' = "done" /\ writer.at = "done" /\ writer.left = <<>>
        /\ UNCHANGED <<writer, console>>
    BY <1>3 DEF StopDelete, Stages
  <2> QED BY <2>1 DEF Stream, Coming
<1> QED BY <1>1, <1>2, <1>3 DEF StopStep

LEMMA RestartStream ==
  ASSUME LogTypeOK, Stages, Restart
  PROVE  /\ Stream = Stream' \o Coming /\ Coming \in Seq(Lines) /\ Stream' = console
         /\ writer'.left = <<>>
<1>1. /\ console' = console /\ stopping' = "no" /\ writer'.at = "loop" /\ writer'.left = <<>>
      /\ current' = <<>> /\ flush' = <<>>
  BY DEF Restart, Idle
<1>2. Coming' = <<>>
  BY <1>1, FlattenEmpty, ConcatEmptySeq, EmptySeq DEF Coming
<1>3. Stream' = console
  BY <1>1, <1>2, NoMore DEF Stream, LogTypeOK
<1> QED BY <1>1, <1>3, ComingType DEF Stream

\* The lines that may have to be there: those of the console, of the writer and of the
\* buffers.
LEMMA StreamRange ==
  ASSUME LogTypeOK
  PROVE  Range(Stream) \subseteq Range(console) \cup Range(writer.left) \cup Range(current)
                                   \cup Range(FlattenSeq(flush))
<1>1. /\ FlattenSeq(flush) \in Seq(Lines) /\ Coming \in Seq(Lines)
      /\ console \in Seq(Lines) /\ current \in Seq(Lines) /\ writer.left \in Seq(Lines)
  BY ComingType
<1>2. \A s, u \in Seq(Lines) : Range(s \o u) \subseteq Range(s) \cup Range(u)
  <2> TAKE s \in Seq(Lines), u \in Seq(Lines)
  <2>1. /\ Len(s) \in Nat /\ Len(u) \in Nat /\ DOMAIN (s \o u) = 1 .. Len(s) + Len(u)
        /\ DOMAIN s = 1 .. Len(s) /\ DOMAIN u = 1 .. Len(u)
        /\ \A i \in 1 .. Len(s) + Len(u) :
             (s \o u)[i] = IF i <= Len(s) THEN s[i] ELSE u[i - Len(s)]
    BY LenProperties, ConcatProperties
  <2>2. ASSUME NEW i \in 1 .. Len(s) + Len(u) PROVE (s \o u)[i] \in Range(s) \cup Range(u)
    <3>1. CASE i <= Len(s)
      BY <2>1, <3>1 DEF Range
    <3>2. CASE i > Len(s)
      <4>1. i - Len(s) \in DOMAIN u
        BY <2>1, <3>2
      <4> QED BY <2>1, <3>2, <4>1 DEF Range
    <3> QED BY <2>1, <3>1, <3>2
  <2> QED BY <2>1, <2>2 DEF Range
<1>3. Coming \in {<<>>, writer.left \o current, current, FlattenSeq(flush) \o current}
  BY DEF Coming
<1>4. Range(<<>>) = {}
  BY EmptySeq DEF Range
<1>5. Range(Coming) \subseteq Range(writer.left) \cup Range(current) \cup Range(FlattenSeq(flush))
  <2>1. CASE Coming = <<>>
    BY <1>4, <2>1
  <2>2. CASE Coming = current
    BY <2>2
  <2>3. CASE Coming = writer.left \o current
    BY <1>1, <1>2, <2>3
  <2>4. CASE Coming = FlattenSeq(flush) \o current
    BY <1>1, <1>2, <2>4
  <2> QED BY <1>3, <2>1, <2>2, <2>3, <2>4
<1>6. Range(Stream) \subseteq Range(console) \cup Range(Coming)
  BY <1>1, <1>2 DEF Stream
<1> QED BY <1>5, <1>6

\* What a longer stream keeps.
LEMMA RangeAppend ==
  ASSUME NEW s \in Seq(Lines), NEW x \in Lines
  PROVE  x \in Range(Append(s, x)) /\ Range(s) \subseteq Range(Append(s, x))
<1>1. /\ Len(s) \in Nat /\ DOMAIN s = 1 .. Len(s) /\ DOMAIN Append(s, x) = 1 .. Len(s) + 1
      /\ \A i \in 1 .. Len(s) : Append(s, x)[i] = s[i]
      /\ Append(s, x)[Len(s) + 1] = x
  BY LenProperties, AppendProperties
<1>2. x \in Range(Append(s, x))
  <2>1. Len(s) + 1 \in DOMAIN Append(s, x)
    BY <1>1
  <2> QED BY <1>1, <2>1 DEF Range
<1>3. ASSUME NEW i \in DOMAIN s PROVE s[i] \in Range(Append(s, x))
  <2>1. i \in DOMAIN Append(s, x)
    BY <1>1
  <2> QED BY <1>1, <2>1 DEF Range
<1> QED BY <1>2, <1>3 DEF Range

LineInv == InOrder(Stream) /\ Said(Stream) /\ NoneMissing

LEMMA LineInvInit == LogInit => LineInv
<1> SUFFICES ASSUME LogInit PROVE LineInv
  OBVIOUS
<1>1. /\ console = <<>> /\ current = <<>> /\ flush = <<>> /\ pushed = {}
      /\ writer.at = "loop" /\ writer.left = <<>> /\ stopping = "no"
  BY DEF LogInit, Idle
<1>2. Coming = <<>> /\ Stream = <<>>
  BY <1>1, FlattenEmpty, EmptySeq, ConcatEmptySeq DEF Coming, Stream
<1>3. DOMAIN <<>> = {} /\ Range(<<>>) = {}
  BY EmptySeq DEF Range
<1> QED BY <1>1, <1>2, <1>3 DEF LineInv, InOrder, Said, NoneMissing

\* A step that leaves the stream as it is.
LEMMA StreamStays ==
  ASSUME LineInv, Stream' = Stream, UNCHANGED <<logged, pushed, raced>>,
         \/ writer'.left = <<>>
         \/ Range(writer'.left) \subseteq Range(FlattenSeq(flush'))
         \/ Range(writer'.left) \subseteq Range(writer.left) /\ flush' = flush
  PROVE  LineInv'
<1>1. InOrder(Stream') /\ Said(Stream)'
  BY DEF LineInv, Said
<1>2. Range(<<>>) = {}
  BY EmptySeq DEF Range
<1>3. NoneMissing'
  BY <1>2 DEF LineInv, NoneMissing
<1> QED BY <1>1, <1>3 DEF LineInv, InOrder

LEMMA AppendLines ==
  ASSUME LogTypeOK, Stages, LogTypeOK', LineInv, NEW t \in Threads,
         AppendSync(t) \/ PushLine(t)
  PROVE  LineInv'
<1>1. /\ Line(t) \in Lines /\ logged' = [logged EXCEPT ![t] = @ + 1]
      /\ \/ Stream' = Append(Stream, Line(t))
         \/ Stream' \in Seq(Lines) /\ \E u \in Seq(Lines) : Stream = Stream' \o u
      /\ \/ Stream' = Append(Stream, Line(t))
         \/ Fills /\ writer.at \in {"write", "recycle", "clear"}
         \/ stopping = "delete"
  BY AppendStream
<1>2. Stream \in Seq(Lines) /\ Stream' \in Seq(Lines)
  <2>1. Stream \in Seq(Lines)
    BY ComingType
  <2> QED BY <1>1, <2>1, AppendProperties
<1>3. InOrder(Stream) /\ Said(Stream)
  BY DEF LineInv
<1>4. InOrder(Stream') /\ Said(Stream)'
  <2>1. CASE Stream' = Append(Stream, Line(t))
    <3> DEFINE v == Append(Stream, Line(t))
    <3>1. /\ InOrder(v)
          /\ \A i \in DOMAIN v : v[i][2] <= [logged EXCEPT ![t] = @ + 1][v[i][1]]
      BY <1>1, <1>2, <1>3, OrderAppend
    <3>2. Stream' = v
      BY <2>1
    <3> HIDE DEF v
    <3> QED BY <1>1, <3>1, <3>2 DEF Said
  <2>2. ASSUME NEW u \in Seq(Lines), Stream = Stream' \o u PROVE InOrder(Stream') /\ Said(Stream)'
    <3>1. InOrder(Stream') /\ Said(Stream')
      BY <1>2, <1>3, <2>2, OrderPrefix
    <3>2. \A i \in DOMAIN Stream' : Stream'[i] \in Lines
      BY <1>2, LenProperties, ElementOfSeq
    <3>3. logged \in [Threads -> 0 .. MaxLines] /\ MaxLines \in Nat
      BY LogConstants DEF LogTypeOK
    <3>4. \A y \in Threads : logged[y] \in Nat /\ logged'[y] \in Nat /\ logged[y] <= logged'[y]
      BY <1>1, <3>3
    <3>5. \A i \in DOMAIN Stream' : Stream'[i][1] \in Threads /\ Stream'[i][2] \in Nat
      BY <3>2, <3>3 DEF Lines
    <3> QED BY <3>1, <3>4, <3>5 DEF Said
  <2> QED BY <1>1, <2>1, <2>2
<1>5. NoneMissing'
  <2>1. CASE AppendSync(t)
    <3>1. /\ UNCHANGED <<pushed, raced, writer, flush, stopping>>
          /\ stopping = "done"
      BY <2>1 DEF AppendSync, history, bufferVars, Stages
    <3>2. Stream' = Append(Stream, Line(t))
      BY <1>1, <3>1 DEF Stages
    <3>3. Range(Stream) \subseteq Range(Stream')
      BY <1>1, <1>2, <3>2, RangeAppend
    <3> QED BY <3>1, <3>3 DEF LineInv, NoneMissing
  <2>2. CASE PushLine(t)
    <3>1. /\ pushed' = pushed \cup {Line(t)} /\ writer' = writer
          /\ raced' = (raced \/ (Fills /\ writer.at \in {"write", "recycle", "clear"})
                             \/ stopping = "delete")
          /\ ~Fills => flush' = flush
      BY <2>2 DEF PushLine
    <3> SUFFICES ASSUME ~raced'
                 PROVE  /\ pushed' \subseteq Range(Stream')
                        /\ Range(writer'.left) \subseteq Range(FlattenSeq(flush'))
      BY DEF NoneMissing
    <3>2. ~raced /\ ~(Fills /\ writer.at \in {"write", "recycle", "clear"}) /\ stopping # "delete"
      BY <3>1
    <3>3. Stream' = Append(Stream, Line(t))
      BY <1>1, <3>2
    <3>4. Range(Stream) \subseteq Range(Stream') /\ Line(t) \in Range(Stream')
      BY <1>1, <1>2, <3>3, RangeAppend
    <3>5. pushed' \subseteq Range(Stream')
      BY <3>1, <3>2, <3>4 DEF LineInv, NoneMissing
    <3>6. Range(writer'.left) \subseteq Range(FlattenSeq(flush'))
      <4>1. CASE writer.at = "write"
        BY <3>1, <3>2, <4>1 DEF LineInv, NoneMissing
      <4>2. CASE writer.at # "write"
        <5>1. writer'.left = <<>>
          BY <3>1, <4>2 DEF Stages
        <5>2. Range(writer'.left) = {}
          BY <5>1, EmptySeq DEF Range
        <5> QED BY <5>2
      <4> QED BY <4>1, <4>2
    <3> QED BY <3>5, <3>6
  <2> QED BY <2>1, <2>2
<1> QED BY <1>4, <1>5 DEF LineInv

LEMMA LineInvNext ==
  ASSUME LogTypeOK, Stages, LogTypeOK', LineInv, [LogNext]_logVars
  PROVE  LineInv'
<1>1. ASSUME NEW t \in Threads, AppendSync(t) \/ EnterAppend(t) \/ PushLine(t) PROVE LineInv'
  <2>1. CASE AppendSync(t) \/ PushLine(t)
    BY <2>1, AppendLines
  <2>2. CASE EnterAppend(t)
    <3>1. UNCHANGED <<writer, stopping, console, current, flush, logged, pushed, raced>>
      BY <2>2 DEF EnterAppend, bufferVars, history
    <3>2. Stream' = Stream
      BY <3>1 DEF Stream, Coming
    <3> QED BY <3>1, <3>2, StreamStays
  <2> QED BY <1>1, <2>1, <2>2
<1>2. CASE WriterStep
  <2>1. UNCHANGED <<logged, pushed, raced>>
    BY <1>2 DEF WriterStep, CheckRunning, TakeBuffers, WriteLine, FlushFile, Recycle, Clear, history
  <2>2. CASE TakeBuffers
    BY <2>1, <2>2, TakeBuffersStream, StreamStays
  <2>3. CASE WriteLine
    BY <2>1, <2>3, WriteLineStream, StreamStays
  <2>4. CASE CheckRunning \/ FlushFile \/ Recycle \/ Clear
    BY <2>1, <2>4, RecycleStream, StreamStays
  <2> QED BY <1>2, <2>2, <2>3, <2>4 DEF WriterStep
<1>3. CASE StopRunning \/ StopStep
  <2>1. UNCHANGED <<logged, pushed, raced>>
    BY <1>3 DEF StopRunning, StopStep, Join, StopFlush, WriteRest, StopDelete, history
  <2>2. /\ Stream' = Stream /\ writer' = writer /\ (flush' = flush \/ writer.left = <<>>)
    BY <1>3, StopStream
  <2> QED BY <2>1, <2>2, StreamStays
<1>4. CASE Undefined
  <2>1. UNCHANGED <<writer, stopping, console, current, flush, logged, pushed, raced>>
    BY <1>4 DEF Undefined, bufferVars, history
  <2>2. Stream' = Stream
    BY <2>1 DEF Stream, Coming
  <2> QED BY <2>1, <2>2, StreamStays
<1>5. CASE Restart
  <2>1. /\ Stream = Stream' \o Coming /\ Coming \in Seq(Lines) /\ Stream' = console
        /\ writer'.left = <<>>
    BY <1>5, RestartStream
  <2>2. logged' = logged /\ pushed' = pushed \cap Range(console)
    BY <1>5 DEF Restart
  <2>3. Stream' \in Seq(Lines)
    BY <2>1, ComingType
  <2>4. InOrder(Stream') /\ Said(Stream')
    BY <2>1, <2>3, OrderPrefix DEF LineInv
  <2>5. Said(Stream)'
    BY <2>2, <2>4 DEF Said
  <2>6. Range(writer'.left) = {}
    BY <2>1, EmptySeq DEF Range
  <2> QED BY <2>1, <2>2, <2>4, <2>5, <2>6 DEF LineInv, NoneMissing
<1>6. CASE UNCHANGED logVars
  <2>1. UNCHANGED <<writer, stopping, console, current, flush, logged, pushed, raced>>
    BY <1>6 DEF logVars, bufferVars, history
  <2>2. Stream' = Stream
    BY <2>1 DEF Stream, Coming
  <2> QED BY <2>1, <2>2, StreamStays
<1> QED BY <1>1, <1>2, <1>3, <1>4, <1>5, <1>6 DEF LogNext

-----------------------------------------------------------------------------
(* The files.                                                              *)

\* The files that are not written any more, from the oldest.
Older(fs) == [i \in 1 .. MaxFiles - 1 |-> fs[MaxFiles - i + 1]]

LEMMA ReverseIs ==
  ASSUME NEW fs \in [1 .. MaxFiles -> Seq(Lines)]
  PROVE  /\ Reverse(fs) \in Seq(Seq(Lines)) /\ Len(Reverse(fs)) = MaxFiles
         /\ \A i \in 1 .. MaxFiles : Reverse(fs)[i] = fs[MaxFiles - i + 1]
         /\ Older(fs) \in Seq(Seq(Lines)) /\ Len(Older(fs)) = MaxFiles - 1
         /\ \A i \in 1 .. MaxFiles - 1 : Older(fs)[i] = fs[MaxFiles - i + 1]
<1>1. MaxFiles \in Nat /\ MaxFiles >= 2 /\ MaxFiles - 1 \in Nat
  BY LogConstants
<1>2. Len(fs) = MaxFiles
  BY <1>1, FunctionIsSeq
<1>3. \A i \in 1 .. MaxFiles : fs[MaxFiles - i + 1] \in Seq(Lines)
  <2> TAKE i \in 1 .. MaxFiles
  <2>1. MaxFiles - i + 1 \in 1 .. MaxFiles
    BY <1>1
  <2> QED BY <2>1
<1>4. Reverse(fs) = [i \in 1 .. MaxFiles |-> fs[MaxFiles - i + 1]]
  BY <1>2 DEF Reverse
<1>5. Reverse(fs) \in [1 .. MaxFiles -> Seq(Lines)]
  BY <1>3, <1>4
<1>6. \A i \in 1 .. MaxFiles - 1 : i \in 1 .. MaxFiles
  BY <1>1
<1>7. Older(fs) \in [1 .. MaxFiles - 1 -> Seq(Lines)]
  BY <1>3, <1>6 DEF Older
<1>8. Reverse(fs) \in Seq(Seq(Lines)) /\ Len(Reverse(fs)) = MaxFiles
  BY <1>1, <1>5, FunctionIsSeq
<1>9. Older(fs) \in Seq(Seq(Lines)) /\ Len(Older(fs)) = MaxFiles - 1
  BY <1>1, <1>7, FunctionIsSeq
<1> QED BY <1>4, <1>8, <1>9 DEF Older

\* What is written goes to the end of all.
LEMMA FilesSplit ==
  ASSUME NEW fs \in [1 .. MaxFiles -> Seq(Lines)]
  PROVE  /\ FlattenSeq(Older(fs)) \in Seq(Lines) /\ FlattenSeq(Reverse(fs)) \in Seq(Lines)
         /\ FlattenSeq(Reverse(fs)) = FlattenSeq(Older(fs)) \o fs[1]
<1> DEFINE r == Reverse(fs)  o == Older(fs)
<1>1. /\ r \in Seq(Seq(Lines)) /\ Len(r) = MaxFiles
      /\ \A i \in 1 .. MaxFiles : r[i] = fs[MaxFiles - i + 1]
      /\ o \in Seq(Seq(Lines)) /\ Len(o) = MaxFiles - 1
      /\ \A i \in 1 .. MaxFiles - 1 : o[i] = fs[MaxFiles - i + 1]
  BY ReverseIs
<1> HIDE DEF r, o
<1>2. MaxFiles \in Nat /\ MaxFiles >= 2 /\ fs[1] \in Seq(Lines)
  BY LogConstants
<1>3. /\ Append(o, fs[1]) \in Seq(Seq(Lines)) /\ Len(Append(o, fs[1])) = MaxFiles
      /\ \A i \in 1 .. MaxFiles - 1 : Append(o, fs[1])[i] = o[i]
      /\ Append(o, fs[1])[MaxFiles] = fs[1]
  <2>1. MaxFiles - 1 + 1 = MaxFiles
    BY <1>2
  <2> QED BY <1>1, <1>2, <2>1, AppendProperties
<1>4. r = Append(o, fs[1])
  <2>1. ASSUME NEW i \in 1 .. MaxFiles PROVE r[i] = Append(o, fs[1])[i]
    <3>1. CASE i = MaxFiles
      <4>1. MaxFiles - i + 1 = 1
        BY <1>2, <3>1
      <4> QED BY <1>1, <1>3, <3>1, <4>1
    <3>2. CASE i # MaxFiles
      <4>1. i \in 1 .. MaxFiles - 1
        BY <1>2, <3>2
      <4> QED BY <1>1, <1>3, <4>1
    <3> QED BY <3>1, <3>2
  <2> QED BY <1>1, <1>3, <2>1, SeqEqual
<1>5. FlattenSeq(r) = FlattenSeq(o) \o fs[1]
  BY <1>1, <1>2, <1>4, FlattenLast
<1>6. FlattenSeq(o) \in Seq(Lines) /\ FlattenSeq(r) \in Seq(Lines)
  BY <1>1, FlattenType
<1> QED BY <1>5, <1>6 DEF r, o

\* A rotation takes the oldest file from the front.
LEMMA FilesRotate ==
  ASSUME NEW fs \in [1 .. MaxFiles -> Seq(Lines)]
  PROVE  FlattenSeq(Reverse(fs)) = fs[MaxFiles] \o FlattenSeq(Reverse(Rotated(fs)))
<1> DEFINE gs == Rotated(fs)  r == Reverse(fs)  o == Older(gs)  x == fs[MaxFiles]
<1>1. MaxFiles \in Nat /\ MaxFiles >= 2 /\ x \in Seq(Lines)
  BY LogConstants
<1>2. /\ gs \in [1 .. MaxFiles -> Seq(Lines)] /\ gs[1] = <<>>
      /\ \A i \in 2 .. MaxFiles : gs[i] = fs[i - 1]
  BY RotatedType
<1>3. /\ r \in Seq(Seq(Lines)) /\ Len(r) = MaxFiles
      /\ \A i \in 1 .. MaxFiles : r[i] = fs[MaxFiles - i + 1]
  BY ReverseIs
<1> HIDE DEF gs
<1>4. /\ o \in Seq(Seq(Lines)) /\ Len(o) = MaxFiles - 1
      /\ \A i \in 1 .. MaxFiles - 1 : o[i] = gs[MaxFiles - i + 1]
  BY <1>2, ReverseIs
<1> HIDE DEF r, o, x
<1>5. /\ <<x>> \in Seq(Seq(Lines)) /\ Len(<<x>>) = 1 /\ <<x>>[1] = x
  BY <1>1
<1>6. /\ <<x>> \o o \in Seq(Seq(Lines)) /\ Len(<<x>> \o o) = MaxFiles
      /\ \A i \in 1 .. MaxFiles : (<<x>> \o o)[i] = IF i = 1 THEN x ELSE o[i - 1]
  <2>1. /\ <<x>> \o o \in Seq(Seq(Lines)) /\ Len(<<x>> \o o) = 1 + (MaxFiles - 1)
        /\ \A i \in 1 .. 1 + (MaxFiles - 1) :
             (<<x>> \o o)[i] = IF i <= 1 THEN <<x>>[i] ELSE o[i - 1]
    BY <1>4, <1>5, ConcatProperties
  <2> QED BY <1>1, <1>5, <2>1
<1>7. r = <<x>> \o o
  <2>1. ASSUME NEW i \in 1 .. MaxFiles PROVE r[i] = (<<x>> \o o)[i]
    <3>1. CASE i = 1
      <4>1. MaxFiles - i + 1 = MaxFiles
        BY <1>1, <3>1
      <4> QED BY <1>3, <1>6, <3>1, <4>1 DEF x
    <3>2. CASE i # 1
      <4>1. PICK j \in Nat : j = MaxFiles - (i - 1) + 1
        BY <1>1, <3>2
      <4>2. i - 1 \in 1 .. MaxFiles - 1 /\ j \in 2 .. MaxFiles /\ j - 1 = MaxFiles - i + 1
        BY <1>1, <3>2, <4>1
      <4>3. o[i - 1] = gs[j]
        BY <1>4, <4>1, <4>2
      <4>4. o[i - 1] = fs[MaxFiles - i + 1]
        BY <1>2, <4>2, <4>3
      <4> QED BY <1>3, <1>6, <3>2, <4>4
    <3> QED BY <3>1, <3>2
  <2> QED BY <1>3, <1>6, <2>1, SeqEqual
<1>8. FlattenSeq(<<x>>) = x
  <2>1. <<x>> = Append(<<>>, x) /\ <<>> \in Seq(Seq(Lines))
    BY EmptySeq
  <2>2. FlattenSeq(Append(<<>>, x)) = FlattenSeq(<<>>) \o x
    BY <1>1, <2>1, FlattenLast
  <2> QED BY <1>1, <2>1, <2>2, FlattenEmpty, NoMore
<1>9. FlattenSeq(r) = x \o FlattenSeq(o)
  <2>1. FlattenSeq(<<x>> \o o) = FlattenSeq(<<x>>) \o FlattenSeq(o)
    BY <1>4, <1>5, FlattenConcat
  <2> QED BY <1>7, <1>8, <2>1
<1>10. FlattenSeq(Reverse(gs)) = FlattenSeq(o)
  <2>1. FlattenSeq(Older(gs)) \in Seq(Lines) /\ FlattenSeq(Reverse(gs)) = FlattenSeq(Older(gs)) \o gs[1]
    BY <1>2, FilesSplit
  <2> QED BY <1>2, <2>1, NoMore DEF o
<1> QED BY <1>9, <1>10 DEF r, x, gs

LEMMA OneMore == \A a, b \in Nat : (a + 1) * b = a * b + b /\ a * b \in Nat
  OBVIOUS

\* Full files have as many lines as their number times their size.
LEMMA FlattenLen ==
  ASSUME NEW S, NEW k \in Nat
  PROVE  \A s \in Seq(Seq(S)) :
           (\A i \in DOMAIN s : Len(s[i]) >= k) => Len(FlattenSeq(s)) >= Len(s) * k
<1> DEFINE T == {s \in Seq(Seq(S)) :
                   (\A i \in DOMAIN s : Len(s[i]) >= k) => Len(FlattenSeq(s)) >= Len(s) * k}
<1>1. <<>> \in T
  <2>1. <<>> \in Seq(Seq(S)) /\ Len(<<>>) = 0 /\ FlattenSeq(<<>>) = <<>>
    BY EmptySeq, FlattenEmpty
  <2>2. 0 * k = 0
    BY SMT
  <2> QED BY <2>1, <2>2
<1>2. ASSUME NEW s \in Seq(Seq(S)), NEW x \in Seq(S), s \in T PROVE Append(s, x) \in T
  <2> DEFINE u == Append(s, x)  n == Len(s)
  <2>1. /\ u \in Seq(Seq(S)) /\ Len(u) = n + 1 /\ n \in Nat
        /\ DOMAIN u = 1 .. n + 1 /\ DOMAIN s = 1 .. n
        /\ \A i \in 1 .. n : u[i] = s[i]
        /\ u[n + 1] = x
    BY AppendProperties, LenProperties
  <2>2. FlattenSeq(u) = FlattenSeq(s) \o x /\ FlattenSeq(s) \in Seq(S)
    BY FlattenLast, FlattenType
  <2>3. /\ Len(FlattenSeq(u)) = Len(FlattenSeq(s)) + Len(x)
        /\ Len(FlattenSeq(s)) \in Nat /\ Len(x) \in Nat
    BY <2>2, ConcatProperties, LenProperties
  <2> HIDE DEF u, n
  <2> SUFFICES ASSUME \A i \in DOMAIN u : Len(u[i]) >= k
               PROVE  Len(FlattenSeq(u)) >= Len(u) * k
    BY <2>1 DEF u
  <2>4. Len(x) >= k
    <3>1. n + 1 \in DOMAIN u
      BY <2>1
    <3> QED BY <2>1, <3>1
  <2>5. \A i \in DOMAIN s : Len(s[i]) >= k
    <3> TAKE i \in DOMAIN s
    <3>1. i \in 1 .. n /\ i \in DOMAIN u
      BY <2>1
    <3> QED BY <2>1, <3>1
  <2>6. Len(FlattenSeq(s)) >= n * k
    BY <1>2, <2>5 DEF n
  <2>7. (n + 1) * k = n * k + k /\ n * k \in Nat
    BY <2>1, OneMore
  <2> QED BY <2>1, <2>3, <2>4, <2>6, <2>7
<1> HIDE DEF T
<1>3. \A s \in Seq(Seq(S)) : s \in T
  BY <1>1, <1>2, SeqInduction
<1> QED BY <1>3 DEF T

LEMMA FilesInvInit == LogInit => FilesInv
<1> SUFFICES ASSUME LogInit PROVE FilesInv
  OBVIOUS
<1>1. /\ files = [i \in 1 .. MaxFiles |-> <<>>] /\ inFile = <<>> /\ size = 0
      /\ <<>> \in Seq(Lines) /\ Len(<<>>) = 0
  BY EmptySeq DEF LogInit
<1>2. /\ files \in [1 .. MaxFiles -> Seq(Lines)] /\ files[1] = <<>>
      /\ \A i \in 2 .. MaxFiles : files[i] = <<>>
  <2>1. \A i \in 2 .. MaxFiles : i \in 1 .. MaxFiles
    BY LogConstants
  <2> QED BY <1>1, <2>1, LogConstants
<1>3. FilesFull /\ SizeRight
  BY <1>1, <1>2 DEF FilesFull, SizeRight
<1>4. FilesKept
  <2>1. \A i \in 1 .. MaxFiles : files[i] = <<>>
    BY <1>1
  <2>2. Rotated(files) = files
    BY <1>1, <2>1, LogConstants DEF Rotated
  <2>3. /\ Older(files) \in Seq(Seq(Lines)) /\ Len(Older(files)) = MaxFiles - 1
        /\ \A i \in 1 .. MaxFiles - 1 : Older(files)[i] = <<>>
    <3>1. \A i \in 1 .. MaxFiles - 1 : MaxFiles - i + 1 \in 1 .. MaxFiles
      BY LogConstants
    <3> QED BY <1>2, <2>1, <3>1, ReverseIs
  <2>4. FlattenSeq(Older(files)) = <<>>
    <3>1. <<>> \in Seq({}) /\ Older(files) \in Seq({<<>>})
      <4>1. Older(files) \in [1 .. MaxFiles - 1 -> {<<>>}]
        BY <2>3, LenProperties
      <4> QED BY <4>1, LogConstants, FunctionIsSeq, EmptySeq
    <3>2. {<<>>} \subseteq Seq({})
      BY <3>1
    <3>3. Older(files) \in Seq(Seq({}))
      <4>1. Older(files) \in [1 .. MaxFiles - 1 -> Seq({})]
        BY <2>3, <3>1, LenProperties
      <4> QED BY <4>1, LogConstants, FunctionIsSeq
    <3>4. FlattenSeq(Older(files)) \in Seq({})
      BY <3>3, FlattenType
    <3> QED BY <3>4, LenProperties, EmptySeq
  <2>5. AllFiles = <<>>
    <3>1. FlattenSeq(Reverse(files)) = FlattenSeq(Older(files)) \o files[1]
      BY <1>2, FilesSplit
    <3>2. <<>> \o <<>> = <<>>
      BY <1>1, NoMore
    <3> QED BY <1>2, <2>4, <3>1, <3>2 DEF AllFiles
  <2>6. inFile = <<>> \o AllFiles
    BY <1>1, <2>5, NoMore
  <2> QED BY <1>1, <2>6 DEF FilesKept
<1> QED BY <1>3, <1>4 DEF FilesInv

\* A line or more at the end of the current file.
LEMMA FilesGrow ==
  ASSUME LogTypeOK, FilesInv, NEW rest \in Seq(Lines),
         files' = [files EXCEPT ![1] = @ \o rest], inFile' = inFile \o rest
  PROVE  FilesFull' /\ FilesKept'
<1>1. /\ files \in [1 .. MaxFiles -> Seq(Lines)] /\ inFile \in Seq(Lines)
      /\ files[1] \in Seq(Lines)
  BY LogConstants DEF LogTypeOK
<1>2. /\ files' \in [1 .. MaxFiles -> Seq(Lines)] /\ files'[1] = files[1] \o rest
      /\ \A i \in 2 .. MaxFiles : files'[i] = files[i]
  <2>1. files[1] \o rest \in Seq(Lines)
    BY <1>1, ConcatProperties
  <2>2. \A i \in 2 .. MaxFiles : i \in 1 .. MaxFiles /\ i # 1
    BY LogConstants
  <2> QED BY <1>1, <2>1, <2>2, LogConstants
<1>3. FilesFull'
  BY <1>2 DEF FilesInv, FilesFull
<1>4. PICK lost \in Seq(Lines) :
        /\ inFile = lost \o AllFiles
        /\ lost # <<>> => \A i \in 2 .. MaxFiles : files[i] # <<>>
  BY DEF FilesInv, FilesKept
<1> DEFINE o == FlattenSeq(Older(files))
<1>5. o \in Seq(Lines) /\ AllFiles \in Seq(Lines) /\ AllFiles = o \o files[1]
  BY <1>1, FilesSplit DEF AllFiles
<1>6. AllFiles' = AllFiles \o rest
  <2>1. Older(files') = Older(files)
    <3>1. \A i \in 1 .. MaxFiles - 1 : MaxFiles - i + 1 \in 2 .. MaxFiles
      BY LogConstants
    <3> QED BY <1>2, <3>1 DEF Older
  <2>2. FlattenSeq(Reverse(files')) = FlattenSeq(Older(files')) \o files'[1]
    BY <1>2, FilesSplit
  <2>3. AllFiles' = o \o (files[1] \o rest)
    BY <1>2, <2>1, <2>2 DEF AllFiles
  <2> HIDE DEF o
  <2>4. (o \o files[1]) \o rest = o \o (files[1] \o rest)
    <3>1. o \in Seq(Lines) /\ files[1] \in Seq(Lines) /\ rest \in Seq(Lines)
      BY <1>1, <1>5
    <3> QED BY ONLY <3>1, LinesAssociate, ZenonT(20)
  <2> QED BY <1>5, <2>3, <2>4
<1>7. (lost \o AllFiles) \o rest = lost \o (AllFiles \o rest)
  BY <1>4, <1>5, LinesAssociate, ZenonT(20)
<1>8. inFile' = lost \o AllFiles'
  BY <1>4, <1>6, <1>7
<1>9. FilesKept'
  BY <1>2, <1>4, <1>8 DEF FilesKept
<1> QED BY <1>3, <1>9

\* A rotation of full files, which may lose the oldest when there is one at every place.
LEMMA FilesTurn ==
  ASSUME LogTypeOK, FilesInv, NEW x \in Lines, Len(files[1]) + 1 >= MaxFileSize,
         files' = Rotated([files EXCEPT ![1] = Append(@, x)]), inFile' = Append(inFile, x)
  PROVE  FilesFull' /\ FilesKept' /\ files'[1] = <<>> /\ OpenedSize(files') = 0
<1> DEFINE fs == [files EXCEPT ![1] = Append(@, x)]
<1>1. /\ files \in [1 .. MaxFiles -> Seq(Lines)] /\ inFile \in Seq(Lines)
      /\ files[1] \in Seq(Lines) /\ Len(files[1]) \in Nat
      /\ MaxFiles \in Nat /\ MaxFiles >= 2 /\ MaxFileSize \in Nat \ {0}
  BY LogConstants, LenProperties DEF LogTypeOK
<1>2. /\ Append(files[1], x) \in Seq(Lines) /\ Append(files[1], x) # <<>>
      /\ Len(Append(files[1], x)) = Len(files[1]) + 1
      /\ Append(files[1], x) = files[1] \o <<x>> /\ <<x>> \in Seq(Lines)
      /\ Append(inFile, x) = inFile \o <<x>>
  BY <1>1, AppendProperties, AppendIsConcat
<1>3. /\ fs \in [1 .. MaxFiles -> Seq(Lines)] /\ fs[1] = Append(files[1], x)
      /\ \A i \in 2 .. MaxFiles : fs[i] = files[i]
  <2>1. 1 \in 1 .. MaxFiles /\ \A i \in 2 .. MaxFiles : i \in 1 .. MaxFiles /\ i # 1
    BY <1>1
  <2>2. fs[1] = Append(files[1], x) /\ \A i \in 2 .. MaxFiles : fs[i] = files[i]
    BY <1>1, <2>1
  <2>3. fs \in [1 .. MaxFiles -> Seq(Lines)]
    BY <1>1, <1>2
  <2> QED BY <2>2, <2>3
<1>4. files' = Rotated(fs)
  OBVIOUS
<1> HIDE DEF fs
<1>5. /\ files' \in [1 .. MaxFiles -> Seq(Lines)] /\ files'[1] = <<>> /\ OpenedSize(files') = 0
      /\ \A i \in 2 .. MaxFiles : files'[i] = fs[i - 1]
  BY <1>3, <1>4, RotatedType
<1>6. files'[2] = Append(files[1], x)
  <2>1. 2 \in 2 .. MaxFiles
    BY <1>1
  <2>2. PICK i \in 2 .. MaxFiles : i = 2
    BY <2>1
  <2>3. i - 1 = 1
    BY <2>2
  <2>4. files'[i] = fs[i - 1]
    BY <1>5
  <2>5. files'[i] = fs[1]
    BY ONLY <2>3, <2>4
  <2> QED BY <1>3, <2>2, <2>5
<1>7. \A i \in 3 .. MaxFiles : i - 1 \in 2 .. MaxFiles /\ files'[i] = files[i - 1]
  <2> TAKE i \in 3 .. MaxFiles
  <2>1. i \in 2 .. MaxFiles /\ i - 1 \in 2 .. MaxFiles
    BY <1>1
  <2> QED BY <1>3, <1>5, <2>1
<1>8. \A i \in 2 .. MaxFiles : i = 2 \/ i \in 3 .. MaxFiles
  BY <1>1
<1>9. FilesFull'
  <2>1. \A i \in 2 .. MaxFiles : files'[i] # <<>> => Len(files'[i]) >= MaxFileSize
    BY <1>1, <1>2, <1>6, <1>7, <1>8 DEF FilesInv, FilesFull
  <2>2. ASSUME NEW i \in 2 .. MaxFiles, NEW j \in 2 .. MaxFiles, i < j, files'[i] = <<>>
        PROVE  files'[j] = <<>>
    <3>1. i \in 3 .. MaxFiles /\ j \in 3 .. MaxFiles
      BY <1>1, <1>2, <1>6, <1>8, <2>2
    <3>2. /\ i - 1 \in 2 .. MaxFiles /\ files'[i] = files[i - 1]
          /\ j - 1 \in 2 .. MaxFiles /\ files'[j] = files[j - 1]
      BY <1>7, <3>1
    <3>3. i - 1 < j - 1
      BY <1>1, <2>2
    <3>4. files[i - 1] = <<>>
      BY <2>2, <3>2
    <3>5. files[j - 1] = <<>>
      BY <3>2, <3>3, <3>4 DEF FilesInv, FilesFull
    <3> QED BY <3>2, <3>5
  <2> QED BY <2>1, <2>2 DEF FilesFull
<1>10. PICK lost \in Seq(Lines) :
        /\ inFile = lost \o AllFiles
        /\ lost # <<>> => \A i \in 2 .. MaxFiles : files[i] # <<>>
  BY DEF FilesInv, FilesKept
<1> DEFINE o == FlattenSeq(Older(files))  new == AllFiles'  last == files[MaxFiles]
<1>11. o \in Seq(Lines) /\ AllFiles \in Seq(Lines) /\ AllFiles = o \o files[1]
  BY <1>1, FilesSplit DEF AllFiles
<1>12. new \in Seq(Lines) /\ FlattenSeq(Reverse(fs)) = last \o new /\ last \in Seq(Lines)
  <2>1. FlattenSeq(Reverse(fs)) = fs[MaxFiles] \o FlattenSeq(Reverse(Rotated(fs)))
    BY <1>3, FilesRotate
  <2>2. FlattenSeq(Reverse(files')) \in Seq(Lines)
    BY <1>5, FilesSplit
  <2>3. MaxFiles \in 2 .. MaxFiles /\ MaxFiles \in 1 .. MaxFiles
    BY <1>1
  <2> QED BY <1>1, <1>3, <1>4, <2>1, <2>2, <2>3 DEF AllFiles
<1>13. FlattenSeq(Reverse(fs)) = AllFiles \o <<x>>
  <2>1. Older(fs) = Older(files)
    <3>1. \A i \in 1 .. MaxFiles - 1 : MaxFiles - i + 1 \in 2 .. MaxFiles
      BY LogConstants
    <3> QED BY <1>3, <3>1 DEF Older
  <2>2. FlattenSeq(Reverse(fs)) = o \o (files[1] \o <<x>>)
    BY <1>2, <1>3, <2>1, FilesSplit
  <2> HIDE DEF o
  <2>3. (o \o files[1]) \o <<x>> = o \o (files[1] \o <<x>>)
    <3>1. o \in Seq(Lines) /\ files[1] \in Seq(Lines) /\ <<x>> \in Seq(Lines)
      BY <1>1, <1>2, <1>11
    <3> QED BY ONLY <3>1, LinesAssociate, ZenonT(20)
  <2> QED BY <1>11, <2>2, <2>3
<1> HIDE DEF new, last, o
<1>14. AllFiles \o <<x>> = last \o new
  BY <1>12, <1>13
<1>15. (lost \o AllFiles) \o <<x>> = lost \o (AllFiles \o <<x>>)
  BY <1>2, <1>10, <1>11, LinesAssociate, ZenonT(20)
<1>16. (lost \o last) \o new = lost \o (last \o new)
  BY <1>10, <1>12, LinesAssociate, ZenonT(20)
<1>17. inFile' = (lost \o last) \o new
  BY <1>2, <1>10, <1>14, <1>15, <1>16
<1>18. lost \o last # <<>> => \A i \in 2 .. MaxFiles : files'[i] # <<>>
  <2> SUFFICES ASSUME lost \o last # <<>>, NEW i \in 2 .. MaxFiles PROVE files'[i] # <<>>
    OBVIOUS
  <2>1. \A j \in 2 .. MaxFiles - 1 : files[j] # <<>>
    <3>1. CASE lost # <<>>
      <4>1. \A j \in 2 .. MaxFiles - 1 : j \in 2 .. MaxFiles
        BY <1>1
      <4> QED BY <1>10, <3>1, <4>1
    <3>2. CASE lost = <<>>
      <4>1. last # <<>>
        BY <1>12, <3>2, NoMore
      <4>2. \A j \in 2 .. MaxFiles - 1 : j \in 2 .. MaxFiles /\ MaxFiles \in 2 .. MaxFiles
                                           /\ j < MaxFiles
        BY <1>1
      <4> QED BY <4>1, <4>2 DEF FilesInv, FilesFull, last
    <3> QED BY <3>1, <3>2
  <2>2. CASE i = 2
    BY <1>2, <1>6, <2>2
  <2>3. CASE i \in 3 .. MaxFiles
    <3>1. i - 1 \in 2 .. MaxFiles - 1
      BY <1>1, <2>3
    <3> QED BY <1>7, <2>1, <2>3, <3>1
  <2> QED BY <1>8, <2>2, <2>3
<1>19. FilesKept'
  <2>1. lost \o last \in Seq(Lines)
    BY <1>10, <1>12, ConcatProperties
  <2> QED BY <1>17, <1>18, <2>1 DEF FilesKept, new
<1> QED BY <1>5, <1>9, <1>19

LEMMA FilesSame ==
  ASSUME FilesInv, UNCHANGED <<files, inFile>>
  PROVE  FilesFull' /\ FilesKept'
BY DEF FilesInv, FilesFull, FilesKept, AllFiles

LEMMA WriteLineFiles ==
  ASSUME LogTypeOK, Stages, FilesInv, WriteLine
  PROVE  FilesInv'
<1> DEFINE x == Head(writer.left)
<1>1. /\ writer.at = "write" /\ x \in Lines /\ stopping' = stopping /\ WriteToFile(x)
  BY HeadTailProperties DEF WriteLine, WriterAt, LogTypeOK
<1>2. stopping \notin {"delete", "done"}
  BY <1>1 DEF Stages
<1> HIDE DEF x
<1>3. /\ files[1] \in Seq(Lines) /\ inFile \in Seq(Lines) /\ Len(files[1]) \in Nat
      /\ files \in [1 .. MaxFiles -> Seq(Lines)]
  BY LogConstants, LenProperties DEF LogTypeOK
<1>4. CASE ~isOpen
  <2>1. UNCHANGED <<files, inFile, isOpen, size>>
    BY <1>1, <1>4 DEF WriteToFile, fileVars
  <2> QED BY <1>1, <1>4, <2>1, FilesSame DEF FilesInv, SizeRight
<1>5. CASE isOpen
  <2>1. size = Len(files[1])
    BY <1>2, <1>5 DEF FilesInv, SizeRight
  <2>2. /\ inFile' = Append(inFile, x)
        /\ IF size + 1 >= MaxFileSize
           THEN /\ files' = Rotated([files EXCEPT ![1] = Append(@, x)])
                /\ size' = (IF isOpen' THEN OpenedSize(files') ELSE size + 1)
           ELSE /\ files' = [files EXCEPT ![1] = Append(@, x)]
                /\ size' = size + 1 /\ isOpen' = isOpen
    BY <1>1, <1>5 DEF WriteToFile
  <2>3. CASE size + 1 >= MaxFileSize
    <3>1. FilesFull' /\ FilesKept' /\ files'[1] = <<>> /\ OpenedSize(files') = 0
      BY <1>1, <2>1, <2>2, <2>3, FilesTurn
    <3>2. Len(<<>>) = 0
      OBVIOUS
    <3> QED BY <2>2, <2>3, <3>1, <3>2 DEF FilesInv, SizeRight
  <2>4. CASE ~(size + 1 >= MaxFileSize)
    <3>1. /\ Append(files[1], x) = files[1] \o <<x>> /\ Append(inFile, x) = inFile \o <<x>>
          /\ <<x>> \in Seq(Lines) /\ Len(Append(files[1], x)) = Len(files[1]) + 1
      BY <1>1, <1>3, AppendIsConcat, AppendProperties
    <3>2. files' = [files EXCEPT ![1] = @ \o <<x>>] /\ inFile' = inFile \o <<x>>
      BY <2>2, <2>4, <3>1
    <3>3. FilesFull' /\ FilesKept'
      BY <3>1, <3>2, FilesGrow
    <3>4. files'[1] = Append(files[1], x) /\ size' = size + 1
      BY <1>3, <2>2, <2>4, LogConstants
    <3> QED BY <2>1, <3>1, <3>3, <3>4 DEF FilesInv, SizeRight
  <2> QED BY <2>3, <2>4
<1> QED BY <1>4, <1>5

\* What the killed process had not passed on is missing at the end, of both.
LEMMA RestartFiles ==
  ASSUME LogTypeOK, FilesInv, Restart
  PROVE  /\ files' \in [1 .. MaxFiles -> Seq(Lines)] /\ inFile' \in Seq(Lines)
         /\ synced' \in Nat
         /\ FilesInv'
<1>1. /\ files \in [1 .. MaxFiles -> Seq(Lines)] /\ inFile \in Seq(Lines)
      /\ files[1] \in Seq(Lines) /\ Len(files[1]) \in Nat
  BY LogConstants, LenProperties DEF LogTypeOK
<1>2. PICK kept \in 0 .. Len(files[1]) :
         /\ files' = [files EXCEPT ![1] = SubSeq(@, 1, kept)]
         /\ inFile' = SubSeq(inFile, 1, Len(inFile) - (Len(files[1]) - kept))
         /\ synced' = kept
  BY RestartKeeps
<1> DEFINE a == SubSeq(files[1], 1, kept)  b == SubSeq(files[1], kept + 1, Len(files[1]))
<1>3. a \in Seq(Lines) /\ Len(a) = kept /\ b \in Seq(Lines) /\ files[1] = a \o b
  BY <1>1, Split
<1>4. /\ files' \in [1 .. MaxFiles -> Seq(Lines)] /\ files'[1] = a
      /\ \A i \in 2 .. MaxFiles : files'[i] = files[i]
  <2>1. \A i \in 2 .. MaxFiles : i \in 1 .. MaxFiles /\ i # 1
    BY LogConstants
  <2> QED BY <1>1, <1>2, <1>3, <2>1, LogConstants
<1> HIDE DEF a, b
<1>5. PICK lost \in Seq(Lines) :
        /\ inFile = lost \o AllFiles
        /\ lost # <<>> => \A i \in 2 .. MaxFiles : files[i] # <<>>
  BY DEF FilesInv, FilesKept
<1> DEFINE o == FlattenSeq(Older(files))
<1>6. o \in Seq(Lines) /\ AllFiles \in Seq(Lines) /\ AllFiles = o \o files[1]
  BY <1>1, FilesSplit DEF AllFiles
<1>7. AllFiles' = o \o a /\ o \o a \in Seq(Lines)
  <2>1. Older(files') = Older(files)
    <3>1. \A i \in 1 .. MaxFiles - 1 : MaxFiles - i + 1 \in 2 .. MaxFiles
      BY LogConstants
    <3> QED BY <1>4, <3>1 DEF Older
  <2>2. FlattenSeq(Reverse(files')) = FlattenSeq(Older(files')) \o files'[1]
    BY <1>4, FilesSplit
  <2> QED BY <1>3, <1>4, <1>6, <2>1, <2>2, ConcatProperties DEF AllFiles
<1> HIDE DEF o
<1> DEFINE new == lost \o (o \o a)
<1>8. new \in Seq(Lines)
  BY <1>5, <1>7, ConcatProperties
<1>9. inFile = new \o b
  <2>1. o \o (a \o b) = (o \o a) \o b
    <3>1. o \in Seq(Lines) /\ a \in Seq(Lines) /\ b \in Seq(Lines)
      BY <1>3, <1>6
    <3> QED BY ONLY <3>1, LinesAssociate, ZenonT(20)
  <2>2. lost \o ((o \o a) \o b) = (lost \o (o \o a)) \o b
    <3>1. lost \in Seq(Lines) /\ o \o a \in Seq(Lines) /\ b \in Seq(Lines)
      BY <1>3, <1>5, <1>7
    <3> QED BY ONLY <3>1, LinesAssociate, ZenonT(20)
  <2> QED BY <1>3, <1>5, <1>6, <2>1, <2>2
<1> HIDE DEF new
<1>10. inFile' = new
  <2>1. /\ Len(inFile) = Len(new) + Len(b) /\ Len(files[1]) = kept + Len(b)
        /\ Len(new) \in Nat /\ Len(b) \in Nat
        /\ \A i \in 1 .. Len(new) : inFile[i] = new[i]
    <3>1. /\ Len(new \o b) = Len(new) + Len(b) /\ Len(a \o b) = Len(a) + Len(b)
          /\ \A i \in 1 .. Len(new) + Len(b) :
               (new \o b)[i] = IF i <= Len(new) THEN new[i] ELSE b[i - Len(new)]
      BY <1>3, <1>8, ConcatProperties
    <3>2. Len(new) \in Nat /\ Len(b) \in Nat
      BY <1>3, <1>8, LenProperties
    <3>3. \A i \in 1 .. Len(new) : i \in 1 .. Len(new) + Len(b) /\ i <= Len(new)
      BY <3>2
    <3>4. \A i \in 1 .. Len(new) : (new \o b)[i] = new[i]
      BY <3>1, <3>3
    <3> QED BY <1>3, <1>9, <3>1, <3>2, <3>4
  <2>2. Len(inFile) - (Len(files[1]) - kept) = Len(new)
    BY <1>2, <2>1
  <2>3. inFile' = SubSeq(inFile, 1, Len(new))
    BY <1>2, <2>2
  <2>4. /\ SubSeq(inFile, 1, Len(new)) \in Seq(Lines) /\ Len(SubSeq(inFile, 1, Len(new))) = Len(new)
        /\ \A i \in 1 .. Len(new) : SubSeq(inFile, 1, Len(new))[i] = inFile[0 + i]
    <3>1. 0 + 1 = 1 /\ 0 <= Len(new) /\ Len(new) <= Len(inFile) /\ Len(new) - 0 = Len(new)
      BY <2>1
    <3> QED BY <1>1, <2>1, <3>1, Slice
  <2>5. \A i \in 1 .. Len(new) : SubSeq(inFile, 1, Len(new))[i] = new[i]
    BY <2>1, <2>4
  <2> QED BY <1>8, <2>3, <2>4, <2>5, SeqEqual
<1>11. FilesKept'
  BY <1>4, <1>5, <1>7, <1>10 DEF FilesKept, new
<1>12. FilesFull'
  BY <1>4 DEF FilesInv, FilesFull
<1>13. SizeRight'
  BY DEF Restart, SizeRight, OpenedSize
<1> QED BY <1>2, <1>4, <1>8, <1>10, <1>11, <1>12, <1>13 DEF FilesInv

LEMMA RestartTypes ==
  ASSUME LogTypeOK, Stages, FilesInv, Restart
  PROVE  LogTypeOK' /\ Stages'
<1>1. /\ files' \in [1 .. MaxFiles -> Seq(Lines)] /\ inFile' \in Seq(Lines) /\ synced' \in Nat
  BY RestartFiles
<1>2. /\ instance' = "up" /\ running' = TRUE /\ stopping' = "no" /\ writer' = Idle
      /\ current' = <<>> /\ flush' = <<>> /\ thread' = [t \in Threads |-> FALSE]
      /\ isOpen' \in BOOLEAN /\ size' = (IF isOpen' THEN OpenedSize(files') ELSE 0)
      /\ pushed' = pushed \cap Range(console) /\ undefined' = FALSE
      /\ restarts < MaxRestarts /\ restarts' = restarts + 1
      /\ UNCHANGED <<logged, console, raced>>
  BY DEF Restart
<1>3. writer'.at = "loop" /\ writer'.left = <<>> /\ writer' \in [at : {"loop"}, left : Seq(Lines)]
  BY <1>2, EmptySeq DEF Idle
<1>4. size' \in Nat
  <2>1. files'[1] \in Seq(Lines)
    BY <1>1, LogConstants
  <2> QED BY <1>2, <2>1, LenProperties DEF OpenedSize
<1>5. restarts' \in 0 .. MaxRestarts
  BY <1>2, LogConstants DEF LogTypeOK
<1>6. current' \in Seq(Lines) /\ Len(current') < BufferThreshold /\ flush' \in Seq(Seq(Lines))
  BY <1>2, EmptySeq, LogConstants
<1>7. LogTypeOK'
  BY <1>1, <1>2, <1>3, <1>4, <1>5, <1>6 DEF LogTypeOK
<1>8. Stages'
  BY <1>2, <1>3 DEF Stages
<1> QED BY <1>7, <1>8

LEMMA StopFlushFiles ==
  ASSUME LogTypeOK, FilesInv, StopFlush
  PROVE  FilesInv'
<1> DEFINE rest == FlattenSeq(flush) \o current
<1>1. rest \in Seq(Lines)
  BY ComingType, ConcatProperties
<1>2. /\ stopping' = "delete"
      /\ IF ~isOpen THEN UNCHANGED <<files, inFile>>
         ELSE files' = [files EXCEPT ![1] = @ \o rest] /\ inFile' = inFile \o rest
  BY DEF StopFlush, WriteRest, fileVars
<1> HIDE DEF rest
<1>3. FilesFull' /\ FilesKept'
  <2>1. CASE ~isOpen
    BY <1>2, <2>1, FilesSame
  <2>2. CASE isOpen
    BY <1>1, <1>2, <2>2, FilesGrow
  <2> QED BY <2>1, <2>2
<1> QED BY <1>2, <1>3 DEF FilesInv, SizeRight

LEMMA FilesInvNext ==
  ASSUME LogTypeOK, Stages, FilesInv, [LogNext]_logVars
  PROVE  FilesInv'
<1>1. CASE UNCHANGED <<files, inFile, isOpen, size>> /\ (stopping' \notin {"delete", "done"} =>
                                                         stopping \notin {"delete", "done"})
  BY <1>1, FilesSame DEF FilesInv, SizeRight
<1>2. CASE \/ \E t \in Threads : AppendSync(t) \/ EnterAppend(t) \/ PushLine(t)
           \/ CheckRunning \/ TakeBuffers \/ Recycle \/ Clear \/ Undefined
           \/ UNCHANGED logVars
  BY <1>1, <1>2 DEF AppendSync, EnterAppend, PushLine, CheckRunning, TakeBuffers, Recycle, Clear,
                    Undefined, logVars, fileVars
<1>3. CASE FlushFile
  BY <1>1, <1>3 DEF FlushFile
<1>4. CASE StopRunning \/ Join \/ StopDelete
  BY <1>1, <1>4 DEF StopRunning, Join, StopDelete, fileVars
<1>5. CASE WriteLine
  BY <1>5, WriteLineFiles
<1>6. CASE StopFlush
  BY <1>6, StopFlushFiles
<1>7. CASE Restart
  BY <1>7, RestartFiles
<1> QED BY <1>2, <1>3, <1>4, <1>5, <1>6, <1>7 DEF LogNext, WriterStep, StopStep

-----------------------------------------------------------------------------
LogInv == LogTypeOK /\ Stages /\ LineInv /\ FilesInv

LEMMA LogInvInit == LogInit => LogInv
BY LogInitTypes, LineInvInit, FilesInvInit DEF LogInv

LEMMA LogInvNext == LogInv /\ [LogNext]_logVars => LogInv'
<1> SUFFICES ASSUME LogInv, [LogNext]_logVars PROVE LogInv'
  OBVIOUS
<1>1. LogTypeOK /\ Stages /\ LineInv /\ FilesInv
  BY DEF LogInv
<1>2. LogTypeOK' /\ Stages'
  <2>1. CASE Undefined
    BY <1>1, <2>1 DEF Undefined, LogTypeOK, Stages, bufferVars, fileVars, history
  <2>2. CASE UNCHANGED logVars
    BY <1>1, <2>2 DEF logVars, LogTypeOK, Stages, bufferVars, fileVars, history
  <2> QED BY <1>1, <2>1, <2>2, AppendTypes, WriterTypes, StopTypes, RestartTypes DEF LogNext
<1>3. LineInv'
  BY <1>1, <1>2, LineInvNext
<1>4. FilesInv'
  BY <1>1, FilesInvNext
<1> QED BY <1>2, <1>3, <1>4 DEF LogInv

LEMMA LogInvariance == LogSpec => []LogInv
BY LogInvInit, LogInvNext, PTL DEF LogSpec

\* Type correctness of the logger.
THEOREM LogTypeCorrect == LogSpec => []LogTypeOK
<1>1. LogInv => LogTypeOK
  BY DEF LogInv
<1> QED BY <1>1, LogInvariance, PTL

\* For any threads, lines and sizes of buffers: what Append accepted is on the console
\* or still to come unless a buffer was pushed while the writer was at work, and the
\* lines of a thread come out in their order, none twice.
THEOREM LinesStayIntact == LogSpec => []LinesIntact
<1>1. LogInv => LinesIntact
  <2> SUFFICES ASSUME LogInv PROVE LinesIntact
    OBVIOUS
  <2>1. LogTypeOK /\ InOrder(Stream) /\ Said(Stream) /\ NoneMissing
    BY DEF LogInv, LineInv
  <2>2. console \in Seq(Lines) /\ Coming \in Seq(Lines)
    BY <2>1, ComingType
  <2>3. InOrder(console)
    BY <2>1, <2>2, OrderPrefix DEF Stream
  <2>4. ThreadOrder
    BY <2>3 DEF ThreadOrder, InOrder
  <2>5. NoneLost
    BY <2>1, StreamRange DEF NoneLost, NoneMissing
  <2> QED BY <2>1, <2>4, <2>5 DEF LinesIntact
<1> QED BY <1>1, LogInvariance, PTL

LEMMA FilesAreEnd == LogInv => FilesAreTheEnd
<1> SUFFICES ASSUME LogInv PROVE FilesAreTheEnd
  OBVIOUS
<1> DEFINE all == AllFiles
<1>1. /\ files \in [1 .. MaxFiles -> Seq(Lines)] /\ SizeRight /\ FilesFull /\ inFile \in Seq(Lines)
      /\ LogTypeOK
  BY DEF LogInv, LogTypeOK, FilesInv
<1>2. PICK lost \in Seq(Lines) :
        /\ inFile = lost \o all
        /\ lost # <<>> => \A i \in 2 .. MaxFiles : files[i] # <<>>
  BY DEF LogInv, FilesInv, FilesKept
<1> DEFINE o == FlattenSeq(Older(files))
<1>3. /\ o \in Seq(Lines) /\ all \in Seq(Lines) /\ all = o \o files[1] /\ files[1] \in Seq(Lines)
      /\ Older(files) \in Seq(Seq(Lines)) /\ Len(Older(files)) = MaxFiles - 1
      /\ \A i \in 1 .. MaxFiles - 1 : Older(files)[i] = files[MaxFiles - i + 1]
  BY <1>1, FilesSplit, ReverseIs, LogConstants DEF AllFiles
<1> HIDE DEF all
<1>4. IsSuffix(all, inFile)
  BY <1>2, <1>3, ConcatSuffix
<1>5. ASSUME Len(all) < Len(inFile) PROVE Len(all) >= (MaxFiles - 1) * MaxFileSize
  <2>1. lost # <<>>
    BY <1>2, <1>3, <1>5, NoMore, LenProperties
  <2>2. \A i \in DOMAIN Older(files) : Len(Older(files)[i]) >= MaxFileSize
    <3>1. DOMAIN Older(files) = 1 .. MaxFiles - 1
      BY <1>3, LenProperties
    <3>2. \A i \in 1 .. MaxFiles - 1 : MaxFiles - i + 1 \in 2 .. MaxFiles
      BY LogConstants
    <3> QED BY <1>1, <1>2, <1>3, <2>1, <3>1, <3>2 DEF FilesFull
  <2>3. MaxFileSize \in Nat
    BY LogConstants
  <2>4. Len(o) >= (MaxFiles - 1) * MaxFileSize
    BY <1>3, <2>2, <2>3, FlattenLen
  <2>5. MaxFiles - 1 \in Nat
    BY LogConstants
  <2>6. (MaxFiles - 1) * MaxFileSize \in Nat
    BY <2>3, <2>5, OneMore
  <2> HIDE DEF o
  <2>7. Len(all) = Len(o) + Len(files[1]) /\ Len(o) \in Nat /\ Len(files[1]) \in Nat
    BY <1>3, ConcatProperties, LenProperties
  <2> QED BY <2>4, <2>6, <2>7
<1>6. isOpen /\ stopping \notin {"delete", "done"} => size = Len(files[1])
  BY <1>1 DEF SizeRight
<1> QED BY <1>4, <1>5, <1>6 DEF FilesAreTheEnd, AllFiles, all

\* For any sizes and numbers of files: they are the end of what was written, without a
\* gap, and as much of it as fits, also after the process was killed.
THEOREM FilesStayTheEnd == LogSpec => []FilesAreTheEnd
BY FilesAreEnd, LogInvariance, PTL


-----------------------------------------------------------------------------
(* LifeCycle: its invariant.                                               *)

\* Before any thread has been created.
Early == {"boot", "killed", "logger", "config", "failed"}

\* The main loop, and what Start does after it.
Serving == {"check", "poll", "delete pool", "reset pool", "delete logger", "reset logger"}

Starting == {"spawn", "handshake", "asleep"}

Stopping == {"quit", "wakeup", "join"}

Stopped == {"destroy", "returned", "ended"}

\* Where a thread is, where its loop is, and what the two share.
SoundAt(t) ==
  /\ loop[t] = "none" <=> at[t] \in {"none", "new"}
  /\ loop[t] = "dying" <=> at[t] = "release"
  /\ loop[t] = "dead" <=> at[t] = "ended"
  /\ t \in published <=> at[t] \notin {"none", "new", "publish"}
  /\ using[t] # "none" <=> at[t] = "using"
  /\ at[t] \in {"delete", "release", "ended"} => quit[t]
  /\ open[t] => at[t] \notin {"none", "new", "ended"}

ThreadSound == \A t \in IoThreads : SoundAt(t)

\* Start has the threads before main.thread, and loops_ has their loops.
StartedInOrder ==
  /\ main.at \in Early \cup Serving => main.thread = 1
  /\ main.at \in Early =>
       /\ loops = <<>>
       /\ \A t \in IoThreads : at[t] = "none"
  /\ main.at \in Starting =>
       /\ loops = [i \in 1 .. main.thread - 1 |-> i]
       /\ \A t \in IoThreads : /\ t < main.thread => t \in published
                               /\ t > main.thread => at[t] = "none"
  /\ main.at = "spawn" => at[main.thread] = "none"
  /\ main.at \in {"check", "poll"} \cup GoingDown =>
       /\ loops = [i \in IoThreads |-> i]
       /\ \A t \in IoThreads : t \in published

\* ~Server has joined the threads before main.thread and told no later one.
StoppedAt(t) ==
  /\ quit[t] => \/ main.at \in Stopping /\ t < main.thread
                \/ main.at \in {"wakeup", "join"} /\ t = main.thread
                \/ main.at \in Stopped
  /\ main.at \in Stopping /\ t < main.thread => at[t] = "ended"
  /\ main.at \in Stopped => at[t] = "ended"

StoppedInOrder == \A t \in IoThreads : StoppedAt(t)

\* The singletons dangle only on the way down, and are gone when it ends.
SingletonsSound ==
  /\ main.at \notin GoingDown => \A s \in Singletons : singleton[s] # "dangling"
  /\ main.at \in {"delete logger", "reset logger"} \cup Stopping \cup Stopped =>
       singleton["pool"] = "none"
  /\ main.at \in Stopping \cup Stopped => singleton["logger"] = "none"

\* What a request uses is there until the way down.
LiveUse(t) ==
  using[t] # "none" /\ main.at \notin GoingDown => singleton[using[t]] = "live"

UsesLive == \A t \in IoThreads : LiveUse(t)

\* Only the handler of a connection uses the database pool.
UsesForConnection == \A t \in IoThreads : using[t] = "pool" => open[t]

\* The handler runs on a thread that is there, and none outlives the server.
HandlerSound ==
  /\ handler.at # "idle" => Alive(handler.on)
  /\ main.at \in {"returned", "ended"} => handler.at = "idle"

\* A fault lies on the way down, and without connections is one of three.
FaultSound ==
  /\ fault # "none" => main.at \in GoingDown
  /\ main.at \in GoingDown /\ ~busy => \A t \in IoThreads : ~open[t]
  /\ fault \in {"accept", "pool", "release"} => busy

Inv ==
  /\ TypeOK
  /\ ThreadSound
  /\ StartedInOrder
  /\ StoppedInOrder
  /\ SingletonsSound
  /\ UsesLive
  /\ UsesForConnection
  /\ HandlerSound
  /\ FaultSound

-----------------------------------------------------------------------------
(* Types.                                                                  *)

\* The helpers of the actions.
USE DEF IoThreads, Loops, Singletons, MainAt, ThreadAt, Goto, ThreadGoto, Running,
        Interrupted, loopVars

\* The thread after one that is not the last.
LEMMA NextInThreads ==
  ASSUME NEW i \in IoThreads
  PROVE  /\ i \in Loops /\ i \in Nat \ {0} /\ 0 \in Loops
         /\ i # ThreadNum => i + 1 \in IoThreads
  BY ThreadAssumption

\* StartLoop returns a loop or nullptr.
LEMMA AppendLoop ==
  ASSUME NEW s \in Seq(Loops), NEW l \in Loops
  PROVE  Append(s, l) \in Seq(Loops)
  BY AppendProperties

\* StartLoop returns, and Start goes on to the next thread or into the loop.
LEMMA StartedType ==
  ASSUME TypeOK, Started, main.thread \in published
  PROVE  /\ loops' \in Seq(Loops)
         /\ main' \in [at : MainPlaces, thread : IoThreads]
<1>1. main.thread \in IoThreads /\ loops \in Seq(Loops) /\ 1 \in IoThreads
  BY ThreadAssumption DEF TypeOK
<1>2. loops' = Append(loops, main.thread)
  BY DEF Started
<1>3. loops' \in Seq(Loops)
  BY <1>1, <1>2, AppendLoop, NextInThreads
<1>4. main' \in [at : MainPlaces, thread : IoThreads]
  BY <1>1, NextInThreads DEF Started, MainPlaces
<1> QED BY <1>3, <1>4

\* ~EventLoopThread returns, and the next one or the end of the pool follows.
LEMMA NextThreadType ==
  ASSUME TypeOK, NextThread
  PROVE  main' \in [at : MainPlaces, thread : IoThreads]
<1>1. main \in [at : MainPlaces, thread : IoThreads]
  BY DEF TypeOK
<1> QED BY <1>1, NextInThreads DEF NextThread, MainPlaces

\* The interrupted thread goes on.
LEMMA ReturnType ==
  ASSUME TypeOK, Resume
  PROVE  /\ main' \in [at : MainPlaces, thread : IoThreads]
         /\ at' \in [IoThreads -> {"none", "new", "publish", "notify", "check", "poll", "using",
                                   "delete", "release", "ended"}]
         /\ using' \in [IoThreads -> Singletons \cup {"none"}]
         /\ handler' \in [at : {"idle", "store", "wakeup"}, on : Loops]
<1>1. /\ main \in [at : MainPlaces, thread : IoThreads]
      /\ at \in [IoThreads -> {"none", "new", "publish", "notify", "check", "poll", "using",
                               "delete", "release", "ended"}]
      /\ using \in [IoThreads -> Singletons \cup {"none"}]
  BY DEF TypeOK
<1>2. handler' \in [at : {"idle", "store", "wakeup"}, on : Loops]
  BY ThreadAssumption DEF Resume
<1>3. main' \in [at : MainPlaces, thread : IoThreads]
  BY <1>1 DEF Resume, MainPlaces
<1>4. at' \in [IoThreads -> {"none", "new", "publish", "notify", "check", "poll", "using",
                             "delete", "release", "ended"}]
  BY <1>1 DEF Resume
<1>5. using' \in [IoThreads -> Singletons \cup {"none"}]
  BY <1>1 DEF Resume
<1> QED BY <1>2, <1>3, <1>4, <1>5

LEMMA TypeNext ==
  ASSUME TypeOK, [Next]_vars
  PROVE  TypeOK'
<1> USE ThreadAssumption, SignalAssumption DEF TypeOK, MainPlaces
<1>1. CASE InstallHandlers
  BY <1>1 DEF InstallHandlers
<1>2. CASE InitLogger
  BY <1>2 DEF InitLogger
<1>3. CASE ConfigMissing
  BY <1>3 DEF ConfigMissing
<1>4. CASE InitPool
  BY <1>4 DEF InitPool
<1>5. CASE Spawn
  BY <1>5 DEF Spawn
<1>6. CASE Handshake
  <2>1. CASE main.thread \in published
    <3>1. Started /\ UNCHANGED <<at, using, loopVars, published, singleton, handler, signals, busy, fault>>
      BY <1>6, <2>1 DEF Handshake
    <3>2. loops' \in Seq(Loops) /\ main' \in [at : MainPlaces, thread : IoThreads]
      BY <2>1, <3>1, StartedType
    <3> QED BY <3>1, <3>2
  <2>2. CASE main.thread \notin published
    BY ZenonT(40), <1>6, <2>2 DEF Handshake
  <2> QED BY <2>1, <2>2
<1>7. CASE MainCheck
  BY ZenonT(40), <1>7 DEF MainCheck
<1>8. CASE MainWakes
  BY <1>8 DEF MainWakes
<1>9. CASE DeletePool
  BY <1>9 DEF DeletePool, Delete
<1>10. CASE ResetPool
  BY <1>10 DEF ResetPool, Reset
<1>11. CASE DeleteLogger
  BY <1>11 DEF DeleteLogger, Delete
<1>12. CASE ResetLogger
  BY <1>12 DEF ResetLogger, Reset
<1>13. CASE StoreQuit
  BY <1>13 DEF StoreQuit
<1>14. CASE WakeLoop
  BY ZenonT(40), <1>14 DEF WakeLoop
<1>15. CASE JoinThread
  <2>1. main' \in [at : MainPlaces, thread : IoThreads]
    BY <1>15, NextThreadType DEF JoinThread
  <2> QED BY <1>15, <2>1 DEF JoinThread
<1>16. CASE DestroyServer
  BY <1>16 DEF DestroyServer
<1>17. CASE Exit
  BY <1>17 DEF Exit
<1>18. CASE Accept
  BY ZenonT(40), <1>18 DEF Accept
<1>19. CASE SpuriousStartWakeup
  BY <1>19 DEF SpuriousStartWakeup
<1>20. ASSUME NEW t \in IoThreads, ThreadStep(t) \/ BeginUse(t) \/ CloseConnections(t)
  PROVE  TypeOK'
  <2>1. CASE NewLoop(t)
    BY <2>1 DEF NewLoop
  <2>2. CASE Publish(t)
    BY <2>2 DEF Publish
  <2>3. CASE Notify(t)
    BY ZenonT(40), <2>3 DEF Notify
  <2>4. CASE Check(t)
    BY <2>4 DEF Check
  <2>5. CASE Wakes(t)
    BY <2>5 DEF Wakes
  <2>6. CASE EndUse(t)
    BY <2>6 DEF EndUse
  <2>7. CASE DestroyLoop(t)
    BY <2>7 DEF DestroyLoop
  <2>8. CASE ReleaseConnections(t)
    BY <2>8 DEF ReleaseConnections
  <2>9. CASE BeginUse(t)
    <3>1. PICK s \in Singletons : using' = [using EXCEPT ![t] = s]
      BY <2>9 DEF BeginUse
    <3>2. using' \in [IoThreads -> Singletons \cup {"none"}]
      BY <3>1
    <3> QED BY <2>9, <3>2 DEF BeginUse
  <2>10. CASE CloseConnections(t)
    BY <2>10 DEF CloseConnections
  <2> QED BY <1>20, <2>1, <2>2, <2>3, <2>4, <2>5, <2>6, <2>7, <2>8, <2>9, <2>10 DEF ThreadStep
<1>21. CASE Signal
  <2>1. signals' \in 0 .. MaxSignals
    <3>1. signals \in 0 .. MaxSignals /\ signals < MaxSignals /\ signals' = signals + 1
      BY <1>21 DEF Signal
    <3> HIDE DEF TypeOK
    <3> QED BY <3>1
  <2>2. CASE main.at = "boot"
    BY ZenonT(40), <1>21, <2>1, <2>2 DEF Signal
  <2>3. CASE main.at = "returned"
    BY <1>21, <2>1, <2>3 DEF Signal
  <2>4. CASE main.at \notin {"boot", "returned"}
    <3>1. PICK t \in Loops : handler' = [at |-> "store", on |-> t]
      BY <1>21, <2>4 DEF Signal
    <3>2. UNCHANGED <<main, fault>>
      BY <1>21, <2>4 DEF Signal
    <3> QED BY <1>21, <2>1, <3>1, <3>2 DEF Signal
  <2> QED BY <2>2, <2>3, <2>4
<1>22. CASE HandlerStore
  BY <1>22 DEF HandlerStore
<1>23. CASE HandlerWakeup
  <2>1. /\ Resume
        /\ wakeup' = [wakeup EXCEPT ![0] = TRUE]
        /\ UNCHANGED <<loop, quit, open, published, loops, singleton, signals, busy, fault>>
    BY <1>23 DEF HandlerWakeup
  <2>2. /\ main' \in [at : MainPlaces, thread : IoThreads]
        /\ at' \in [IoThreads -> {"none", "new", "publish", "notify", "check", "poll", "using",
                                  "delete", "release", "ended"}]
        /\ using' \in [IoThreads -> Singletons \cup {"none"}]
        /\ handler' \in [at : {"idle", "store", "wakeup"}, on : Loops]
    BY <2>1, ReturnType
  <2> QED BY <2>1, <2>2
<1>24. CASE UNCHANGED vars
  BY ZenonT(40), <1>24 DEF vars
<1> QED
  BY <1>1, <1>2, <1>3, <1>4, <1>5, <1>6, <1>7, <1>8, <1>9, <1>10, <1>11, <1>12, <1>13, <1>14, <1>15, <1>16, <1>17, <1>18, <1>19, <1>20, <1>21, <1>22, <1>23, <1>24 DEF Next, MainStep, HandlerStep

-----------------------------------------------------------------------------
(* The invariant is inductive.                                             *)

Places ==
  {"none", "new", "publish", "notify", "check", "poll", "using", "delete", "release", "ended"}

\* What a thread has, and where main is.
Typed ==
  /\ main \in [at : MainPlaces, thread : IoThreads]
  /\ at \in [IoThreads -> Places]
  /\ using \in [IoThreads -> Singletons \cup {"none"}]
  /\ loop \in [Loops -> {"none", "live", "dying", "dead"}]
  /\ published \subseteq IoThreads
  /\ quit \in [Loops -> BOOLEAN]
  /\ open \in [Loops -> BOOLEAN]
  /\ IoThreads \subseteq Loops
  /\ 0 \in Loops
  /\ 0 \notin IoThreads

LEMMA TypesOfThreads ==
  ASSUME TypeOK
  PROVE  Typed
  BY NextInThreads, ThreadAssumption DEF TypeOK, Typed, Places

USE DEF Typed, Places
HIDE DEF IoThreads, Loops, Singletons

LEMMA ThreadSoundNext ==
  ASSUME Inv, [Next]_vars
  PROVE  ThreadSound'
<1>0. Typed
  BY TypesOfThreads DEF Inv
<1> SUFFICES ASSUME NEW u \in IoThreads
             PROVE  SoundAt(u)'
  BY DEF ThreadSound
<1>a. SoundAt(u)
  BY DEF Inv, ThreadSound
<1> USE <1>0, <1>a DEF SoundAt
<1>1. CASE InstallHandlers
  BY <1>1 DEF InstallHandlers
<1>2. CASE InitLogger
  BY <1>2 DEF InitLogger
<1>3. CASE ConfigMissing
  BY <1>3 DEF ConfigMissing
<1>4. CASE InitPool
  BY <1>4 DEF InitPool
<1>5. CASE Spawn
  <2>1. at[main.thread] = "none" /\ main.thread \in IoThreads
    BY <1>5 DEF Spawn, Inv, StartedInOrder
  <2> QED BY <1>5, <2>1 DEF Spawn
<1>6. CASE Handshake
  BY <1>6 DEF Handshake, Started
<1>7. CASE MainCheck
  BY <1>7 DEF MainCheck
<1>8. CASE MainWakes
  BY <1>8 DEF MainWakes
<1>9. CASE DeletePool
  BY <1>9 DEF DeletePool, Delete
<1>10. CASE ResetPool
  BY <1>10 DEF ResetPool, Reset
<1>11. CASE DeleteLogger
  BY <1>11 DEF DeleteLogger, Delete
<1>12. CASE ResetLogger
  BY <1>12 DEF ResetLogger, Reset
<1>13. CASE StoreQuit
  BY <1>13 DEF StoreQuit
<1>14. CASE WakeLoop
  BY <1>14 DEF WakeLoop
<1>15. CASE JoinThread
  BY <1>15 DEF JoinThread, NextThread
<1>16. CASE DestroyServer
  BY <1>16 DEF DestroyServer
<1>17. CASE Exit
  BY <1>17 DEF Exit
<1>18. CASE Accept
  BY <1>18 DEF Accept
<1>19. CASE SpuriousStartWakeup
  BY <1>19 DEF SpuriousStartWakeup
<1>20. ASSUME NEW t \in IoThreads, ThreadStep(t) \/ BeginUse(t) \/ CloseConnections(t)
  PROVE  SoundAt(u)'
  <2>1. CASE NewLoop(t)
    BY <2>1 DEF NewLoop
  <2>2. CASE Publish(t)
    BY <2>2 DEF Publish
  <2>3. CASE Notify(t)
    BY <2>3 DEF Notify
  <2>4. CASE Check(t)
    BY <2>4 DEF Check
  <2>5. CASE Wakes(t)
    BY <2>5 DEF Wakes
  <2>6. CASE EndUse(t)
    BY <2>6 DEF EndUse
  <2>7. CASE DestroyLoop(t)
    BY <2>7 DEF DestroyLoop
  <2>8. CASE ReleaseConnections(t)
    BY <2>8 DEF ReleaseConnections
  <2>9. CASE BeginUse(t)
    <3>1. PICK s \in Singletons : using' = [using EXCEPT ![t] = s]
      BY <2>9 DEF BeginUse
    <3>2. s # "none"
      BY DEF Singletons
    <3> QED BY <2>9, <3>1, <3>2 DEF BeginUse
  <2>10. CASE CloseConnections(t)
    BY <2>10 DEF CloseConnections
  <2> QED BY <1>20, <2>1, <2>2, <2>3, <2>4, <2>5, <2>6, <2>7, <2>8, <2>9, <2>10 DEF ThreadStep
<1>21. CASE Signal
  BY <1>21 DEF Signal, Alive
<1>22. CASE HandlerStore
  BY <1>22 DEF HandlerStore
<1>23. CASE HandlerWakeup
  BY <1>23 DEF HandlerWakeup, Resume
<1>24. CASE UNCHANGED vars
  BY <1>24 DEF vars
<1> QED
  BY <1>1, <1>2, <1>3, <1>4, <1>5, <1>6, <1>7, <1>8, <1>9, <1>10, <1>11, <1>12, <1>13, <1>14, <1>15, <1>16, <1>17, <1>18, <1>19, <1>20, <1>21, <1>22, <1>23, <1>24 DEF Next, MainStep, HandlerStep

\* Any loop is the main thread's or an IO thread's.
LEMMA OnThread ==
  \A l \in Loops : l # 0 => l \in IoThreads
  BY ThreadAssumption DEF Loops, IoThreads

\* Before the first thread there is none.
LEMMA NotBeforeFirst == \A t \in IoThreads : ~(t < 1)
  BY ThreadAssumption DEF IoThreads

\* Before the first thread loops_ is empty.
LEMMA FirstLoops == [i \in 1 .. 1 - 1 |-> i] = <<>>
<1>1. 1 .. 1 - 1 = {}
  OBVIOUS
<1>2. [i \in 1 .. 1 - 1 |-> i] \in Seq(Nat) /\ Len([i \in 1 .. 1 - 1 |-> i]) = 0
  OBVIOUS
<1> QED BY <1>2, EmptySeq

\* loops_ grows by the loop of the next thread.
LEMMA AppendNext ==
  ASSUME NEW n \in Nat \ {0}
  PROVE  Append([i \in 1 .. n - 1 |-> i], n) = [i \in 1 .. n |-> i]
<1> DEFINE s == [i \in 1 .. n - 1 |-> i]
<1>1. s \in Seq(Nat) /\ Len(s) = n - 1
  OBVIOUS
<1>2. Append(s, n) = [i \in 1 .. n |-> IF i = n THEN n ELSE s[i]]
  BY <1>1
<1>3. \A i \in 1 .. n : (IF i = n THEN n ELSE s[i]) = i
  OBVIOUS
<1> QED BY <1>2, <1>3

\* While the main loop runs, every thread has its loop and has not been told to
\* quit.
LEMMA WhileServing ==
  ASSUME Inv, main.at \in {"check", "poll"}
  PROVE  /\ loops = [i \in IoThreads |-> i]
         /\ \A t \in IoThreads : t # 0 /\ loop[t] = "live" /\ ~quit[t]
<1>0. Typed
  BY TypesOfThreads DEF Inv
<1>1. loops = [i \in IoThreads |-> i] /\ \A t \in IoThreads : t \in published
  BY DEF Inv, StartedInOrder
<1>2. ASSUME NEW t \in IoThreads
      PROVE  t # 0 /\ loop[t] = "live" /\ ~quit[t]
  <2>1. StoppedAt(t) /\ SoundAt(t) /\ t \in published
    BY <1>1 DEF Inv, StoppedInOrder, ThreadSound
  <2>2. ~quit[t]
    BY <2>1 DEF StoppedAt, Stopping, Stopped
  <2>3. loop[t] = "live"
    BY <1>0, <2>1, <2>2 DEF SoundAt
  <2> QED BY <1>0, <2>2, <2>3
<1> QED BY <1>1, <1>2

\* Where main goes when a thread wakes it, when a signal comes, and when the
\* handler returns.
LEMMA NotifyMoves ==
  ASSUME Typed, NEW t \in IoThreads, Notify(t)
  PROVE  /\ main'.thread = main.thread
         /\ main'.at = main.at \/ (main.at = "asleep" /\ main'.at = "handshake")
<1>1. CASE main = [at |-> "asleep", thread |-> t]
  <2>1. main' = [main EXCEPT !.at = "handshake"]
    BY <1>1 DEF Notify
  <2>2. main.at = "asleep"
    BY <1>1
  <2> QED BY <2>1, <2>2
<1>2. CASE main # [at |-> "asleep", thread |-> t]
  BY <1>2 DEF Notify
<1> QED BY <1>1, <1>2

LEMMA SignalMoves ==
  ASSUME Typed, Signal
  PROVE  /\ main'.thread = main.thread
         /\ main'.at = main.at \/ (main.at = "boot" /\ main'.at = "killed")
<1>1. CASE main.at = "boot"
  BY <1>1 DEF Signal
<1>2. CASE main.at # "boot"
  BY <1>2 DEF Signal
<1> QED BY <1>1, <1>2

LEMMA ReturnMoves ==
  ASSUME Typed, Resume
  PROVE  /\ main'.thread = main.thread
         /\ main'.at = main.at \/ (main.at = "poll" /\ main'.at = "check")
         /\ \A t \in IoThreads : at[t] = "none" => at'[t] = "none"
<1>1. CASE UNCHANGED <<main, at, using>>
  BY <1>1
<1>2. CASE main.at = "poll" /\ main' = [main EXCEPT !.at = "check"] /\ UNCHANGED <<at, using>>
  BY <1>2
<1>3. CASE /\ UNCHANGED main /\ at[handler.on] = "poll"
           /\ \/ at' = [at EXCEPT ![handler.on] = "check"]
              \/ at' = [at EXCEPT ![handler.on] = "using"]
  BY <1>3
<1> QED BY <1>1, <1>2, <1>3 DEF Resume

\* MainCheck ends the loop or goes on.
LEMMA CheckMoves ==
  ASSUME Typed, MainCheck
  PROVE  /\ main'.thread = main.thread
         /\ main.at = "check"
         /\ main'.at = "poll" \/ main'.at = "delete pool"
<1>1. CASE quit[0]
  BY <1>1 DEF MainCheck
<1>2. CASE ~quit[0]
  BY <1>2 DEF MainCheck
<1> QED BY <1>1, <1>2

LEMMA StoppedInOrderNext ==
  ASSUME Inv, [Next]_vars
  PROVE  StoppedInOrder'
<1>0. Typed
  BY TypesOfThreads DEF Inv
<1> SUFFICES ASSUME NEW u \in IoThreads
             PROVE  StoppedAt(u)'
  BY DEF StoppedInOrder
<1>a. StoppedAt(u) /\ SoundAt(u)
  BY DEF Inv, StoppedInOrder, ThreadSound
<1> USE <1>0, <1>a DEF StoppedAt, Stopping, Stopped
<1>1. CASE InstallHandlers
  BY <1>1 DEF InstallHandlers
<1>2. CASE InitLogger
  BY <1>2 DEF InitLogger
<1>3. CASE ConfigMissing
  BY <1>3 DEF ConfigMissing
<1>4. CASE InitPool
  BY <1>4 DEF InitPool
<1>5. CASE Spawn
  BY <1>5 DEF Spawn
<1>6. CASE Handshake
  BY <1>6 DEF Handshake, Started
<1>7. CASE MainCheck
  BY ZenonT(40), <1>7 DEF MainCheck
<1>8. CASE MainWakes
  BY <1>8 DEF MainWakes
<1>9. CASE DeletePool
  BY <1>9 DEF DeletePool, Delete
<1>10. CASE ResetPool
  BY <1>10 DEF ResetPool, Reset
<1>11. CASE DeleteLogger
  BY <1>11 DEF DeleteLogger, Delete
<1>12. CASE ResetLogger
  <2>1. main.thread = 1 /\ u \in Nat \ {0}
    BY <1>12, NextInThreads DEF ResetLogger, Inv, StartedInOrder, Serving
  <2>2. ~(u < main.thread)
    BY <2>1
  <2>3. /\ main' = [main EXCEPT !.at = "quit"] /\ main.at = "reset logger"
        /\ UNCHANGED <<quit, at>>
    BY <1>12 DEF ResetLogger, Reset
  <2> QED BY <2>2, <2>3
<1>13. CASE StoreQuit
  BY <1>13 DEF StoreQuit
<1>14. CASE WakeLoop
  BY <1>14 DEF WakeLoop
<1>15. CASE JoinThread
  <2>0. /\ at[main.thread] = "ended" /\ main.thread \in IoThreads
        /\ ThreadNum \in Nat /\ main.thread \in 1 .. ThreadNum /\ u \in 1 .. ThreadNum
    BY <1>15, ThreadAssumption DEF JoinThread, IoThreads
  <2>1. CASE main.thread = ThreadNum
    BY <1>15, <2>0, <2>1 DEF JoinThread, NextThread
  <2>2. CASE main.thread # ThreadNum
    BY <1>15, <2>0, <2>2 DEF JoinThread, NextThread
  <2> QED BY <2>1, <2>2
<1>16. CASE DestroyServer
  BY <1>16 DEF DestroyServer
<1>17. CASE Exit
  BY <1>17 DEF Exit
<1>18. CASE Accept
  BY <1>18 DEF Accept
<1>19. CASE SpuriousStartWakeup
  BY <1>19 DEF SpuriousStartWakeup
<1>20. ASSUME NEW t \in IoThreads, ThreadStep(t) \/ BeginUse(t) \/ CloseConnections(t)
  PROVE  StoppedAt(u)'
  <2>1. CASE NewLoop(t)
    BY <2>1 DEF NewLoop
  <2>2. CASE Publish(t)
    BY <2>2 DEF Publish
  <2>3. CASE Notify(t)
    BY <2>3 DEF Notify
  <2>4. CASE Check(t)
    BY <2>4 DEF Check
  <2>5. CASE Wakes(t)
    BY <2>5 DEF Wakes
  <2>6. CASE EndUse(t)
    BY <2>6 DEF EndUse
  <2>7. CASE DestroyLoop(t)
    BY <2>7 DEF DestroyLoop
  <2>8. CASE ReleaseConnections(t)
    BY <2>8 DEF ReleaseConnections
  <2>9. CASE BeginUse(t)
    BY <2>9 DEF BeginUse
  <2>10. CASE CloseConnections(t)
    BY <2>10 DEF CloseConnections
  <2> QED BY <1>20, <2>1, <2>2, <2>3, <2>4, <2>5, <2>6, <2>7, <2>8, <2>9, <2>10 DEF ThreadStep
<1>21. CASE Signal
  BY <1>21 DEF Signal, Alive
<1>22. CASE HandlerStore
  BY <1>22 DEF HandlerStore
<1>23. CASE HandlerWakeup
  BY <1>23 DEF HandlerWakeup, Resume
<1>24. CASE UNCHANGED vars
  BY <1>24 DEF vars
<1> QED
  BY <1>1, <1>2, <1>3, <1>4, <1>5, <1>6, <1>7, <1>8, <1>9, <1>10, <1>11, <1>12, <1>13, <1>14, <1>15, <1>16, <1>17, <1>18, <1>19, <1>20, <1>21, <1>22, <1>23, <1>24 DEF Next, MainStep, HandlerStep

LEMMA StartedInOrderNext ==
  ASSUME Inv, [Next]_vars
  PROVE  StartedInOrder'
<1>0. Typed
  BY TypesOfThreads DEF Inv
<1>a. StartedInOrder /\ ThreadSound
  BY DEF Inv
<1> USE <1>0, <1>a DEF StartedInOrder, Early, Starting, Serving, GoingDown
<1>1. CASE InstallHandlers
  BY <1>1 DEF InstallHandlers
<1>2. CASE InitLogger
  BY <1>2 DEF InitLogger
<1>3. CASE ConfigMissing
  BY <1>3 DEF ConfigMissing
<1>4. CASE InitPool
  <2>1. /\ main' = [main EXCEPT !.at = "spawn"] /\ UNCHANGED <<at, published, loops>>
        /\ main.thread = 1 /\ loops = <<>> /\ \A v \in IoThreads : at[v] = "none" /\ v \in Nat \ {0}
    BY <1>4, NextInThreads DEF InitPool
  <2>2. [i \in 1 .. 1 - 1 |-> i] = <<>>
    BY FirstLoops
  <2>3. main'.at = "spawn" /\ main'.thread = 1
    BY <2>1
  <2>4. loops' = [i \in 1 .. main'.thread - 1 |-> i]
    BY <2>1, <2>2, <2>3
  <2>5. \A v \in IoThreads : ~(v < 1)
    BY NotBeforeFirst
  <2>6. at'[main'.thread] = "none" /\ \A v \in IoThreads : at'[v] = "none"
    BY <2>1, <2>3
  <2>7. /\ main'.at \notin Early \cup Serving
        /\ main'.at \notin {"check", "poll"} \cup GoingDown
    BY <2>3
  <2> QED BY <2>3, <2>4, <2>5, <2>6, <2>7
<1>5. CASE Spawn
  <2>1. /\ main' = [main EXCEPT !.at = "handshake"] /\ UNCHANGED <<published, loops>>
        /\ at' = [at EXCEPT ![main.thread] = "new"]
        /\ main.at = "spawn" /\ main.thread \in IoThreads
    BY <1>5 DEF Spawn
  <2>2. main'.at = "handshake" /\ main'.thread = main.thread
    BY <2>1
  <2>3. ASSUME NEW v \in IoThreads
        PROVE  /\ v < main.thread => v \in published
               /\ v > main.thread => at'[v] = "none"
    <3>1. v > main.thread => v # main.thread
      BY NextInThreads, <2>1
    <3> QED BY <2>1, <3>1
  <2> QED BY <2>1, <2>2, <2>3
<1>6. CASE Handshake
  <2>1. CASE main.thread \notin published
    <3>1. /\ main' = [main EXCEPT !.at = "asleep"] /\ main.at = "handshake"
          /\ UNCHANGED <<at, published, loops>>
      BY <1>6, <2>1 DEF Handshake
    <3>2. main'.at = "asleep" /\ main'.thread = main.thread
      BY <3>1
    <3> QED BY <3>1, <3>2
  <2>2. CASE main.thread \in published
    <3>1. /\ Started /\ UNCHANGED <<at, published>> /\ main.at = "handshake"
          /\ main.thread \in IoThreads /\ main.thread \in Nat \ {0}
          /\ loops = [i \in 1 .. main.thread - 1 |-> i]
      BY <1>6, <2>2, NextInThreads DEF Handshake
    <3>2. loops' = [i \in 1 .. main.thread |-> i]
      BY <2>2, <3>1, AppendNext DEF Started
    <3>3. \A v \in IoThreads : v <= main.thread => v \in published
      BY <2>2, <3>1, NextInThreads
    <3>4. CASE main.thread = ThreadNum
      <4>1. main' = [at |-> "check", thread |-> 1]
        BY <3>1, <3>4 DEF Started
      <4>2. IoThreads = 1 .. main.thread /\ \A v \in IoThreads : v <= main.thread
        BY <3>1, <3>4 DEF IoThreads
      <4> QED BY <3>1, <3>2, <3>3, <4>1, <4>2
    <3>5. CASE main.thread # ThreadNum
      <4>1. main' = [at |-> "spawn", thread |-> main.thread + 1]
        BY <3>1, <3>5 DEF Started
      <4>2. main'.at = "spawn" /\ main'.thread = main.thread + 1 /\ main'.thread - 1 = main.thread
        BY <3>1, <4>1
      <4>3. main.thread + 1 \in IoThreads /\ main.thread + 1 > main.thread
        BY <3>1, <3>5, NextInThreads
      <4>4. \A v \in IoThreads : v > main.thread => at[v] = "none"
        BY <3>1
      <4>5. ASSUME NEW v \in IoThreads
            PROVE  /\ v < main.thread + 1 => v \in published
                   /\ v > main.thread + 1 => at[v] = "none"
        BY <3>1, <3>3, <4>4, NextInThreads
      <4> QED BY <3>1, <3>2, <4>2, <4>3, <4>4, <4>5
    <3> QED BY <3>4, <3>5
  <2> QED BY <2>1, <2>2
<1>7. CASE MainCheck
  <2>1. UNCHANGED <<at, published, loops>>
    BY <1>7 DEF MainCheck
  <2> QED BY <1>7, <2>1, CheckMoves
<1>8. CASE MainWakes
  BY <1>8 DEF MainWakes
<1>9. CASE DeletePool
  BY <1>9 DEF DeletePool, Delete
<1>10. CASE ResetPool
  BY <1>10 DEF ResetPool, Reset
<1>11. CASE DeleteLogger
  BY <1>11 DEF DeleteLogger, Delete
<1>12. CASE ResetLogger
  BY <1>12 DEF ResetLogger, Reset
<1>13. CASE StoreQuit
  BY <1>13 DEF StoreQuit
<1>14. CASE WakeLoop
  BY <1>14 DEF WakeLoop
<1>15. CASE JoinThread
  BY <1>15 DEF JoinThread, NextThread
<1>16. CASE DestroyServer
  BY <1>16 DEF DestroyServer
<1>17. CASE Exit
  BY <1>17 DEF Exit
<1>18. CASE Accept
  BY <1>18 DEF Accept
<1>19. CASE SpuriousStartWakeup
  BY <1>19 DEF SpuriousStartWakeup
<1>20. ASSUME NEW t \in IoThreads, ThreadStep(t) \/ BeginUse(t) \/ CloseConnections(t)
  PROVE  StartedInOrder'
  <2>1. CASE NewLoop(t)
    BY <2>1 DEF NewLoop
  <2>2. CASE Publish(t)
    BY <2>2 DEF Publish
  <2>3. CASE Notify(t)
    <3>1. /\ UNCHANGED <<published, loops>>
          /\ at' = [at EXCEPT ![t] = "check"] /\ at[t] = "notify"
      BY <2>3 DEF Notify
    <3>2. \A v \in IoThreads : at[v] = "none" => at'[v] = "none"
      BY <3>1
    <3>3. at'[main.thread] = at[main.thread] \/ at[main.thread] # "none"
      BY <3>1
    <3> QED BY <2>3, <3>1, <3>2, <3>3, NotifyMoves
  <2>4. CASE Check(t)
    BY <2>4 DEF Check
  <2>5. CASE Wakes(t)
    BY <2>5 DEF Wakes
  <2>6. CASE EndUse(t)
    BY <2>6 DEF EndUse
  <2>7. CASE DestroyLoop(t)
    BY <2>7 DEF DestroyLoop
  <2>8. CASE ReleaseConnections(t)
    BY <2>8 DEF ReleaseConnections
  <2>9. CASE BeginUse(t)
    BY <2>9 DEF BeginUse
  <2>10. CASE CloseConnections(t)
    BY <2>10 DEF CloseConnections
  <2> QED BY <1>20, <2>1, <2>2, <2>3, <2>4, <2>5, <2>6, <2>7, <2>8, <2>9, <2>10 DEF ThreadStep
<1>21. CASE Signal
  <2>1. UNCHANGED <<at, published, loops>>
    BY <1>21 DEF Signal
  <2> QED BY <1>21, <2>1, SignalMoves
<1>22. CASE HandlerStore
  BY <1>22 DEF HandlerStore
<1>23. CASE HandlerWakeup
  <2>1. UNCHANGED <<published, loops>> /\ Resume
    BY <1>23 DEF HandlerWakeup
  <2>2. main.thread \in IoThreads
    OBVIOUS
  <2> QED BY <2>1, <2>2, ReturnMoves
<1>24. CASE UNCHANGED vars
  BY <1>24 DEF vars
<1> QED
  BY <1>1, <1>2, <1>3, <1>4, <1>5, <1>6, <1>7, <1>8, <1>9, <1>10, <1>11, <1>12, <1>13, <1>14, <1>15, <1>16, <1>17, <1>18, <1>19, <1>20, <1>21, <1>22, <1>23, <1>24 DEF Next, MainStep, HandlerStep

LEMMA SingletonsSoundNext ==
  ASSUME Inv, [Next]_vars
  PROVE  SingletonsSound'
<1>0. Typed /\ singleton \in [Singletons -> {"none", "live", "dangling"}]
  BY TypesOfThreads DEF Inv, TypeOK
<1>a. SingletonsSound
  BY DEF Inv
<1> USE <1>0, <1>a DEF SingletonsSound, Singletons, GoingDown, Stopping, Stopped
<1>1. CASE InstallHandlers
  BY <1>1 DEF InstallHandlers
<1>2. CASE InitLogger
  BY <1>2 DEF InitLogger
<1>3. CASE ConfigMissing
  BY <1>3 DEF ConfigMissing
<1>4. CASE InitPool
  BY <1>4 DEF InitPool
<1>5. CASE Spawn
  BY <1>5 DEF Spawn
<1>6. CASE Handshake
  <2>1. UNCHANGED singleton /\ main.at = "handshake" /\ main'.at \in {"spawn", "check", "asleep"}
    BY <1>6 DEF Handshake, Started
  <2> QED BY <2>1
<1>7. CASE MainCheck
  <2>1. UNCHANGED singleton /\ main.at = "check" /\ main'.at \in {"poll", "delete pool"}
    BY <1>7 DEF MainCheck
  <2> QED BY <2>1
<1>8. CASE MainWakes
  BY <1>8 DEF MainWakes
<1>9. CASE DeletePool
  BY <1>9 DEF DeletePool, Delete
<1>10. CASE ResetPool
  BY <1>10 DEF ResetPool, Reset
<1>11. CASE DeleteLogger
  BY <1>11 DEF DeleteLogger, Delete
<1>12. CASE ResetLogger
  BY <1>12 DEF ResetLogger, Reset
<1>13. CASE StoreQuit
  BY <1>13 DEF StoreQuit
<1>14. CASE WakeLoop
  BY <1>14 DEF WakeLoop
<1>15. CASE JoinThread
  BY <1>15 DEF JoinThread, NextThread
<1>16. CASE DestroyServer
  BY <1>16 DEF DestroyServer
<1>17. CASE Exit
  BY <1>17 DEF Exit
<1>18. CASE Accept
  BY <1>18 DEF Accept
<1>19. CASE SpuriousStartWakeup
  BY <1>19 DEF SpuriousStartWakeup
<1>20. ASSUME NEW t \in IoThreads, ThreadStep(t) \/ BeginUse(t) \/ CloseConnections(t)
  PROVE  SingletonsSound'
  <2>1. CASE NewLoop(t)
    BY <2>1 DEF NewLoop
  <2>2. CASE Publish(t)
    BY <2>2 DEF Publish
  <2>3. CASE Notify(t)
    <3>1. UNCHANGED singleton
      BY <2>3 DEF Notify
    <3> QED BY <2>3, <3>1, NotifyMoves
  <2>4. CASE Check(t)
    BY <2>4 DEF Check
  <2>5. CASE Wakes(t)
    BY <2>5 DEF Wakes
  <2>6. CASE EndUse(t)
    BY <2>6 DEF EndUse
  <2>7. CASE DestroyLoop(t)
    BY <2>7 DEF DestroyLoop
  <2>8. CASE ReleaseConnections(t)
    BY <2>8 DEF ReleaseConnections
  <2>9. CASE BeginUse(t)
    BY <2>9 DEF BeginUse
  <2>10. CASE CloseConnections(t)
    BY <2>10 DEF CloseConnections
  <2> QED BY <1>20, <2>1, <2>2, <2>3, <2>4, <2>5, <2>6, <2>7, <2>8, <2>9, <2>10 DEF ThreadStep
<1>21. CASE Signal
  BY ZenonT(40), <1>21 DEF Signal, Alive
<1>22. CASE HandlerStore
  BY <1>22 DEF HandlerStore
<1>23. CASE HandlerWakeup
  BY ZenonT(40), <1>23 DEF HandlerWakeup, Resume
<1>24. CASE UNCHANGED vars
  BY <1>24 DEF vars
<1> QED
  BY <1>1, <1>2, <1>3, <1>4, <1>5, <1>6, <1>7, <1>8, <1>9, <1>10, <1>11, <1>12, <1>13, <1>14, <1>15, <1>16, <1>17, <1>18, <1>19, <1>20, <1>21, <1>22, <1>23, <1>24 DEF Next, MainStep, HandlerStep

LEMMA UsesLiveNext ==
  ASSUME Inv, [Next]_vars
  PROVE  UsesLive'
<1>0. Typed /\ singleton \in [Singletons -> {"none", "live", "dangling"}]
  BY TypesOfThreads DEF Inv, TypeOK
<1> SUFFICES ASSUME NEW u \in IoThreads
             PROVE  LiveUse(u)'
  BY DEF UsesLive
<1>a. LiveUse(u) /\ SoundAt(u) /\ SingletonsSound
  BY DEF Inv, UsesLive, ThreadSound
<1> USE <1>0, <1>a DEF LiveUse, SoundAt, SingletonsSound, Singletons, GoingDown
<1>1. CASE InstallHandlers
  BY <1>1 DEF InstallHandlers
<1>2. CASE InitLogger
  BY <1>2 DEF InitLogger
<1>3. CASE ConfigMissing
  BY <1>3 DEF ConfigMissing
<1>4. CASE InitPool
  BY <1>4 DEF InitPool
<1>5. CASE Spawn
  BY <1>5 DEF Spawn
<1>6. CASE Handshake
  BY <1>6 DEF Handshake, Started
<1>7. CASE MainCheck
  BY <1>7 DEF MainCheck
<1>8. CASE MainWakes
  BY <1>8 DEF MainWakes
<1>9. CASE DeletePool
  BY <1>9 DEF DeletePool, Delete
<1>10. CASE ResetPool
  BY <1>10 DEF ResetPool, Reset
<1>11. CASE DeleteLogger
  BY <1>11 DEF DeleteLogger, Delete
<1>12. CASE ResetLogger
  BY <1>12 DEF ResetLogger, Reset
<1>13. CASE StoreQuit
  BY <1>13 DEF StoreQuit
<1>14. CASE WakeLoop
  BY <1>14 DEF WakeLoop
<1>15. CASE JoinThread
  BY <1>15 DEF JoinThread, NextThread
<1>16. CASE DestroyServer
  BY <1>16 DEF DestroyServer
<1>17. CASE Exit
  BY <1>17 DEF Exit
<1>18. CASE Accept
  BY <1>18 DEF Accept
<1>19. CASE SpuriousStartWakeup
  BY <1>19 DEF SpuriousStartWakeup
<1>20. ASSUME NEW t \in IoThreads, ThreadStep(t) \/ BeginUse(t) \/ CloseConnections(t)
  PROVE  LiveUse(u)'
  <2>1. CASE NewLoop(t)
    BY <2>1 DEF NewLoop
  <2>2. CASE Publish(t)
    BY <2>2 DEF Publish
  <2>3. CASE Notify(t)
    <3>1. UNCHANGED <<singleton, using>>
      BY <2>3 DEF Notify
    <3> QED BY <2>3, <3>1, NotifyMoves
  <2>4. CASE Check(t)
    BY <2>4 DEF Check
  <2>5. CASE Wakes(t)
    BY <2>5 DEF Wakes
  <2>6. CASE EndUse(t)
    BY <2>6 DEF EndUse
  <2>7. CASE DestroyLoop(t)
    BY <2>7 DEF DestroyLoop
  <2>8. CASE ReleaseConnections(t)
    BY <2>8 DEF ReleaseConnections
  <2>9. CASE BeginUse(t)
    <3>1. PICK s \in Singletons : singleton[s] # "none" /\ using' = [using EXCEPT ![t] = s]
      BY <2>9 DEF BeginUse
    <3>2. main.at \notin GoingDown => singleton[s] = "live"
      BY <3>1
    <3>3. UNCHANGED <<main, singleton>>
      BY <2>9 DEF BeginUse
    <3> QED BY <3>1, <3>2, <3>3
  <2>10. CASE CloseConnections(t)
    BY <2>10 DEF CloseConnections
  <2> QED BY <1>20, <2>1, <2>2, <2>3, <2>4, <2>5, <2>6, <2>7, <2>8, <2>9, <2>10 DEF ThreadStep
<1>21. CASE Signal
  BY <1>21 DEF Signal, Alive
<1>22. CASE HandlerStore
  BY <1>22 DEF HandlerStore
<1>23. CASE HandlerWakeup
  BY ZenonT(40), <1>23 DEF HandlerWakeup, Resume
<1>24. CASE UNCHANGED vars
  BY <1>24 DEF vars
<1> QED
  BY <1>1, <1>2, <1>3, <1>4, <1>5, <1>6, <1>7, <1>8, <1>9, <1>10, <1>11, <1>12, <1>13, <1>14, <1>15, <1>16, <1>17, <1>18, <1>19, <1>20, <1>21, <1>22, <1>23, <1>24 DEF Next, MainStep, HandlerStep

LEMMA UsesForConnectionNext ==
  ASSUME Inv, [Next]_vars
  PROVE  UsesForConnection'
<1>0. Typed
  BY TypesOfThreads DEF Inv
<1>a. UsesForConnection /\ \A u \in IoThreads : using[u] # "none" => at[u] = "using"
  BY DEF Inv, ThreadSound, SoundAt
<1> USE <1>0, <1>a DEF UsesForConnection
<1>1. CASE InstallHandlers
  BY <1>1 DEF InstallHandlers
<1>2. CASE InitLogger
  BY <1>2 DEF InitLogger
<1>3. CASE ConfigMissing
  BY <1>3 DEF ConfigMissing
<1>4. CASE InitPool
  BY <1>4 DEF InitPool
<1>5. CASE Spawn
  BY <1>5 DEF Spawn
<1>6. CASE Handshake
  BY <1>6 DEF Handshake, Started
<1>7. CASE MainCheck
  BY <1>7 DEF MainCheck
<1>8. CASE MainWakes
  BY <1>8 DEF MainWakes
<1>9. CASE DeletePool
  BY <1>9 DEF DeletePool, Delete
<1>10. CASE ResetPool
  BY <1>10 DEF ResetPool, Reset
<1>11. CASE DeleteLogger
  BY <1>11 DEF DeleteLogger, Delete
<1>12. CASE ResetLogger
  BY <1>12 DEF ResetLogger, Reset
<1>13. CASE StoreQuit
  BY <1>13 DEF StoreQuit
<1>14. CASE WakeLoop
  BY <1>14 DEF WakeLoop
<1>15. CASE JoinThread
  BY <1>15 DEF JoinThread, NextThread
<1>16. CASE DestroyServer
  BY <1>16 DEF DestroyServer
<1>17. CASE Exit
  BY <1>17 DEF Exit
<1>18. CASE Accept
  BY <1>18 DEF Accept
<1>19. CASE SpuriousStartWakeup
  BY <1>19 DEF SpuriousStartWakeup
<1>20. ASSUME NEW t \in IoThreads, ThreadStep(t) \/ BeginUse(t) \/ CloseConnections(t)
  PROVE  UsesForConnection'
  <2>1. CASE NewLoop(t)
    BY <2>1 DEF NewLoop
  <2>2. CASE Publish(t)
    BY <2>2 DEF Publish
  <2>3. CASE Notify(t)
    BY <2>3 DEF Notify
  <2>4. CASE Check(t)
    BY <2>4 DEF Check
  <2>5. CASE Wakes(t)
    BY <2>5 DEF Wakes
  <2>6. CASE EndUse(t)
    BY <2>6 DEF EndUse
  <2>7. CASE DestroyLoop(t)
    BY <2>7 DEF DestroyLoop
  <2>8. CASE ReleaseConnections(t)
    BY <2>8 DEF ReleaseConnections
  <2>9. CASE BeginUse(t)
    BY <2>9 DEF BeginUse
  <2>10. CASE CloseConnections(t)
    BY <2>10 DEF CloseConnections
  <2> QED BY <1>20, <2>1, <2>2, <2>3, <2>4, <2>5, <2>6, <2>7, <2>8, <2>9, <2>10 DEF ThreadStep
<1>21. CASE Signal
  BY <1>21 DEF Signal, Alive
<1>22. CASE HandlerStore
  BY <1>22 DEF HandlerStore
<1>23. CASE HandlerWakeup
  BY <1>23 DEF HandlerWakeup, Resume
<1>24. CASE UNCHANGED vars
  BY <1>24 DEF vars
<1> QED
  BY <1>1, <1>2, <1>3, <1>4, <1>5, <1>6, <1>7, <1>8, <1>9, <1>10, <1>11, <1>12, <1>13, <1>14, <1>15, <1>16, <1>17, <1>18, <1>19, <1>20, <1>21, <1>22, <1>23, <1>24 DEF Next, MainStep, HandlerStep

LEMMA HandlerSoundNext ==
  ASSUME Inv, [Next]_vars
  PROVE  HandlerSound'
<1>0. Typed /\ handler \in [at : {"idle", "store", "wakeup"}, on : Loops]
  BY TypesOfThreads DEF Inv, TypeOK
<1>a. HandlerSound /\ StoppedInOrder
  BY DEF Inv
<1> USE <1>0, <1>a DEF HandlerSound, Alive
<1>1. CASE InstallHandlers
  BY <1>1 DEF InstallHandlers
<1>2. CASE InitLogger
  BY <1>2 DEF InitLogger
<1>3. CASE ConfigMissing
  BY <1>3 DEF ConfigMissing
<1>4. CASE InitPool
  BY <1>4 DEF InitPool
<1>5. CASE Spawn
  BY <1>5 DEF Spawn
<1>6. CASE Handshake
  BY <1>6 DEF Handshake, Started
<1>7. CASE MainCheck
  BY ZenonT(40), <1>7 DEF MainCheck
<1>8. CASE MainWakes
  BY <1>8 DEF MainWakes
<1>9. CASE DeletePool
  BY <1>9 DEF DeletePool, Delete
<1>10. CASE ResetPool
  BY <1>10 DEF ResetPool, Reset
<1>11. CASE DeleteLogger
  BY <1>11 DEF DeleteLogger, Delete
<1>12. CASE ResetLogger
  BY <1>12 DEF ResetLogger, Reset
<1>13. CASE StoreQuit
  BY <1>13 DEF StoreQuit
<1>14. CASE WakeLoop
  BY <1>14 DEF WakeLoop
<1>15. CASE JoinThread
  BY <1>15 DEF JoinThread, NextThread
<1>16. CASE DestroyServer
  <2>1. /\ main.at = "destroy" /\ ~Interrupted(0) /\ UNCHANGED <<handler, at>>
        /\ main'.at = "returned"
    BY <1>16 DEF DestroyServer
  <2>2. \A v \in IoThreads : at[v] = "ended"
    BY <2>1 DEF StoppedInOrder, StoppedAt, Stopped
  <2>3. handler.at = "idle"
    BY <2>1, <2>2, OnThread
  <2> QED BY <2>1, <2>3
<1>17. CASE Exit
  BY <1>17 DEF Exit
<1>18. CASE Accept
  BY <1>18 DEF Accept
<1>19. CASE SpuriousStartWakeup
  BY <1>19 DEF SpuriousStartWakeup
<1>20. ASSUME NEW t \in IoThreads, ThreadStep(t) \/ BeginUse(t) \/ CloseConnections(t)
  PROVE  HandlerSound'
  <2>1. CASE NewLoop(t)
    BY <2>1 DEF NewLoop
  <2>2. CASE Publish(t)
    BY <2>2 DEF Publish
  <2>3. CASE Notify(t)
    BY <2>3 DEF Notify
  <2>4. CASE Check(t)
    BY <2>4 DEF Check
  <2>5. CASE Wakes(t)
    BY <2>5 DEF Wakes
  <2>6. CASE EndUse(t)
    BY <2>6 DEF EndUse
  <2>7. CASE DestroyLoop(t)
    BY <2>7 DEF DestroyLoop
  <2>8. CASE ReleaseConnections(t)
    BY <2>8 DEF ReleaseConnections
  <2>9. CASE BeginUse(t)
    BY <2>9 DEF BeginUse
  <2>10. CASE CloseConnections(t)
    BY <2>10 DEF CloseConnections
  <2> QED BY <1>20, <2>1, <2>2, <2>3, <2>4, <2>5, <2>6, <2>7, <2>8, <2>9, <2>10 DEF ThreadStep
<1>21. CASE Signal
  BY <1>21 DEF Signal, Alive
<1>22. CASE HandlerStore
  BY <1>22 DEF HandlerStore
<1>23. CASE HandlerWakeup
  BY <1>23 DEF HandlerWakeup, Resume
<1>24. CASE UNCHANGED vars
  BY <1>24 DEF vars
<1> QED
  BY <1>1, <1>2, <1>3, <1>4, <1>5, <1>6, <1>7, <1>8, <1>9, <1>10, <1>11, <1>12, <1>13, <1>14, <1>15, <1>16, <1>17, <1>18, <1>19, <1>20, <1>21, <1>22, <1>23, <1>24 DEF Next, MainStep, HandlerStep

LEMMA FaultSoundNext ==
  ASSUME Inv, [Next]_vars
  PROVE  FaultSound'
<1>0. Typed
  BY TypesOfThreads DEF Inv
<1>a. FaultSound
  BY DEF Inv
<1> USE <1>0, <1>a DEF FaultSound, GoingDown
<1>1. CASE InstallHandlers
  BY <1>1 DEF InstallHandlers
<1>2. CASE InitLogger
  BY <1>2 DEF InitLogger
<1>3. CASE ConfigMissing
  BY <1>3 DEF ConfigMissing
<1>4. CASE InitPool
  BY <1>4 DEF InitPool
<1>5. CASE Spawn
  BY <1>5 DEF Spawn
<1>6. CASE Handshake
  <2>1. /\ UNCHANGED <<fault, busy, open>> /\ fault = "none" /\ main.at = "handshake"
        /\ main'.at \in {"spawn", "check", "asleep"}
    BY <1>6 DEF Handshake, Started
  <2> QED BY <2>1
<1>7. CASE MainCheck
  BY ZenonT(40), <1>7 DEF MainCheck
<1>8. CASE MainWakes
  BY <1>8 DEF MainWakes
<1>9. CASE DeletePool
  BY <1>9 DEF DeletePool, Delete
<1>10. CASE ResetPool
  BY <1>10 DEF ResetPool, Reset
<1>11. CASE DeleteLogger
  BY <1>11 DEF DeleteLogger, Delete
<1>12. CASE ResetLogger
  BY <1>12 DEF ResetLogger, Reset
<1>13. CASE StoreQuit
  BY <1>13 DEF StoreQuit
<1>14. CASE WakeLoop
  BY <1>14 DEF WakeLoop
<1>15. CASE JoinThread
  BY <1>15 DEF JoinThread, NextThread
<1>16. CASE DestroyServer
  BY <1>16 DEF DestroyServer
<1>17. CASE Exit
  BY <1>17 DEF Exit
<1>18. CASE Accept
  <2>1. /\ main.at = "poll" /\ fault = "none" /\ UNCHANGED busy
        /\ main'.at = "check"
    BY <1>18 DEF Accept
  <2>2. loops = [i \in IoThreads |-> i] /\ \A i \in IoThreads : i # 0 /\ loop[i] = "live"
    BY <2>1, WhileServing
  <2>3. fault' = "none"
    BY <1>18, <2>1, <2>2 DEF Accept
  <2> QED BY <2>1, <2>3
<1>19. CASE SpuriousStartWakeup
  BY <1>19 DEF SpuriousStartWakeup
<1>20. ASSUME NEW t \in IoThreads, ThreadStep(t) \/ BeginUse(t) \/ CloseConnections(t)
  PROVE  FaultSound'
  <2>1. CASE NewLoop(t)
    BY <2>1 DEF NewLoop
  <2>2. CASE Publish(t)
    BY <2>2 DEF Publish
  <2>3. CASE Notify(t)
    BY ZenonT(40), <2>3 DEF Notify
  <2>4. CASE Check(t)
    BY <2>4 DEF Check
  <2>5. CASE Wakes(t)
    BY <2>5 DEF Wakes
  <2>6. CASE EndUse(t)
    <3>1. /\ UNCHANGED <<main, busy, open>> /\ fault = "none" /\ at[t] = "using"
          /\ fault' = IF singleton[using[t]] = "live" THEN "none" ELSE using[t]
      BY <2>6 DEF EndUse
    <3>2. using[t] # "none"
      BY <3>1 DEF Inv, ThreadSound, SoundAt
    <3>3. main.at \notin GoingDown => fault' = "none"
      BY <3>1, <3>2 DEF Inv, UsesLive, LiveUse
    <3>4. main.at \in GoingDown /\ ~busy => using[t] # "pool"
      BY DEF Inv, UsesForConnection
    <3>5. using[t] \in {"pool", "logger", "none"}
      BY DEF Singletons
    <3> QED BY <3>1, <3>3, <3>4, <3>5
  <2>7. CASE DestroyLoop(t)
    BY <2>7 DEF DestroyLoop
  <2>8. CASE ReleaseConnections(t)
    <3>1. /\ UNCHANGED <<main, busy>> /\ fault = "none" /\ at[t] = "release"
          /\ fault' = IF open[t] THEN "release" ELSE "none"
          /\ open' = [open EXCEPT ![t] = FALSE]
      BY <2>8 DEF ReleaseConnections
    <3>2. quit[t]
      BY <3>1 DEF Inv, ThreadSound, SoundAt
    <3>3. main.at \in GoingDown
      BY <3>2 DEF Inv, StoppedInOrder, StoppedAt, Stopping, Stopped
    <3> QED BY <3>1, <3>3
  <2>9. CASE BeginUse(t)
    BY <2>9 DEF BeginUse
  <2>10. CASE CloseConnections(t)
    BY <2>10 DEF CloseConnections
  <2> QED BY <1>20, <2>1, <2>2, <2>3, <2>4, <2>5, <2>6, <2>7, <2>8, <2>9, <2>10 DEF ThreadStep
<1>21. CASE Signal
  BY ZenonT(40), <1>21 DEF Signal, Alive
<1>22. CASE HandlerStore
  BY <1>22 DEF HandlerStore
<1>23. CASE HandlerWakeup
  BY ZenonT(40), <1>23 DEF HandlerWakeup, Resume
<1>24. CASE UNCHANGED vars
  BY <1>24 DEF vars
<1> QED
  BY <1>1, <1>2, <1>3, <1>4, <1>5, <1>6, <1>7, <1>8, <1>9, <1>10, <1>11, <1>12, <1>13, <1>14, <1>15, <1>16, <1>17, <1>18, <1>19, <1>20, <1>21, <1>22, <1>23, <1>24 DEF Next, MainStep, HandlerStep

LEMMA InvInit ==
  ASSUME Init
  PROVE  Inv
<1>0. /\ 1 \in IoThreads /\ 0 \in Loops /\ IoThreads \subseteq Loops
      /\ \A t \in IoThreads : t # 0
  BY ThreadAssumption DEF IoThreads, Loops
<1>1. TypeOK
  <2>1. /\ loops = <<>> /\ <<>> \in Seq(Loops)
        /\ signals = 0 /\ 0 \in 0 .. MaxSignals
    BY SignalAssumption DEF Init
  <2> QED BY <1>0, <2>1 DEF Init, TypeOK, MainPlaces, Singletons
<1>2. ThreadSound
  BY <1>0 DEF Init, ThreadSound, SoundAt
<1>3. StartedInOrder
  BY <1>0 DEF Init, StartedInOrder, Early, Starting, Serving, GoingDown
<1>4. StoppedInOrder
  BY <1>0 DEF Init, StoppedInOrder, StoppedAt, Stopping, Stopped
<1>5. SingletonsSound /\ UsesLive /\ UsesForConnection
  BY DEF Init, SingletonsSound, UsesLive, LiveUse, UsesForConnection, Singletons,
         Stopping, Stopped
<1>6. HandlerSound /\ FaultSound
  BY DEF Init, HandlerSound, FaultSound, GoingDown
<1> QED BY <1>1, <1>2, <1>3, <1>4, <1>5, <1>6 DEF Inv

LEMMA InvNext ==
  ASSUME Inv, [Next]_vars
  PROVE  Inv'
<1>1. TypeOK
  BY DEF Inv
<1> QED
  BY <1>1, TypeNext, ThreadSoundNext, StartedInOrderNext, StoppedInOrderNext,
     SingletonsSoundNext, UsesLiveNext, UsesForConnectionNext, HandlerSoundNext,
     FaultSoundNext DEF Inv

LEMMA Invariance == Spec => []Inv
<1>1. Init => Inv
  BY InvInit
<1>2. Inv /\ [Next]_vars => Inv'
  BY InvNext
<1> QED BY <1>1, <1>2, PTL DEF Spec

-----------------------------------------------------------------------------
(* What it shows.                                                          *)

\* While the main loop runs, HandleListenEvent gives connections to loops that
\* exist and that nobody has told to quit, the one of each thread, and nothing is
\* used after its end, however the handshakes of Start and the signals fall.
THEOREM NoFaultWhileServing == Spec => []ServesSafely
<1>1. Inv => ServesSafely
  BY WhileServing DEF Inv, ServesSafely, FaultSound
<1> QED BY <1>1, Invariance, PTL

\* When ~Server is done every thread has been joined with its loop destroyed,
\* and no thread is left on which the signal handler could still run.
THEOREM EndsClean == Spec => []CleanEnd
<1>1. ASSUME Inv, main.at \in {"returned", "ended"}
      PROVE  /\ \A t \in IoThreads : at[t] = "ended" /\ loop[t] = "dead" /\ ~open[t]
             /\ \A s \in Singletons : singleton[s] = "none"
             /\ handler.at = "idle"
  <2>1. ASSUME NEW t \in IoThreads
        PROVE  at[t] = "ended" /\ loop[t] = "dead" /\ ~open[t]
    <3>1. at[t] = "ended"
      BY <1>1 DEF Inv, StoppedInOrder, StoppedAt, Stopped
    <3> QED BY <1>1, <3>1 DEF Inv, ThreadSound, SoundAt
  <2>2. \A s \in Singletons : singleton[s] = "none"
    BY <1>1 DEF Inv, SingletonsSound, Singletons, Stopped
  <2> QED BY <1>1, <2>1, <2>2 DEF Inv, HandlerSound
<1>2. Inv => CleanEnd
  BY <1>1 DEF CleanEnd
<1> QED BY <1>2, Invariance, PTL

\* A server that has no connections when its main loop ends uses neither the
\* database pool nor the connection pools after their end, though Start deletes
\* the one while the IO threads run.
THEOREM IdleEndsGracefully == Spec => []GracefulWhenIdle
<1>1. Inv => GracefulWhenIdle
  BY DEF Inv, FaultSound, GracefulWhenIdle
<1> QED BY <1>1, Invariance, PTL
=============================================================================
