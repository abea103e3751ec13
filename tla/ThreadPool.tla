----------------------------- MODULE ThreadPool -----------------------------
(***************************************************************************)
(* ThreadPool (src/src/thread/ThreadPool.cpp): an owner adds tasks, worker *)
(* threads take them from one queue and run them, and the destructor lets  *)
(* the workers drain the queue before it joins them.                       *)
(*                                                                         *)
(* A critical section of mutex_ is one step.  notify_one and notify_all    *)
(* are called after the unlock and are steps of their own, and a thread    *)
(* that waits on cond_ may also wake by itself.  A task may add tasks.     *)
(***************************************************************************)
EXTENDS Naturals, Sequences, FiniteSets, SequencesExt

CONSTANTS
  ThreadCount,  \* the worker threads
  Tasks,        \* the calls of AddTask there may be
  Empty,        \* those that pass an empty std::function
  None

ASSUME ThreadCountAssumption == ThreadCount \in Nat \ {0}
ASSUME TaskAssumption == Empty \subseteq Tasks /\ None \notin Tasks

Workers == 1 .. ThreadCount

VARIABLES
  tasks,    \* tasks_
  stop,     \* stop_
  workerAt, \* where each worker is: "lock", "wait" on cond_, "run" a task,
            \* "notify" at the end of an AddTask the task calls, or "ended"
  task,     \* the task each worker has taken, or None
  owner,    \* where the owner is: "adding", "notify", "notifyAll", "join", "done"
  added,    \* history: the tasks in the order of their AddTask
  ran       \* history: the calls that have returned, a bag as a function

poolVars == <<tasks, stop, workerAt, task, owner, added, ran>>

PoolInit ==
  /\ tasks = <<>> /\ stop = FALSE
  /\ workerAt = [w \in Workers |-> "lock"]
  /\ task = [w \in Workers |-> None]
  /\ owner = "adding"
  /\ added = <<>>
  /\ ran = [t \in Tasks |-> 0]

-----------------------------------------------------------------------------
(* AddTask, by the owner or by a running task.                             *)

\* tasks_.push(std::move(task)), under the lock.
Push(t) ==
  /\ t \notin ToSet(added)
  /\ tasks' = Append(tasks, t)
  /\ added' = Append(added, t)

\* cond_.notify_one(): some waiting thread wakes, if there is one.
NotifyOne(now) ==
  workerAt' \in {[now EXCEPT ![w] = "lock"] : w \in {v \in Workers : now[v] = "wait"}}
                  \cup {n \in {now} : \A v \in Workers : n[v] # "wait"}

AddTask ==
  /\ owner = "adding" /\ owner' = "notify"
  /\ \E t \in Tasks : Push(t)
  /\ UNCHANGED <<stop, workerAt, task, ran>>

AddTaskNotifies ==
  /\ owner = "notify" /\ owner' = "adding"
  /\ NotifyOne(workerAt)
  /\ UNCHANGED <<tasks, stop, task, added, ran>>

TaskAdds(w) ==
  /\ workerAt[w] = "run" /\ workerAt' = [workerAt EXCEPT ![w] = "notify"]
  /\ \E t \in Tasks : Push(t)
  /\ UNCHANGED <<stop, task, owner, ran>>

TaskNotifies(w) ==
  /\ workerAt[w] = "notify"
  /\ NotifyOne([workerAt EXCEPT ![w] = "run"])
  /\ UNCHANGED <<tasks, stop, task, owner, added, ran>>

-----------------------------------------------------------------------------
(* Worker.                                                                 *)

\* The predicate of cond_.wait is false: the thread waits.
Wait(w) ==
  /\ workerAt[w] = "lock" /\ tasks = <<>> /\ ~stop
  /\ workerAt' = [workerAt EXCEPT ![w] = "wait"]
  /\ UNCHANGED <<tasks, stop, task, owner, added, ran>>

SpuriousWakeup(w) ==
  /\ workerAt[w] = "wait" /\ workerAt' = [workerAt EXCEPT ![w] = "lock"]
  /\ UNCHANGED <<tasks, stop, task, owner, added, ran>>

\* Mutant: the thread ends as soon as the pool stops.
LeaveAtOnce(w) ==
  /\ workerAt[w] = "lock" /\ stop
  /\ workerAt' = [workerAt EXCEPT ![w] = "ended"]
  /\ UNCHANGED <<tasks, stop, task, owner, added, ran>>

\* The pool stops and the queue is empty: the thread ends.
Leave(w) ==
  /\ workerAt[w] = "lock" /\ stop /\ tasks = <<>>
  /\ workerAt' = [workerAt EXCEPT ![w] = "ended"]
  /\ UNCHANGED <<tasks, stop, task, owner, added, ran>>

\* Otherwise it takes the oldest task; an empty one is not run.
Take(w) ==
  /\ workerAt[w] = "lock" /\ tasks # <<>>
  /\ tasks' = Tail(tasks)
  /\ IF Head(tasks) \in Empty THEN UNCHANGED <<workerAt, task>>
     ELSE /\ workerAt' = [workerAt EXCEPT ![w] = "run"]
          /\ task' = [task EXCEPT ![w] = Head(tasks)]
  /\ UNCHANGED <<stop, owner, added, ran>>

\* task() returns, outside of the lock.
Return(w) ==
  /\ workerAt[w] = "run" /\ workerAt' = [workerAt EXCEPT ![w] = "lock"]
  /\ task' = [task EXCEPT ![w] = None]
  /\ ran' = [ran EXCEPT ![task[w]] = @ + 1]
  /\ UNCHANGED <<tasks, stop, owner, added>>

-----------------------------------------------------------------------------
(* ~ThreadPool.                                                            *)

Stop ==
  /\ owner = "adding" /\ owner' = "notifyAll"
  /\ stop' = TRUE
  /\ UNCHANGED <<tasks, workerAt, task, added, ran>>

\* Mutant: notify_one where notify_all is needed.
NotifyAllButOne ==
  /\ owner = "notifyAll" /\ owner' = "join"
  /\ NotifyOne(workerAt)
  /\ UNCHANGED <<tasks, stop, task, added, ran>>

NotifyAll ==
  /\ owner = "notifyAll" /\ owner' = "join"
  /\ workerAt' = [w \in Workers |-> IF workerAt[w] = "wait" THEN "lock" ELSE workerAt[w]]
  /\ UNCHANGED <<tasks, stop, task, added, ran>>

\* Each worker.join() has returned.
JoinWorkers ==
  /\ owner = "join" /\ owner' = "done"
  /\ \A w \in Workers : workerAt[w] = "ended"
  /\ UNCHANGED <<tasks, stop, workerAt, task, added, ran>>

-----------------------------------------------------------------------------
Worker(w) ==
  \/ Wait(w) \/ Leave(w) \/ Take(w) \/ Return(w)
  \/ TaskAdds(w) \/ TaskNotifies(w)

PoolNext ==
  \/ AddTask \/ AddTaskNotifies \/ Stop \/ NotifyAll \/ JoinWorkers
  \/ \E w \in Workers : Worker(w) \/ SpuriousWakeup(w)

PoolSpec == PoolInit /\ [][PoolNext]_poolVars

\* Threads run and tasks return.  The owner finishes what it has begun, but
\* need not add a task or destroy the pool; nothing wakes by itself for sure.
FairPoolSpec ==
  /\ PoolSpec
  /\ WF_poolVars(AddTaskNotifies \/ NotifyAll \/ JoinWorkers)
  /\ \A w \in Workers : WF_poolVars(Worker(w))

-----------------------------------------------------------------------------
PoolTypeOK ==
  /\ tasks \in Seq(Tasks) /\ added \in Seq(Tasks)
  /\ stop \in BOOLEAN
  /\ workerAt \in [Workers -> {"lock", "wait", "run", "notify", "ended"}]
  /\ task \in [Workers -> Tasks \cup {None}]
  /\ owner \in {"adding", "notify", "notifyAll", "join", "done"}
  /\ ran \in [Tasks -> Nat]

\* A task is in the queue, with one worker, or has been run: it is never lost
\* nor run twice, also not one that a task adds while the destructor waits.
\* Tasks leave the queue in the order in which they came, and when the
\* destructor returns all have been run.
RunsOnce ==
  /\ PoolTypeOK
  /\ IsSuffix(tasks, added)
  /\ \A t \in Tasks \ Empty :
       ran[t] + Cardinality({w \in Workers : task[w] = t})
              + Cardinality({i \in DOMAIN tasks : tasks[i] = t})
         = IF t \in ToSet(added) THEN 1 ELSE 0
  /\ owner = "done" => \A t \in ToSet(added) \ Empty : ran[t] = 1

\* No notification is lost between the unlock and the wait: every task that is
\* added is run, whether or not the pool is destroyed, and the destructor
\* returns however many of the workers wait when it begins.
Finishes ==
  /\ \A t \in Tasks \ Empty : t \in ToSet(added) ~> ran[t] = 1
  /\ stop ~> owner = "done"
=============================================================================
