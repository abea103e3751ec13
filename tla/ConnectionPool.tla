--------------------------- MODULE ConnectionPool ---------------------------
(***************************************************************************)
(* The pool of MySQL connections and its DBGuard, used by the threads that *)
(* handle requests: taking a connection or waiting five seconds for one,   *)
(* creating one after that, pinging and replacing it on return, and        *)
(* Destroy, which the main thread calls while the others still run.        *)
(*                                                                         *)
(* A critical section under mutex_ is one step; pinging, closing and       *)
(* creating happen outside it.  notify_one wakes one waiting thread, which *)
(* looks at the queue again when it has the mutex.                         *)
(***************************************************************************)
EXTENDS Integers, FiniteSets, Sequences

CONSTANTS
  Threads,   \* the threads that handle requests
  Handles,   \* memory for MYSQL objects
  PoolSize,  \* poolSize_
  None       \* nullptr

ASSUME PoolAssumption == PoolSize \in Nat
ASSUME NoneAssumption == None \notin Handles
\* Memory does not run out.
ASSUME HandleAssumption ==
  /\ IsFiniteSet(Handles) /\ IsFiniteSet(Threads)
  /\ Cardinality(Handles) > PoolSize + Cardinality(Threads)

VARIABLES
  pool,      \* pool_
  at,        \* thread -> where it is in GetConnection, its query or ReturnConnection
  conn,      \* thread -> conn_ of its DBGuard
  opened,    \* the handles that are connected and not closed
  broken,    \* those of them the database has dropped
  instance,  \* instance_ is there
  undefined  \* a thread has used the pool after Destroy

vars == <<pool, at, conn, opened, broken, instance, undefined>>

InPool == {pool[i] : i \in DOMAIN pool}
HeldBy(T) == {conn[t] : t \in T} \ {None}

\* The constructor opens PoolSize connections, or as many as it can.
Init ==
  /\ \E n \in 0 .. PoolSize : \E first \in [1 .. n -> Handles] :
       /\ \A i, j \in 1 .. n : first[i] = first[j] => i = j
       /\ pool = first
  /\ opened = InPool
  /\ at = [t \in Threads |-> "idle"]
  /\ conn = [t \in Threads |-> None]
  /\ broken = {}
  /\ instance = TRUE
  /\ undefined = FALSE

-----------------------------------------------------------------------------
At(t, where) == ~undefined /\ at[t] = where

\* What mysql_real_connect gives: a connection, or nullptr.
Created == Handles \ opened

\* The front of the queue, taken under the mutex.
Take(t) ==
  /\ conn' = [conn EXCEPT ![t] = Head(pool)]
  /\ pool' = Tail(pool)
  /\ at' = [at EXCEPT ![t] = "query"]

\* GetConnection, for a handler that has found Instance() not null.
Get(t) ==
  /\ At(t, "idle")
  /\ instance
  /\ IF pool # <<>> THEN Take(t)
     ELSE at' = [at EXCEPT ![t] = "waiting"] /\ UNCHANGED <<pool, conn>>
  /\ UNCHANGED <<opened, broken, instance, undefined>>

\* The wait's predicate, after a notification: another thread may have been
\* faster.
Wake(t) ==
  /\ At(t, "notified")
  /\ instance
  /\ IF pool # <<>> THEN Take(t)
     ELSE at' = [at EXCEPT ![t] = "waiting"] /\ UNCHANGED <<pool, conn>>
  /\ UNCHANGED <<opened, broken, instance, undefined>>

\* Mutant: the timeout is not the end of the wait.
TimeoutAndWait(t) ==
  /\ \E where \in {"waiting", "notified"} : At(t, where)
  /\ instance
  /\ IF pool # <<>> THEN Take(t)
     ELSE at' = [at EXCEPT ![t] = "waiting"] /\ UNCHANGED <<pool, conn>>
  /\ UNCHANGED <<opened, broken, instance, undefined>>

\* Five seconds have passed.
Timeout(t) ==
  /\ \E where \in {"waiting", "notified"} : At(t, where)
  /\ instance
  /\ IF pool # <<>> THEN Take(t)
     ELSE at' = [at EXCEPT ![t] = "create"] /\ UNCHANGED <<pool, conn>>
  /\ UNCHANGED <<opened, broken, instance, undefined>>

\* CreateConnection after the timeout, without the mutex.
Create(t) ==
  /\ At(t, "create")
  /\ instance
  /\ at' = [at EXCEPT ![t] = "query"]
  /\ \/ \E h \in Created : opened' = opened \cup {h} /\ conn' = [conn EXCEPT ![t] = h]
     \/ UNCHANGED <<opened, conn>>
  /\ UNCHANGED <<pool, broken, instance, undefined>>

\* The handler is done, and DBGuard's destructor runs: with a connection it
\* calls ReturnConnection.
EndQuery(t) ==
  /\ At(t, "query")
  /\ at' = [at EXCEPT ![t] = IF conn[t] = None THEN "idle" ELSE "ping"]
  /\ UNCHANGED <<pool, conn, opened, broken, instance, undefined>>

Ping(t) ==
  /\ At(t, "ping")
  /\ instance
  /\ at' = [at EXCEPT ![t] = IF conn[t] \in broken THEN "close" ELSE "push"]
  /\ UNCHANGED <<pool, conn, opened, broken, instance, undefined>>

\* Mutant: the dead connection is closed, and stays in conn when no new one
\* can be created.
ReplaceOrKeep(t) ==
  /\ At(t, "close")
  /\ instance
  /\ broken' = broken \ {conn[t]}
  /\ at' = [at EXCEPT ![t] = "push"]
  /\ \/ \E h \in Created \cup {conn[t]} :
          /\ opened' = (opened \ {conn[t]}) \cup {h}
          /\ conn' = [conn EXCEPT ![t] = h]
     \/ opened' = opened \ {conn[t]} /\ UNCHANGED conn
  /\ UNCHANGED <<pool, instance, undefined>>

\* Mutant: the dead connection is not closed.
ReplaceWithoutClose(t) ==
  /\ At(t, "close")
  /\ instance
  /\ \/ \E h \in Created :
          /\ opened' = opened \cup {h}
          /\ conn' = [conn EXCEPT ![t] = h]
          /\ at' = [at EXCEPT ![t] = "push"]
     \/ /\ conn' = [conn EXCEPT ![t] = None]
        /\ at' = [at EXCEPT ![t] = "idle"]
        /\ UNCHANGED opened
  /\ UNCHANGED <<pool, broken, instance, undefined>>

\* mysql_close and CreateConnection: without a new one, nothing is returned.
Replace(t) ==
  /\ At(t, "close")
  /\ instance
  /\ broken' = broken \ {conn[t]}
  /\ \/ \E h \in Created \cup {conn[t]} :
          /\ opened' = (opened \ {conn[t]}) \cup {h}
          /\ conn' = [conn EXCEPT ![t] = h]
          /\ at' = [at EXCEPT ![t] = "push"]
     \/ /\ opened' = opened \ {conn[t]}
        /\ conn' = [conn EXCEPT ![t] = None]
        /\ at' = [at EXCEPT ![t] = "idle"]
  /\ UNCHANGED <<pool, instance, undefined>>

Waiting == {t \in Threads : at[t] = "waiting"}
Notified == {t \in Threads : at[t] = "notified"}

\* Mutant: nobody is woken.
PushSilently(t) ==
  /\ At(t, "push")
  /\ instance
  /\ pool' = Append(pool, conn[t])
  /\ conn' = [conn EXCEPT ![t] = None]
  /\ at' = [at EXCEPT ![t] = "idle"]
  /\ UNCHANGED <<opened, broken, instance, undefined>>

\* The connection goes to the end of the queue, and one waiting thread, if
\* there is one, is woken.
Push(t) ==
  /\ At(t, "push")
  /\ instance
  /\ pool' = Append(pool, conn[t])
  /\ conn' = [conn EXCEPT ![t] = None]
  /\ IF Waiting = {} THEN at' = [at EXCEPT ![t] = "idle"]
     ELSE \E w \in Waiting : at' = [at EXCEPT ![t] = "idle", ![w] = "notified"]
  /\ UNCHANGED <<opened, broken, instance, undefined>>

\* The database drops a connection: a restart, or its own idle timeout.
Break(h) ==
  /\ ~undefined
  /\ h \in opened
  /\ broken' = broken \cup {h}
  /\ UNCHANGED <<pool, at, conn, opened, instance, undefined>>

\* The destructor closes what is in the queue.
Destroy ==
  /\ ~undefined
  /\ instance
  /\ instance' = FALSE
  /\ opened' = opened \ InPool
  /\ broken' = broken \ InPool
  /\ pool' = <<>>
  /\ UNCHANGED <<at, conn, undefined>>

\* A thread that is inside a method of the pool, or returns to it, after that.
UseAfterDestroy ==
  /\ ~undefined
  /\ ~instance
  /\ \E t \in Threads : at[t] \in {"waiting", "notified", "create", "ping", "close", "push"}
  /\ undefined' = TRUE
  /\ UNCHANGED <<pool, at, conn, opened, broken, instance>>

-----------------------------------------------------------------------------
Step(t) ==
  \/ Wake(t) \/ Timeout(t) \/ Create(t) \/ EndQuery(t) \/ Ping(t) \/ Replace(t) \/ Push(t)

Next ==
  \/ \E t \in Threads : Get(t) \/ Step(t)
  \/ \E h \in Handles : Break(h)
  \/ Destroy
  \/ UseAfterDestroy

Spec == Init /\ [][Next]_vars

\* Threads go on with the request they have begun; that another one comes is
\* not assumed.  The five seconds of a wait pass, however often it is woken.
FairSpec == Spec /\ \A t \in Threads : WF_vars(Step(t)) /\ WF_vars(Timeout(t))

-----------------------------------------------------------------------------
(* Properties.                                                             *)

\* Every variable has its type, and only a thread between Get and Push has a
\* connection.
TypeOK ==
  /\ pool \in Seq(Handles)
  /\ at \in [Threads -> {"idle", "waiting", "notified", "create", "query",
                         "ping", "close", "push"}]
  /\ conn \in [Threads -> Handles \cup {None}]
  /\ \A t \in Threads : /\ at[t] \in {"idle", "waiting", "notified", "create"} => conn[t] = None
                        /\ at[t] \in {"ping", "close", "push"} => conn[t] # None
  /\ opened \subseteq Handles
  /\ broken \subseteq opened
  /\ instance \in BOOLEAN
  /\ undefined \in BOOLEAN

\* A connection is used by one thread, or is in the queue, once: two queries
\* never share one, and no closed one is handed out.
Exclusive ==
  /\ \A i, j \in DOMAIN pool : pool[i] = pool[j] => i = j
  /\ \A t, u \in Threads : conn[t] # None /\ conn[t] = conn[u] => t = u
  /\ InPool \cap HeldBy(Threads) = {}
  /\ InPool \cup HeldBy(Threads) \subseteq opened

\* No connection is open that nobody has: none is leaked by timeouts, failed
\* pings or replacements.
NoneLeaked == opened \subseteq InPool \cup HeldBy(Threads)

\* Whatever happens to it, a connection has one owner, from mysql_real_connect to
\* mysql_close.
OneOwner == Exclusive /\ NoneLeaked

\* A thread sleeps beside a connection in the queue only if one thread for
\* each of them has been woken already: notify_one is enough.
NoLostNotify == Waiting # {} => Len(pool) <= Cardinality(Notified)

\* The pool has no upper limit in the code, and a timeout adds to it; what
\* bounds it is that a thread has one connection at a time.
OpenBounded ==
  LET creating == {t \in Threads : at[t] = "create"}
      threads  == Cardinality(Threads)
  IN  Cardinality(opened) + Cardinality(creating)
        <= IF PoolSize >= threads THEN PoolSize ELSE threads

\* GetConnection returns, whatever the others do.
GetReturns ==
  \A t \in Threads : at[t] \in {"waiting", "notified"}
    ~> at[t] \notin {"waiting", "notified"} \/ ~instance
=============================================================================
