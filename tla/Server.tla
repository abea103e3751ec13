------------------------------- MODULE Server -------------------------------
(***************************************************************************)
(* The life of connections across the threads of the server: the accepting *)
(* thread in HandleListenEvent, which takes a descriptor, an object from   *)
(* the loop's pool, and puts them into the loop's map, epoll set and timer *)
(* heap, without a lock; and the IO loops, which handle events, run the    *)
(* queued removals, release the objects and so free the descriptors, which *)
(* the next accept may return again.                                       *)
(*                                                                         *)
(* What a connection does with its bytes is Connection.tla; here an event  *)
(* may queue a functor that holds the connection, or HandleClose.  A loop  *)
(* that is asleep is one that does not take its next step.  Each access to *)
(* a container is one step; two threads at one container at the same time  *)
(* are a data race, after which anything may happen, see Undefined.        *)
(***************************************************************************)
EXTENDS Integers, FiniteSets, Sequences

CONSTANTS
  Clients,   \* each connects at most once
  Fds,       \* the descriptors the process may have open for clients
  Objects,   \* memory for Connection objects
  LoopCount, \* the loops of the EventLoopThreadPool
  PoolSize,  \* maxSize_ of ObjectPool
  None

ASSUME LoopAssumption == LoopCount \in Nat \ {0}
ASSUME PoolAssumption == PoolSize \in Nat
ASSUME NoneAssumption == None \notin Clients \cup Fds \cup Objects
\* Memory does not run out: an object in use has a descriptor of its own.
ASSUME ObjectAssumption ==
  /\ IsFiniteSet(Objects) /\ IsFiniteSet(Fds)
  /\ Cardinality(Objects) >= Cardinality(Fds) + PoolSize * LoopCount

Loops == 1 .. LoopCount

VARIABLES
  client,     \* client -> "away", "backlog", "open" or "closed"
  gone,       \* the clients that have closed or reset their side
  backlog,    \* the queue of the listening socket
  listenEdge, \* it is on the ready list of the accepting loop
  socket,     \* descriptor -> the client at its other end, or None
  channel,    \* descriptor -> the object whose channel epoll knows, or None
  ready,      \* the descriptors on a ready list
  main,       \* HandleListenEvent: where it is, and its local variables
  object,     \* object -> fd_ (None when closed) and loop_
  pool,       \* loop -> connPool_
  map,        \* loop -> connections_
  timers,     \* loop -> timer_: descriptor -> the client it was added for
  thread,     \* loop -> where the loop is, and what it works on
  pending,    \* loop -> pendingFunctors_
  expired,    \* history: the clients whose own timer has fired
  heirs,      \* history: the clients accepted with something of a connection
              \* that has gone still there, see LeftBehind
  failed,     \* history: the last round of accept ended with an error
  undefined   \* a data race has happened

kernel == <<client, gone, backlog, listenEdge, socket, channel, ready>>
containers == <<pool, map, timers>>
history == <<expired, heirs, failed>>
vars == <<kernel, main, object, containers, thread, pending, history, undefined>>

\* Functors hold an object by shared_ptr ("send", "close") or name a descriptor
\* ("remove", of a timer, and "erase", of RemoveConnection).
Holding(kind, o) == [kind |-> kind, object |-> o, fd |-> None]
Naming(kind, fd) == [kind |-> kind, object |-> None, fd |-> fd]

Init ==
  /\ client = [c \in Clients |-> "away"]
  /\ gone = {}
  /\ backlog = <<>>
  /\ listenEdge = FALSE
  /\ socket = [fd \in Fds |-> None]
  /\ channel = [fd \in Fds |-> None]
  /\ ready = {}
  /\ main = [at |-> "wait", fd |-> None, object |-> None, loop |-> 1, next |-> 1]
  /\ object = [o \in Objects |-> [fd |-> None, loop |-> 1]]
  /\ pool = [l \in Loops |-> <<>>]
  /\ map = [l \in Loops |-> [fd \in Fds |-> None]]
  /\ timers = [l \in Loops |-> [fd \in Fds |-> None]]
  /\ thread = [l \in Loops |-> [at |-> "tick", reported |-> {}, batch |-> <<>>, ran |-> 0]]
  /\ pending = [l \in Loops |-> <<>>]
  /\ expired = {}
  /\ heirs = {}
  /\ failed = FALSE
  /\ undefined = FALSE

-----------------------------------------------------------------------------
(* Ownership.                                                              *)

Elements(s) == {s[i] : i \in DOMAIN s}

Functors(l) == Elements(pending[l]) \cup Elements(thread[l].batch)

MainHolds == IF main.at \in {"map", "register", "timer", "scope"} THEN {main.object} ELSE {}

MapHolds == (UNION {{map[l][fd] : fd \in Fds} : l \in Loops}) \ {None}

FunctorsHold == (UNION {{f.object : f \in Functors(l)} : l \in Loops}) \ {None}

Pooled == UNION {Elements(pool[l]) : l \in Loops}

Live == MainHolds \cup MapHolds \cup FunctorsHold

\* Mutant: functors that are still queued hold no shared_ptr.
HeldInBatches(l, batch) ==
  {f.object : f \in Elements(batch)}
    \cup UNION {{f.object : f \in Functors(k)} : k \in Loops \ {l}}

\* What functors hold beside what loop l has destroyed, batch being the rest.
HeldBeside(l, batch) ==
  {f.object : f \in Elements(pending[l]) \cup Elements(batch)}
    \cup UNION {{f.object : f \in Functors(k)} : k \in Loops \ {l}}

\* The last shared_ptr to o is gone and the deleter runs: Close, and back to
\* the pool of the loop, which deletes the object if it is full.
Release(o) ==
  LET fd == object[o].fd
      l  == object[o].loop
  IN  /\ socket' = [socket EXCEPT ![fd] = None]
      /\ channel' = [channel EXCEPT ![fd] = None]
      /\ ready' = ready \ {fd}
      /\ client' = [client EXCEPT ![socket[fd]] = "closed"]
      /\ object' = [object EXCEPT ![o].fd = None]
      /\ pool' = IF Len(pool[l]) >= PoolSize THEN pool
                 ELSE [pool EXCEPT ![l] = Append(@, o)]

\* A shared_ptr to o is dropped; stillHeld are the objects others hold.
Drop(o, stillHeld) ==
  IF o # None /\ o \notin stillHeld THEN Release(o)
  ELSE UNCHANGED <<socket, channel, ready, client, object, pool>>

-----------------------------------------------------------------------------
(* The accepting thread.                                                   *)

MainAt(at) == ~undefined /\ main.at = at

\* epoll_wait reports the listening socket: HandleListenEvent.
MainWake ==
  /\ MainAt("wait")
  /\ listenEdge
  /\ listenEdge' = FALSE
  /\ main' = [main EXCEPT !.at = "accept"]
  /\ failed' = FALSE
  /\ UNCHANGED <<client, gone, backlog, socket, channel, ready, object,
                 containers, thread, pending, expired, heirs, undefined>>

GetNextLoop(l) == (l % LoopCount) + 1

\* A timer or a queued removal names the descriptor, or an event that is not
\* handled yet was reported for a connection that is no more.
LeftBehind(fd) ==
  \E l \in Loops :
    \/ timers[l][fd] # None
    \/ \E f \in Functors(l) : f.fd = fd
    \/ \E e \in thread[l].reported : client[e.client] = "closed"

\* accept, which returns the lowest free descriptor, and the loop for the
\* connection.
Accept ==
  /\ MainAt("accept")
  /\ backlog # <<>>
  /\ \E fd \in Fds :
       /\ socket[fd] = None
       /\ fd = CHOOSE f \in Fds : socket[f] = None
       /\ heirs' = IF LeftBehind(fd) THEN heirs \cup {Head(backlog)} ELSE heirs
       /\ socket' = [socket EXCEPT ![fd] = Head(backlog)]
       /\ main' = [main EXCEPT !.at = "pool", !.fd = fd, !.loop = main.next,
                               !.next = GetNextLoop(main.next)]
  /\ client' = [client EXCEPT ![Head(backlog)] = "open"]
  /\ backlog' = Tail(backlog)
  /\ UNCHANGED <<gone, listenEdge, channel, ready, object, containers,
                 thread, pending, expired, failed, undefined>>

\* EAGAIN.
AcceptDone ==
  /\ MainAt("accept")
  /\ backlog = <<>>
  /\ main' = [main EXCEPT !.at = "wait"]
  /\ UNCHANGED <<kernel, object, containers, thread, pending, history, undefined>>

\* EMFILE, at any time since files and the database use descriptors too: the
\* loop ends as on EAGAIN.
AcceptFails ==
  /\ MainAt("accept")
  /\ backlog # <<>>
  /\ main' = [main EXCEPT !.at = "wait"]
  /\ failed' = TRUE
  /\ UNCHANGED <<kernel, object, containers, thread, pending, expired, heirs, undefined>>

Reuse(o, fd, l) == [fd |-> fd, loop |-> l]

\* GetConnectionFromPool and Reuse, or new; then the shared_ptr.  Which memory
\* new returns makes no difference.
GetConnection ==
  /\ MainAt("pool")
  /\ LET l == main.loop IN
     \E o \in Objects :
       /\ o = IF pool[l] # <<>> THEN Head(pool[l]) ELSE CHOOSE p \in Objects : p \notin Live \cup Pooled
       /\ pool' = IF pool[l] # <<>> THEN [pool EXCEPT ![l] = Tail(@)] ELSE pool
       /\ object' = [object EXCEPT ![o] = Reuse(o, main.fd, l)]
       /\ main' = [main EXCEPT !.at = "map", !.object = o]
  /\ UNCHANGED <<kernel, map, timers, thread, pending, history, undefined>>

AddConnection ==
  /\ MainAt("map")
  /\ map' = [map EXCEPT ![main.loop][main.fd] = main.object]
  /\ main' = [main EXCEPT !.at = "register"]
  /\ UNCHANGED <<kernel, object, pool, timers, thread, pending, history, undefined>>

\* Mutant: what has arrived before EPOLL_CTL_ADD is not reported.
AddChannelQuietly ==
  /\ MainAt("register")
  /\ channel' = [channel EXCEPT ![main.fd] = main.object]
  /\ main' = [main EXCEPT !.at = "timer"]
  /\ UNCHANGED <<client, gone, backlog, listenEdge, socket, ready, object,
                 containers, thread, pending, history, undefined>>

\* The callbacks, EnableReading and AddChannel: from here on the IO loop may
\* handle events of the connection.  EPOLL_CTL_ADD reports what has arrived.
AddChannel ==
  /\ MainAt("register")
  /\ LET fd == main.fd
         c  == socket[fd]
     IN  /\ channel' = [channel EXCEPT ![fd] = main.object]
         /\ \/ ready' = ready \cup {fd}
            \/ c \notin gone /\ UNCHANGED ready
  /\ main' = [main EXCEPT !.at = "timer"]
  /\ UNCHANGED <<client, gone, backlog, listenEdge, socket, object,
                 containers, thread, pending, history, undefined>>

\* Mutant: only a timer that exists is set.
AdjustTimerInstead ==
  /\ MainAt("timer")
  /\ timers' = [timers EXCEPT ![main.loop][main.fd] =
                  IF @ = None THEN None ELSE socket[main.fd]]
  /\ main' = [main EXCEPT !.at = "scope"]
  /\ UNCHANGED <<kernel, object, pool, map, thread, pending, history, undefined>>

\* AddTimer replaces the timer the descriptor may still have.
AddTimer ==
  /\ MainAt("timer")
  /\ timers' = [timers EXCEPT ![main.loop][main.fd] = socket[main.fd]]
  /\ main' = [main EXCEPT !.at = "scope"]
  /\ UNCHANGED <<kernel, object, pool, map, thread, pending, history, undefined>>

\* Mutant: one accept for each event, as under level triggering.
LeaveScopeAndWait ==
  /\ MainAt("scope")
  /\ Drop(main.object, MapHolds \cup FunctorsHold)
  /\ main' = [main EXCEPT !.at = "wait", !.fd = None, !.object = None]
  /\ UNCHANGED <<gone, backlog, listenEdge, map, timers, thread, pending,
                 history, undefined>>

\* conn leaves its scope, and accept is tried again.
LeaveScope ==
  /\ MainAt("scope")
  /\ Drop(main.object, MapHolds \cup FunctorsHold)
  /\ main' = [main EXCEPT !.at = "accept", !.fd = None, !.object = None]
  /\ UNCHANGED <<gone, backlog, listenEdge, map, timers, thread, pending,
                 history, undefined>>

-----------------------------------------------------------------------------
(* The IO loops.                                                           *)

LoopAt(l, at) == ~undefined /\ thread[l].at = at

QueueInLoop(l, functor) == pending' = [pending EXCEPT ![l] = Append(@, functor)]

\* A connection queues on loop_, which for an event that was left behind need
\* not be the loop that handles it.
HandleClose(o) == QueueInLoop(object[o].loop, Holding("close", o))

RemoveConnection(l, fd) == QueueInLoop(l, Naming("erase", fd))

\* epoll_wait, after Tick: it hands out pointers to channels.
Wait(l) ==
  /\ LoopAt(l, "tick")
  /\ LET mine == {fd \in ready : object[channel[fd]].loop = l}
     IN  /\ ready' = ready \ mine
         /\ thread' = [thread EXCEPT ![l].at = "events",
              ![l].reported = {[object |-> channel[fd], client |-> socket[fd]] : fd \in mine}]
  /\ UNCHANGED <<client, gone, backlog, listenEdge, socket, channel, main,
                 object, containers, pending, history, undefined>>

\* HandleEvent, if the callback's weak_ptr can be locked: HandleClose if the
\* client is gone, else HandleRead, which may queue a TrySend.
HandleEvent(l) ==
  /\ LoopAt(l, "events")
  /\ \E e \in thread[l].reported :
       /\ thread' = [thread EXCEPT ![l].reported = @ \ {e}]
       /\ IF e.object \notin Live THEN UNCHANGED pending
          ELSE IF e.client \in gone THEN HandleClose(e.object)
          ELSE \/ UNCHANGED pending
               \/ QueueInLoop(object[e.object].loop, Holding("send", e.object))
  /\ UNCHANGED <<kernel, main, object, containers, history, undefined>>

\* Mutant: the functors run before the events of the round.
DoPendingFunctorsFirst(l) ==
  /\ LoopAt(l, "events")
  /\ thread' = [thread EXCEPT ![l].at = IF pending[l] = <<>> THEN "tick" ELSE "functors",
                              ![l].batch = pending[l]]
  /\ pending' = [pending EXCEPT ![l] = <<>>]
  /\ UNCHANGED <<kernel, main, object, containers, history, undefined>>

DoPendingFunctors(l) ==
  /\ LoopAt(l, "events")
  /\ thread[l].reported = {}
  /\ thread' = [thread EXCEPT ![l].at = IF pending[l] = <<>> THEN "tick" ELSE "functors",
                              ![l].batch = pending[l]]
  /\ pending' = [pending EXCEPT ![l] = <<>>]
  /\ UNCHANGED <<kernel, main, object, containers, history, undefined>>

\* The functor the loop runs next.
Next1(l) == thread[l].batch[thread[l].ran + 1]

Runs(l, kind) ==
  /\ LoopAt(l, "functors")
  /\ thread[l].ran < Len(thread[l].batch)
  /\ Next1(l).kind = kind
  /\ thread' = [thread EXCEPT ![l].ran = @ + 1]

\* Mutant: a complete response is taken for an error.
RunSendAndClose(l) ==
  /\ Runs(l, "send")
  /\ HandleClose(Next1(l).object)
  /\ UNCHANGED <<kernel, main, object, containers, history, undefined>>

\* TrySend: HandleClose if the client has reset the connection.
RunSend(l) ==
  /\ Runs(l, "send")
  /\ \/ UNCHANGED pending
     \/ socket[object[Next1(l).object].fd] \in gone /\ HandleClose(Next1(l).object)
  /\ UNCHANGED <<kernel, main, object, containers, history, undefined>>

\* Of HandleClose: fd_ is read now, not when the functor was queued.
RunClose(l) ==
  /\ Runs(l, "close")
  /\ LET o == Next1(l).object IN RemoveConnection(object[o].loop, object[o].fd)
  /\ UNCHANGED <<kernel, main, object, containers, history, undefined>>

\* Of the timer: the descriptor was captured when the connection was accepted.
RunRemove(l) ==
  /\ Runs(l, "remove")
  /\ RemoveConnection(l, Next1(l).fd)
  /\ UNCHANGED <<kernel, main, object, containers, history, undefined>>

\* Of RemoveConnection: connections_.erase(fd), whatever it holds by now.
RunErase(l) ==
  /\ Runs(l, "erase")
  /\ LET fd == Next1(l).fd
         o  == map[l][fd]
     IN  /\ map' = [map EXCEPT ![l][fd] = None]
         /\ Drop(o, MainHolds \cup FunctorsHold)
  /\ UNCHANGED <<gone, backlog, listenEdge, main, timers, pending, history,
                 undefined>>

\* DoPendingFunctors returns: the functors are destroyed one after the other.
DestroyFunctor(l) ==
  /\ LoopAt(l, "functors")
  /\ thread[l].ran = Len(thread[l].batch)
  /\ LET rest == Tail(thread[l].batch)
     IN  /\ thread' = [thread EXCEPT ![l].at = IF rest = <<>> THEN "tick" ELSE "functors",
                                     ![l].batch = rest, ![l].ran = @ - 1]
         /\ Drop(Head(thread[l].batch).object, MainHolds \cup MapHolds \cup HeldBeside(l, rest))
  /\ UNCHANGED <<gone, backlog, listenEdge, main, map, timers, pending,
                 history, undefined>>

\* Tick: a timer that has expired leaves the heap and queues the removal of
\* its descriptor.
FireTimer(l) ==
  /\ LoopAt(l, "tick")
  /\ \E fd \in Fds :
       /\ timers[l][fd] # None
       /\ timers' = [timers EXCEPT ![l][fd] = None]
       /\ expired' = expired \cup {timers[l][fd]}
       /\ QueueInLoop(l, Naming("remove", fd))
  /\ UNCHANGED <<kernel, main, object, pool, map, thread, heirs, failed, undefined>>

-----------------------------------------------------------------------------
(* The clients and the network.                                            *)

ClientConnects(c) ==
  /\ ~undefined
  /\ client[c] = "away"
  /\ client' = [client EXCEPT ![c] = "backlog"]
  /\ backlog' = Append(backlog, c)
  /\ listenEdge' = TRUE
  /\ UNCHANGED <<gone, socket, channel, ready, main, object, containers,
                 thread, pending, history, undefined>>

\* Something arrives at the server's end, if there is one and epoll knows it.
Arrives(c) == ready' = ready \cup {fd \in Fds : socket[fd] = c /\ channel[fd] # None}

ClientTalks(c) ==
  /\ ~undefined
  /\ client[c] = "open"
  /\ c \notin gone
  /\ Arrives(c)
  /\ UNCHANGED <<client, gone, backlog, listenEdge, socket, channel, main, object,
                 containers, thread, pending, history, undefined>>

ClientLeaves(c) ==
  /\ ~undefined
  /\ client[c] \in {"backlog", "open"}
  /\ c \notin gone
  /\ gone' = gone \cup {c}
  /\ Arrives(c)
  /\ UNCHANGED <<client, backlog, listenEdge, socket, channel, main, object,
                 containers, thread, pending, history, undefined>>

-----------------------------------------------------------------------------
(* The containers of a loop that two threads may be at.                    *)

MainTouches ==
  CASE main.at = "pool"  -> {"pool"}
    [] main.at = "map"   -> {"map"}
    [] main.at = "timer" -> {"timers"}
    [] main.at = "scope" /\ main.object \notin MapHolds \cup FunctorsHold -> {"pool"}
    [] OTHER             -> {}

LoopTouches(l) ==
  CASE thread[l].at = "tick" -> {"timers"}
    [] thread[l].at = "events" /\ thread[l].reported # {} -> {"timers"}
    [] thread[l].at = "functors" /\ thread[l].ran < Len(thread[l].batch) ->
         IF Next1(l).kind = "erase"
         THEN {"map"} \cup (IF map[l][Next1(l).fd] \in {None} \cup MainHolds \cup FunctorsHold
                            THEN {} ELSE {"pool"})
         ELSE {}
    [] thread[l].at = "functors" ->
         IF Head(thread[l].batch).object \in {None} \cup MainHolds \cup MapHolds
                                       \cup HeldBeside(l, Tail(thread[l].batch))
         THEN {} ELSE {"pool"}
    [] OTHER -> {}

\* Between Tick and epoll_wait's return the loop counts as being at its heap.
Race == MainTouches \cap LoopTouches(main.loop) # {}

\* The outcomes of a data race that are not those of one access after the other.
Undefined ==
  /\ ~undefined
  /\ Race
  /\ undefined' = TRUE
  /\ UNCHANGED <<kernel, main, object, containers, thread, pending, history>>

-----------------------------------------------------------------------------
MainStep ==
  \/ MainWake \/ Accept \/ AcceptDone \/ AcceptFails
  \/ GetConnection \/ AddConnection \/ AddChannel \/ AddTimer \/ LeaveScope

LoopStep(l) ==
  \/ Wait(l) \/ HandleEvent(l)
  \/ DoPendingFunctors(l) \/ RunSend(l) \/ RunClose(l) \/ RunRemove(l) \/ RunErase(l)
  \/ DestroyFunctor(l)

Next ==
  \/ MainStep
  \/ \E l \in Loops : LoopStep(l) \/ FireTimer(l)
  \/ \E c \in Clients : ClientConnects(c) \/ ClientTalks(c) \/ ClientLeaves(c)
  \/ Undefined

Spec == Init /\ [][Next]_vars

\* The threads are scheduled, and wake up for what is ready or queued.
FairSpec == Spec /\ WF_vars(MainStep) /\ \A l \in Loops : WF_vars(LoopStep(l))

-----------------------------------------------------------------------------
(* Properties.                                                             *)

FunctorType ==
  {Holding(k, o) : k \in {"send", "close"}, o \in Objects}
    \cup {Naming(k, fd) : k \in {"remove", "erase"}, fd \in Fds}

\* Every variable has its type.
TypeOK ==
  /\ client \in [Clients -> {"away", "backlog", "open", "closed"}]
  /\ gone \subseteq Clients
  /\ backlog \in Seq(Clients)
  /\ listenEdge \in BOOLEAN
  /\ socket \in [Fds -> Clients \cup {None}]
  /\ channel \in [Fds -> Objects \cup {None}]
  /\ ready \subseteq Fds
  /\ main \in [ at : {"wait", "accept", "pool", "map", "register", "timer", "scope"},
                fd : Fds \cup {None}, object : Objects \cup {None},
                loop : Loops, next : Loops ]
  /\ object \in [Objects -> [fd : Fds \cup {None}, loop : Loops]]
  /\ pool \in [Loops -> Seq(Objects)]
  /\ map \in [Loops -> [Fds -> Objects \cup {None}]]
  /\ timers \in [Loops -> [Fds -> Clients \cup {None}]]
  /\ thread \in [Loops -> [ at : {"tick", "events", "functors"},
                            reported : SUBSET [object : Objects, client : Clients],
                            batch : Seq(FunctorType), ran : Nat ]]
  /\ pending \in [Loops -> Seq(FunctorType)]
  /\ expired \subseteq Clients
  /\ heirs \subseteq Clients
  /\ failed \in BOOLEAN
  /\ undefined \in BOOLEAN

\* Every open descriptor has exactly one live object, which has it in fd_, and
\* which epoll knows it by: no descriptor is closed under a connection, leaked
\* when the last functor is gone, or served by two objects, though functors,
\* map and HandleListenEvent let go of it in any order.
DescriptorsOwned ==
  \A fd \in Fds :
    LET owners == {o \in Live : object[o].fd = fd}
    IN  IF socket[fd] = None \/ (main.at = "pool" /\ main.fd = fd) THEN owners = {}
        ELSE Cardinality(owners) = 1 /\ channel[fd] \in owners \cup {None}

\* An object in the pool is closed, there only once, and nobody uses it.
PoolIdle ==
  \A l \in Loops : \A i \in DOMAIN pool[l] :
    /\ pool[l][i] \notin Live
    /\ object[pool[l][i]].fd = None
    /\ \A k \in Loops : \A j \in DOMAIN pool[k] :
         pool[k][j] = pool[l][i] => k = l /\ j = i

\* The map of a loop holds a connection under its own descriptor.
MapMatches ==
  \A l \in Loops, fd \in Fds :
    map[l][fd] # None => object[map[l][fd]] = [fd |-> fd, loop |-> l]

\* At every step of every thread, descriptors, objects, the pools and the maps agree
\* about who owns what.
Ownership == TypeOK /\ DescriptorsOwned /\ PoolIdle /\ MapMatches

\* An event is handled by the connection for which epoll reported it.
DispatchSound ==
  \A l \in Loops : \A e \in thread[l].reported :
    e.object \in Live /\ socket[object[e.object].fd] = e.client

\* No functor, timer or other loop takes an object from under an event that is
\* reported and not handled yet: that is what queueing the removal is for.  Only
\* the accepting thread can, when the last shared_ptr is its local variable.
EventsKeepObjects == [][DispatchSound => DispatchSound' \/ LeaveScope]_vars

\* A connection in the map has a timer, or its removal is on its way.
NeverUntimed ==
  \A l \in Loops, fd \in Fds :
    map[l][fd] # None =>
      \/ timers[l][fd] # None
      \/ main.at \in {"register", "timer"} /\ main.fd = fd
      \/ \E f \in Functors(l) : f.fd = fd

\* A client is left waiting in the backlog only if the last accept has failed.
AcceptDrains == main.at = "wait" /\ backlog # <<>> => listenEdge \/ failed

\* A client that leaves is cleaned up after: its descriptor is closed.
GoneIsClosed ==
  \A c \in Clients : client[c] = "open" /\ c \in gone ~> client[c] = "closed" \/ undefined

\* A client is disconnected only when it has left or its own timer has fired, or
\* when something was left behind at its accept: a timer or a removal that names
\* the descriptor, or an event of the object.  Only these heirs lose a connection
\* they are using.
ClosedForReason ==
  \A c \in Clients : client[c] = "closed" => c \in gone \cup expired \cup heirs
=============================================================================
