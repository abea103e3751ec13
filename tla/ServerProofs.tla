---------------------------- MODULE ServerProofs ----------------------------
(***************************************************************************)
(* Proofs about Server, for any number of clients, descriptors and loops   *)
(* and any size of the pools.                                              *)
(*                                                                         *)
(* The invariant is proved in three layers, each over the one before: who  *)
(* owns what; which client a descriptor and a reported event belong to;    *)
(* and why a client may be disconnected.                                   *)
(***************************************************************************)
EXTENDS Server, SequenceTheorems, FiniteSetTheorems, TLAPS

-----------------------------------------------------------------------------
(* The inductive invariant.                                                *)

\* A loop has functors to run, or to destroy, just while it is at them, and reported
\* events only while it handles them.
ThreadSound ==
  \A l \in Loops :
    /\ IF thread[l].at = "functors"
       THEN thread[l].batch # <<>> /\ thread[l].ran <= Len(thread[l].batch)
       ELSE thread[l].batch = <<>> /\ thread[l].ran = 0
    /\ thread[l].at # "events" => thread[l].reported = {}

\* The accepting thread has a descriptor without an object, then an object of its own.
Carries(fd) == main.at = "pool" /\ main.fd = fd

Serving == {"map", "register", "timer", "scope"}

MainSound ==
  /\ main.at = "pool" => main.fd \in Fds /\ socket[main.fd] # None
  /\ main.at \in Serving =>
       /\ main.fd \in Fds /\ main.object \in Objects
       /\ object[main.object] = Reuse(main.object, main.fd, main.loop)

\* A live object has an open descriptor, and no other live object has that one.
LiveOpen ==
  \A o \in Live : /\ object[o].fd # None
                  /\ socket[object[o].fd] # None
                  /\ ~Carries(object[o].fd)

LiveDistinct == \A o, p \in Live : object[o].fd = object[p].fd => o = p

SocketOwned ==
  \A fd \in Fds : socket[fd] # None => Carries(fd) \/ \E o \in Live : object[o].fd = fd

\* What epoll knows is live and has the descriptor, and what is ready is known.
ChannelOwned ==
  \A fd \in Fds : channel[fd] # None => channel[fd] \in Live /\ object[channel[fd]].fd = fd

ReadyKnown == \A fd \in ready : channel[fd] # None

\* Functors are queued on the loop of the object they hold.
FunctorsAtHome ==
  \A l \in Loops : \A f \in Functors(l) : f.object # None => object[f.object].loop = l

PoolBounded == \A l \in Loops : Len(pool[l]) <= PoolSize

Owners ==
  /\ TypeOK /\ ThreadSound /\ MainSound
  /\ LiveOpen /\ LiveDistinct /\ SocketOwned /\ ChannelOwned /\ ReadyKnown
  /\ FunctorsAtHome /\ PoolIdle /\ PoolBounded /\ MapMatches

\* A client waits in the backlog once, or has one descriptor.
BacklogWaits ==
  /\ \A i \in DOMAIN backlog : client[backlog[i]] = "backlog"
  /\ \A i, j \in DOMAIN backlog : backlog[i] = backlog[j] => i = j

SocketOpen ==
  /\ \A fd \in Fds : socket[fd] # None => client[socket[fd]] = "open"
  /\ \A fd, g \in Fds : socket[fd] # None /\ socket[fd] = socket[g] => fd = g

\* An event was reported for the connection its client has, if it still has one.
ReportedFor(l, e) ==
  /\ client[e.client] \in {"open", "closed"}
  /\ client[e.client] = "open" =>
       /\ e.object \in Live
       /\ socket[object[e.object].fd] = e.client
       /\ object[e.object].loop = l

Reported == \A l \in Loops : \A e \in thread[l].reported : ReportedFor(l, e)

Conversations == BacklogWaits /\ SocketOpen /\ Reported

\* A client that may not be disconnected yet.
Protected(c) == c \notin gone \cup expired \cup heirs

\* Nothing that names the descriptor, or is to end its connection, is under way.
Aims(f, fd) == f.fd = fd \/ (f.kind = "close" /\ object[f.object].fd = fd)

Unnamed(fd) == \A l \in Loops : \A f \in Functors(l) : ~Aims(f, fd)

\* No timer but that of its own client has it.
OwnTimer(fd) == \A l \in Loops : timers[l][fd] \in {None, socket[fd]}

\* Its connection is in a map, or will be.
Mapped(fd) == (main.at \in {"pool", "map"} /\ main.fd = fd) \/ \E l \in Loops : map[l][fd] # None

\* No event of an earlier connection reaches its object, nor will when it gets one.
OwnEvents(fd) ==
  \A l \in Loops : \A e \in thread[l].reported :
    /\ e.object \in Live /\ object[e.object].fd = fd => e.client = socket[fd]
    /\ Carries(fd) => client[e.client] # "closed"

Safe(fd) == Unnamed(fd) /\ OwnTimer(fd) /\ Mapped(fd) /\ OwnEvents(fd)

Protection == \A fd \in Fds : socket[fd] # None /\ Protected(socket[fd]) => Safe(fd)

\* NeverUntimed, of functors that are still to run.
Timed ==
  \A l \in Loops, fd \in Fds :
    map[l][fd] # None =>
      \/ timers[l][fd] # None
      \/ main.at \in {"register", "timer"} /\ main.fd = fd
      \/ \E i \in DOMAIN pending[l] : pending[l][i].fd = fd
      \/ \E i \in DOMAIN thread[l].batch : i > thread[l].ran /\ thread[l].batch[i].fd = fd

-----------------------------------------------------------------------------
(* Sequences and functors.                                                 *)

LEMMA ElementsEmpty == Elements(<<>>) = {}
BY DEF Elements

LEMMA ElementsAppend ==
  ASSUME NEW S, NEW s \in Seq(S), NEW e \in S
  PROVE  /\ Append(s, e) \in Seq(S)
         /\ Elements(Append(s, e)) = Elements(s) \cup {e}
<1>1. /\ Append(s, e) \in Seq(S)
      /\ Len(Append(s, e)) = Len(s) + 1
      /\ \A i \in 1 .. Len(s) : Append(s, e)[i] = s[i]
      /\ Append(s, e)[Len(s) + 1] = e
  BY AppendProperties
<1>2. Len(s) \in Nat /\ DOMAIN s = 1 .. Len(s) /\ DOMAIN Append(s, e) = 1 .. Len(s) + 1
  BY <1>1, LenProperties
<1> QED BY <1>1, <1>2 DEF Elements

LEMMA ElementsTail ==
  ASSUME NEW S, NEW s \in Seq(S), s # <<>>
  PROVE  /\ Head(s) \in S /\ Tail(s) \in Seq(S)
         /\ Elements(s) = {Head(s)} \cup Elements(Tail(s))
<1>1. /\ Head(s) = s[1] /\ Head(s) \in S
      /\ Tail(s) \in Seq(S) /\ Len(Tail(s)) = Len(s) - 1
      /\ \A i \in 1 .. Len(Tail(s)) : Tail(s)[i] = s[i + 1]
  BY HeadTailProperties
<1>2. Len(s) \in Nat \ {0} /\ DOMAIN s = 1 .. Len(s) /\ DOMAIN Tail(s) = 1 .. Len(s) - 1
  BY <1>1, LenProperties, EmptySeq
<1>3. ASSUME NEW x \in Elements(s) PROVE x \in {Head(s)} \cup Elements(Tail(s))
  <2>1. PICK i \in 1 .. Len(s) : x = s[i]
    BY <1>2 DEF Elements
  <2>2. CASE i = 1
    BY <1>1, <2>1, <2>2
  <2>3. CASE i # 1
    <3>1. i - 1 \in 1 .. Len(s) - 1 /\ Tail(s)[i - 1] = s[(i - 1) + 1] /\ (i - 1) + 1 = i
      BY <1>1, <1>2, <2>3
    <3> QED BY <1>2, <2>1, <3>1 DEF Elements
  <2> QED BY <2>2, <2>3
<1>4. ASSUME NEW x \in Elements(Tail(s)) PROVE x \in Elements(s)
  <2>1. PICK i \in 1 .. Len(s) - 1 : x = Tail(s)[i]
    BY <1>2 DEF Elements
  <2>2. i + 1 \in 1 .. Len(s) /\ x = s[i + 1]
    BY <1>1, <1>2, <2>1
  <2> QED BY <1>2, <2>2 DEF Elements
<1>5. Head(s) \in Elements(s)
  BY <1>1, <1>2 DEF Elements
<1> QED BY <1>1, <1>3, <1>4, <1>5

LEMMA ElementsType ==
  ASSUME NEW S, NEW s \in Seq(S) PROVE Elements(s) \subseteq S
BY ElementOfSeq, LenProperties DEF Elements

\* A functor holds an object or names a descriptor.
LEMMA FunctorFields ==
  ASSUME NEW f \in FunctorType
  PROVE  /\ f.kind \in {"send", "close", "remove", "erase"}
         /\ f.kind \in {"send", "close"} => f.object \in Objects /\ f.fd = None
         /\ f.kind \in {"remove", "erase"} => f.object = None /\ f.fd \in Fds
BY DEF FunctorType, Holding, Naming

LEMMA FunctorMade ==
  /\ \A o \in Objects : \A k \in {"send", "close"} :
       /\ Holding(k, o) \in FunctorType
       /\ Holding(k, o).kind = k /\ Holding(k, o).object = o /\ Holding(k, o).fd = None
  /\ \A fd \in Fds : \A k \in {"remove", "erase"} :
       /\ Naming(k, fd) \in FunctorType
       /\ Naming(k, fd).kind = k /\ Naming(k, fd).object = None /\ Naming(k, fd).fd = fd
BY DEF FunctorType, Holding, Naming

LEMMA FunctorsTyped ==
  ASSUME TypeOK, NEW l \in Loops, NEW f \in Functors(l)
  PROVE  f \in FunctorType
<1>1. pending[l] \in Seq(FunctorType) /\ thread[l].batch \in Seq(FunctorType)
  BY DEF TypeOK
<1> QED BY <1>1, ElementsType DEF Functors

\* The functor that a loop runs is one of its functors.
LEMMA RunsOne ==
  ASSUME TypeOK, NEW l \in Loops, thread[l].ran < Len(thread[l].batch)
  PROVE  /\ Next1(l) \in Functors(l) /\ Next1(l) \in FunctorType
         /\ thread[l].ran + 1 \in DOMAIN thread[l].batch
<1>1. thread[l].batch \in Seq(FunctorType) /\ thread[l].ran \in Nat
  BY DEF TypeOK
<1>2. /\ Len(thread[l].batch) \in Nat /\ DOMAIN thread[l].batch = 1 .. Len(thread[l].batch)
  BY <1>1, LenProperties
<1>3. thread[l].ran + 1 \in DOMAIN thread[l].batch
  BY <1>1, <1>2
<1>4. Next1(l) \in Functors(l)
  BY <1>3 DEF Next1, Functors, Elements
<1> QED BY <1>3, <1>4, FunctorsTyped

-----------------------------------------------------------------------------
(* Who is live.                                                            *)

HeldByMap(o) == o # None /\ \E l \in Loops, fd \in Fds : map[l][fd] = o

HeldByFunctor(o) == o # None /\ \E l \in Loops : \E f \in Functors(l) : f.object = o

LEMMA LiveIff ==
  /\ \A o : o \in Live <=> o \in MainHolds \/ HeldByMap(o) \/ HeldByFunctor(o)
  /\ \A o : o \in MapHolds <=> HeldByMap(o)
  /\ \A o : o \in FunctorsHold <=> HeldByFunctor(o)
BY DEF Live, MapHolds, FunctorsHold, HeldByMap, HeldByFunctor

LEMMA LiveIffPrime ==
  /\ \A o : o \in Live' <=> o \in MainHolds' \/ HeldByMap(o)' \/ HeldByFunctor(o)'
  /\ \A o : o \in MapHolds' <=> HeldByMap(o)'
  /\ \A o : o \in FunctorsHold' <=> HeldByFunctor(o)'
BY DEF Live, MapHolds, FunctorsHold, HeldByMap, HeldByFunctor

LEMMA LiveTyped ==
  ASSUME TypeOK, MainSound
  PROVE  Live \subseteq Objects
<1> SUFFICES ASSUME NEW o \in Live PROVE o \in Objects
  OBVIOUS
<1>1. CASE o \in MainHolds
  BY <1>1 DEF MainHolds, MainSound, Serving
<1>2. CASE HeldByMap(o)
  BY <1>2 DEF HeldByMap, TypeOK
<1>3. CASE HeldByFunctor(o)
  <2>1. PICK l \in Loops : \E f \in Functors(l) : f.object = o /\ o # None
    BY <1>3 DEF HeldByFunctor
  <2> QED BY <2>1, FunctorsTyped, FunctorFields
<1> QED BY <1>1, <1>2, <1>3, LiveIff

\* Steps that neither take nor drop a reference.
LEMMA LiveKept ==
  ASSUME \A o : o \in MainHolds' \/ HeldByMap(o)' \/ HeldByFunctor(o)'
                  <=> o \in MainHolds \/ HeldByMap(o) \/ HeldByFunctor(o)
  PROVE  Live' = Live
BY LiveIff, LiveIffPrime

Resources == <<socket, object, pool>>

\* They keep what is said of live objects and of the pools.
LEMMA Undisturbed ==
  ASSUME Owners, Live' = Live, UNCHANGED Resources, \A fd : Carries(fd)' <=> Carries(fd)
  PROVE  LiveOpen' /\ LiveDistinct' /\ SocketOwned' /\ PoolIdle' /\ PoolBounded'
<1>1. LiveOpen' /\ LiveDistinct' /\ SocketOwned'
  BY DEF Resources, Owners, LiveOpen, LiveDistinct, SocketOwned
<1>2. PoolIdle' /\ PoolBounded'
  BY DEF Resources, Owners, PoolIdle, PoolBounded
<1> QED BY <1>1, <1>2

SameBatches == \A l \in Loops : thread'[l].batch = thread[l].batch

\* A step that changes nothing of who owns what.
LEMMA Pauses ==
  ASSUME Owners, UNCHANGED <<Resources, map, channel, ready, pending>>, SameBatches,
         MainHolds' = MainHolds, \A fd : Carries(fd)' <=> Carries(fd)
  PROVE  /\ Live' = Live
         /\ \A l \in Loops : Functors(l)' = Functors(l)
         /\ LiveOpen' /\ LiveDistinct' /\ SocketOwned' /\ ChannelOwned' /\ ReadyKnown'
         /\ FunctorsAtHome' /\ PoolIdle' /\ PoolBounded' /\ MapMatches'
<1>1. \A l \in Loops : Functors(l)' = Functors(l)
  BY DEF SameBatches, Functors
<1>2. \A o : HeldByFunctor(o)' <=> HeldByFunctor(o)
  BY <1>1 DEF HeldByFunctor
<1>3. \A o : HeldByMap(o)' <=> HeldByMap(o)
  BY DEF HeldByMap
<1>4. Live' = Live
  BY <1>2, <1>3, LiveKept
<1>5. UNCHANGED Resources
  OBVIOUS
<1>6. LiveOpen' /\ LiveDistinct' /\ SocketOwned' /\ PoolIdle' /\ PoolBounded'
  BY <1>4, <1>5, Undisturbed
<1>7. ChannelOwned' /\ ReadyKnown' /\ MapMatches'
  BY <1>4 DEF Resources, Owners, ChannelOwned, ReadyKnown, MapMatches
<1>8. FunctorsAtHome'
  BY <1>1 DEF Resources, Owners, FunctorsAtHome
<1> QED BY <1>1, <1>4, <1>6, <1>7, <1>8

LEMMA Queued ==
  ASSUME TypeOK, NEW k \in Loops, NEW f \in FunctorType, QueueInLoop(k, f), SameBatches
  PROVE  /\ pending' \in [Loops -> Seq(FunctorType)]
         /\ \A l \in Loops : Functors(l)' = Functors(l) \cup (IF l = k THEN {f} ELSE {})
<1>1. /\ pending \in [Loops -> Seq(FunctorType)]
      /\ pending' = [pending EXCEPT ![k] = Append(@, f)]
  BY DEF TypeOK, QueueInLoop
<1>2. /\ Append(pending[k], f) \in Seq(FunctorType)
      /\ Elements(Append(pending[k], f)) = Elements(pending[k]) \cup {f}
  BY <1>1, ElementsAppend
<1>3. pending' \in [Loops -> Seq(FunctorType)]
  BY <1>1, <1>2
<1>4. \A l \in Loops : Functors(l)' = Functors(l) \cup (IF l = k THEN {f} ELSE {})
  BY <1>1, <1>2 DEF SameBatches, Functors
<1> QED BY <1>3, <1>4

\* A step that queues a functor for an object that is live, or for none.
LEMMA Pushes ==
  ASSUME Owners, NEW k \in Loops, NEW f \in FunctorType,
         f.object = None \/ (f.object \in Live /\ object[f.object].loop = k),
         QueueInLoop(k, f), SameBatches,
         UNCHANGED <<Resources, map, channel, ready, main>>
  PROVE  /\ pending' \in [Loops -> Seq(FunctorType)]
         /\ Live' = Live
         /\ \A l \in Loops : Functors(l)' = Functors(l) \cup (IF l = k THEN {f} ELSE {})
         /\ LiveOpen' /\ LiveDistinct' /\ SocketOwned' /\ ChannelOwned' /\ ReadyKnown'
         /\ FunctorsAtHome' /\ PoolIdle' /\ PoolBounded' /\ MapMatches'
<1>1. TypeOK
  BY DEF Owners
<1>3. /\ pending' \in [Loops -> Seq(FunctorType)]
      /\ \A l \in Loops : Functors(l)' = Functors(l) \cup (IF l = k THEN {f} ELSE {})
  BY <1>1, Queued
<1>4. \A l \in Loops : Functors(l)' = Functors(l) \cup (IF l = k THEN {f} ELSE {})
  BY <1>3
<1>5. \A o : HeldByFunctor(o)' <=> HeldByFunctor(o) \/ (o # None /\ o = f.object)
  BY <1>4 DEF HeldByFunctor
<1>6. \A o : HeldByMap(o)' <=> HeldByMap(o)
  BY DEF HeldByMap
<1>7. MainHolds' = MainHolds /\ \A fd : Carries(fd)' <=> Carries(fd)
  BY DEF MainHolds, Carries
<1>8. Live' = Live
  BY <1>5, <1>6, <1>7, LiveKept, LiveIff
<1>9. UNCHANGED Resources
  OBVIOUS
<1>10. LiveOpen' /\ LiveDistinct' /\ SocketOwned' /\ PoolIdle' /\ PoolBounded'
  BY <1>7, <1>8, <1>9, Undisturbed
<1>11. ChannelOwned' /\ ReadyKnown' /\ MapMatches'
  BY <1>8 DEF Resources, Owners, ChannelOwned, ReadyKnown, MapMatches
<1>12. FunctorsAtHome'
  BY <1>4 DEF Resources, Owners, FunctorsAtHome
<1> QED BY <1>3, <1>4, <1>8, <1>10, <1>11, <1>12

\* A live object that a functor holds is at the functor's loop, and has a descriptor.
LEMMA HeldObject ==
  ASSUME Owners, NEW l \in Loops, NEW f \in Functors(l), f.object # None
  PROVE  /\ f.object \in Live /\ f.object \in Objects
         /\ object[f.object].loop = l /\ object[f.object].fd \in Fds
<1>1. HeldByFunctor(f.object)
  BY DEF HeldByFunctor
<1>2. f.object \in Live /\ f.object \in Objects
  BY <1>1, LiveIff, LiveTyped DEF Owners
<1>3. object[f.object].fd \in Fds
  BY <1>2 DEF Owners, LiveOpen, TypeOK
<1> QED BY <1>2, <1>3 DEF Owners, FunctorsAtHome

-----------------------------------------------------------------------------
(* Owners, step by step.                                                   *)

LEMMA InitOwners == Init => Owners
<1> SUFFICES ASSUME Init PROVE Owners
  OBVIOUS
<1> USE DEF Init
<1>1. TypeOK
  <2>1. 1 \in Loops
    BY LoopAssumption DEF Loops
  <2> QED BY <2>1, EmptySeq, NoneAssumption DEF TypeOK
<1>2. ThreadSound /\ MainSound
  BY DEF ThreadSound, MainSound, Serving
<1>3. \A l \in Loops : Functors(l) = {}
  BY ElementsEmpty DEF Functors
<1>4. \A o : ~HeldByFunctor(o) /\ ~HeldByMap(o)
  BY <1>3 DEF HeldByFunctor, HeldByMap
<1>5. Live = {}
  BY <1>4, LiveIff DEF MainHolds
<1>6. LiveOpen /\ LiveDistinct /\ SocketOwned /\ ChannelOwned /\ ReadyKnown
  BY <1>5 DEF LiveOpen, LiveDistinct, SocketOwned, ChannelOwned, ReadyKnown
<1>7. FunctorsAtHome /\ MapMatches
  BY <1>3 DEF FunctorsAtHome, MapMatches
<1>8. PoolIdle /\ PoolBounded
  <2>1. Len(<<>>) = 0 /\ DOMAIN <<>> = {}
    BY EmptySeq
  <2> QED BY <2>1, PoolAssumption DEF PoolIdle, PoolBounded
<1> QED BY <1>1, <1>2, <1>6, <1>7, <1>8 DEF Owners

\* The steps of the accepting thread, the clients and epoll that keep all references.
LEMMA QuietOwners ==
  ASSUME Owners,
         MainWake \/ AcceptDone \/ AcceptFails \/ AddTimer \/ Undefined
         \/ \E c \in Clients : ClientConnects(c)
  PROVE  Owners' /\ Live' = Live
<1> USE DEF kernel, containers, history, MainAt
<1>1. TypeOK /\ MainSound /\ ThreadSound
  BY DEF Owners
<1>2. TypeOK'
  <2>1. CASE \E c \in Clients : ClientConnects(c)
    <3>1. PICK c \in Clients : ClientConnects(c)
      BY <2>1
    <3>2. Append(backlog, c) \in Seq(Clients)
      BY <1>1, AppendProperties DEF TypeOK
    <3> QED BY <1>1, <3>1, <3>2 DEF TypeOK, ClientConnects
  <2>2. CASE MainWake \/ AcceptDone \/ AcceptFails \/ Undefined
    BY <1>1, <2>2 DEF TypeOK, MainWake, AcceptDone, AcceptFails, Undefined
  <2>3. CASE AddTimer
    BY <1>1, <2>3 DEF TypeOK, MainSound, Serving, AddTimer
  <2> QED BY <2>1, <2>2, <2>3
<1>3. /\ UNCHANGED <<Resources, map, channel, ready, pending, thread>>
      /\ main.at \in Serving <=> main'.at \in Serving
      /\ main.at \in Serving => main'.fd = main.fd /\ main'.object = main.object
                                /\ main'.loop = main.loop
      /\ main'.at = "pool" <=> main.at = "pool"
      /\ main.at = "pool" => main'.fd = main.fd
  BY <1>1 DEF TypeOK, Serving, Resources, MainWake, AcceptDone, AcceptFails, AddTimer,
              Undefined, ClientConnects
<1>4. MainHolds' = MainHolds /\ \A fd : Carries(fd)' <=> Carries(fd)
  BY <1>3 DEF MainHolds, Carries, Serving
<1>5. SameBatches
  BY <1>3 DEF SameBatches
<1>6. ThreadSound'
  BY <1>1, <1>3 DEF ThreadSound
<1>7. MainSound'
  BY <1>1, <1>3 DEF MainSound, Resources, Reuse
<1> QED BY <1>2, <1>3, <1>4, <1>5, <1>6, <1>7, Pauses DEF Owners

\* What arrives makes known descriptors ready.
LEMMA ArrivesOwners ==
  ASSUME Owners, NEW c \in Clients, ClientTalks(c) \/ ClientLeaves(c)
  PROVE  Owners' /\ Live' = Live
<1> USE DEF kernel, containers, history
<1>1. TypeOK /\ MainSound /\ ThreadSound
  BY DEF Owners
<1>2. /\ UNCHANGED <<Resources, map, channel, pending, thread, main>>
      /\ ready' = ready \cup {fd \in Fds : socket[fd] = c /\ channel[fd] # None}
  BY DEF Resources, ClientTalks, ClientLeaves, Arrives
<1>3. TypeOK'
  BY SMTT(30), <1>1, <1>2 DEF TypeOK, ClientTalks, ClientLeaves
<1>4. \A l \in Loops : Functors(l)' = Functors(l)
  BY <1>2 DEF Functors
<1>5. \A o : (HeldByFunctor(o)' <=> HeldByFunctor(o)) /\ (HeldByMap(o)' <=> HeldByMap(o))
  BY <1>2, <1>4 DEF HeldByFunctor, HeldByMap
<1>6. MainHolds' = MainHolds /\ \A fd : Carries(fd)' <=> Carries(fd)
  BY <1>2 DEF MainHolds, Carries
<1>7. Live' = Live
  BY <1>5, <1>6, LiveKept
<1>8. LiveOpen' /\ LiveDistinct' /\ SocketOwned' /\ PoolIdle' /\ PoolBounded'
  BY <1>2, <1>6, <1>7, Undisturbed
<1>9. ReadyKnown'
  BY <1>2 DEF Owners, ReadyKnown
<1>10. ThreadSound' /\ MainSound'
  BY <1>1, <1>2 DEF ThreadSound, MainSound, Resources, Reuse
<1>11. ChannelOwned' /\ FunctorsAtHome' /\ MapMatches'
  BY <1>2, <1>4, <1>7 DEF Resources, Owners, ChannelOwned, FunctorsAtHome, MapMatches
<1> QED BY <1>3, <1>7, <1>8, <1>9, <1>10, <1>11 DEF Owners

\* A descriptor that is open and known to epoll belongs to a live object.
LEMMA KnownChannel ==
  ASSUME Owners, NEW fd \in Fds, channel[fd] # None
  PROVE  /\ channel[fd] \in Live /\ channel[fd] \in Objects
         /\ object[channel[fd]].fd = fd /\ socket[fd] # None /\ socket[fd] \in Clients
<1>1. channel[fd] \in Live /\ object[channel[fd]].fd = fd /\ channel[fd] \in Objects
  BY LiveTyped DEF Owners, ChannelOwned
<1>2. socket[fd] # None
  BY <1>1 DEF Owners, LiveOpen
<1> QED BY <1>1, <1>2 DEF Owners, TypeOK

LEMMA WaitOwners ==
  ASSUME Owners, NEW l \in Loops, Wait(l)
  PROVE  Owners' /\ Live' = Live
<1> USE DEF kernel, containers, history, LoopAt
<1> DEFINE mine == {fd \in ready : object[channel[fd]].loop = l}
           reported == {[object |-> channel[fd], client |-> socket[fd]] : fd \in mine}
<1>1. TypeOK /\ MainSound /\ ThreadSound /\ ReadyKnown
  BY DEF Owners
<1>2. /\ ready' = ready \ mine
      /\ thread' = [thread EXCEPT ![l].at = "events", ![l].reported = reported]
      /\ thread[l].at = "tick"
      /\ UNCHANGED <<Resources, map, channel, pending, main>>
      /\ UNCHANGED <<client, gone, backlog, listenEdge, timers, history, undefined>>
  BY DEF Wait, Resources
<1>3. reported \subseteq [object : Objects, client : Clients]
  BY <1>1, KnownChannel DEF TypeOK, ReadyKnown
<1>4. TypeOK'
  <2> HIDE DEF mine, reported
  <2>1. ready' \subseteq Fds
    BY <1>1, <1>2 DEF TypeOK
  <2> DEFINE ThreadType == [ at : {"tick", "events", "functors"},
                             reported : SUBSET [object : Objects, client : Clients],
                             batch : Seq(FunctorType), ran : Nat ]
  <2>2. thread \in [Loops -> ThreadType]
    BY <1>1 DEF TypeOK
  <2>3. [thread[l] EXCEPT !.at = "events", !.reported = reported] \in ThreadType
    BY <2>2, <1>3
  <2>4. thread' = [thread EXCEPT ![l] = [thread[l] EXCEPT !.at = "events", !.reported = reported]]
    BY <1>2, <2>2
  <2>5. thread' \in [Loops -> ThreadType]
    <3> HIDE DEF ThreadType
    <3> QED BY <2>2, <2>3, <2>4
  <2> QED BY <1>1, <1>2, <2>1, <2>5 DEF TypeOK, Resources
<1>5. SameBatches
  BY <1>1, <1>2 DEF TypeOK, SameBatches
<1>6. ThreadSound'
  <2> HIDE DEF mine, reported
  <2> SUFFICES ASSUME NEW k \in Loops
               PROVE  /\ IF thread'[k].at = "functors"
                            THEN thread'[k].batch # << >> /\ thread'[k].ran <= Len(thread'[k].batch)
                            ELSE thread'[k].batch = << >> /\ thread'[k].ran = 0
                      /\ thread'[k].at # "events" => thread'[k].reported = {}
    BY DEF ThreadSound
  <2>1. CASE k = l
    <3>1. /\ thread'[l].at = "events"
          /\ thread'[l].batch = thread[l].batch
          /\ thread'[l].ran = thread[l].ran
      BY <1>1, <1>2 DEF TypeOK
    <3>2. thread[l].batch = << >> /\ thread[l].ran = 0
      BY <1>1, <1>2 DEF ThreadSound
    <3> QED BY <2>1, <3>1, <3>2
  <2>2. CASE k # l
    <3>1. thread'[k] = thread[k]
      BY <1>1, <1>2, <2>2 DEF TypeOK
    <3> QED BY <1>1, <3>1 DEF ThreadSound
  <2> QED BY <2>1, <2>2
<1>7. MainSound'
  BY <1>1, <1>2 DEF MainSound, Resources, Reuse
<1>8. \A k \in Loops : Functors(k)' = Functors(k)
  BY <1>2, <1>5 DEF SameBatches, Functors
<1>9. \A o : (HeldByFunctor(o)' <=> HeldByFunctor(o)) /\ (HeldByMap(o)' <=> HeldByMap(o))
  BY <1>2, <1>8 DEF HeldByFunctor, HeldByMap
<1>10. MainHolds' = MainHolds /\ \A fd : Carries(fd)' <=> Carries(fd)
  BY <1>2 DEF MainHolds, Carries
<1>11. Live' = Live
  BY <1>9, <1>10, LiveKept
<1>12. LiveOpen' /\ LiveDistinct' /\ SocketOwned' /\ PoolIdle' /\ PoolBounded'
  BY <1>2, <1>10, <1>11, Undisturbed
<1>13. ReadyKnown'
  BY <1>1, <1>2 DEF ReadyKnown
<1>14. ChannelOwned' /\ FunctorsAtHome' /\ MapMatches'
  BY <1>2, <1>8, <1>11 DEF Resources, Owners, ChannelOwned, FunctorsAtHome, MapMatches
<1> QED BY <1>4, <1>6, <1>7, <1>11, <1>12, <1>13, <1>14 DEF Owners

\* The accepting thread gets a descriptor that nobody has.
LEMMA AcceptOwners ==
  ASSUME Owners, Accept
  PROVE  Owners' /\ Live' = Live
<1> USE DEF containers, MainAt
<1>1. TypeOK /\ MainSound /\ ThreadSound
  BY DEF Owners
<1>2. PICK fd \in Fds :
        /\ socket[fd] = None
        /\ socket' = [socket EXCEPT ![fd] = Head(backlog)]
        /\ main' = [main EXCEPT !.at = "pool", !.fd = fd, !.loop = main.next,
                                !.next = GetNextLoop(main.next)]
        /\ heirs' \in {heirs, heirs \cup {Head(backlog)}}
  BY DEF Accept
<1>3. /\ main.at = "accept" /\ backlog # <<>>
      /\ client' = [client EXCEPT ![Head(backlog)] = "open"]
      /\ backlog' = Tail(backlog)
      /\ UNCHANGED <<gone, listenEdge, channel, ready, object, containers,
                     thread, pending, expired, failed, undefined>>
  BY DEF Accept
<1>4. /\ Head(backlog) \in Clients /\ Head(backlog) # None
      /\ Tail(backlog) \in Seq(Clients)
  BY <1>1, <1>3, HeadTailProperties, NoneAssumption DEF TypeOK
<1>5. GetNextLoop(main.next) \in Loops
  <2>1. main.next \in Nat /\ LoopCount \in Nat \ {0}
    BY <1>1, LoopAssumption DEF TypeOK, Loops
  <2>2. main.next % LoopCount \in 0 .. LoopCount - 1
    BY <2>1
  <2> QED BY <2>1, <2>2 DEF GetNextLoop, Loops
<1>6. TypeOK'
  <2>1. main' \in [ at : {"wait", "accept", "pool", "map", "register", "timer", "scope"},
                    fd : Fds \cup {None}, object : Objects \cup {None},
                    loop : Loops, next : Loops ]
    BY <1>1, <1>2, <1>5 DEF TypeOK
  <2>2. socket' \in [Fds -> Clients \cup {None}] /\ heirs' \subseteq Clients
    BY <1>1, <1>2, <1>4 DEF TypeOK
  <2>3. client' \in [Clients -> {"away", "backlog", "open", "closed"}]
    BY <1>1, <1>3, <1>4 DEF TypeOK
  <2> QED BY <1>1, <1>3, <1>4, <2>1, <2>2, <2>3 DEF TypeOK
<1>7. /\ main'.at = "pool" /\ main'.fd = fd
      /\ \A g \in Fds : socket'[g] = IF g = fd THEN Head(backlog) ELSE socket[g]
  BY <1>1, <1>2 DEF TypeOK
<1>8. ThreadSound' /\ MainSound'
  BY <1>1, <1>3, <1>4, <1>7 DEF ThreadSound, MainSound, Serving
<1>9. \A l \in Loops : Functors(l)' = Functors(l)
  BY <1>3 DEF Functors
<1>10. \A o : (HeldByFunctor(o)' <=> HeldByFunctor(o)) /\ (HeldByMap(o)' <=> HeldByMap(o))
  BY <1>3, <1>9 DEF HeldByFunctor, HeldByMap
<1>11. MainHolds' = MainHolds
  BY <1>3, <1>7 DEF MainHolds
<1>12. Live' = Live
  BY <1>10, <1>11, LiveKept
<1>13. \A g : (Carries(g)' <=> g = fd) /\ ~Carries(g)
  BY <1>3, <1>7 DEF Carries
<1>14. LiveOpen'
  BY <1>1, <1>2, <1>3, <1>4, <1>7, <1>12, <1>13, LiveTyped DEF Owners, LiveOpen, TypeOK
<1>15. LiveDistinct' /\ SocketOwned'
  BY <1>3, <1>7, <1>12, <1>13 DEF Owners, LiveDistinct, SocketOwned
<1>16. ChannelOwned' /\ ReadyKnown' /\ FunctorsAtHome' /\ PoolIdle' /\ PoolBounded' /\ MapMatches'
  BY <1>3, <1>9, <1>12 DEF Owners, ChannelOwned, ReadyKnown, FunctorsAtHome, PoolIdle,
                           PoolBounded, MapMatches
<1> QED BY <1>6, <1>8, <1>12, <1>14, <1>15, <1>16 DEF Owners

\* While the accepting thread has a descriptor without an object, some memory is neither
\* in use nor in a pool: objects in use have a descriptor each, and pools are bounded.
LEMMA FreshObject ==
  ASSUME Owners, main.at = "pool"
  PROVE  \E o \in Objects : o \notin Live \cup Pooled
<1> SUFFICES ASSUME Objects \subseteq Live \cup Pooled PROVE FALSE
  OBVIOUS
<1>1. TypeOK /\ Live \subseteq Objects /\ main.fd \in Fds
  BY LiveTyped DEF Owners, MainSound
<1>2. /\ IsFiniteSet(Objects) /\ Cardinality(Objects) \in Nat
      /\ IsFiniteSet(Fds) /\ Cardinality(Fds) \in Nat
  BY ObjectAssumption, FS_CardinalityType
<1> DEFINE others == Fds \ {main.fd}
           slots == Loops \X (1 .. PoolSize)
<1>3. IsFiniteSet(others) /\ Cardinality(others) = Cardinality(Fds) - 1
  BY <1>1, <1>2, FS_RemoveElement
<1>4. IsFiniteSet(Live) /\ Cardinality(Live) <= Cardinality(Fds) - 1
  <2> DEFINE fdOf == [o \in Live |-> object[o].fd]
  <2>1. \A o \in Live : object[o].fd \in others
    BY <1>1 DEF Owners, LiveOpen, Carries, TypeOK
  <2>2. fdOf \in [Live -> others] /\ \A o, p \in Live : fdOf[o] = fdOf[p] => o = p
    BY <2>1 DEF Owners, LiveDistinct
  <2>3. fdOf \in Injection(Live, others)
    <3> HIDE DEF fdOf, others
    <3> QED BY <2>2 DEF Injection, IsInjective
  <2> QED BY <1>3, <2>3, FS_Injection
<1>5. IsFiniteSet(slots) /\ Cardinality(slots) = LoopCount * PoolSize
  <2>1. IsFiniteSet(Loops) /\ Cardinality(Loops) = LoopCount
    BY LoopAssumption, FS_Interval DEF Loops
  <2>2. IsFiniteSet(1 .. PoolSize) /\ Cardinality(1 .. PoolSize) = PoolSize
    BY PoolAssumption, FS_Interval
  <2> QED BY <2>1, <2>2, FS_Product
<1>6. IsFiniteSet(Pooled) /\ Cardinality(Pooled) <= LoopCount * PoolSize
  <2> DEFINE slot(o) == CHOOSE s \in slots : s[2] \in DOMAIN pool[s[1]] /\ pool[s[1]][s[2]] = o
  <2>1. ASSUME NEW o \in Pooled
        PROVE  slot(o) \in slots /\ pool[slot(o)[1]][slot(o)[2]] = o
    <3>1. PICK l \in Loops : o \in Elements(pool[l])
      BY DEF Pooled
    <3>2. PICK i \in DOMAIN pool[l] : pool[l][i] = o
      BY <3>1 DEF Elements
    <3>3. pool[l] \in Seq(Objects)
      BY <1>1 DEF TypeOK
    <3>4. DOMAIN pool[l] = 1 .. Len(pool[l]) /\ Len(pool[l]) \in Nat /\ Len(pool[l]) <= PoolSize
      BY <3>3, LenProperties DEF Owners, PoolBounded
    <3>5. i \in 1 .. PoolSize
      BY <3>2, <3>4, PoolAssumption
    <3>6. <<l, i>> \in slots
      BY <3>5
    <3>7. \E s \in slots : s[2] \in DOMAIN pool[s[1]] /\ pool[s[1]][s[2]] = o
      <4> WITNESS <<l, i>> \in slots
      <4> QED BY <3>2
    <3> HIDE DEF slots
    <3> QED BY <3>7
  <2> DEFINE slotOf == [o \in Pooled |-> slot(o)]
  <2>2. slotOf \in [Pooled -> slots] /\ \A o, p \in Pooled : slotOf[o] = slotOf[p] => o = p
    <3> HIDE DEF slot, slots
    <3> QED BY <2>1
  <2>3. slotOf \in Injection(Pooled, slots)
    <3> HIDE DEF slotOf, slots
    <3> QED BY <2>2 DEF Injection, IsInjective
  <2> QED BY <1>5, <2>3, FS_Injection
<1>7. /\ IsFiniteSet(Live \cup Pooled)
      /\ Cardinality(Live \cup Pooled)
           = Cardinality(Live) + Cardinality(Pooled) - Cardinality(Live \cap Pooled)
  BY <1>4, <1>6, FS_Union
<1>8. Cardinality(Objects) <= Cardinality(Live \cup Pooled)
  BY <1>7, FS_Subset
<1>9. IsFiniteSet(Live \cap Pooled)
  BY <1>4, FS_Intersection
<1>10. /\ Cardinality(Live) \in Nat /\ Cardinality(Pooled) \in Nat
       /\ Cardinality(Live \cap Pooled) \in Nat /\ Cardinality(Live \cup Pooled) \in Nat
  BY <1>4, <1>6, <1>7, <1>9, FS_CardinalityType
<1>11. /\ LoopCount * PoolSize = PoolSize * LoopCount /\ LoopCount * PoolSize \in Nat
  BY LoopAssumption, PoolAssumption
<1> QED BY <1>2, <1>4, <1>6, <1>7, <1>8, <1>10, <1>11, ObjectAssumption

\* An object from the pool, or fresh memory, that nobody has.
LEMMA TakenObject ==
  ASSUME Owners, GetConnection
  PROVE  \E o \in Objects :
           /\ o \notin Live
           /\ object' = [object EXCEPT ![o] = Reuse(o, main.fd, main.loop)]
           /\ main' = [main EXCEPT !.at = "map", !.object = o]
           /\ pool' \in [Loops -> Seq(Objects)]
           /\ PoolBounded'
           /\ \A k \in Loops : \A i \in DOMAIN pool'[k] :
                /\ pool'[k][i] # o
                /\ pool'[k][i] \notin Live
                /\ object[pool'[k][i]].fd = None
                /\ \A n \in Loops : \A j \in DOMAIN pool'[n] :
                     pool'[k][i] = pool'[n][j] => k = n /\ i = j
<1> USE DEF MainAt
<1> DEFINE l == main.loop
<1>1. TypeOK /\ l \in Loops /\ main.at = "pool"
  BY DEF Owners, GetConnection, TypeOK
<1>2. PICK o \in Objects :
        /\ o = IF pool[l] # <<>> THEN Head(pool[l])
               ELSE CHOOSE p \in Objects : p \notin Live \cup Pooled
        /\ pool' = IF pool[l] # <<>> THEN [pool EXCEPT ![l] = Tail(@)] ELSE pool
        /\ object' = [object EXCEPT ![o] = Reuse(o, main.fd, l)]
        /\ main' = [main EXCEPT !.at = "map", !.object = o]
  BY DEF GetConnection
<1>3. \A k \in Loops : pool[k] \in Seq(Objects) /\ Len(pool[k]) \in Nat
                       /\ DOMAIN pool[k] = 1 .. Len(pool[k]) /\ Len(pool[k]) <= PoolSize
  BY <1>1, LenProperties DEF TypeOK, Owners, PoolBounded
<1>4. \A k \in Loops : \A i \in DOMAIN pool[k] :
        /\ pool[k][i] \notin Live
        /\ object[pool[k][i]].fd = None
        /\ \A n \in Loops : \A j \in DOMAIN pool[n] :
             pool[n][j] = pool[k][i] => n = k /\ j = i
  BY DEF Owners, PoolIdle
<1> SUFFICES /\ o \notin Live
             /\ pool' \in [Loops -> Seq(Objects)]
             /\ PoolBounded'
             /\ \A k \in Loops : \A i \in DOMAIN pool'[k] :
                  /\ pool'[k][i] # o
                  /\ pool'[k][i] \notin Live
                  /\ object[pool'[k][i]].fd = None
                  /\ \A n \in Loops : \A j \in DOMAIN pool'[n] :
                       pool'[k][i] = pool'[n][j] => k = n /\ i = j
  BY <1>2
<1>5. CASE pool[l] = <<>>
  <2>1. o \in Objects /\ o \notin Live \cup Pooled
    BY <1>1, <1>2, <1>5, FreshObject
  <2>2. \A k \in Loops : \A i \in DOMAIN pool[k] : pool[k][i] # o
    BY <2>1 DEF Pooled, Elements
  <2>3. pool' = pool
    BY <1>2, <1>5
  <2>4. PoolBounded'
    BY <1>3, <2>3 DEF PoolBounded
  <2>5. pool' \in [Loops -> Seq(Objects)]
    BY <1>1, <2>3 DEF TypeOK
  <2>6. \A k \in Loops : \A i \in DOMAIN pool[k] :
          /\ pool[k][i] # o
          /\ pool[k][i] \notin Live
          /\ object[pool[k][i]].fd = None
          /\ \A n \in Loops : \A j \in DOMAIN pool[n] :
               pool[k][i] = pool[n][j] => k = n /\ i = j
    BY <1>4, <2>2
  <2> QED BY <2>1, <2>3, <2>4, <2>5, <2>6
<1>6. CASE pool[l] # <<>>
  <2> DEFINE off(k) == IF k = l THEN 1 ELSE 0
  <2>1. /\ o = Head(pool[l]) /\ pool' = [pool EXCEPT ![l] = Tail(pool[l])]
        /\ pool \in [Loops -> Seq(Objects)]
    BY <1>1, <1>2, <1>6 DEF TypeOK
  <2>2. /\ Head(pool[l]) = pool[l][1]
        /\ Tail(pool[l]) \in Seq(Objects) /\ Len(Tail(pool[l])) = Len(pool[l]) - 1
        /\ \A i \in 1 .. Len(Tail(pool[l])) : Tail(pool[l])[i] = pool[l][i + 1]
    BY <1>1, <1>3, <1>6, HeadTailProperties
  <2>3. Len(pool[l]) \in Nat \ {0} /\ 1 \in DOMAIN pool[l]
    BY <1>1, <1>3, <1>6, EmptySeq
  <2>4. DOMAIN Tail(pool[l]) = 1 .. Len(pool[l]) - 1
    BY <2>2, LenProperties
  <2>5. /\ pool'[l] = Tail(pool[l])
        /\ \A k \in Loops : k # l => pool'[k] = pool[k]
    BY <1>1, <2>1
  <2>6. \A k \in Loops : \A i \in DOMAIN pool'[k] :
          /\ i \in Nat \ {0} /\ i + off(k) \in DOMAIN pool[k]
          /\ pool'[k][i] = pool[k][i + off(k)]
    <3> SUFFICES ASSUME NEW k \in Loops, NEW i \in DOMAIN pool'[k]
                 PROVE  /\ i \in Nat \ {0} /\ i + off(k) \in DOMAIN pool[k]
                        /\ pool'[k][i] = pool[k][i + off(k)]
      OBVIOUS
    <3>1. CASE k = l
      <4>1. /\ i \in 1 .. Len(pool[l]) - 1 /\ i \in 1 .. Len(Tail(pool[l]))
            /\ pool'[k][i] = Tail(pool[l])[i]
        BY <2>2, <2>4, <2>5, <3>1
      <4>2. i + 1 \in 1 .. Len(pool[l]) /\ i \in Nat \ {0}
        BY <2>3, <4>1
      <4> QED BY <1>3, <2>2, <3>1, <4>1, <4>2
    <3>2. CASE k # l
      <4>1. pool'[k] = pool[k] /\ i \in 1 .. Len(pool[k])
        BY <1>3, <2>5, <3>2
      <4>2. i \in Nat \ {0} /\ i + off(k) = i
        BY <1>3, <3>2, <4>1
      <4> QED BY <1>3, <4>1, <4>2
    <3> QED BY <3>1, <3>2
  <2>7. o \notin Live
    BY <1>1, <1>4, <2>1, <2>2, <2>3
  <2>8. pool' \in [Loops -> Seq(Objects)]
    BY <2>1, <2>2
  <2>9. PoolBounded'
    <3> SUFFICES ASSUME NEW k \in Loops PROVE Len(pool'[k]) <= PoolSize
      BY DEF PoolBounded
    <3>1. Len(pool[k]) <= PoolSize /\ Len(pool[k]) \in Nat
      BY <1>3
    <3>2. CASE k = l
      <4>1. pool'[k] = Tail(pool[l]) /\ Len(Tail(pool[l])) = Len(pool[k]) - 1
        BY <2>2, <2>5, <3>2
      <4>2. Len(pool'[k]) = Len(pool[k]) - 1
        BY ONLY <4>1
      <4> QED BY ONLY <3>1, <4>2, PoolAssumption
    <3>3. CASE k # l
      BY <2>5, <3>1, <3>3
    <3> QED BY <3>2, <3>3
  <2>10. ASSUME NEW k \in Loops, NEW i \in DOMAIN pool'[k]
         PROVE  /\ pool'[k][i] # o
                /\ pool'[k][i] \notin Live
                /\ object[pool'[k][i]].fd = None
                /\ \A n \in Loops : \A j \in DOMAIN pool'[n] :
                     pool'[k][i] = pool'[n][j] => k = n /\ i = j
    <3>1. /\ i \in Nat \ {0} /\ i + off(k) \in DOMAIN pool[k]
          /\ pool'[k][i] = pool[k][i + off(k)]
      BY <2>6
    <3>2. pool'[k][i] \notin Live /\ object[pool'[k][i]].fd = None
      BY <1>4, <3>1
    <3>3. pool'[k][i] # o
      <4> SUFFICES ASSUME pool[l][1] = pool[k][i + off(k)] PROVE FALSE
        BY <2>1, <2>2, <3>1
      <4>1. l = k /\ 1 = i + off(k)
        BY <1>1, <1>4, <2>3, <3>1
      <4> QED BY <3>1, <4>1
    <3>4. ASSUME NEW n \in Loops, NEW j \in DOMAIN pool'[n], pool'[k][i] = pool'[n][j]
          PROVE  k = n /\ i = j
      <4>1. /\ j \in Nat \ {0} /\ j + off(n) \in DOMAIN pool[n]
            /\ pool'[n][j] = pool[n][j + off(n)]
        BY <2>6
      <4>2. pool[k][i + off(k)] = pool[n][j + off(n)]
        BY <3>1, <3>4, <4>1
      <4>3. k = n /\ i + off(k) = j + off(n)
        <5> HIDE DEF off
        <5> QED BY <1>4, <3>1, <4>1, <4>2
      <4> QED BY <3>1, <4>1, <4>3
    <3> QED BY <3>2, <3>3, <3>4
  <2> QED BY <2>7, <2>8, <2>9, <2>10
<1> QED BY <1>5, <1>6

LEMMA GetConnectionOwners ==
  ASSUME Owners, GetConnection
  PROVE  /\ Owners'
         /\ \E o \in Objects \ Live : /\ Live' = Live \cup {o}
                                     /\ object'[o] = Reuse(o, main.fd, main.loop)
         /\ \A p \in Live : object'[p] = object[p]
<1> USE DEF kernel, history, MainAt
<1>1. TypeOK /\ MainSound /\ ThreadSound
  BY DEF Owners
<1>2. PICK o \in Objects :
        /\ o \notin Live
        /\ object' = [object EXCEPT ![o] = Reuse(o, main.fd, main.loop)]
        /\ main' = [main EXCEPT !.at = "map", !.object = o]
        /\ pool' \in [Loops -> Seq(Objects)]
        /\ PoolBounded'
        /\ \A k \in Loops : \A i \in DOMAIN pool'[k] :
             /\ pool'[k][i] # o
             /\ pool'[k][i] \notin Live
             /\ object[pool'[k][i]].fd = None
             /\ \A n \in Loops : \A j \in DOMAIN pool'[n] :
                  pool'[k][i] = pool'[n][j] => k = n /\ i = j
  BY TakenObject
<1>3. /\ main.at = "pool"
      /\ UNCHANGED <<client, gone, backlog, listenEdge, socket, channel, ready, map, timers,
                     thread, pending, expired, heirs, failed, undefined>>
  BY DEF GetConnection
<1>4. /\ main.fd \in Fds /\ socket[main.fd] # None /\ main.loop \in Loops
      /\ main'.at = "map" /\ main'.fd = main.fd /\ main'.loop = main.loop /\ main'.object = o
      /\ object'[o] = Reuse(o, main.fd, main.loop)
      /\ object'[o].fd = main.fd
      /\ \A p : p \in Objects /\ p # o => object'[p] = object[p]
  BY <1>1, <1>2, <1>3 DEF TypeOK, MainSound, Reuse
<1>5. TypeOK'
  <2>1. object' \in [Objects -> [fd : Fds \cup {None}, loop : Loops]]
    BY <1>1, <1>2, <1>4 DEF TypeOK, Reuse
  <2>2. main' \in [ at : {"wait", "accept", "pool", "map", "register", "timer", "scope"},
                    fd : Fds \cup {None}, object : Objects \cup {None},
                    loop : Loops, next : Loops ]
    BY <1>1, <1>2 DEF TypeOK
  <2> QED BY <1>1, <1>2, <1>3, <2>1, <2>2 DEF TypeOK
<1>6. ThreadSound' /\ MainSound'
  BY <1>1, <1>3, <1>4 DEF ThreadSound, MainSound, Serving, Reuse
<1>7. \A l \in Loops : Functors(l)' = Functors(l)
  BY <1>3 DEF Functors
<1>8. \A p : (HeldByFunctor(p)' <=> HeldByFunctor(p)) /\ (HeldByMap(p)' <=> HeldByMap(p))
  BY <1>3, <1>7 DEF HeldByFunctor, HeldByMap
<1>9. MainHolds = {} /\ MainHolds' = {o}
  BY <1>3, <1>4 DEF MainHolds
<1>10. \A p : p \in Live' <=> p \in Live \/ p = o
  BY <1>8, <1>9, LiveIff, LiveIffPrime
<1>11. /\ \A fd : Carries(fd) <=> fd = main.fd
       /\ \A fd : ~Carries(fd)'
  BY <1>3, <1>4 DEF Carries
<1>12. \A p \in Live : p \in Objects /\ p # o /\ object'[p] = object[p]
  BY <1>1, <1>2, <1>4, LiveTyped
<1>13. \A p \in Live : object[p].fd # main.fd
  BY <1>11 DEF Owners, LiveOpen
<1>14. main.fd # None
  BY <1>4, NoneAssumption
<1>15. LiveOpen'
  BY <1>3, <1>4, <1>10, <1>11, <1>12, <1>14 DEF Owners, LiveOpen
<1>16. LiveDistinct'
  BY <1>4, <1>10, <1>12, <1>13 DEF Owners, LiveDistinct
<1>17. SocketOwned'
  BY <1>3, <1>4, <1>10, <1>11, <1>12 DEF Owners, SocketOwned
<1>18. ChannelOwned' /\ ReadyKnown'
  BY <1>3, <1>10, <1>12 DEF Owners, ChannelOwned, ReadyKnown
<1>19. FunctorsAtHome'
  BY <1>7, <1>12, HeldObject DEF FunctorsAtHome, Owners
<1>20. PoolIdle'
  <2>1. \A k \in Loops : \A i \in DOMAIN pool'[k] : pool'[k][i] \in Objects
    BY <1>2, LenProperties, ElementOfSeq
  <2> QED BY <1>2, <1>4, <1>10, <2>1 DEF PoolIdle
<1>21. MapMatches'
  <2>1. \A l \in Loops, fd \in Fds : map[l][fd] # None => map[l][fd] \in Live
    BY LiveIff DEF HeldByMap
  <2> QED BY <1>3, <1>12, <2>1 DEF Owners, MapMatches
<1>22. Owners'
  BY <1>2, <1>5, <1>6, <1>15, <1>16, <1>17, <1>18, <1>19, <1>20, <1>21 DEF Owners
<1>23. Live' = Live \cup {o}
  BY <1>10
<1> QED BY <1>2, <1>4, <1>12, <1>22, <1>23

\* The map takes the object that the accepting thread holds.
LEMMA AddConnectionOwners ==
  ASSUME Owners, AddConnection
  PROVE  Owners' /\ Live' = Live
<1> USE DEF kernel, history, MainAt
<1>1. TypeOK /\ MainSound /\ ThreadSound
  BY DEF Owners
<1>2. /\ main.at = "map" /\ main.fd \in Fds /\ main.object \in Objects /\ main.loop \in Loops
      /\ object[main.object] = Reuse(main.object, main.fd, main.loop)
      /\ map' = [map EXCEPT ![main.loop][main.fd] = main.object]
      /\ main' = [main EXCEPT !.at = "register"]
      /\ UNCHANGED <<client, gone, backlog, listenEdge, socket, channel, ready, object, pool,
                     timers, thread, pending, expired, heirs, failed, undefined>>
  BY <1>1 DEF TypeOK, AddConnection, MainSound, Serving
<1>3. TypeOK'
  BY <1>1, <1>2 DEF TypeOK
<1>4. /\ main'.at = "register" /\ main'.fd = main.fd /\ main'.object = main.object
      /\ main'.loop = main.loop
      /\ \A l \in Loops, fd \in Fds :
           map'[l][fd] = IF l = main.loop /\ fd = main.fd THEN main.object ELSE map[l][fd]
  BY <1>1, <1>2 DEF TypeOK
<1>5. ThreadSound' /\ MainSound'
  BY <1>1, <1>2, <1>4 DEF ThreadSound, MainSound, Serving, Reuse
<1>6. \A l \in Loops : Functors(l)' = Functors(l)
  BY <1>2 DEF Functors
<1>7. \A o : HeldByFunctor(o)' <=> HeldByFunctor(o)
  BY <1>6 DEF HeldByFunctor
<1>8. MainHolds = {main.object} /\ MainHolds' = {main.object}
  BY <1>2, <1>4 DEF MainHolds
<1>9. main.object # None /\ main.object \in Live
  BY <1>2, <1>8, LiveIff, NoneAssumption
<1>10. \A o : HeldByMap(o) => HeldByMap(o)' \/ o = main.object
  <2> SUFFICES ASSUME NEW l \in Loops, NEW fd \in Fds, NEW o, o # None, map[l][fd] = o
               PROVE  HeldByMap(o)' \/ o = main.object
    BY DEF HeldByMap
  <2>1. CASE l = main.loop /\ fd = main.fd
    <3>1. HeldByMap(o) /\ object[o] = [fd |-> fd, loop |-> l]
      BY DEF HeldByMap, Owners, MapMatches
    <3>2. o \in Live /\ object[o].fd = main.fd
      BY <2>1, <3>1, LiveIff
    <3>3. object[main.object].fd = main.fd
      BY <1>2 DEF Reuse
    <3> QED BY <1>9, <3>2, <3>3 DEF Owners, LiveDistinct
  <2>2. CASE ~(l = main.loop /\ fd = main.fd)
    BY <1>4, <2>2 DEF HeldByMap
  <2> QED BY <2>1, <2>2
<1>11. \A o : HeldByMap(o)' => HeldByMap(o) \/ o = main.object
  BY <1>4 DEF HeldByMap
<1>12. Live' = Live
  BY <1>7, <1>8, <1>10, <1>11, LiveKept
<1>13. \A fd : Carries(fd)' <=> Carries(fd)
  BY <1>2, <1>4 DEF Carries
<1>14. UNCHANGED Resources
  BY <1>2 DEF Resources
<1>15. LiveOpen' /\ LiveDistinct' /\ SocketOwned' /\ PoolIdle' /\ PoolBounded'
  BY <1>12, <1>13, <1>14, Undisturbed
<1>16. ChannelOwned' /\ ReadyKnown' /\ FunctorsAtHome'
  BY <1>2, <1>6, <1>12 DEF Owners, ChannelOwned, ReadyKnown, FunctorsAtHome
<1>17. MapMatches'
  BY <1>2, <1>4 DEF Owners, MapMatches, Reuse
<1> QED BY <1>3, <1>5, <1>12, <1>15, <1>16, <1>17 DEF Owners

\* So does epoll.
LEMMA AddChannelOwners ==
  ASSUME Owners, AddChannel
  PROVE  Owners' /\ Live' = Live
<1> USE DEF history, containers, MainAt
<1>1. TypeOK /\ MainSound /\ ThreadSound
  BY DEF Owners
<1>2. /\ main.at = "register" /\ main.fd \in Fds /\ main.object \in Objects
      /\ object[main.object] = Reuse(main.object, main.fd, main.loop)
      /\ channel' = [channel EXCEPT ![main.fd] = main.object]
      /\ ready' \in {ready, ready \cup {main.fd}}
      /\ main' = [main EXCEPT !.at = "timer"]
      /\ UNCHANGED <<client, gone, backlog, listenEdge, socket, object, pool, map,
                     timers, thread, pending, expired, heirs, failed, undefined>>
  BY <1>1 DEF TypeOK, AddChannel, MainSound, Serving
<1>3. TypeOK'
  BY <1>1, <1>2 DEF TypeOK
<1>4. /\ main'.at = "timer" /\ main'.fd = main.fd /\ main'.object = main.object
      /\ main'.loop = main.loop
  BY <1>1, <1>2 DEF TypeOK
<1>5. ThreadSound' /\ MainSound'
  BY <1>1, <1>2, <1>4 DEF ThreadSound, MainSound, Serving, Reuse
<1>6. \A l \in Loops : Functors(l)' = Functors(l)
  BY <1>2 DEF Functors
<1>7. \A o : (HeldByFunctor(o)' <=> HeldByFunctor(o)) /\ (HeldByMap(o)' <=> HeldByMap(o))
  BY <1>2, <1>6 DEF HeldByFunctor, HeldByMap
<1>8. MainHolds = {main.object} /\ MainHolds' = {main.object}
  BY <1>2, <1>4 DEF MainHolds
<1>9. main.object # None /\ main.object \in Live
  BY <1>2, <1>8, LiveIff, NoneAssumption
<1>10. Live' = Live
  BY <1>7, <1>8, LiveKept
<1>11. \A fd : Carries(fd)' <=> Carries(fd)
  BY <1>2, <1>4 DEF Carries
<1>12. UNCHANGED Resources
  BY <1>2 DEF Resources
<1>13. LiveOpen' /\ LiveDistinct' /\ SocketOwned' /\ PoolIdle' /\ PoolBounded'
  BY <1>10, <1>11, <1>12, Undisturbed
<1>14. \A fd \in Fds : channel'[fd] = IF fd = main.fd THEN main.object ELSE channel[fd]
  BY <1>1, <1>2 DEF TypeOK
<1>15. ChannelOwned'
  BY <1>2, <1>9, <1>10, <1>14 DEF Owners, ChannelOwned, Reuse
<1>16. ReadyKnown'
  BY <1>1, <1>2, <1>9, <1>14 DEF Owners, ReadyKnown, TypeOK
<1>17. FunctorsAtHome' /\ MapMatches'
  BY <1>2, <1>6 DEF Owners, FunctorsAtHome, MapMatches
<1> QED BY <1>3, <1>5, <1>10, <1>13, <1>15, <1>16, <1>17 DEF Owners

ThreadType == [ at : {"tick", "events", "functors"},
                reported : SUBSET [object : Objects, client : Clients],
                batch : Seq(FunctorType), ran : Nat ]

LEMMA ThreadTyped ==
  ASSUME TypeOK, NEW l \in Loops
  PROVE  /\ thread \in [Loops -> ThreadType]
         /\ thread[l].at \in {"tick", "events", "functors"}
         /\ thread[l].reported \subseteq [object : Objects, client : Clients]
         /\ thread[l].batch \in Seq(FunctorType)
         /\ thread[l].ran \in Nat
BY DEF TypeOK, ThreadType

LEMMA ThreadSteps ==
  ASSUME TypeOK, NEW l \in Loops, NEW t \in ThreadType, thread' = [thread EXCEPT ![l] = t]
  PROVE  /\ thread' \in [Loops -> ThreadType] /\ thread'[l] = t
         /\ \A k \in Loops : k # l => thread'[k] = thread[k]
BY ThreadTyped

\* The functors of a round move from the queue to the batch.
LEMMA DoPendingOwners ==
  ASSUME Owners, NEW l \in Loops, DoPendingFunctors(l)
  PROVE  Owners' /\ Live' = Live
<1> USE DEF kernel, containers, history, LoopAt
<1> DEFINE at == IF pending[l] = <<>> THEN "tick" ELSE "functors"
<1>1. TypeOK /\ MainSound /\ ThreadSound
  BY DEF Owners
<1>2. /\ thread[l].at = "events" /\ thread[l].reported = {}
      /\ thread' = [thread EXCEPT ![l].at = at, ![l].batch = pending[l]]
      /\ pending' = [pending EXCEPT ![l] = <<>>]
      /\ UNCHANGED <<kernel, main, object, containers, history, undefined>>
  BY DEF DoPendingFunctors
<1>3. /\ pending[l] \in Seq(FunctorType) /\ thread[l].batch = <<>> /\ thread[l].ran = 0
      /\ at \in {"tick", "functors"}
  BY <1>1, <1>2 DEF TypeOK, ThreadSound
<1>4. TypeOK'
  <2> HIDE DEF at
  <2>1. thread' = [thread EXCEPT ![l] = [thread[l] EXCEPT !.at = at, !.batch = pending[l]]]
    BY <1>1, <1>2 DEF TypeOK
  <2>2. [thread[l] EXCEPT !.at = at, !.batch = pending[l]] \in ThreadType
    BY <1>1, <1>3, ThreadTyped DEF ThreadType
  <2>3. thread' \in [Loops -> ThreadType]
    BY <1>1, <2>1, <2>2, ThreadTyped
  <2>4. pending' \in [Loops -> Seq(FunctorType)]
    BY <1>1, <1>2, EmptySeq DEF TypeOK
  <2> QED BY <1>1, <1>2, <2>3, <2>4 DEF TypeOK, ThreadType
<1>5. /\ thread'[l].at = at /\ thread'[l].batch = pending[l]
      /\ thread'[l].reported = {} /\ thread'[l].ran = 0
      /\ \A k \in Loops : k # l => thread'[k] = thread[k] /\ pending'[k] = pending[k]
      /\ pending'[l] = <<>>
  <2> HIDE DEF at
  <2> QED BY <1>1, <1>2, <1>3 DEF TypeOK
<1>6. ThreadSound'
  <2>1. Len(pending[l]) \in Nat
    BY <1>3, LenProperties
  <2> QED BY <1>1, <1>5, <2>1 DEF ThreadSound
<1>7. MainSound'
  BY <1>1, <1>2 DEF MainSound, Reuse
<1>8. \A k \in Loops : Functors(k)' = Functors(k)
  BY <1>3, <1>5, ElementsEmpty DEF Functors
<1>9. \A o : (HeldByFunctor(o)' <=> HeldByFunctor(o)) /\ (HeldByMap(o)' <=> HeldByMap(o))
  BY <1>2, <1>8 DEF HeldByFunctor, HeldByMap
<1>10. MainHolds' = MainHolds /\ \A fd : Carries(fd)' <=> Carries(fd)
  BY <1>2 DEF MainHolds, Carries
<1>11. Live' = Live
  BY <1>9, <1>10, LiveKept
<1>12. UNCHANGED Resources
  BY <1>2 DEF Resources
<1>13. LiveOpen' /\ LiveDistinct' /\ SocketOwned' /\ PoolIdle' /\ PoolBounded'
  BY <1>10, <1>11, <1>12, Undisturbed
<1>14. ChannelOwned' /\ ReadyKnown' /\ FunctorsAtHome' /\ MapMatches'
  BY <1>2, <1>8, <1>11 DEF Owners, ChannelOwned, ReadyKnown, FunctorsAtHome, MapMatches
<1> QED BY <1>4, <1>6, <1>7, <1>11, <1>13, <1>14 DEF Owners

\* An event queues a functor that holds its own object, or nothing.
LEMMA HandleEventOwners ==
  ASSUME Owners, NEW l \in Loops, HandleEvent(l)
  PROVE  Owners' /\ Live' = Live
<1> USE DEF kernel, containers, history, LoopAt
<1>1. TypeOK /\ MainSound /\ ThreadSound
  BY DEF Owners
<1>2. PICK e \in thread[l].reported :
        /\ thread' = [thread EXCEPT ![l].reported = @ \ {e}]
        /\ IF e.object \notin Live THEN UNCHANGED pending
           ELSE IF e.client \in gone THEN HandleClose(e.object)
           ELSE \/ UNCHANGED pending
                \/ QueueInLoop(object[e.object].loop, Holding("send", e.object))
  BY DEF HandleEvent
<1>3. /\ thread[l].at = "events"
      /\ UNCHANGED <<kernel, main, object, containers, history, undefined>>
      /\ UNCHANGED <<Resources, map, channel, ready, main>>
  BY DEF HandleEvent, Resources
<1>4. /\ thread' \in [Loops -> ThreadType]
      /\ SameBatches
      /\ \A k \in Loops : thread'[k].at = thread[k].at /\ thread'[k].ran = thread[k].ran
      /\ \A k \in Loops : k # l => thread'[k] = thread[k]
  <2> DEFINE t == [thread[l] EXCEPT !.reported = @ \ {e}]
  <2>1. thread[l] \in ThreadType
    BY <1>1, ThreadTyped
  <2>2. /\ t \in ThreadType /\ t.batch = thread[l].batch
        /\ t.at = thread[l].at /\ t.ran = thread[l].ran
    BY <2>1 DEF ThreadType
  <2>3. thread' = [thread EXCEPT ![l] = t]
    BY <1>2
  <2> HIDE DEF t
  <2> QED BY <1>1, <2>2, <2>3, ThreadSteps DEF SameBatches
<1>5. ThreadSound'
  BY <1>1, <1>3, <1>4 DEF ThreadSound, SameBatches
<1>6. MainSound'
  BY <1>1, <1>3 DEF MainSound, Reuse
<1>7. \/ UNCHANGED pending
      \/ /\ e.object \in Live
         /\ \E kind \in {"send", "close"} :
              QueueInLoop(object[e.object].loop, Holding(kind, e.object))
  BY <1>2 DEF HandleClose
<1>8. CASE UNCHANGED pending
  <2>1. MainHolds' = MainHolds /\ \A fd : Carries(fd)' <=> Carries(fd)
    BY <1>3 DEF MainHolds, Carries
  <2>2. TypeOK'
    BY <1>1, <1>3, <1>4, <1>8 DEF TypeOK, ThreadType
  <2> QED BY <1>3, <1>4, <1>5, <1>6, <1>8, <2>1, <2>2, Pauses DEF Owners
<1>9. CASE \E kind \in {"send", "close"} :
             /\ e.object \in Live
             /\ QueueInLoop(object[e.object].loop, Holding(kind, e.object))
  <2>1. PICK kind \in {"send", "close"} :
          /\ e.object \in Live
          /\ QueueInLoop(object[e.object].loop, Holding(kind, e.object))
    BY <1>9
  <2> DEFINE f == Holding(kind, e.object)
             k == object[e.object].loop
  <2>2. e.object \in Objects /\ k \in Loops
    BY <1>1, <2>1, LiveTyped DEF TypeOK
  <2>3. f \in FunctorType /\ f.object = e.object
    BY <2>2, FunctorMade
  <2> HIDE DEF f
  <2>4. f.object = None \/ (f.object \in Live /\ object[f.object].loop = k)
    BY <2>1, <2>3
  <2>5. QueueInLoop(k, f)
    BY <2>1 DEF f
  <2> HIDE DEF k
  <2>6. /\ pending' \in [Loops -> Seq(FunctorType)] /\ Live' = Live
        /\ LiveOpen' /\ LiveDistinct' /\ SocketOwned' /\ ChannelOwned' /\ ReadyKnown'
        /\ FunctorsAtHome' /\ PoolIdle' /\ PoolBounded' /\ MapMatches'
    BY <1>3, <1>4, <2>2, <2>3, <2>4, <2>5, Pushes
  <2>7. TypeOK'
    BY <1>1, <1>3, <1>4, <2>6 DEF TypeOK, ThreadType
  <2> QED BY <1>5, <1>6, <2>6, <2>7 DEF Owners
<1> QED BY <1>7, <1>8, <1>9

\* A functor that runs stays in the batch.
LEMMA RunsKeep ==
  ASSUME Owners, NEW l \in Loops, NEW kind, Runs(l, kind)
  PROVE  /\ Next1(l) \in Functors(l) /\ Next1(l) \in FunctorType /\ Next1(l).kind = kind
         /\ thread' \in [Loops -> ThreadType]
         /\ SameBatches /\ ThreadSound'
         /\ thread[l].reported = {} /\ \A k \in Loops : thread'[k].reported = thread[k].reported
         /\ thread[l].at = "functors" /\ \A k \in Loops : thread'[k].at = thread[k].at
         /\ thread'[l].ran = thread[l].ran + 1
         /\ \A k \in Loops \ {l} : thread'[k].ran = thread[k].ran
<1> USE DEF LoopAt, Runs
<1>1. TypeOK /\ ThreadSound
  BY DEF Owners
<1>2. Next1(l) \in Functors(l) /\ Next1(l) \in FunctorType
  BY <1>1, RunsOne
<1>3. /\ thread' \in [Loops -> ThreadType] /\ SameBatches
      /\ \A k \in Loops : thread'[k].reported = thread[k].reported /\ thread'[k].at = thread[k].at
      /\ thread'[l].ran = thread[l].ran + 1
      /\ \A k \in Loops \ {l} : thread'[k].ran = thread[k].ran
  <2> DEFINE t == [thread[l] EXCEPT !.ran = @ + 1]
  <2>1. thread[l] \in ThreadType
    BY <1>1, ThreadTyped
  <2>2. /\ t \in ThreadType /\ t.batch = thread[l].batch
        /\ t.at = thread[l].at /\ t.reported = thread[l].reported
        /\ t.ran = thread[l].ran + 1
    BY <2>1 DEF ThreadType
  <2>3. thread' = [thread EXCEPT ![l] = t]
    OBVIOUS
  <2> HIDE DEF t
  <2> QED BY <1>1, <2>2, <2>3, ThreadSteps DEF SameBatches
<1>4. ThreadSound'
  <2>1. Len(thread[l].batch) \in Nat /\ thread[l].ran \in Nat
    BY <1>1, ThreadTyped, LenProperties
  <2>2. thread[l].ran + 1 <= Len(thread[l].batch)
    BY <2>1
  <2> QED BY <1>1, <1>3, <2>2 DEF ThreadSound, SameBatches
<1>5. thread[l].reported = {}
  BY <1>1 DEF ThreadSound
<1> QED BY <1>2, <1>3, <1>4, <1>5

\* What the functors that release nothing queue.
LEMMA RunQueues ==
  ASSUME Owners, NEW l \in Loops, RunSend(l) \/ RunClose(l) \/ RunRemove(l)
  PROVE  \/ UNCHANGED pending
         \/ \E f \in FunctorType :
              /\ QueueInLoop(l, f)
              /\ \/ /\ f.kind = "close" /\ f.fd = None
                    /\ f.object \in Live /\ object[f.object].loop = l
                    /\ Next1(l).kind = "send" /\ f.object = Next1(l).object
                    /\ socket[object[f.object].fd] \in gone
                 \/ /\ f.kind = "erase" /\ f.object = None
                    /\ \/ Next1(l).kind = "remove" /\ f.fd = Next1(l).fd
                       \/ Next1(l).kind = "close" /\ f.fd = object[Next1(l).object].fd
<1> DEFINE g == Next1(l)
           o == g.object
<1>1. CASE RunSend(l)
  <2>1. g \in Functors(l) /\ g \in FunctorType /\ g.kind = "send"
    BY <1>1, RunsKeep DEF RunSend
  <2>2. o \in Live /\ o \in Objects /\ object[o].loop = l /\ o # None
    BY <2>1, FunctorFields, HeldObject, NoneAssumption
  <2>3. CASE socket[object[o].fd] \in gone /\ HandleClose(o)
    <3>1. QueueInLoop(l, Holding("close", o))
      BY <2>2, <2>3 DEF HandleClose
    <3>2. /\ Holding("close", o) \in FunctorType /\ Holding("close", o).kind = "close"
          /\ Holding("close", o).object = o /\ Holding("close", o).fd = None
      BY <2>2, FunctorMade
    <3> QED BY <2>1, <2>2, <2>3, <3>1, <3>2
  <2> QED BY <1>1, <2>3 DEF RunSend
<1>2. CASE RunClose(l)
  <2>1. g \in Functors(l) /\ g \in FunctorType /\ g.kind = "close"
    BY <1>2, RunsKeep DEF RunClose
  <2>2. o \in Live /\ o \in Objects /\ object[o].loop = l /\ object[o].fd \in Fds
    BY <2>1, FunctorFields, HeldObject, NoneAssumption
  <2>3. QueueInLoop(l, Naming("erase", object[o].fd))
    BY <1>2, <2>2 DEF RunClose, RemoveConnection
  <2>4. /\ Naming("erase", object[o].fd) \in FunctorType
        /\ Naming("erase", object[o].fd).kind = "erase"
        /\ Naming("erase", object[o].fd).object = None
        /\ Naming("erase", object[o].fd).fd = object[o].fd
    BY <2>2, FunctorMade
  <2> QED BY <2>1, <2>3, <2>4
<1>3. CASE RunRemove(l)
  <2>1. g \in FunctorType /\ g.kind = "remove"
    BY <1>3, RunsKeep DEF RunRemove
  <2>2. g.fd \in Fds
    BY <2>1, FunctorFields
  <2>3. QueueInLoop(l, Naming("erase", g.fd))
    BY <1>3 DEF RunRemove, RemoveConnection
  <2>4. /\ Naming("erase", g.fd) \in FunctorType /\ Naming("erase", g.fd).kind = "erase"
        /\ Naming("erase", g.fd).object = None /\ Naming("erase", g.fd).fd = g.fd
    BY <2>2, FunctorMade
  <2> QED BY <2>1, <2>3, <2>4
<1> QED BY <1>1, <1>2, <1>3

LEMMA RunOwners ==
  ASSUME Owners, NEW l \in Loops, RunSend(l) \/ RunClose(l) \/ RunRemove(l)
  PROVE  Owners' /\ Live' = Live
<1> USE DEF kernel, containers, history
<1>1. TypeOK /\ MainSound
  BY DEF Owners
<1>2. /\ UNCHANGED <<kernel, main, object, containers, history, undefined>>
      /\ UNCHANGED <<Resources, map, channel, ready, main>>
  BY DEF RunSend, RunClose, RunRemove, Resources
<1>3. thread' \in [Loops -> ThreadType] /\ SameBatches /\ ThreadSound'
  BY RunsKeep DEF RunSend, RunClose, RunRemove
<1>4. MainSound'
  BY <1>1, <1>2 DEF MainSound, Reuse
<1>5. CASE UNCHANGED pending
  <2>1. MainHolds' = MainHolds /\ \A fd : Carries(fd)' <=> Carries(fd)
    BY <1>2 DEF MainHolds, Carries
  <2>2. TypeOK'
    BY <1>1, <1>2, <1>3, <1>5 DEF TypeOK, ThreadType
  <2> QED BY <1>2, <1>3, <1>4, <1>5, <2>1, <2>2, Pauses DEF Owners
<1>6. CASE ~UNCHANGED pending
  <2>1. PICK f \in FunctorType :
          /\ QueueInLoop(l, f)
          /\ f.object = None \/ (f.object \in Live /\ object[f.object].loop = l)
    BY <1>6, RunQueues
  <2>2. /\ pending' \in [Loops -> Seq(FunctorType)] /\ Live' = Live
        /\ LiveOpen' /\ LiveDistinct' /\ SocketOwned' /\ ChannelOwned' /\ ReadyKnown'
        /\ FunctorsAtHome' /\ PoolIdle' /\ PoolBounded' /\ MapMatches'
    BY <1>2, <1>3, <2>1, Pushes
  <2>3. TypeOK'
    BY <1>1, <1>2, <1>3, <2>2 DEF TypeOK, ThreadType
  <2> QED BY <1>3, <1>4, <2>2, <2>3 DEF Owners
<1> QED BY <1>5, <1>6

\* A timer that fires queues a name.
LEMMA FireTimerOwners ==
  ASSUME Owners, NEW l \in Loops, FireTimer(l)
  PROVE  Owners' /\ Live' = Live
<1> USE DEF kernel, LoopAt
<1>1. TypeOK /\ MainSound /\ ThreadSound
  BY DEF Owners
<1>2. PICK fd \in Fds :
        /\ timers[l][fd] # None
        /\ timers' = [timers EXCEPT ![l][fd] = None]
        /\ expired' = expired \cup {timers[l][fd]}
        /\ QueueInLoop(l, Naming("remove", fd))
  BY DEF FireTimer
<1>3. UNCHANGED <<kernel, main, object, pool, map, thread, heirs, failed, undefined>>
  BY DEF FireTimer
<1>4. /\ Naming("remove", fd) \in FunctorType /\ Naming("remove", fd).object = None
  BY FunctorMade
<1>5. SameBatches
  BY <1>3 DEF SameBatches
<1>6. UNCHANGED <<Resources, map, channel, ready, main>>
  BY <1>3 DEF Resources
<1>7. /\ pending' \in [Loops -> Seq(FunctorType)] /\ Live' = Live
      /\ LiveOpen' /\ LiveDistinct' /\ SocketOwned' /\ ChannelOwned' /\ ReadyKnown'
      /\ FunctorsAtHome' /\ PoolIdle' /\ PoolBounded' /\ MapMatches'
  BY <1>2, <1>4, <1>5, <1>6, Pushes
<1>8. TypeOK'
  <2>1. timers[l][fd] \in Clients
    BY <1>1, <1>2 DEF TypeOK
  <2>2. timers' \in [Loops -> [Fds -> Clients \cup {None}]]
    BY <1>1, <1>2 DEF TypeOK
  <2>3. expired' \subseteq Clients
    BY <1>1, <1>2, <2>1 DEF TypeOK
  <2> QED BY <1>1, <1>3, <1>7, <2>2, <2>3 DEF TypeOK
<1>9. ThreadSound' /\ MainSound'
  BY <1>1, <1>3 DEF ThreadSound, MainSound, Reuse
<1> QED BY <1>7, <1>8, <1>9 DEF Owners

\* Nobody comes or goes.
Steady == UNCHANGED <<client, socket, object>> /\ Live' = Live

\* The deleter of o runs.
Ends(o) ==
  /\ o \in Live /\ Live' = Live \ {o}
  /\ socket' = [socket EXCEPT ![object[o].fd] = None]
  /\ client' = [client EXCEPT ![socket[object[o].fd]] = "closed"]
  /\ \A p \in Live' : object'[p] = object[p]

\* The deleter closes the descriptor of an object that is live no more, and nothing
\* else changes hands.
LEMMA Released ==
  ASSUME Owners, NEW o \in Live, Release(o), Live' = Live \ {o},
         \A fd : Carries(fd)' <=> Carries(fd)
  PROVE  /\ client' \in [Clients -> {"away", "backlog", "open", "closed"}]
         /\ socket' \in [Fds -> Clients \cup {None}]
         /\ channel' \in [Fds -> Objects \cup {None}]
         /\ ready' \subseteq Fds
         /\ object' \in [Objects -> [fd : Fds \cup {None}, loop : Loops]]
         /\ pool' \in [Loops -> Seq(Objects)]
         /\ \A p \in Live' : object'[p] = object[p]
         /\ \A fd : Carries(fd) => socket'[fd] = socket[fd]
         /\ LiveOpen' /\ LiveDistinct' /\ SocketOwned' /\ ChannelOwned' /\ ReadyKnown'
         /\ PoolIdle' /\ PoolBounded'
<1> DEFINE g == object[o].fd
           l == object[o].loop
           c == socket[g]
<1>1. TypeOK /\ Live \subseteq Objects
  BY LiveTyped DEF Owners
<1>2. /\ o \in Objects /\ g \in Fds /\ l \in Loops /\ c \in Clients /\ ~Carries(g)
      /\ g # None
  BY <1>1 DEF TypeOK, Owners, LiveOpen
<1>3. /\ socket' = [socket EXCEPT ![g] = None]
      /\ channel' = [channel EXCEPT ![g] = None]
      /\ ready' = ready \ {g}
      /\ client' = [client EXCEPT ![c] = "closed"]
      /\ object' = [object EXCEPT ![o].fd = None]
      /\ pool' = IF Len(pool[l]) >= PoolSize THEN pool
                 ELSE [pool EXCEPT ![l] = Append(@, o)]
  BY DEF Release
<1> HIDE DEF g, l, c
<1>4. /\ client' \in [Clients -> {"away", "backlog", "open", "closed"}]
      /\ socket' \in [Fds -> Clients \cup {None}]
      /\ channel' \in [Fds -> Objects \cup {None}]
      /\ ready' \subseteq Fds
  BY <1>1, <1>2, <1>3 DEF TypeOK
<1>5. object' \in [Objects -> [fd : Fds \cup {None}, loop : Loops]]
  <2>1. object \in [Objects -> [fd : Fds \cup {None}, loop : Loops]]
    BY <1>1 DEF TypeOK
  <2>2. [object[o] EXCEPT !.fd = None] \in [fd : Fds \cup {None}, loop : Loops]
    BY <1>2, <2>1
  <2>3. object' = [object EXCEPT ![o] = [object[o] EXCEPT !.fd = None]]
    BY <1>3
  <2> HIDE <1>3
  <2> QED BY <1>2, <2>1, <2>2, <2>3
<1>6. /\ \A fd \in Fds : socket'[fd] = IF fd = g THEN None ELSE socket[fd]
      /\ \A fd \in Fds : channel'[fd] = IF fd = g THEN None ELSE channel[fd]
      /\ \A p \in Objects : p # o => object'[p] = object[p]
      /\ object'[o].fd = None
  BY <1>1, <1>2, <1>3 DEF TypeOK
<1>7. \A p \in Live' : /\ p \in Live /\ p # o /\ p \in Objects /\ object'[p] = object[p]
                       /\ object[p].fd \in Fds /\ object[p].fd # g
  <2>1. \A p \in Live : p # o => object[p].fd # g
    BY DEF g, Owners, LiveDistinct
  <2>2. \A p \in Live : p \in Objects /\ object[p].fd \in Fds
    BY <1>1 DEF Owners, LiveOpen, TypeOK
  <2> QED BY <1>6, <2>1, <2>2
<1>8. LiveOpen' /\ LiveDistinct'
  BY <1>6, <1>7 DEF Owners, LiveOpen, LiveDistinct
<1>9. SocketOwned'
  <2> SUFFICES ASSUME NEW fd \in Fds, socket'[fd] # None, ~Carries(fd)
               PROVE  \E p \in Live' : object'[p].fd = fd
    BY DEF SocketOwned
  <2>1. fd # g /\ socket[fd] # None
    BY <1>6
  <2>2. PICK p \in Live : object[p].fd = fd
    BY <2>1 DEF Owners, SocketOwned
  <2>3. p # o
    BY <2>1, <2>2 DEF g
  <2> QED BY <1>7, <2>2, <2>3
<1>10. ChannelOwned' /\ ReadyKnown'
  <2>1. ASSUME NEW fd \in Fds, channel'[fd] # None
        PROVE  channel'[fd] \in Live' /\ object'[channel'[fd]].fd = fd
    <3>1. fd # g /\ channel'[fd] = channel[fd]
      BY <1>6, <2>1
    <3>2. channel[fd] \in Live /\ object[channel[fd]].fd = fd
      BY <2>1, <3>1 DEF Owners, ChannelOwned
    <3>3. channel[fd] # o
      BY <3>1, <3>2 DEF g
    <3> QED BY <1>7, <3>1, <3>2, <3>3
  <2>2. ReadyKnown'
    BY <1>1, <1>3, <1>6 DEF Owners, ReadyKnown, TypeOK
  <2> QED BY <2>1, <2>2 DEF ChannelOwned
<1>11. \A fd : Carries(fd) => socket'[fd] = socket[fd]
  BY <1>2, <1>3 DEF Owners, MainSound, Carries
<1>12. \A k \in Loops : /\ pool[k] \in Seq(Objects) /\ Len(pool[k]) \in Nat
                        /\ DOMAIN pool[k] = 1 .. Len(pool[k]) /\ Len(pool[k]) <= PoolSize
                        /\ \A i \in DOMAIN pool[k] : pool[k][i] \in Objects
  BY <1>1, LenProperties, ElementOfSeq DEF TypeOK, Owners, PoolBounded
<1>13. \A k \in Loops : \A i \in DOMAIN pool[k] :
         /\ pool[k][i] \notin Live' /\ pool[k][i] # o
         /\ object'[pool[k][i]].fd = None
         /\ \A n \in Loops : \A j \in DOMAIN pool[n] :
              pool[n][j] = pool[k][i] => n = k /\ j = i
  BY <1>6, <1>12 DEF Owners, PoolIdle
<1>14. pool' \in [Loops -> Seq(Objects)] /\ PoolIdle' /\ PoolBounded'
  <2>1. CASE Len(pool[l]) >= PoolSize
    <3>1. pool' = pool
      BY <1>3, <2>1
    <3>2. pool' \in [Loops -> Seq(Objects)] /\ PoolBounded'
      BY <1>1, <1>12, <3>1 DEF TypeOK, PoolBounded
    <3>3. PoolIdle'
      <4> SUFFICES ASSUME NEW k \in Loops, NEW i \in DOMAIN pool[k]
                   PROVE  /\ pool[k][i] \notin Live'
                          /\ object'[pool[k][i]].fd = None
                          /\ \A n \in Loops : \A j \in DOMAIN pool[n] :
                               pool[n][j] = pool[k][i] => n = k /\ j = i
        BY <3>1 DEF PoolIdle
      <4> QED BY <1>13
    <3> QED BY <3>2, <3>3
  <2>2. CASE ~(Len(pool[l]) >= PoolSize)
    <3> DEFINE s == Append(pool[l], o)
    <3>1. pool \in [Loops -> Seq(Objects)] /\ pool' = [pool EXCEPT ![l] = s]
      BY <1>1, <1>3, <2>2 DEF TypeOK
    <3>2. /\ s \in Seq(Objects) /\ Len(s) = Len(pool[l]) + 1
          /\ \A i \in 1 .. Len(pool[l]) : s[i] = pool[l][i]
          /\ s[Len(pool[l]) + 1] = o
      BY <1>2, <1>12, AppendProperties
    <3>3. DOMAIN s = 1 .. Len(pool[l]) + 1
      BY <3>2, LenProperties
    <3>4. Len(s) <= PoolSize
      BY <1>2, <1>12, <2>2, <3>2, PoolAssumption
    <3> HIDE DEF s
    <3>5. pool' \in [Loops -> Seq(Objects)]
      BY <3>1, <3>2
    <3>6. pool'[l] = s /\ \A k \in Loops : k # l => pool'[k] = pool[k]
      BY <1>2, <3>1
    <3>7. PoolBounded'
      BY <1>12, <3>4, <3>6 DEF PoolBounded
    <3>8. \A k \in Loops : \A i \in DOMAIN pool'[k] :
            \/ i \in DOMAIN pool[k] /\ pool'[k][i] = pool[k][i]
            \/ k = l /\ i = Len(pool[l]) + 1 /\ pool'[k][i] = o
      <4> SUFFICES ASSUME NEW k \in Loops, NEW i \in DOMAIN pool'[k]
                   PROVE  \/ i \in DOMAIN pool[k] /\ pool'[k][i] = pool[k][i]
                          \/ k = l /\ i = Len(pool[l]) + 1 /\ pool'[k][i] = o
        OBVIOUS
      <4>1. CASE k # l
        BY <3>6, <4>1
      <4>2. CASE k = l
        <5>1. i \in 1 .. Len(pool[l]) + 1 /\ pool'[k][i] = s[i]
          BY <3>3, <3>6, <4>2
        <5>2. i \in 1 .. Len(pool[l]) \/ i = Len(pool[l]) + 1
          BY <1>2, <1>12, <5>1
        <5> QED BY <1>12, <3>2, <4>2, <5>1, <5>2
      <4> QED BY <4>1, <4>2
    <3>9. PoolIdle'
      <4> SUFFICES ASSUME NEW k \in Loops, NEW i \in DOMAIN pool'[k]
                   PROVE  /\ pool'[k][i] \notin Live'
                          /\ object'[pool'[k][i]].fd = None
                          /\ \A n \in Loops : \A j \in DOMAIN pool'[n] :
                               pool'[n][j] = pool'[k][i] => n = k /\ j = i
        BY DEF PoolIdle
      <4>1. pool'[k][i] \notin Live' /\ object'[pool'[k][i]].fd = None
        BY <1>6, <1>13, <3>8
      <4>2. ASSUME NEW n \in Loops, NEW j \in DOMAIN pool'[n], pool'[n][j] = pool'[k][i]
            PROVE  n = k /\ j = i
        <5>1. CASE i \in DOMAIN pool[k] /\ pool'[k][i] = pool[k][i]
          BY <1>13, <3>8, <4>2, <5>1
        <5>2. CASE k = l /\ i = Len(pool[l]) + 1 /\ pool'[k][i] = o
          BY <1>13, <3>8, <4>2, <5>2
        <5> QED BY <3>8, <5>1, <5>2
      <4> QED BY <4>1, <4>2
    <3> QED BY <3>5, <3>7, <3>9
  <2> QED BY <2>1, <2>2
<1> QED BY <1>4, <1>5, <1>7, <1>8, <1>9, <1>10, <1>11, <1>14

\* A reference is dropped, the last one or not.
LEMMA Dropped ==
  ASSUME Owners, NEW o, NEW held, Drop(o, held),
         o # None => o \in Live,
         o # None /\ o \notin held => Live' = Live \ {o},
         o = None \/ o \in held => Live' = Live,
         \A fd : Carries(fd)' <=> Carries(fd),
         main'.at \in Serving \cup {"pool"} => main' = main,
         \A l \in Loops, fd \in Fds : map'[l][fd] \in {None, map[l][fd]},
         \A l \in Loops : Functors(l)' \subseteq Functors(l)
  PROVE  /\ client' \in [Clients -> {"away", "backlog", "open", "closed"}]
         /\ socket' \in [Fds -> Clients \cup {None}]
         /\ channel' \in [Fds -> Objects \cup {None}]
         /\ ready' \subseteq Fds
         /\ object' \in [Objects -> [fd : Fds \cup {None}, loop : Loops]]
         /\ pool' \in [Loops -> Seq(Objects)]
         /\ Steady \/ (o # None /\ Ends(o))
         /\ LiveOpen' /\ LiveDistinct' /\ SocketOwned' /\ ChannelOwned' /\ ReadyKnown'
         /\ PoolIdle' /\ PoolBounded' /\ MapMatches' /\ FunctorsAtHome' /\ MainSound'
<1>1. /\ client' \in [Clients -> {"away", "backlog", "open", "closed"}]
      /\ socket' \in [Fds -> Clients \cup {None}]
      /\ channel' \in [Fds -> Objects \cup {None}]
      /\ ready' \subseteq Fds
      /\ object' \in [Objects -> [fd : Fds \cup {None}, loop : Loops]]
      /\ pool' \in [Loops -> Seq(Objects)]
      /\ \A p \in Live' : object'[p] = object[p]
      /\ \A fd : Carries(fd) => socket'[fd] = socket[fd]
      /\ LiveOpen' /\ LiveDistinct' /\ SocketOwned' /\ ChannelOwned' /\ ReadyKnown'
      /\ PoolIdle' /\ PoolBounded'
      /\ Steady \/ (o # None /\ Ends(o))
  <2>1. CASE o # None /\ o \notin held
    <3>1. o \in Live /\ Live' = Live \ {o} /\ Release(o)
      BY <2>1 DEF Drop
    <3>2. Ends(o)
      BY <3>1, Released DEF Ends, Release
    <3> QED BY <2>1, <3>1, <3>2, Released
  <2>2. CASE o = None \/ o \in held
    <3>1. Live' = Live /\ UNCHANGED <<socket, channel, ready, client, object, pool>>
      BY <2>2 DEF Drop
    <3>2. UNCHANGED Resources
      BY <3>1 DEF Resources
    <3>3. LiveOpen' /\ LiveDistinct' /\ SocketOwned' /\ PoolIdle' /\ PoolBounded'
      BY <3>1, <3>2, Undisturbed
    <3>4. ChannelOwned' /\ ReadyKnown'
      BY <3>1 DEF Owners, ChannelOwned, ReadyKnown
    <3> QED BY <3>1, <3>3, <3>4 DEF Owners, TypeOK, Steady
  <2> QED BY <2>1, <2>2
<1>2. MapMatches'
  <2> SUFFICES ASSUME NEW l \in Loops, NEW fd \in Fds, map'[l][fd] # None
               PROVE  object'[map'[l][fd]] = [fd |-> fd, loop |-> l]
    BY DEF MapMatches
  <2> PICK p : p = map'[l][fd]
    OBVIOUS
  <2>1. HeldByMap(p)'
    BY DEF HeldByMap
  <2>2. p \in Live' /\ p = map[l][fd]
    BY <2>1, LiveIffPrime
  <2>3. object[p] = [fd |-> fd, loop |-> l]
    BY <2>2 DEF Owners, MapMatches
  <2>4. object'[p] = object[p]
    BY <1>1, <2>2
  <2> QED BY <2>3, <2>4
<1>3. FunctorsAtHome'
  <2> SUFFICES ASSUME NEW l \in Loops, NEW f \in Functors(l)', f.object # None
               PROVE  object'[f.object].loop = l
    BY DEF FunctorsAtHome
  <2>1. HeldByFunctor(f.object)'
    BY DEF HeldByFunctor
  <2>2. f.object \in Live' /\ f \in Functors(l)
    BY <2>1, LiveIffPrime
  <2> QED BY <1>1, <2>2 DEF Owners, FunctorsAtHome
<1>4. MainSound'
  <2>1. CASE main'.at = "pool"
    <3>1. main' = main /\ Carries(main.fd)
      BY <2>1 DEF Carries
    <3> QED BY <1>1, <2>1, <3>1 DEF Owners, MainSound, Serving
  <2>2. CASE main'.at \in Serving
    <3>1. main' = main /\ main.object \in MainHolds'
      BY <2>2 DEF MainHolds, Serving
    <3>2. main.object \in Live'
      BY <3>1, LiveIffPrime
    <3> QED BY <1>1, <2>2, <3>1, <3>2 DEF Owners, MainSound, Serving, Reuse
  <2>3. CASE main'.at \notin Serving \cup {"pool"}
    BY <2>3 DEF MainSound
  <2> QED BY <2>1, <2>2, <2>3
<1> QED BY <1>1, <1>2, <1>3, <1>4

\* The accepting thread lets go of the connection.
LEMMA LeaveScopeOwners ==
  ASSUME Owners, LeaveScope
  PROVE  Owners' /\ (Steady \/ Ends(main.object))
<1> USE DEF history, MainAt
<1> DEFINE o == main.object
           held == MapHolds \cup FunctorsHold
<1>1. TypeOK /\ MainSound /\ ThreadSound
  BY DEF Owners
<1>2. /\ main.at = "scope" /\ o \in Objects /\ o # None
      /\ Drop(o, held)
      /\ main' = [main EXCEPT !.at = "accept", !.fd = None, !.object = None]
      /\ UNCHANGED <<gone, backlog, listenEdge, map, timers, thread, pending, history, undefined>>
  BY <1>1, NoneAssumption DEF LeaveScope, MainSound, Serving
<1>3. main'.at = "accept"
  BY <1>1, <1>2 DEF TypeOK
<1>4. \A l \in Loops : Functors(l)' = Functors(l)
  BY <1>2 DEF Functors
<1>5. \A p : (HeldByFunctor(p)' <=> HeldByFunctor(p)) /\ (HeldByMap(p)' <=> HeldByMap(p))
  BY <1>2, <1>4 DEF HeldByFunctor, HeldByMap
<1>6. MainHolds = {o} /\ MainHolds' = {}
  BY <1>2, <1>3 DEF MainHolds
<1>7. /\ \A p : p \in held <=> HeldByMap(p) \/ HeldByFunctor(p)
      /\ \A p : p \in Live' <=> p \in held
      /\ \A p : p \in Live <=> p \in held \/ p = o
  BY <1>5, <1>6, LiveIff, LiveIffPrime
<1> HIDE DEF held, o
<1>8. o \in Live /\ (o \notin held => Live' = Live \ {o}) /\ (o \in held => Live' = Live)
  BY <1>7
<1>9. \A fd : Carries(fd)' <=> Carries(fd)
  BY <1>2, <1>3 DEF Carries
<1>10. main'.at \notin Serving \cup {"pool"}
  BY <1>3 DEF Serving
<1>11. /\ client' \in [Clients -> {"away", "backlog", "open", "closed"}]
       /\ socket' \in [Fds -> Clients \cup {None}]
       /\ channel' \in [Fds -> Objects \cup {None}]
       /\ ready' \subseteq Fds
       /\ object' \in [Objects -> [fd : Fds \cup {None}, loop : Loops]]
       /\ pool' \in [Loops -> Seq(Objects)]
       /\ Steady \/ Ends(o)
       /\ LiveOpen' /\ LiveDistinct' /\ SocketOwned' /\ ChannelOwned' /\ ReadyKnown'
       /\ PoolIdle' /\ PoolBounded' /\ MapMatches' /\ FunctorsAtHome' /\ MainSound'
  <2>1. /\ \A l \in Loops, fd \in Fds : map'[l][fd] \in {None, map[l][fd]}
        /\ \A l \in Loops : Functors(l)' \subseteq Functors(l)
    BY <1>2, <1>4
  <2> QED BY <1>2, <1>8, <1>9, <1>10, <2>1, Dropped
<1>12. main' \in [ at : {"wait", "accept", "pool", "map", "register", "timer", "scope"},
                   fd : Fds \cup {None}, object : Objects \cup {None},
                   loop : Loops, next : Loops ]
  BY <1>1, <1>2 DEF TypeOK
<1>13. TypeOK'
  BY <1>1, <1>2, <1>11, <1>12 DEF TypeOK
<1>14. ThreadSound'
  BY <1>1, <1>2 DEF ThreadSound
<1> QED BY <1>11, <1>13, <1>14 DEF Owners, o

\* What RunErase takes from the map.
Erases(l, fd) ==
  /\ fd = Next1(l).fd /\ Next1(l) \in Functors(l) /\ Next1(l).kind = "erase"
  /\ map' = [map EXCEPT ![l][fd] = None]
  /\ Drop(map[l][fd], MainHolds \cup FunctorsHold)
  /\ \A k \in Loops, g \in Fds : map'[k][g] = IF k = l /\ g = fd THEN None ELSE map[k][g]
  /\ \A k \in Loops : Functors(k)' = Functors(k)
  /\ map[l][fd] # None => /\ map[l][fd] \in Live
                          /\ object[map[l][fd]] = [fd |-> fd, loop |-> l]
  /\ map[l][fd] \notin {None} \cup MainHolds \cup FunctorsHold => Live' = Live \ {map[l][fd]}
  /\ map[l][fd] \in {None} \cup MainHolds \cup FunctorsHold => Live' = Live

LEMMA Erased ==
  ASSUME Owners, NEW l \in Loops, RunErase(l)
  PROVE  \E fd \in Fds : Erases(l, fd)
<1> USE DEF history, LoopAt, Erases
<1> DEFINE fd == Next1(l).fd
           o == map[l][fd]
<1>1. TypeOK
  BY DEF Owners
<1>2. Next1(l) \in Functors(l) /\ Next1(l) \in FunctorType /\ Next1(l).kind = "erase" /\ SameBatches
  BY RunsKeep DEF RunErase
<1>3. fd \in Fds
  BY <1>2, FunctorFields
<1>4. /\ map' = [map EXCEPT ![l][fd] = None]
      /\ Drop(o, MainHolds \cup FunctorsHold)
      /\ UNCHANGED <<main, pending>>
  BY DEF RunErase
<1> HIDE DEF fd
<1>5. \A k \in Loops, g \in Fds : map'[k][g] = IF k = l /\ g = fd THEN None ELSE map[k][g]
  BY <1>1, <1>3, <1>4 DEF TypeOK
<1>6. \A k \in Loops : Functors(k)' = Functors(k)
  BY <1>2, <1>4 DEF Functors, SameBatches
<1>7. o # None => /\ HeldByMap(o) /\ o \in Live
                  /\ object[o] = [fd |-> fd, loop |-> l]
  BY <1>3, LiveIff DEF Owners, MapMatches, HeldByMap
<1>8. \A p : HeldByMap(p)' <=> HeldByMap(p) /\ p # o
  <2>1. ASSUME NEW k \in Loops, NEW g \in Fds, map[k][g] # None, map[k][g] = o
        PROVE  k = l /\ g = fd
    <3>1. object[o] = [fd |-> fd, loop |-> l] /\ object[o] = [fd |-> g, loop |-> k]
      BY <1>7, <2>1 DEF Owners, MapMatches
    <3> QED BY <3>1
  <2> HIDE DEF o
  <2>2. \A p : HeldByMap(p)' => HeldByMap(p) /\ p # o
    BY <1>5, <2>1 DEF HeldByMap
  <2>3. \A p : HeldByMap(p) /\ p # o => HeldByMap(p)'
    BY <1>5 DEF HeldByMap, o
  <2> QED BY <2>2, <2>3
<1>9. \A p : HeldByFunctor(p)' <=> HeldByFunctor(p)
  BY <1>6 DEF HeldByFunctor
<1>10. MainHolds' = MainHolds
  BY <1>4 DEF MainHolds
<1> HIDE DEF o
<1>11. \A p : p \in Live' <=> p \in MainHolds \/ p \in FunctorsHold \/ (HeldByMap(p) /\ p # o)
  BY <1>8, <1>9, <1>10, LiveIff, LiveIffPrime
<1>12. \A p : p \in Live <=> p \in MainHolds \/ p \in FunctorsHold \/ HeldByMap(p)
  BY LiveIff
<1>13. /\ o \notin {None} \cup MainHolds \cup FunctorsHold => Live' = Live \ {o}
       /\ o \in MainHolds \cup FunctorsHold => Live' = Live
  BY <1>11, <1>12
<1>14. o = None => Live' = Live
  BY <1>11, <1>12 DEF HeldByMap
<1> QED BY <1>2, <1>3, <1>4, <1>5, <1>6, <1>7, <1>13, <1>14 DEF fd, o

LEMMA RunEraseOwners ==
  ASSUME Owners, NEW l \in Loops, RunErase(l)
  PROVE  /\ Owners'
         /\ Steady \/ \E o : Ends(o) /\ object[o] = [fd |-> Next1(l).fd, loop |-> l]
<1> USE DEF history
<1>1. TypeOK
  BY DEF Owners
<1>2. PICK fd \in Fds : Erases(l, fd)
  BY Erased
<1>3. UNCHANGED <<gone, backlog, listenEdge, main, timers, pending, history, undefined>>
  BY DEF RunErase
<1>4. thread' \in [Loops -> ThreadType] /\ ThreadSound'
  BY RunsKeep DEF RunErase
<1>5. \A g : Carries(g)' <=> Carries(g)
  BY <1>3 DEF Carries
<1>6. /\ client' \in [Clients -> {"away", "backlog", "open", "closed"}]
      /\ socket' \in [Fds -> Clients \cup {None}]
      /\ channel' \in [Fds -> Objects \cup {None}]
      /\ ready' \subseteq Fds
      /\ object' \in [Objects -> [fd : Fds \cup {None}, loop : Loops]]
      /\ pool' \in [Loops -> Seq(Objects)]
      /\ Steady \/ (map[l][fd] # None /\ Ends(map[l][fd]))
      /\ LiveOpen' /\ LiveDistinct' /\ SocketOwned' /\ ChannelOwned' /\ ReadyKnown'
      /\ PoolIdle' /\ PoolBounded' /\ MapMatches' /\ FunctorsAtHome' /\ MainSound'
  <2> DEFINE o == map[l][fd]
             held == MainHolds \cup FunctorsHold
  <2>1. /\ Drop(o, held)
        /\ o # None => o \in Live
        /\ o # None /\ o \notin held => Live' = Live \ {o}
        /\ o = None \/ o \in held => Live' = Live
    BY <1>2 DEF Erases
  <2>2. /\ \A k \in Loops, g \in Fds : map'[k][g] \in {None, map[k][g]}
        /\ \A k \in Loops : Functors(k)' \subseteq Functors(k)
    BY <1>2 DEF Erases
  <2> HIDE DEF o, held
  <2> QED BY <1>3, <1>5, <2>1, <2>2, Dropped DEF o
<1>7. map' \in [Loops -> [Fds -> Objects \cup {None}]]
  BY <1>1, <1>2 DEF TypeOK, Erases
<1>8. TypeOK'
  BY <1>1, <1>3, <1>4, <1>6, <1>7 DEF TypeOK, ThreadType
<1>9. Owners'
  BY <1>4, <1>6, <1>8 DEF Owners
<1>10. map[l][fd] # None => object[map[l][fd]] = [fd |-> Next1(l).fd, loop |-> l]
  BY <1>2 DEF Erases
<1> QED BY <1>6, <1>9, <1>10

\* What DestroyFunctor lets go of.
Destroys(l, f, held) ==
  /\ f \in FunctorType
  /\ Drop(f.object, held)
  /\ f.object # None => f.object \in Live
  /\ f.object # None /\ f.object \notin held => Live' = Live \ {f.object}
  /\ f.object = None \/ f.object \in held => Live' = Live
  /\ Functors(l) = Functors(l)' \cup {f}
  /\ \A k \in Loops : k # l => Functors(k)' = Functors(k)
  /\ thread' \in [Loops -> ThreadType] /\ ThreadSound'
  /\ thread[l].reported = {}
  /\ \A k \in Loops : thread'[k].reported = thread[k].reported

LEMMA Destroyed ==
  ASSUME Owners, NEW l \in Loops, DestroyFunctor(l)
  PROVE  \E f \in Functors(l) : \E held : Destroys(l, f, held)
<1> USE DEF history, LoopAt, Destroys
<1> DEFINE b == thread[l].batch
           rest == Tail(b)
           f == Head(b)
           at == IF rest = <<>> THEN "tick" ELSE "functors"
           held == MainHolds \cup MapHolds \cup HeldBeside(l, rest)
<1>1. TypeOK /\ ThreadSound
  BY DEF Owners
<1>2. /\ thread[l].at = "functors" /\ thread[l].ran = Len(b) /\ b # <<>>
      /\ thread' = [thread EXCEPT ![l].at = at, ![l].batch = rest, ![l].ran = @ - 1]
      /\ Drop(f.object, held)
      /\ UNCHANGED <<main, map, pending>>
  BY <1>1 DEF DestroyFunctor, ThreadSound
<1>3. /\ b \in Seq(FunctorType) /\ f \in FunctorType /\ rest \in Seq(FunctorType)
      /\ Elements(b) = {f} \cup Elements(rest)
      /\ Len(rest) = Len(b) - 1 /\ Len(b) \in Nat /\ Len(rest) \in Nat
  BY <1>1, <1>2, ThreadTyped, ElementsTail, HeadTailProperties, LenProperties
<1> HIDE DEF b, rest, f
<1>4. /\ thread' \in [Loops -> ThreadType]
      /\ thread'[l].at = at /\ thread'[l].batch = rest /\ thread'[l].ran = Len(rest)
      /\ thread'[l].reported = thread[l].reported
      /\ \A k \in Loops : k # l => thread'[k] = thread[k]
  <2> DEFINE t == [thread[l] EXCEPT !.at = at, !.batch = rest, !.ran = @ - 1]
  <2>1. thread[l] \in ThreadType /\ at \in {"tick", "functors"}
    BY <1>1, ThreadTyped
  <2> HIDE DEF at
  <2>2. /\ t \in ThreadType /\ t.batch = rest /\ t.at = at
        /\ t.reported = thread[l].reported /\ t.ran = Len(rest)
    BY <1>2, <1>3, <2>1 DEF ThreadType
  <2>3. thread' = [thread EXCEPT ![l] = t]
    BY <1>2
  <2> HIDE DEF t
  <2> QED BY <1>1, <2>2, <2>3, ThreadSteps
<1>5. thread[l].reported = {} /\ \A k \in Loops : thread'[k].reported = thread[k].reported
  BY <1>1, <1>2, <1>4 DEF ThreadSound
<1>6. ThreadSound'
  <2>1. rest = <<>> => Len(rest) = 0
    BY EmptySeq
  <2> QED BY <1>1, <1>3, <1>4, <1>5, <2>1 DEF ThreadSound
<1>7. /\ Functors(l)' = Elements(pending[l]) \cup Elements(rest)
      /\ Functors(l) = Functors(l)' \cup {f}
      /\ \A k \in Loops : k # l => Functors(k)' = Functors(k)
  BY <1>2, <1>3, <1>4 DEF Functors, b
<1>8. f \in Functors(l)
  BY <1>7
<1>9. f.object # None => f.object \in Live
  BY <1>8, HeldObject
<1>10. /\ \A p : HeldByMap(p)' <=> HeldByMap(p)
       /\ MainHolds' = MainHolds
  BY <1>2 DEF HeldByMap, MainHolds
<1>11. \A p : HeldByFunctor(p) <=> HeldByFunctor(p)' \/ (p # None /\ p = f.object)
  BY <1>7 DEF HeldByFunctor
<1>12. \A p : p # None => (p \in HeldBeside(l, rest) <=> HeldByFunctor(p)')
  BY <1>7 DEF HeldBeside, HeldByFunctor
<1>13. \A p : p # None => (p \in held <=> p \in Live')
  BY <1>10, <1>12, LiveIff, LiveIffPrime
<1>14. \A p : p \in Live <=> p \in Live' \/ (p # None /\ p = f.object)
  BY <1>10, <1>11, LiveIff, LiveIffPrime
<1> HIDE DEF held
<1>15. /\ f.object # None /\ f.object \notin held => Live' = Live \ {f.object}
       /\ f.object = None \/ f.object \in held => Live' = Live
  BY <1>13, <1>14
<1> QED BY <1>2, <1>3, <1>4, <1>5, <1>6, <1>7, <1>8, <1>9, <1>15

LEMMA DestroyFunctorOwners ==
  ASSUME Owners, NEW l \in Loops, DestroyFunctor(l)
  PROVE  /\ Owners'
         /\ Steady \/ \E o : Ends(o) /\ object[o].loop = l
<1> USE DEF history
<1>1. TypeOK
  BY DEF Owners
<1>2. PICK f \in Functors(l) : \E held : Destroys(l, f, held)
  BY Destroyed
<1>3. UNCHANGED <<gone, backlog, listenEdge, main, map, timers, pending, history, undefined>>
  BY DEF DestroyFunctor
<1>4. \A g : Carries(g)' <=> Carries(g)
  BY <1>3 DEF Carries
<1>5. /\ \A k \in Loops, g \in Fds : map'[k][g] \in {None, map[k][g]}
      /\ \A k \in Loops : Functors(k)' \subseteq Functors(k)
  BY <1>2, <1>3 DEF Destroys
<1>6. /\ client' \in [Clients -> {"away", "backlog", "open", "closed"}]
      /\ socket' \in [Fds -> Clients \cup {None}]
      /\ channel' \in [Fds -> Objects \cup {None}]
      /\ ready' \subseteq Fds
      /\ object' \in [Objects -> [fd : Fds \cup {None}, loop : Loops]]
      /\ pool' \in [Loops -> Seq(Objects)]
      /\ Steady \/ (f.object # None /\ Ends(f.object))
      /\ LiveOpen' /\ LiveDistinct' /\ SocketOwned' /\ ChannelOwned' /\ ReadyKnown'
      /\ PoolIdle' /\ PoolBounded' /\ MapMatches' /\ FunctorsAtHome' /\ MainSound'
  BY <1>2, <1>3, <1>4, <1>5, Dropped DEF Destroys
<1>7. TypeOK'
  BY <1>1, <1>2, <1>3, <1>6 DEF TypeOK, ThreadType, Destroys
<1>8. Owners'
  BY <1>2, <1>6, <1>7 DEF Owners, Destroys
<1>9. f.object # None => object[f.object].loop = l
  BY HeldObject
<1> QED BY <1>6, <1>8, <1>9

\* Who owns what, at every step.
LEMMA NextOwners == Owners /\ [Next]_vars => Owners'
<1> SUFFICES ASSUME Owners, [Next]_vars PROVE Owners'
  OBVIOUS
<1>1. CASE MainStep
  BY <1>1, QuietOwners, AcceptOwners, GetConnectionOwners, AddConnectionOwners,
     AddChannelOwners, LeaveScopeOwners DEF MainStep
<1>2. CASE \E l \in Loops : LoopStep(l) \/ FireTimer(l)
  <2>1. PICK l \in Loops : LoopStep(l) \/ FireTimer(l)
    BY <1>2
  <2> QED BY <2>1, WaitOwners, HandleEventOwners, DoPendingOwners, RunOwners, RunEraseOwners,
             DestroyFunctorOwners, FireTimerOwners DEF LoopStep
<1>3. CASE \E c \in Clients : ClientConnects(c) \/ ClientTalks(c) \/ ClientLeaves(c)
  BY <1>3, QuietOwners, ArrivesOwners
<1>4. CASE Undefined
  BY <1>4, QuietOwners
<1>5. CASE UNCHANGED vars
  <2>1. /\ UNCHANGED <<Resources, map, channel, ready, pending, thread, main>>
        /\ TypeOK' /\ ThreadSound' /\ MainSound'
    BY SMTT(30), <1>5 DEF vars, kernel, containers, history, Resources, Owners, TypeOK, ThreadSound,
                MainSound, Reuse
  <2>2. SameBatches /\ MainHolds' = MainHolds /\ \A fd : Carries(fd)' <=> Carries(fd)
    BY <2>1 DEF SameBatches, MainHolds, Carries
  <2> QED BY <2>1, <2>2, Pauses DEF Owners
<1> QED BY <1>1, <1>2, <1>3, <1>4, <1>5 DEF Next

-----------------------------------------------------------------------------
(* Conversations: the clients of descriptors and events.                   *)

SameEvents == \A l \in Loops : thread'[l].reported = thread[l].reported

\* What a step may do to the clients and their connections.
LEMMA StepKinds ==
  ASSUME Owners, [Next]_vars
  PROVE  \/ /\ Steady /\ UNCHANGED backlog
            /\ \A l \in Loops : thread'[l].reported \subseteq thread[l].reported
         \/ \E l \in Loops : Wait(l) /\ Steady
         \/ \E c \in Clients : ClientConnects(c) /\ Live' = Live
         \/ Accept /\ Live' = Live
         \/ /\ GetConnection /\ \A p \in Live : p \in Live' /\ object'[p] = object[p]
         \/ \E o : /\ Ends(o) /\ UNCHANGED backlog /\ SameEvents
                   /\ \/ LeaveScope
                      \/ \E l \in Loops : thread[l].reported = {} /\ object[o].loop = l
<1> USE DEF kernel, containers, history, Steady, SameEvents
<1>1. CASE MainStep
  <2>1. CASE MainWake \/ AcceptDone \/ AcceptFails \/ AddTimer \/ AddConnection \/ AddChannel
    <3>1. Live' = Live
      BY <2>1, QuietOwners, AddConnectionOwners, AddChannelOwners
    <3>2. UNCHANGED <<client, socket, object, backlog, thread>>
      BY <2>1 DEF MainWake, AcceptDone, AcceptFails, AddTimer, AddConnection, AddChannel
    <3> QED BY <3>1, <3>2
  <2>2. CASE Accept
    BY <2>2, AcceptOwners
  <2>3. CASE GetConnection
    BY <2>3, GetConnectionOwners
  <2>4. CASE LeaveScope
    <3>1. UNCHANGED <<backlog, thread>>
      BY <2>4 DEF LeaveScope
    <3> QED BY <2>4, <3>1, LeaveScopeOwners
  <2> QED BY <1>1, <2>1, <2>2, <2>3, <2>4 DEF MainStep
<1>2. ASSUME NEW l \in Loops, LoopStep(l) \/ FireTimer(l)
      PROVE  \/ /\ Steady /\ UNCHANGED backlog
                /\ \A k \in Loops : thread'[k].reported \subseteq thread[k].reported
             \/ Wait(l) /\ Steady
             \/ \E o : /\ Ends(o) /\ UNCHANGED backlog /\ SameEvents
                       /\ thread[l].reported = {} /\ object[o].loop = l
  <2> USE <1>2
  <2>1. TypeOK
    BY DEF Owners
  <2>2. CASE Wait(l)
    BY <2>2, WaitOwners DEF Wait
  <2>3. CASE HandleEvent(l)
    <3>1. UNCHANGED <<client, socket, object, backlog>> /\ Live' = Live
      BY <2>3, HandleEventOwners DEF HandleEvent
    <3>2. PICK e \in thread[l].reported : thread' = [thread EXCEPT ![l].reported = @ \ {e}]
      BY <2>3 DEF HandleEvent
    <3>3. \A k \in Loops : thread'[k].reported \subseteq thread[k].reported
      BY <2>1, <3>2 DEF TypeOK
    <3> QED BY <3>1, <3>3
  <2>4. CASE DoPendingFunctors(l)
    <3>1. UNCHANGED <<client, socket, object, backlog>> /\ Live' = Live
      BY <2>4, DoPendingOwners DEF DoPendingFunctors
    <3>2. PICK at : thread' = [thread EXCEPT ![l].at = at, ![l].batch = pending[l]]
      BY <2>4 DEF DoPendingFunctors
    <3>3. \A k \in Loops : thread'[k].reported = thread[k].reported
      BY SMTT(30), <2>1, <3>2 DEF TypeOK
    <3> QED BY <3>1, <3>3
  <2>5. CASE RunSend(l) \/ RunClose(l) \/ RunRemove(l)
    <3>1. UNCHANGED <<client, socket, object, backlog>> /\ Live' = Live
      BY <2>5, RunOwners DEF RunSend, RunClose, RunRemove
    <3>2. \A k \in Loops : thread'[k].reported = thread[k].reported
      BY <2>5, RunsKeep DEF RunSend, RunClose, RunRemove
    <3> QED BY <3>1, <3>2
  <2>6. CASE RunErase(l)
    <3>1. /\ thread[l].reported = {} /\ UNCHANGED backlog
          /\ \A k \in Loops : thread'[k].reported = thread[k].reported
      BY <2>6, RunsKeep DEF RunErase
    <3>2. CASE Steady
      BY <3>1, <3>2
    <3>3. CASE \E o : Ends(o) /\ object[o] = [fd |-> Next1(l).fd, loop |-> l]
      <4>1. PICK o : Ends(o) /\ object[o] = [fd |-> Next1(l).fd, loop |-> l]
        BY <3>3
      <4>2. object[o].loop = l
        BY <4>1
      <4> QED BY <3>1, <4>1, <4>2
    <3> QED BY <2>6, <3>2, <3>3, RunEraseOwners
  <2>7. CASE DestroyFunctor(l)
    <3>1. /\ thread[l].reported = {} /\ UNCHANGED backlog
          /\ \A k \in Loops : thread'[k].reported = thread[k].reported
      BY <2>7, Destroyed DEF DestroyFunctor, Destroys
    <3> QED BY <2>7, <3>1, DestroyFunctorOwners
  <2>8. CASE FireTimer(l)
    BY <2>8, FireTimerOwners DEF FireTimer
  <2> QED BY <2>2, <2>3, <2>4, <2>5, <2>6, <2>7, <2>8 DEF LoopStep
<1>3. CASE \E c \in Clients : ClientConnects(c)
  BY <1>3, QuietOwners
<1>4. CASE \E c \in Clients : ClientTalks(c) \/ ClientLeaves(c)
  <2>1. Live' = Live
    BY <1>4, ArrivesOwners
  <2>2. UNCHANGED <<client, socket, object, backlog, thread>>
    BY <1>4 DEF ClientTalks, ClientLeaves
  <2> QED BY <2>1, <2>2
<1>5. CASE Undefined
  BY <1>5, QuietOwners DEF Undefined
<1>6. CASE UNCHANGED vars
  <2>1. UNCHANGED <<main, map, pending, thread>>
    BY <1>6 DEF vars
  <2>2. \A l \in Loops : Functors(l)' = Functors(l)
    BY <2>1 DEF Functors
  <2>3. Live' = Live
    BY <2>1, <2>2, LiveKept DEF MainHolds, HeldByMap, HeldByFunctor
  <2> QED BY <1>6, <2>3 DEF vars
<1> QED BY <1>1, <1>2, <1>3, <1>4, <1>5, <1>6 DEF Next

LEMMA InitConversations == Init => Conversations
<1> SUFFICES ASSUME Init PROVE Conversations
  OBVIOUS
<1>1. backlog = <<>> /\ DOMAIN backlog = {}
  BY DEF Init
<1> QED BY <1>1 DEF Init, Conversations, BacklogWaits, SocketOpen, Reported

\* The client of a descriptor or of an event is a client.
LEMMA ClientsNamed ==
  ASSUME Owners
  PROVE  /\ \A fd \in Fds : socket[fd] # None => socket[fd] \in Clients
         /\ \A l \in Loops : \A e \in thread[l].reported : e.client \in Clients /\ e.object \in Objects
         /\ \A o \in Live : object[o].fd \in Fds /\ socket[object[o].fd] \in Clients
         /\ \A i \in DOMAIN backlog : backlog[i] \in Clients
<1>1. TypeOK
  BY DEF Owners
<1>2. \A fd \in Fds : socket[fd] # None => socket[fd] \in Clients
  BY <1>1 DEF TypeOK
<1>3. \A l \in Loops : \A e \in thread[l].reported : e.client \in Clients /\ e.object \in Objects
  BY <1>1, ThreadTyped
<1>4. \A o \in Live : object[o].fd \in Fds
  BY <1>1, LiveTyped DEF Owners, LiveOpen, TypeOK
<1>5. \A o \in Live : socket[object[o].fd] \in Clients
  BY <1>2, <1>4 DEF Owners, LiveOpen
<1>6. \A i \in DOMAIN backlog : backlog[i] \in Clients
  BY <1>1, LenProperties, ElementOfSeq DEF TypeOK
<1> QED BY <1>2, <1>3, <1>4, <1>5, <1>6

\* An event is handled, or not: nothing else is said of it.
LEMMA SteadyConversations ==
  ASSUME Owners, Conversations, Steady, UNCHANGED backlog,
         \A l \in Loops : thread'[l].reported \subseteq thread[l].reported
  PROVE  Conversations'
<1>1. BacklogWaits' /\ SocketOpen'
  BY DEF Steady, Conversations, BacklogWaits, SocketOpen
<1>2. Reported'
  BY DEF Steady, Conversations, Reported, ReportedFor
<1> QED BY <1>1, <1>2 DEF Conversations

LEMMA WaitConversations ==
  ASSUME Owners, Conversations, NEW l \in Loops, Wait(l), Steady
  PROVE  Conversations'
<1> USE DEF LoopAt
<1> DEFINE mine == {fd \in ready : object[channel[fd]].loop = l}
           reported == {[object |-> channel[fd], client |-> socket[fd]] : fd \in mine}
<1>1. /\ thread' = [thread EXCEPT ![l].at = "events", ![l].reported = reported]
      /\ UNCHANGED backlog
  BY DEF Wait
<1>2. BacklogWaits' /\ SocketOpen'
  BY <1>1 DEF Steady, Conversations, BacklogWaits, SocketOpen
<1>3. ASSUME NEW e \in reported PROVE ReportedFor(l, e)
  <2>1. PICK fd \in mine : e = [object |-> channel[fd], client |-> socket[fd]]
    OBVIOUS
  <2>2. fd \in Fds /\ channel[fd] # None /\ object[channel[fd]].loop = l
    BY <2>1 DEF Owners, TypeOK, ReadyKnown
  <2>3. channel[fd] \in Live /\ object[channel[fd]].fd = fd /\ socket[fd] # None
    BY <2>2, KnownChannel
  <2>4. e.object = channel[fd] /\ e.client = socket[fd]
    BY <2>1
  <2>5. client[socket[fd]] = "open"
    BY <2>2, <2>3 DEF Conversations, SocketOpen
  <2> QED BY <2>2, <2>3, <2>4, <2>5 DEF ReportedFor
<1>4. thread'[l].reported = reported /\ \A k \in Loops : k # l => thread'[k] = thread[k]
  <2> HIDE DEF reported
  <2> QED BY <1>1 DEF Owners, TypeOK
<1> HIDE DEF reported
<1>5. Reported'
  <2> SUFFICES ASSUME NEW k \in Loops, NEW e \in thread'[k].reported PROVE ReportedFor(k, e)'
    BY DEF Reported
  <2>1. ReportedFor(k, e)
    BY <1>3, <1>4 DEF Conversations, Reported
  <2> QED BY <2>1 DEF Steady, ReportedFor
<1> QED BY <1>2, <1>5 DEF Conversations

LEMMA ConnectsConversations ==
  ASSUME Owners, Conversations, NEW c \in Clients, ClientConnects(c), Live' = Live
  PROVE  Conversations'
<1>1. TypeOK
  BY DEF Owners
<1>2. /\ client[c] = "away" /\ client' = [client EXCEPT ![c] = "backlog"]
      /\ backlog' = Append(backlog, c)
      /\ UNCHANGED <<socket, object, thread>>
  BY DEF ClientConnects
<1>3. /\ client'[c] = "backlog"
      /\ \A d \in Clients : d # c => client'[d] = client[d]
  BY <1>1, <1>2 DEF TypeOK
<1>4. /\ backlog \in Seq(Clients) /\ Len(backlog) \in Nat /\ DOMAIN backlog = 1 .. Len(backlog)
      /\ backlog' \in Seq(Clients) /\ Len(backlog') = Len(backlog) + 1
      /\ \A i \in 1 .. Len(backlog) : backlog'[i] = backlog[i]
      /\ backlog'[Len(backlog) + 1] = c
  BY <1>1, <1>2, AppendProperties, LenProperties DEF TypeOK
<1>5. DOMAIN backlog' = 1 .. Len(backlog) + 1
  BY <1>4, LenProperties
<1>6. \A i \in DOMAIN backlog : backlog[i] # c /\ backlog[i] \in Clients
  BY <1>2, ClientsNamed DEF Conversations, BacklogWaits
<1>7. \A i \in DOMAIN backlog' :
        \/ i \in DOMAIN backlog /\ backlog'[i] = backlog[i]
        \/ i = Len(backlog) + 1 /\ backlog'[i] = c
  BY <1>4, <1>5
<1>8. BacklogWaits'
  <2>1. \A i \in DOMAIN backlog' : client'[backlog'[i]] = "backlog"
    BY <1>3, <1>6, <1>7 DEF Conversations, BacklogWaits
  <2>2. \A i, j \in DOMAIN backlog' : backlog'[i] = backlog'[j] => i = j
    BY <1>6, <1>7 DEF Conversations, BacklogWaits
  <2> QED BY <2>1, <2>2 DEF BacklogWaits
<1>9. SocketOpen'
  BY <1>2, <1>3, ClientsNamed DEF Conversations, SocketOpen
<1>10. Reported'
  <2> SUFFICES ASSUME NEW k \in Loops, NEW e \in thread[k].reported PROVE ReportedFor(k, e)'
    BY <1>2 DEF Reported
  <2>1. ReportedFor(k, e) /\ e.client \in Clients
    BY ClientsNamed DEF Conversations, Reported
  <2>2. client'[e.client] = client[e.client]
    BY <1>2, <1>3, <2>1 DEF ReportedFor
  <2> QED BY <1>2, <2>1, <2>2 DEF ReportedFor
<1> QED BY <1>8, <1>9, <1>10 DEF Conversations

LEMMA AcceptConversations ==
  ASSUME Owners, Conversations, Accept, Live' = Live
  PROVE  Conversations'
<1> USE DEF MainAt
<1> DEFINE c == Head(backlog)
<1>1. TypeOK
  BY DEF Owners
<1>2. PICK fd \in Fds : socket[fd] = None /\ socket' = [socket EXCEPT ![fd] = c]
  BY DEF Accept
<1>3. /\ backlog # <<>> /\ backlog' = Tail(backlog)
      /\ client' = [client EXCEPT ![c] = "open"]
      /\ UNCHANGED <<object, thread>>
  BY DEF Accept
<1>4. /\ backlog \in Seq(Clients) /\ Len(backlog) \in Nat \ {0} /\ DOMAIN backlog = 1 .. Len(backlog)
      /\ c = backlog[1] /\ c \in Clients
      /\ backlog' \in Seq(Clients) /\ Len(backlog') = Len(backlog) - 1
      /\ \A i \in 1 .. Len(backlog') : backlog'[i] = backlog[i + 1]
  BY <1>1, <1>3, HeadTailProperties, LenProperties, EmptySeq DEF TypeOK
<1>5. DOMAIN backlog' = 1 .. Len(backlog) - 1
  BY <1>4, LenProperties
<1> HIDE DEF c
<1>6. client[c] = "backlog" /\ client'[c] = "open" /\ \A d \in Clients : d # c => client'[d] = client[d]
  <2>1. client[c] = "backlog"
    BY <1>4 DEF Conversations, BacklogWaits
  <2> QED BY <1>1, <1>3, <1>4, <2>1 DEF TypeOK
<1>7. \A g \in Fds : socket'[g] = IF g = fd THEN c ELSE socket[g]
  BY <1>1, <1>2 DEF TypeOK
<1>8. \A i \in DOMAIN backlog' : /\ i \in Nat \ {0} /\ i + 1 \in DOMAIN backlog /\ 1 \in DOMAIN backlog
                                 /\ backlog'[i] = backlog[i + 1]
  BY <1>4, <1>5
<1>9. BacklogWaits'
  <2>1. ASSUME NEW i \in DOMAIN backlog' PROVE client'[backlog'[i]] = "backlog"
    <3>1. backlog[i + 1] # backlog[1]
      BY <1>8 DEF Conversations, BacklogWaits
    <3>2. backlog[i + 1] \in Clients /\ client[backlog[i + 1]] = "backlog"
      BY <1>8, ClientsNamed DEF Conversations, BacklogWaits
    <3> QED BY <1>4, <1>6, <1>8, <3>1, <3>2
  <2>2. ASSUME NEW i \in DOMAIN backlog', NEW j \in DOMAIN backlog', backlog'[i] = backlog'[j]
        PROVE  i = j
    <3>1. i + 1 = j + 1
      BY <1>8, <2>2 DEF Conversations, BacklogWaits
    <3> QED BY <1>8, <3>1
  <2> QED BY <2>1, <2>2 DEF BacklogWaits
<1>10. \A g \in Fds : socket[g] # None => /\ socket[g] \in Clients /\ client[socket[g]] = "open"
                                          /\ socket[g] # c
  BY <1>6, ClientsNamed DEF Conversations, SocketOpen
<1>11. SocketOpen'
  <2>1. \A g \in Fds : socket'[g] # None => client'[socket'[g]] = "open"
    BY <1>6, <1>7, <1>10
  <2>2. \A g, h \in Fds : socket'[g] # None /\ socket'[g] = socket'[h] => g = h
    BY <1>7, <1>10 DEF Conversations, SocketOpen
  <2> QED BY <2>1, <2>2 DEF SocketOpen
<1>12. Reported'
  <2> SUFFICES ASSUME NEW k \in Loops, NEW e \in thread[k].reported PROVE ReportedFor(k, e)'
    BY <1>3 DEF Reported
  <2>1. ReportedFor(k, e) /\ e.client \in Clients
    BY ClientsNamed DEF Conversations, Reported
  <2>2. client'[e.client] = client[e.client]
    BY <1>6, <2>1 DEF ReportedFor
  <2>3. e.object \in Live => socket'[object[e.object].fd] = socket[object[e.object].fd]
    BY <1>2, <1>7, ClientsNamed DEF Owners, LiveOpen
  <2> QED BY <1>3, <2>1, <2>2, <2>3 DEF ReportedFor
<1> QED BY <1>9, <1>11, <1>12 DEF Conversations

LEMMA GetConnectionConversations ==
  ASSUME Owners, Conversations, GetConnection,
         \A p \in Live : p \in Live' /\ object'[p] = object[p]
  PROVE  Conversations'
<1> USE DEF kernel
<1>1. UNCHANGED <<client, backlog, socket, thread>>
  BY DEF GetConnection
<1>2. BacklogWaits' /\ SocketOpen'
  BY <1>1 DEF Conversations, BacklogWaits, SocketOpen
<1>3. Reported'
  BY <1>1 DEF Conversations, Reported, ReportedFor
<1> QED BY <1>2, <1>3 DEF Conversations

\* The end of a connection: its client is known by no other descriptor.
LEMMA Ending ==
  ASSUME Owners, Conversations, NEW o, Ends(o)
  PROVE  LET c == socket[object[o].fd]
         IN  /\ c \in Clients /\ client[c] = "open" /\ client'[c] = "closed"
             /\ \A d \in Clients : d # c => client'[d] = client[d]
             /\ \A fd \in Fds : socket'[fd] = IF socket[fd] = c THEN None ELSE socket[fd]
             /\ \A p \in Live' : /\ p \in Live /\ object'[p] = object[p]
                                 /\ socket'[object[p].fd] = socket[object[p].fd]
             /\ \A p \in Live : socket[object[p].fd] = c => p = o
<1> DEFINE g == object[o].fd
           c == socket[g]
<1>1. TypeOK
  BY DEF Owners
<1>2. o \in Live /\ Live' = Live \ {o} /\ g \in Fds /\ c \in Clients
  BY ClientsNamed DEF Ends
<1>3. /\ socket' = [socket EXCEPT ![g] = None] /\ client' = [client EXCEPT ![c] = "closed"]
      /\ \A p \in Live' : object'[p] = object[p]
  BY DEF Ends
<1>4. \A fd \in Fds : socket[fd] = c <=> fd = g
  BY <1>2, NoneAssumption DEF Conversations, SocketOpen
<1>5. client[c] = "open"
  BY <1>2, NoneAssumption DEF Conversations, SocketOpen
<1> HIDE DEF c, g
<1>6. /\ client'[c] = "closed" /\ \A d \in Clients : d # c => client'[d] = client[d]
      /\ \A fd \in Fds : socket'[fd] = IF socket[fd] = c THEN None ELSE socket[fd]
  BY <1>1, <1>2, <1>3, <1>4 DEF TypeOK
<1>7. \A p \in Live : socket[object[p].fd] = c => p = o
  BY <1>2, <1>4, ClientsNamed DEF Owners, LiveDistinct, g
<1>8. \A p \in Live' : p \in Live /\ p # o /\ object[p].fd \in Fds
  BY <1>2, ClientsNamed
<1>9. \A p \in Live' : socket'[object[p].fd] = socket[object[p].fd]
  BY <1>6, <1>7, <1>8
<1> QED BY <1>2, <1>3, <1>5, <1>6, <1>7, <1>8, <1>9 DEF c, g

LEMMA EndsConversations ==
  ASSUME Owners, Conversations, NEW o, Ends(o), UNCHANGED backlog, SameEvents
  PROVE  Conversations'
<1> DEFINE c == socket[object[o].fd]
<1>1. /\ c \in Clients /\ client[c] = "open" /\ client'[c] = "closed"
      /\ \A d \in Clients : d # c => client'[d] = client[d]
      /\ \A fd \in Fds : socket'[fd] = IF socket[fd] = c THEN None ELSE socket[fd]
      /\ \A p \in Live' : /\ p \in Live /\ object'[p] = object[p]
                          /\ socket'[object[p].fd] = socket[object[p].fd]
      /\ \A p \in Live : socket[object[p].fd] = c => p = o
  BY Ending
<1>2. o \in Live /\ Live' = Live \ {o}
  BY DEF Ends
<1> HIDE DEF c
<1>3. BacklogWaits'
  <2>1. \A i \in DOMAIN backlog : client'[backlog[i]] = "backlog"
    BY <1>1, ClientsNamed DEF Conversations, BacklogWaits
  <2> QED BY <2>1 DEF Conversations, BacklogWaits
<1>4. SocketOpen'
  BY <1>1, ClientsNamed DEF Conversations, SocketOpen
<1>5. Reported'
  <2> SUFFICES ASSUME NEW k \in Loops, NEW e \in thread[k].reported PROVE ReportedFor(k, e)'
    BY DEF SameEvents, Reported
  <2>1. ReportedFor(k, e) /\ e.client \in Clients
    BY ClientsNamed DEF Conversations, Reported
  <2>2. CASE e.client = c
    BY <1>1, <2>2 DEF ReportedFor
  <2>3. CASE e.client # c
    <3>1. client'[e.client] = client[e.client]
      BY <1>1, <2>1, <2>3
    <3>2. CASE client[e.client] = "open"
      <4>1. e.object \in Live /\ socket[object[e.object].fd] = e.client /\ object[e.object].loop = k
        BY <2>1, <3>2 DEF ReportedFor
      <4>2. e.object # o
        BY <2>3, <4>1 DEF c
      <4>3. e.object \in Live'
        BY <1>2, <4>1, <4>2
      <4> QED BY <1>1, <3>1, <3>2, <4>1, <4>3 DEF ReportedFor
    <3> QED BY <2>1, <3>1, <3>2 DEF ReportedFor
  <2> QED BY <2>2, <2>3
<1> QED BY <1>3, <1>4, <1>5 DEF Conversations

LEMMA NextConversations == Owners /\ Conversations /\ [Next]_vars => Conversations'
BY StepKinds, SteadyConversations, WaitConversations, ConnectsConversations, AcceptConversations,
   GetConnectionConversations, EndsConversations

\* A step keeps the events that are sound, unless it is LeaveScope.
LEMMA EventsKept ==
  ASSUME Owners, Conversations, [Next]_vars, DispatchSound
  PROVE  DispatchSound' \/ LeaveScope
<1> SUFFICES ASSUME ~LeaveScope PROVE DispatchSound'
  OBVIOUS
<1>1. Conversations' /\ Owners'
  BY NextConversations, NextOwners
<1>2. \A l \in Loops : \A e \in thread[l].reported :
        e.client \in Clients /\ client[e.client] = "open" /\ object[e.object].loop = l
  <2> SUFFICES ASSUME NEW l \in Loops, NEW e \in thread[l].reported
               PROVE  e.client \in Clients /\ client[e.client] = "open" /\ object[e.object].loop = l
    OBVIOUS
  <2>1. e.client \in Clients /\ ReportedFor(l, e)
    BY ClientsNamed DEF Conversations, Reported
  <2>2. e.object \in Live /\ socket[object[e.object].fd] = e.client
    BY DEF DispatchSound
  <2>3. object[e.object].fd \in Fds /\ e.client # None
    BY <2>1, <2>2, ClientsNamed, NoneAssumption
  <2>4. client[e.client] = "open"
    BY <2>2, <2>3 DEF Conversations, SocketOpen
  <2> QED BY <2>1, <2>4 DEF ReportedFor
<1>3. SUFFICES ASSUME NEW l \in Loops, NEW e \in thread'[l].reported
               PROVE  client'[e.client] = "open"
  BY <1>1 DEF DispatchSound, Conversations, Reported, ReportedFor
<1>4. CASE Steady /\ e \in thread[l].reported
  BY <1>2, <1>4 DEF Steady
<1>5. CASE \E k \in Loops : Wait(k) /\ Steady
  <2>1. PICK k \in Loops : Wait(k) /\ Steady
    BY <1>5
  <2>2. thread' = [thread EXCEPT ![k].at = "events",
          ![k].reported = {[object |-> channel[fd], client |-> socket[fd]] :
                             fd \in {fd \in ready : object[channel[fd]].loop = k}}]
    BY <2>1 DEF Wait
  <2>3. CASE l = k
    <3>1. PICK fd \in ready : e = [object |-> channel[fd], client |-> socket[fd]]
      BY <2>2, <2>3 DEF Owners, TypeOK
    <3>2. fd \in Fds /\ socket[fd] # None
      BY <3>1, KnownChannel DEF Owners, TypeOK, ReadyKnown
    <3>3. client[socket[fd]] = "open" /\ e.client = socket[fd]
      BY <3>1, <3>2 DEF Conversations, SocketOpen
    <3> QED BY <2>1, <3>3 DEF Steady
  <2>4. CASE l # k
    <3>1. thread'[l] = thread[l]
      BY <2>2, <2>4 DEF Owners, TypeOK
    <3> QED BY <1>2, <2>1, <3>1 DEF Steady
  <2> QED BY <2>3, <2>4
<1>6. CASE \E c \in Clients : ClientConnects(c)
  BY <1>2, <1>6 DEF ClientConnects, Owners, TypeOK
<1>7. CASE Accept
  BY <1>2, <1>7 DEF Accept, Owners, TypeOK
<1>8. CASE GetConnection
  BY <1>2, <1>8 DEF GetConnection, kernel
<1>9. CASE \E o : /\ Ends(o) /\ SameEvents
                  /\ \E k \in Loops : thread[k].reported = {} /\ object[o].loop = k
  <2>1. PICK o : /\ Ends(o) /\ SameEvents
                 /\ \E k \in Loops : thread[k].reported = {} /\ object[o].loop = k
    BY <1>9
  <2>2. e \in thread[l].reported
    BY <2>1 DEF SameEvents
  <2>3. e.client \in Clients /\ client[e.client] = "open" /\ object[e.object].loop = l
    BY <1>2, <2>2
  <2>4. e.object # o
    BY <2>1, <2>2, <2>3
  <2>5. e.object \in Live /\ socket[object[e.object].fd] = e.client
    BY <2>2 DEF DispatchSound
  <2>6. e.client # socket[object[o].fd]
    BY <2>1, <2>4, <2>5, Ending
  <2> QED BY <2>1, <2>3, <2>6, Ending
<1> QED BY <1>4, <1>5, <1>6, <1>7, <1>8, <1>9, StepKinds

-----------------------------------------------------------------------------
(* Protection: why a client may be disconnected.                           *)

\* The steps of the accepting thread and of the clients that leave all objects alone.
LEMMA QuietProtection ==
  ASSUME Owners, Protection,
         \/ MainWake \/ AcceptDone \/ AcceptFails \/ AddConnection \/ AddChannel \/ AddTimer
         \/ Undefined
         \/ \E c \in Clients : ClientConnects(c) \/ ClientTalks(c) \/ ClientLeaves(c)
  PROVE  Protection'
<1> USE DEF kernel, containers, history, MainAt
<1> SUFFICES ASSUME NEW fd \in Fds, socket'[fd] # None, Protected(socket[fd])'
             PROVE  Safe(fd)'
  BY DEF Protection
<1>1. TypeOK /\ MainSound
  BY DEF Owners
<1>2. Live' = Live
  BY QuietOwners, AddConnectionOwners, AddChannelOwners, ArrivesOwners
<1>3. /\ UNCHANGED <<socket, object, thread, pending, expired, heirs>> /\ gone \subseteq gone'
      /\ \A c \in Clients : client'[c] = "closed" => client[c] = "closed"
  BY <1>1 DEF TypeOK, MainWake, AcceptDone, AcceptFails, AddConnection, AddChannel, AddTimer,
              Undefined, ClientConnects, ClientTalks, ClientLeaves
<1>4. Safe(fd)
  BY <1>3 DEF Protection, Protected
<1>5. Unnamed(fd)'
  BY <1>3, <1>4 DEF Safe, Unnamed, Aims, Functors
<1>6. \A g : Carries(g)' => Carries(g)
  BY <1>1 DEF TypeOK, Carries, MainWake, AcceptDone, AcceptFails, AddConnection, AddChannel,
              AddTimer, Undefined, ClientConnects, ClientTalks, ClientLeaves
<1>7. OwnEvents(fd)'
  BY <1>2, <1>3, <1>4, <1>6, ClientsNamed DEF Safe, OwnEvents
<1>8. OwnTimer(fd)' /\ Mapped(fd)'
  <2>1. CASE AddTimer
    <3>1. /\ main.fd \in Fds /\ main.loop \in Loops
          /\ timers' = [timers EXCEPT ![main.loop][main.fd] = socket[main.fd]]
          /\ main.at = "timer" /\ UNCHANGED map
      BY <1>1, <2>1 DEF TypeOK, MainSound, Serving, AddTimer
    <3>2. OwnTimer(fd)'
      BY <1>1, <1>3, <1>4, <3>1 DEF Safe, OwnTimer, TypeOK
    <3> QED BY <1>4, <3>1, <3>2 DEF Safe, Mapped
  <2>2. CASE AddConnection
    <3>1. /\ main.fd \in Fds /\ main.loop \in Loops /\ main.object # None
          /\ map' = [map EXCEPT ![main.loop][main.fd] = main.object]
          /\ main.at = "map" /\ UNCHANGED timers
      BY <1>1, <2>2, NoneAssumption DEF TypeOK, MainSound, Serving, AddConnection
    <3>2. \A l \in Loops, g \in Fds :
            map'[l][g] = IF l = main.loop /\ g = main.fd THEN main.object ELSE map[l][g]
      BY <1>1, <3>1 DEF TypeOK
    <3>3. Mapped(fd)'
      BY <1>4, <3>1, <3>2 DEF Safe, Mapped
    <3> QED BY <1>3, <1>4, <3>1, <3>3 DEF Safe, OwnTimer
  <2>3. CASE ~AddTimer /\ ~AddConnection
    <3>1. UNCHANGED <<timers, map>>
      BY <2>3 DEF MainWake, AcceptDone, AcceptFails, AddChannel, Undefined, ClientConnects,
                  ClientTalks, ClientLeaves
    <3>2. main.at \in {"pool", "map"} => main' = main
      BY <2>3 DEF MainWake, AcceptDone, AcceptFails, AddChannel, Undefined, ClientConnects,
                  ClientTalks, ClientLeaves
    <3> QED BY <1>3, <1>4, <3>1, <3>2 DEF Safe, OwnTimer, Mapped
  <2> QED BY <2>1, <2>2, <2>3
<1> QED BY <1>5, <1>7, <1>8 DEF Safe

\* A client that is not accepted among the heirs finds nothing of its descriptor.
LEMMA AcceptProtection ==
  ASSUME Owners, Conversations, Protection, Accept
  PROVE  Protection'
<1> USE DEF containers, MainAt
<1> SUFFICES ASSUME NEW fd \in Fds, socket'[fd] # None, Protected(socket[fd])'
             PROVE  Safe(fd)'
  BY DEF Protection
<1> DEFINE c == Head(backlog)
<1>1. TypeOK /\ Live' = Live
  BY AcceptOwners DEF Owners
<1>2. PICK g \in Fds :
        /\ socket[g] = None
        /\ heirs' = IF LeftBehind(g) THEN heirs \cup {c} ELSE heirs
        /\ socket' = [socket EXCEPT ![g] = c]
        /\ main' = [main EXCEPT !.at = "pool", !.fd = g, !.loop = main.next,
                                !.next = GetNextLoop(main.next)]
  BY DEF Accept
<1>3. /\ main.at = "accept" /\ client' = [client EXCEPT ![c] = "open"] /\ backlog # <<>>
      /\ UNCHANGED <<gone, object, map, timers, thread, pending, expired>>
  BY DEF Accept
<1>4. c \in Clients
  BY <1>1, <1>3, HeadTailProperties DEF TypeOK
<1> HIDE DEF c
<1>5. /\ main'.at = "pool" /\ main'.fd = g
      /\ \A h \in Fds : socket'[h] = IF h = g THEN c ELSE socket[h]
      /\ \A d \in Clients : client'[d] = "closed" => client[d] = "closed"
  BY <1>1, <1>2, <1>3, <1>4 DEF TypeOK
<1>6. heirs \subseteq heirs'
  BY <1>2
<1>7. \A l \in Loops : Functors(l)' = Functors(l)
  BY <1>3 DEF Functors
<1>8. \A h : Carries(h)' <=> h = g
  BY <1>5 DEF Carries
<1>9. CASE fd # g
  <2>1. Safe(fd)
    BY <1>3, <1>5, <1>6, <1>9 DEF Protection, Protected
  <2>2. Unnamed(fd)' /\ OwnTimer(fd)'
    BY <1>3, <1>5, <1>7, <1>9, <2>1 DEF Safe, Unnamed, Aims, OwnTimer
  <2>3. Mapped(fd)'
    BY <1>3, <2>1 DEF Safe, Mapped
  <2>4. OwnEvents(fd)'
    BY <1>1, <1>3, <1>5, <1>8, <1>9, <2>1 DEF Safe, OwnEvents
  <2> QED BY <2>2, <2>3, <2>4 DEF Safe
<1>10. CASE fd = g
  <2>1. ~LeftBehind(g)
    BY <1>2, <1>5, <1>10 DEF Protected
  <2>2. \A o \in Live : object[o].fd # g
    BY <1>2 DEF Owners, LiveOpen
  <2>3. Unnamed(fd)'
    <3> SUFFICES ASSUME NEW l \in Loops, NEW f \in Functors(l)
                 PROVE  f.fd # g /\ (f.kind = "close" => object[f.object].fd # g)
      BY <1>3, <1>7, <1>10 DEF Unnamed, Aims
    <3>1. f.fd # g
      BY <2>1 DEF LeftBehind
    <3>2. f.kind = "close" => f.object # None
      BY <1>1, FunctorsTyped, FunctorFields, NoneAssumption
    <3> QED BY <2>2, <3>1, <3>2, HeldObject
  <2>4. OwnTimer(fd)'
    BY <1>3, <1>10, <2>1 DEF LeftBehind, OwnTimer
  <2>5. Mapped(fd)'
    BY <1>5, <1>10 DEF Mapped
  <2>6. OwnEvents(fd)'
    <3> SUFFICES ASSUME NEW l \in Loops, NEW e \in thread[l].reported
                 PROVE  /\ e.object \in Live => object[e.object].fd # g
                        /\ client'[e.client] # "closed"
      BY <1>1, <1>3, <1>10 DEF OwnEvents
    <3> QED BY <1>5, <2>1, <2>2, ClientsNamed DEF LeftBehind
  <2> QED BY <2>3, <2>4, <2>5, <2>6 DEF Safe
<1> QED BY <1>9, <1>10

\* No event that was left behind is for the object that the accepting thread takes.
LEMMA GetConnectionProtection ==
  ASSUME Owners, Conversations, Protection, GetConnection
  PROVE  Protection'
<1> USE DEF kernel, history, MainAt
<1> SUFFICES ASSUME NEW fd \in Fds, socket'[fd] # None, Protected(socket[fd])'
             PROVE  Safe(fd)'
  BY DEF Protection
<1>1. TypeOK
  BY DEF Owners
<1>2. /\ main.at = "pool" /\ main'.at = "map" /\ main'.fd = main.fd
      /\ UNCHANGED <<client, gone, socket, map, timers, thread, pending, expired, heirs>>
  BY <1>1 DEF TypeOK, GetConnection
<1>3. PICK o \in Objects \ Live :
        Live' = Live \cup {o} /\ object'[o] = Reuse(o, main.fd, main.loop)
  BY GetConnectionOwners
<1>4. \A p \in Live : object'[p] = object[p]
  BY GetConnectionOwners
<1>5. Safe(fd)
  BY <1>2 DEF Protection, Protected
<1>6. \A l \in Loops : Functors(l)' = Functors(l)
  BY <1>2 DEF Functors
<1>7. Unnamed(fd)'
  <2> SUFFICES ASSUME NEW l \in Loops, NEW f \in Functors(l), f.kind = "close"
               PROVE  object'[f.object].fd # fd
    BY <1>4, <1>5, <1>6 DEF Safe, Unnamed, Aims
  <2>1. f.object # None
    BY <1>1, FunctorsTyped, FunctorFields, NoneAssumption
  <2> QED BY <1>4, <1>5, <2>1, HeldObject DEF Safe, Unnamed, Aims
<1>8. OwnTimer(fd)' /\ Mapped(fd)'
  BY <1>2, <1>5 DEF Safe, OwnTimer, Mapped
<1>9. OwnEvents(fd)'
  <2> SUFFICES ASSUME NEW l \in Loops, NEW e \in thread[l].reported,
                      e.object \in Live', object'[e.object].fd = fd
               PROVE  e.client = socket[fd]
    BY <1>2 DEF OwnEvents, Carries
  <2>1. CASE e.object \in Live
    BY <1>4, <1>5, <2>1 DEF Safe, OwnEvents
  <2>2. CASE e.object = o
    <3>1. Carries(fd)
      BY <1>2, <1>3, <2>2 DEF Carries, Reuse
    <3>2. client[e.client] # "closed"
      BY <1>5, <3>1 DEF Safe, OwnEvents
    <3>3. e.object \in Live
      BY <3>2 DEF Conversations, Reported, ReportedFor
    <3> QED BY <2>1, <3>3
  <2> QED BY <1>3, <2>1, <2>2
<1> QED BY <1>7, <1>8, <1>9 DEF Safe

\* Events are reported for the connection that has the descriptor.
LEMMA WaitProtection ==
  ASSUME Owners, Conversations, Protection, NEW l \in Loops, Wait(l)
  PROVE  Protection'
<1> USE DEF history, LoopAt
<1> DEFINE mine == {fd \in ready : object[channel[fd]].loop = l}
           reported == {[object |-> channel[fd], client |-> socket[fd]] : fd \in mine}
<1> SUFFICES ASSUME NEW fd \in Fds, socket'[fd] # None, Protected(socket[fd])'
             PROVE  Safe(fd)'
  BY DEF Protection
<1>1. TypeOK /\ Live' = Live
  BY WaitOwners DEF Owners
<1>2. /\ thread' = [thread EXCEPT ![l].at = "events", ![l].reported = reported]
      /\ UNCHANGED <<client, gone, socket, main, object, map, timers, pending, expired, heirs>>
  BY DEF Wait, containers
<1>3. \A e \in reported : \E g \in Fds :
        /\ e.client = socket[g] /\ e.object \in Live /\ object[e.object].fd = g
        /\ client[e.client] = "open"
  <2> SUFFICES ASSUME NEW g \in mine
               PROVE  /\ g \in Fds /\ channel[g] \in Live /\ object[channel[g]].fd = g
                      /\ client[socket[g]] = "open"
    OBVIOUS
  <2>1. g \in Fds /\ channel[g] # None
    BY <1>1 DEF TypeOK, Owners, ReadyKnown
  <2> QED BY <2>1, KnownChannel DEF Conversations, SocketOpen
<1> HIDE DEF reported
<1>4. /\ thread'[l].reported = reported /\ \A k \in Loops : k # l => thread'[k] = thread[k]
      /\ \A k \in Loops : thread'[k].batch = thread[k].batch
  <2>1. thread \in [Loops -> ThreadType] /\ thread[l] \in ThreadType
    BY <1>1, ThreadTyped
  <2>2. \A k \in Loops : k # l => thread'[k] = thread[k]
    BY <1>2, <2>1
  <2>3. thread'[l] = [thread[l] EXCEPT !.at = "events", !.reported = reported]
    BY <1>2, <2>1
  <2>4. thread'[l].reported = reported /\ thread'[l].batch = thread[l].batch
    BY <2>1, <2>3 DEF ThreadType
  <2> QED BY <2>2, <2>4
<1>5. Safe(fd)
  BY <1>2 DEF Protection, Protected
<1>6. Unnamed(fd)' /\ OwnTimer(fd)' /\ Mapped(fd)'
  BY ZenonT(40), <1>2, <1>4, <1>5 DEF Safe, Unnamed, Aims, OwnTimer, Mapped, Functors
<1>7. OwnEvents(fd)'
  <2> SUFFICES ASSUME NEW k \in Loops, NEW e \in thread'[k].reported
               PROVE  /\ e.object \in Live /\ object[e.object].fd = fd => e.client = socket[fd]
                      /\ Carries(fd) => client[e.client] # "closed"
    BY <1>1, <1>2 DEF OwnEvents, Carries
  <2>1. CASE k = l
    BY <1>3, <1>4, <2>1
  <2>2. CASE k # l
    BY <1>4, <1>5, <2>2 DEF Safe, OwnEvents
  <2> QED BY <2>1, <2>2
<1> QED BY <1>6, <1>7 DEF Safe

\* What a step queues for a protected client does not name its descriptor.
LEMMA QueueProtection ==
  ASSUME Owners, Protection, Live' = Live,
         \A k \in Loops : thread'[k].reported \subseteq thread[k].reported,
         UNCHANGED <<client, gone, socket, main, object, map, heirs>>,
         expired \subseteq expired',
         \A k \in Loops, fd \in Fds : timers'[k][fd] \in {None, timers[k][fd]},
         \A k \in Loops : \A f \in Functors(k)' : f \notin Functors(k) =>
           \A fd \in Fds :
             Safe(fd) /\ socket[fd] \notin gone /\ socket[fd] \notin expired' => ~Aims(f, fd)
  PROVE  Protection'
<1> SUFFICES ASSUME NEW fd \in Fds, socket[fd] # None, Protected(socket[fd])'
             PROVE  Safe(fd)'
  BY DEF Protection
<1>1. Safe(fd)
  BY DEF Protection, Protected
<1>2. Unnamed(fd)'
  BY <1>1 DEF Safe, Unnamed, Aims, Protected
<1>3. OwnTimer(fd)' /\ Mapped(fd)'
  BY <1>1 DEF Safe, OwnTimer, Mapped
<1>4. OwnEvents(fd)'
  BY <1>1 DEF Safe, OwnEvents, Carries
<1> QED BY <1>2, <1>3, <1>4 DEF Safe

\* An event, a functor that runs and a timer queue nothing against a protected client.
LEMMA LoopProtection ==
  ASSUME Owners, Conversations, Protection, NEW l \in Loops,
         \/ HandleEvent(l) \/ DoPendingFunctors(l) \/ RunSend(l) \/ RunClose(l) \/ RunRemove(l)
         \/ FireTimer(l)
  PROVE  Protection'
<1> USE DEF kernel, containers, history
<1>1. TypeOK
  BY DEF Owners
<1>2. CASE HandleEvent(l)
  <2>1. PICK e \in thread[l].reported :
          /\ thread' = [thread EXCEPT ![l].reported = @ \ {e}]
          /\ IF e.object \notin Live THEN UNCHANGED pending
             ELSE IF e.client \in gone THEN HandleClose(e.object)
             ELSE \/ UNCHANGED pending
                  \/ QueueInLoop(object[e.object].loop, Holding("send", e.object))
    BY <1>2 DEF HandleEvent
  <2>2. /\ UNCHANGED <<client, gone, socket, main, object, map, heirs, expired, timers>>
        /\ Live' = Live
    BY <1>2, HandleEventOwners DEF HandleEvent
  <2>3. \A k \in Loops : /\ thread'[k].reported \subseteq thread[k].reported
                         /\ thread'[k].batch = thread[k].batch
    BY ZenonT(40), <1>1, <2>1 DEF TypeOK
  <2>4. e.object \in Objects /\ object[e.object].loop \in Loops
    BY <1>1, ClientsNamed DEF TypeOK
  <2>5. CASE UNCHANGED pending
    <3>1. \A k \in Loops : Functors(k)' = Functors(k)
      BY <2>3, <2>5 DEF Functors
    <3> QED BY <2>2, <2>3, <3>1, QueueProtection
  <2>6. CASE e.object \in Live /\ e.client \in gone /\ HandleClose(e.object)
    <3> DEFINE f == Holding("close", e.object)
               k == object[e.object].loop
    <3>1. /\ f \in FunctorType /\ f.fd = None /\ f.object = e.object
          /\ pending' = [pending EXCEPT ![k] = Append(@, f)]
      BY <2>4, <2>6, FunctorMade DEF HandleClose, QueueInLoop
    <3> HIDE DEF f, k
    <3>2. k \in Loops
      BY <2>4 DEF k
    <3>3. \A n \in Loops : Functors(n)' \subseteq Functors(n) \cup (IF n = k THEN {f} ELSE {})
      <4>1. SameBatches /\ QueueInLoop(k, f)
        BY <2>3, <3>1 DEF SameBatches, QueueInLoop
      <4> QED BY <1>1, <3>1, <3>2, <4>1, Queued
    <3>4. ASSUME NEW fd \in Fds, Safe(fd), socket[fd] \notin gone
          PROVE  ~Aims(f, fd)
      <4>2. object[e.object].fd = fd => e.client = socket[fd]
        BY <2>6, <3>4 DEF Safe, OwnEvents
      <4> QED BY <2>6, <3>1, <3>4, <4>2, NoneAssumption DEF Aims
    <3> QED BY <2>2, <2>3, <3>2, <3>3, <3>4, QueueProtection
  <2>7. CASE QueueInLoop(object[e.object].loop, Holding("send", e.object))
    <3> DEFINE f == Holding("send", e.object)
               k == object[e.object].loop
    <3>1. /\ f \in FunctorType /\ f.fd = None /\ f.kind = "send"
          /\ pending' = [pending EXCEPT ![k] = Append(@, f)]
      BY <2>4, <2>7, FunctorMade DEF QueueInLoop
    <3> HIDE DEF f, k
    <3>2. k \in Loops
      BY <2>4 DEF k
    <3>3. \A n \in Loops : Functors(n)' \subseteq Functors(n) \cup (IF n = k THEN {f} ELSE {})
      <4>1. SameBatches /\ QueueInLoop(k, f)
        BY <2>3, <3>1 DEF SameBatches, QueueInLoop
      <4> QED BY <1>1, <3>1, <3>2, <4>1, Queued
    <3>4. \A fd \in Fds : ~Aims(f, fd)
      BY <3>1, NoneAssumption DEF Aims
    <3> QED BY <2>2, <2>3, <3>2, <3>3, <3>4, QueueProtection
  <2> QED BY <2>1, <2>5, <2>6, <2>7
<1>3. CASE DoPendingFunctors(l)
  <2>1. PICK at : thread' = [thread EXCEPT ![l].at = at, ![l].batch = pending[l]]
    BY <1>3 DEF DoPendingFunctors
  <2>2. /\ UNCHANGED <<client, gone, socket, main, object, map, heirs, expired, timers>>
        /\ Live' = Live /\ pending' = [pending EXCEPT ![l] = <<>>]
    BY <1>3, DoPendingOwners DEF DoPendingFunctors
  <2>3. /\ \A k \in Loops : thread'[k].reported = thread[k].reported
        /\ thread'[l].batch = pending[l] /\ pending'[l] = <<>>
        /\ \A k \in Loops : k # l => thread'[k].batch = thread[k].batch /\ pending'[k] = pending[k]
    <3>1. /\ thread \in [Loops -> ThreadType] /\ pending \in [Loops -> Seq(FunctorType)]
          /\ thread[l] \in ThreadType
      BY <1>1, ThreadTyped DEF TypeOK
    <3>2. \A k \in Loops : k # l => thread'[k] = thread[k] /\ pending'[k] = pending[k]
      BY <2>1, <2>2, <3>1
    <3>3. thread'[l] = [thread[l] EXCEPT !.at = at, !.batch = pending[l]] /\ pending'[l] = <<>>
      BY <2>1, <2>2, <3>1
    <3>4. thread'[l].reported = thread[l].reported /\ thread'[l].batch = pending[l]
      BY <3>1, <3>3 DEF ThreadType
    <3> QED BY <3>2, <3>3, <3>4
  <2>4. \A k \in Loops : Functors(k)' \subseteq Functors(k)
    BY <2>3, ElementsEmpty DEF Functors
  <2> QED BY <2>2, <2>3, <2>4, QueueProtection
<1>4. CASE RunSend(l) \/ RunClose(l) \/ RunRemove(l)
  <2>1. /\ UNCHANGED <<client, gone, socket, main, object, map, heirs, expired, timers>>
        /\ Live' = Live
    BY <1>4, RunOwners DEF RunSend, RunClose, RunRemove
  <2>2. /\ SameBatches /\ \A k \in Loops : thread'[k].reported = thread[k].reported
        /\ Next1(l) \in Functors(l)
    BY <1>4, RunsKeep DEF RunSend, RunClose, RunRemove
  <2>3. CASE UNCHANGED pending
    <3>1. \A k \in Loops : Functors(k)' = Functors(k)
      BY <2>2, <2>3 DEF Functors, SameBatches
    <3> QED BY <2>1, <2>2, <3>1, QueueProtection
  <2>4. CASE ~UNCHANGED pending
    <3>1. PICK f \in FunctorType :
            /\ QueueInLoop(l, f)
            /\ \/ /\ f.kind = "close" /\ f.fd = None
                  /\ socket[object[f.object].fd] \in gone
               \/ /\ f.kind = "erase"
                  /\ \/ f.fd = Next1(l).fd
                     \/ Next1(l).kind = "close" /\ f.fd = object[Next1(l).object].fd
      BY <1>4, <2>4, RunQueues
    <3>2. \A n \in Loops : Functors(n)' \subseteq Functors(n) \cup (IF n = l THEN {f} ELSE {})
      BY <1>1, <2>2, <3>1, Queued
    <3>3. ASSUME NEW fd \in Fds, Safe(fd), socket[fd] \notin gone
          PROVE  ~Aims(f, fd)
      <4>1. ~Aims(Next1(l), fd)
        BY <2>2, <3>3 DEF Safe, Unnamed
      <4> QED BY <3>1, <3>3, <4>1, NoneAssumption DEF Aims
    <3> QED BY <2>1, <2>2, <3>2, <3>3, QueueProtection
  <2> QED BY <2>3, <2>4
<1>5. CASE FireTimer(l)
  <2>1. PICK g \in Fds :
          /\ timers[l][g] # None
          /\ timers' = [timers EXCEPT ![l][g] = None]
          /\ expired' = expired \cup {timers[l][g]}
          /\ QueueInLoop(l, Naming("remove", g))
    BY <1>5 DEF FireTimer
  <2>2. /\ UNCHANGED <<client, gone, socket, main, object, map, heirs, thread>>
        /\ Live' = Live /\ expired \subseteq expired'
    BY <1>5, <2>1, FireTimerOwners DEF FireTimer
  <2> DEFINE f == Naming("remove", g)
  <2>3. f \in FunctorType /\ f.kind = "remove" /\ f.fd = g
    BY FunctorMade
  <2>4. QueueInLoop(l, f)
    BY <2>1
  <2> HIDE DEF f
  <2>5. \A n \in Loops : Functors(n)' \subseteq Functors(n) \cup (IF n = l THEN {f} ELSE {})
    <3>1. SameBatches
      BY <2>2 DEF SameBatches
    <3> QED BY <1>1, <2>3, <2>4, <3>1, Queued
  <2>6. \A k \in Loops, fd \in Fds : timers'[k][fd] \in {None, timers[k][fd]}
    BY <1>1, <2>1 DEF TypeOK
  <2>7. ASSUME NEW fd \in Fds, Safe(fd), socket[fd] \notin expired'
        PROVE  ~Aims(f, fd)
    <3>1. timers[l][fd] \in {None, socket[fd]}
      BY <2>7 DEF Safe, OwnTimer
    <3> QED BY <2>1, <2>3, <2>7, <3>1 DEF Aims
  <2> QED BY <2>2, <2>5, <2>6, <2>7, QueueProtection
<1> QED BY <1>2, <1>3, <1>4, <1>5

\* The steps that drop a reference.
Drops == LeaveScope \/ \E l \in Loops : RunErase(l) \/ DestroyFunctor(l)

LEMMA DropEffects ==
  ASSUME Owners, Drops
  PROVE  /\ \/ Steady
            \/ \E o : /\ Ends(o)
                      /\ \/ LeaveScope
                         \/ \E k \in Loops : thread[k].reported = {} /\ object[o].loop = k
         /\ SameEvents /\ UNCHANGED <<timers, gone, expired, heirs>>
         /\ \A l \in Loops : Functors(l)' \subseteq Functors(l)
         /\ main' = main \/ (LeaveScope /\ main.at = "scope" /\ main'.at = "accept")
         /\ \A fd \in Fds : Unnamed(fd) => \A l \in Loops : map'[l][fd] = map[l][fd]
<1> USE DEF history, SameEvents
<1>1. TypeOK
  BY DEF Owners
<1>2. CASE LeaveScope
  <2>1. /\ UNCHANGED <<map, thread, pending, timers, gone, expired, heirs>>
        /\ main.at = "scope" /\ main'.at = "accept"
    BY <1>1, <1>2 DEF TypeOK, LeaveScope, MainAt
  <2> QED BY <1>2, <2>1, LeaveScopeOwners DEF Functors
<1>3. ASSUME NEW l \in Loops, RunErase(l) \/ DestroyFunctor(l)
      PROVE  /\ \/ Steady
                \/ \E o : Ends(o) /\ thread[l].reported = {} /\ object[o].loop = l
             /\ SameEvents /\ UNCHANGED <<timers, gone, expired, heirs, main>>
             /\ \A k \in Loops : Functors(k)' \subseteq Functors(k)
             /\ \A fd \in Fds : Unnamed(fd) => \A k \in Loops : map'[k][fd] = map[k][fd]
  <2>1. CASE RunErase(l)
    <3>1. PICK fd \in Fds : Erases(l, fd)
      BY <2>1, Erased
    <3>2. /\ thread[l].reported = {} /\ SameEvents
          /\ UNCHANGED <<timers, gone, expired, heirs, main>>
      BY <2>1, RunsKeep DEF RunErase
    <3>3. \/ Steady
          \/ \E o : Ends(o) /\ object[o].loop = l
      <4> SUFFICES ASSUME NEW o, Ends(o), object[o] = [fd |-> Next1(l).fd, loop |-> l]
                   PROVE  object[o].loop = l
        BY <2>1, RunEraseOwners
      <4> QED OBVIOUS
    <3>4. \A k \in Loops : Functors(k)' \subseteq Functors(k)
      BY <3>1 DEF Erases
    <3>5. ASSUME NEW g \in Fds, Unnamed(g), NEW k \in Loops PROVE map'[k][g] = map[k][g]
      <4>1. g # fd
        BY <3>1, <3>5 DEF Unnamed, Aims, Erases
      <4> QED BY <3>1, <4>1 DEF Erases
    <3> QED BY <3>2, <3>3, <3>4, <3>5
  <2>2. CASE DestroyFunctor(l)
    <3>1. PICK f \in Functors(l) : \E held : Destroys(l, f, held)
      BY <2>2, Destroyed
    <3>2. UNCHANGED <<timers, gone, expired, heirs, main, map>>
      BY <2>2 DEF DestroyFunctor
    <3>3. /\ thread[l].reported = {} /\ SameEvents
          /\ \A k \in Loops : Functors(k)' \subseteq Functors(k)
      BY <3>1 DEF Destroys
    <3> QED BY <2>2, <3>2, <3>3, DestroyFunctorOwners
  <2> QED BY <1>3, <2>1, <2>2
<1> QED BY <1>2, <1>3 DEF Drops

\* What ends is not the connection of a protected client: its map holds that.
LEMMA EndUnprotected ==
  ASSUME Owners, Protection, Drops, NEW o, Ends(o)
  PROVE  ~Protected(socket[object[o].fd])
<1> DEFINE g == object[o].fd
<1> SUFFICES ASSUME Protected(socket[g]) PROVE FALSE
  OBVIOUS
<1>1. o \in Live /\ o \notin Live' /\ g \in Fds /\ socket[g] # None /\ ~Carries(g)
  BY ClientsNamed DEF Ends, Owners, LiveOpen
<1> HIDE DEF g
<1>2. Unnamed(g) /\ Mapped(g)
  BY <1>1 DEF Protection, Safe, g
<1>3. /\ main' = main \/ (main.at = "scope" /\ main'.at = "accept")
      /\ \A l \in Loops : map'[l][g] = map[l][g]
  BY <1>1, <1>2, DropEffects
<1>4. CASE main.at = "map" /\ main.fd = g
  <2>1. main.object \in Live /\ object[main.object].fd = g
    BY <1>4, LiveIff DEF Owners, MainSound, Serving, Reuse, MainHolds
  <2>2. main.object = o
    BY <1>1, <2>1 DEF Owners, LiveDistinct, g
  <2>3. o \in MainHolds'
    BY <1>3, <1>4, <2>2 DEF MainHolds
  <2> QED BY <1>1, <2>3, LiveIffPrime
<1>5. CASE \E l \in Loops : map[l][g] # None
  <2>1. PICK l \in Loops : map[l][g] # None
    BY <1>5
  <2>2. HeldByMap(map[l][g])
    BY <1>1, <2>1 DEF HeldByMap
  <2>3. map[l][g] \in Live /\ object[map[l][g]].fd = g
    <3>1. object[map[l][g]] = [fd |-> g, loop |-> l]
      BY <1>1, <2>1 DEF Owners, MapMatches
    <3> QED BY <2>2, <3>1, LiveIff
  <2>4. map[l][g] = o
    BY <1>1, <2>3 DEF Owners, LiveDistinct, g
  <2>5. o # None /\ map'[l][g] = o
    BY <1>3, <2>1, <2>4
  <2>6. HeldByMap(o)'
    BY <1>1, <2>5 DEF HeldByMap
  <2> QED BY <1>1, <2>6, LiveIffPrime
<1> QED BY <1>1, <1>2, <1>4, <1>5 DEF Mapped, Carries

LEMMA DropProtection ==
  ASSUME Owners, Conversations, Protection, Drops
  PROVE  Protection'
<1> SUFFICES ASSUME NEW fd \in Fds, socket'[fd] # None, Protected(socket[fd])'
             PROVE  Safe(fd)'
  BY DEF Protection
<1>1. TypeOK /\ Owners'
  BY NextOwners DEF Owners, Drops, Next, MainStep, LoopStep
<1>2. /\ \/ Steady
         \/ \E o : /\ Ends(o)
                   /\ \/ LeaveScope
                      \/ \E k \in Loops : thread[k].reported = {} /\ object[o].loop = k
      /\ SameEvents /\ UNCHANGED <<timers, gone, expired, heirs>>
      /\ \A l \in Loops : Functors(l)' \subseteq Functors(l)
      /\ main' = main \/ (LeaveScope /\ main.at = "scope" /\ main'.at = "accept")
      /\ \A g \in Fds : Unnamed(g) => \A l \in Loops : map'[l][g] = map[l][g]
  BY DropEffects
<1>3. /\ socket'[fd] = socket[fd]
      /\ \A p \in Live' : p \in Live /\ object'[p] = object[p]
  BY <1>2, Ending DEF Steady
<1>4. Safe(fd)
  BY <1>2, <1>3 DEF Protection, Protected
<1>5. Unnamed(fd)'
  <2> SUFFICES ASSUME NEW l \in Loops, NEW f \in Functors(l)', f.kind = "close"
               PROVE  object'[f.object].fd # fd
    BY <1>2, <1>4 DEF Safe, Unnamed, Aims
  <2>1. f \in Functors(l) /\ f.object # None
    BY <1>1, <1>2, FunctorsTyped, FunctorFields, NoneAssumption
  <2>2. HeldByFunctor(f.object)'
    BY <2>1 DEF HeldByFunctor
  <2>3. object'[f.object] = object[f.object]
    BY <1>3, <2>2, LiveIffPrime
  <2> QED BY <1>4, <2>1, <2>3 DEF Safe, Unnamed, Aims
<1>6. OwnTimer(fd)'
  BY <1>2, <1>3, <1>4 DEF Safe, OwnTimer
<1>7. Mapped(fd)'
  BY <1>2, <1>4 DEF Safe, Mapped
<1>8. OwnEvents(fd)'
  <2> SUFFICES ASSUME NEW l \in Loops, NEW e \in thread[l].reported
               PROVE  /\ e.object \in Live' /\ object'[e.object].fd = fd => e.client = socket'[fd]
                      /\ Carries(fd)' => client'[e.client] # "closed"
    BY <1>2 DEF OwnEvents, SameEvents
  <2>1. e.object \in Live' /\ object'[e.object].fd = fd => e.client = socket'[fd]
    BY <1>3, <1>4 DEF Safe, OwnEvents
  <2>2. ASSUME Carries(fd)' PROVE client'[e.client] # "closed"
    <3>1. main' = main /\ Carries(fd) /\ ~LeaveScope
      BY <1>2, <2>2 DEF Carries, LeaveScope, MainAt
    <3>2. client[e.client] # "closed" /\ e.client \in Clients /\ ReportedFor(l, e)
      BY <1>4, <3>1, ClientsNamed DEF Safe, OwnEvents, Conversations, Reported
    <3>3. CASE Steady
      BY <3>2, <3>3 DEF Steady
    <3>4. ASSUME NEW o, Ends(o), NEW k \in Loops, thread[k].reported = {}, object[o].loop = k
          PROVE  client'[e.client] # "closed"
      <4>1. /\ e.object \in Live /\ socket[object[e.object].fd] = e.client
            /\ object[e.object].loop = l
        BY <3>2 DEF ReportedFor
      <4>2. e.object # o
        BY <3>4, <4>1
      <4>3. e.client # socket[object[o].fd]
        BY <3>4, <4>1, <4>2, Ending
      <4> QED BY <3>2, <3>4, <4>3, Ending
    <3> QED BY <1>2, <3>1, <3>3, <3>4
  <2> QED BY <2>1, <2>2
<1> QED BY <1>5, <1>6, <1>7, <1>8 DEF Safe

LEMMA StutterProtection ==
  ASSUME Protection, UNCHANGED vars
  PROVE  Protection'
<1>1. /\ UNCHANGED <<client, gone, socket, main, object, map, timers, thread, pending>>
      /\ UNCHANGED <<expired, heirs>>
  BY DEF vars, kernel, containers, history
<1>2. \A l \in Loops : Functors(l)' = Functors(l)
  BY <1>1 DEF Functors
<1>3. Live' = Live
  BY <1>1, <1>2, LiveKept DEF MainHolds, HeldByMap, HeldByFunctor
<1>4. \A fd \in Fds : Safe(fd) => Safe(fd)'
  <2> SUFFICES ASSUME NEW fd \in Fds, Safe(fd) PROVE Safe(fd)'
    OBVIOUS
  <2>1. Unnamed(fd)' /\ OwnTimer(fd)' /\ Mapped(fd)'
    BY <1>1, <1>2 DEF Safe, Unnamed, Aims, OwnTimer, Mapped
  <2>2. OwnEvents(fd)'
    BY <1>1, <1>3 DEF Safe, OwnEvents, Carries
  <2> QED BY <2>1, <2>2 DEF Safe
<1> QED BY <1>1, <1>4 DEF Protection, Protected

LEMMA NextProtection == Owners /\ Conversations /\ Protection /\ [Next]_vars => Protection'
BY QuietProtection, AcceptProtection, GetConnectionProtection, WaitProtection, LoopProtection,
   DropProtection, StutterProtection DEF Next, MainStep, LoopStep, Drops

\* The histories of reasons only grow, and only a drop disconnects a client.
LEMMA Reasons ==
  ASSUME Owners, [Next]_vars
  PROVE  /\ gone \subseteq gone' /\ expired \subseteq expired' /\ heirs \subseteq heirs'
         /\ Drops \/ \A c \in Clients : client'[c] = "closed" => client[c] = "closed"
<1> USE DEF kernel, containers, history
<1>1. TypeOK
  BY DEF Owners
<1>2. CASE MainStep /\ ~Accept /\ ~LeaveScope
  BY <1>2 DEF MainStep, MainWake, AcceptDone, AcceptFails, GetConnection, AddConnection,
              AddChannel, AddTimer
<1>3. CASE Accept
  BY <1>1, <1>3 DEF TypeOK, Accept
<1>4. CASE Drops
  BY <1>4, DropEffects
<1>5. CASE \E l \in Loops : \/ Wait(l) \/ HandleEvent(l) \/ DoPendingFunctors(l)
                            \/ RunSend(l) \/ RunClose(l) \/ RunRemove(l) \/ FireTimer(l)
  BY <1>5 DEF Wait, HandleEvent, DoPendingFunctors, RunSend, RunClose, RunRemove, FireTimer
<1>6. CASE \E c \in Clients : ClientConnects(c) \/ ClientTalks(c) \/ ClientLeaves(c)
  BY <1>1, <1>6 DEF TypeOK, ClientConnects, ClientTalks, ClientLeaves
<1>7. CASE Undefined \/ UNCHANGED vars
  BY <1>7 DEF Undefined, vars
<1> QED BY <1>2, <1>3, <1>4, <1>5, <1>6, <1>7 DEF Next, MainStep, LoopStep, Drops

LEMMA NextClosedForReason ==
  Owners /\ Conversations /\ Protection /\ ClosedForReason /\ [Next]_vars => ClosedForReason'
<1> SUFFICES ASSUME Owners, Conversations, Protection, ClosedForReason, [Next]_vars,
                    NEW c \in Clients, client'[c] = "closed"
             PROVE  c \in gone' \cup expired' \cup heirs'
  BY DEF ClosedForReason
<1>1. gone \subseteq gone' /\ expired \subseteq expired' /\ heirs \subseteq heirs'
  BY Reasons
<1>2. CASE client[c] = "closed"
  BY <1>1, <1>2 DEF ClosedForReason
<1>3. CASE client[c] # "closed"
  <2>1. Drops
    BY <1>3, Reasons
  <2>2. ~Steady
    BY <1>3 DEF Steady
  <2>3. PICK o : Ends(o)
    BY <2>1, <2>2, DropEffects
  <2>4. c = socket[object[o].fd]
    BY <1>3, <2>3, Ending
  <2>5. ~Protected(c)
    BY <2>1, <2>3, <2>4, EndUnprotected
  <2> QED BY <1>1, <2>5 DEF Protected
<1> QED BY <1>2, <1>3

-----------------------------------------------------------------------------
(* Timers and the backlog.                                                 *)

\* What runs next in a batch of l, and does not name fd, leaves Timed as it is.
LEMMA RunsTimed ==
  ASSUME Owners, Timed, NEW l \in Loops, NEW kind, Runs(l, kind),
         NEW k \in Loops, NEW fd \in Fds, map[k][fd] # None, k = l => Next1(l).fd # fd
  PROVE  \/ timers[k][fd] # None
         \/ main.at \in {"register", "timer"} /\ main.fd = fd
         \/ \E i \in DOMAIN pending[k] : pending[k][i].fd = fd
         \/ \E i \in DOMAIN thread'[k].batch : i > thread'[k].ran /\ thread'[k].batch[i].fd = fd
<1> SUFFICES ASSUME NEW i \in DOMAIN thread[k].batch,
                    i > thread[k].ran /\ thread[k].batch[i].fd = fd
             PROVE  \E j \in DOMAIN thread'[k].batch :
                      j > thread'[k].ran /\ thread'[k].batch[j].fd = fd
  BY DEF Timed
<1>1. /\ thread'[k].batch = thread[k].batch
      /\ k # l => thread'[k].ran = thread[k].ran
      /\ k = l => thread'[k].ran = thread[k].ran + 1
  BY RunsKeep DEF SameBatches
<1>2. /\ thread[k].ran \in Nat /\ thread[k].batch \in Seq(FunctorType)
      /\ DOMAIN thread[k].batch = 1 .. Len(thread[k].batch) /\ Len(thread[k].batch) \in Nat
  BY ThreadTyped, LenProperties DEF Owners
<1>3. k = l => i # thread[k].ran + 1
  BY DEF Next1
<1>4. i > thread'[k].ran
  BY <1>1, <1>2, <1>3
<1> QED BY <1>1, <1>4

\* What has been queued stays queued behind the others, and what is queued is there.
LEMMA QueueGrows ==
  ASSUME TypeOK, NEW k \in Loops, NEW f \in FunctorType, QueueInLoop(k, f)
  PROVE  /\ \A l \in Loops : \A i \in DOMAIN pending[l] :
              i \in DOMAIN pending'[l] /\ pending'[l][i] = pending[l][i]
         /\ \E i \in DOMAIN pending'[k] : pending'[k][i] = f
<1> DEFINE s == Append(pending[k], f)
<1>1. /\ pending \in [Loops -> Seq(FunctorType)] /\ pending[k] \in Seq(FunctorType)
      /\ pending' = [pending EXCEPT ![k] = s]
  BY DEF TypeOK, QueueInLoop
<1>2. /\ s \in Seq(FunctorType) /\ Len(s) = Len(pending[k]) + 1
      /\ \A i \in 1 .. Len(pending[k]) : s[i] = pending[k][i]
      /\ s[Len(pending[k]) + 1] = f
  BY <1>1, AppendProperties
<1>3. DOMAIN s = 1 .. Len(pending[k]) + 1 /\ DOMAIN pending[k] = 1 .. Len(pending[k])
      /\ Len(pending[k]) \in Nat
  BY <1>1, <1>2, LenProperties
<1> HIDE DEF s
<1>4. pending'[k] = s /\ \A l \in Loops : l # k => pending'[l] = pending[l]
  BY <1>1
<1>5. Len(pending[k]) + 1 \in DOMAIN s
  BY <1>3
<1>6. \A i \in DOMAIN pending[k] : i \in DOMAIN s
  BY <1>3
<1> QED BY <1>2, <1>3, <1>4, <1>5, <1>6

LEMMA NextTimed == Owners /\ Timed /\ [Next]_vars => Timed'
<1> SUFFICES ASSUME Owners, Timed, [Next]_vars, NEW k \in Loops, NEW fd \in Fds,
                    map'[k][fd] # None
             PROVE  \/ timers'[k][fd] # None
                    \/ main'.at \in {"register", "timer"} /\ main'.fd = fd
                    \/ \E i \in DOMAIN pending'[k] : pending'[k][i].fd = fd
                    \/ \E i \in DOMAIN thread'[k].batch :
                         i > thread'[k].ran /\ thread'[k].batch[i].fd = fd
  BY DEF Timed
<1> USE DEF kernel, containers, history, MainAt, LoopAt
<1>1. TypeOK /\ MainSound /\ ThreadSound
  BY DEF Owners
<1>2. map[k][fd] # None =>
        \/ timers[k][fd] # None
        \/ main.at \in {"register", "timer"} /\ main.fd = fd
        \/ \E i \in DOMAIN pending[k] : pending[k][i].fd = fd
        \/ \E i \in DOMAIN thread[k].batch : i > thread[k].ran /\ thread[k].batch[i].fd = fd
  BY DEF Timed
<1>3. CASE MainWake \/ Accept \/ AcceptDone \/ AcceptFails \/ GetConnection \/ LeaveScope
  <2>1. /\ UNCHANGED <<map, timers, pending, thread>>
        /\ main.at \notin {"register", "timer"}
    BY <1>3 DEF MainWake, Accept, AcceptDone, AcceptFails, GetConnection, LeaveScope
  <2> QED BY <1>2, <2>1
<1>4. CASE AddConnection
  <2>1. /\ main.at = "map" /\ main'.at = "register" /\ main'.fd = main.fd
        /\ map' = [map EXCEPT ![main.loop][main.fd] = main.object]
        /\ UNCHANGED <<timers, pending, thread>>
    BY <1>1, <1>4 DEF TypeOK, AddConnection
  <2>2. fd # main.fd => map'[k][fd] = map[k][fd]
    BY <1>1, <2>1 DEF TypeOK
  <2> QED BY <1>2, <2>1, <2>2
<1>5. CASE AddChannel
  <2>1. /\ main.at = "register" /\ main'.at = "timer" /\ main'.fd = main.fd
        /\ UNCHANGED <<map, timers, pending, thread>>
    BY <1>1, <1>5 DEF TypeOK, AddChannel
  <2> QED BY <1>2, <2>1
<1>6. CASE AddTimer
  <2>1. /\ main.at = "timer" /\ main.fd \in Fds /\ main.object \in Objects /\ main.loop \in Loops
        /\ object[main.object] = Reuse(main.object, main.fd, main.loop)
        /\ timers' = [timers EXCEPT ![main.loop][main.fd] = socket[main.fd]]
        /\ UNCHANGED <<map, pending, thread>>
    BY <1>1, <1>6 DEF TypeOK, AddTimer, MainSound, Serving
  <2>2. main.object \in Live /\ object[main.object].fd = main.fd /\ object[main.object].loop = main.loop
    BY <2>1, LiveIff DEF MainHolds, Reuse
  <2>3. socket[main.fd] # None
    BY <2>2 DEF Owners, LiveOpen
  <2>4. CASE fd = main.fd
    <3>1. HeldByMap(map[k][fd]) /\ object[map[k][fd]] = [fd |-> fd, loop |-> k]
      BY <2>1 DEF Owners, MapMatches, HeldByMap
    <3>2. object[map[k][fd]].fd = fd /\ object[map[k][fd]].loop = k /\ map[k][fd] \in Live
      BY <3>1, LiveIff
    <3>3. k = main.loop
      BY <2>2, <2>4, <3>2 DEF Owners, LiveDistinct
    <3> QED BY <1>1, <2>1, <2>3, <2>4, <3>3 DEF TypeOK
  <2>5. CASE fd # main.fd
    <3>1. timers'[k][fd] = timers[k][fd]
      BY <1>1, <2>1, <2>5 DEF TypeOK
    <3> QED BY <1>2, <2>1, <2>5, <3>1
  <2> QED BY <2>4, <2>5
<1>7. ASSUME NEW l \in Loops, LoopStep(l) \/ FireTimer(l)
      PROVE  \/ timers'[k][fd] # None
             \/ main'.at \in {"register", "timer"} /\ main'.fd = fd
             \/ \E i \in DOMAIN pending'[k] : pending'[k][i].fd = fd
             \/ \E i \in DOMAIN thread'[k].batch :
                  i > thread'[k].ran /\ thread'[k].batch[i].fd = fd
  <2>1. /\ thread \in [Loops -> ThreadType] /\ thread[l] \in ThreadType
        /\ pending \in [Loops -> Seq(FunctorType)]
    BY <1>1, ThreadTyped DEF TypeOK
  <2>2. CASE Wait(l) \/ HandleEvent(l)
    <3>1. UNCHANGED <<map, timers, main>>
      BY <2>2 DEF Wait, HandleEvent
    <3>2. PICK at, reported : thread' = [thread EXCEPT ![l].at = at, ![l].reported = reported]
      <4>1. CASE Wait(l)
        BY <4>1 DEF Wait
      <4>2. CASE HandleEvent(l)
        <5>1. PICK e \in thread[l].reported : thread' = [thread EXCEPT ![l].reported = @ \ {e}]
          BY <4>2 DEF HandleEvent
        <5>2. [thread[l] EXCEPT !.reported = @ \ {e}]
                = [thread[l] EXCEPT !.at = thread[l].at, !.reported = thread[l].reported \ {e}]
          BY <2>1 DEF ThreadType
        <5>3. thread' = [thread EXCEPT ![l].at = thread[l].at,
                                       ![l].reported = thread[l].reported \ {e}]
          BY <2>1, <5>1, <5>2
        <5> QED BY <5>3
      <4> QED BY <2>2, <4>1, <4>2
    <3>3. \A n \in Loops : thread'[n].batch = thread[n].batch /\ thread'[n].ran = thread[n].ran
      <4>1. \A n \in Loops : n # l => thread'[n] = thread[n]
        BY <2>1, <3>2
      <4>2. thread'[l] = [thread[l] EXCEPT !.at = at, !.reported = reported]
        BY <2>1, <3>2
      <4>3. thread'[l].batch = thread[l].batch /\ thread'[l].ran = thread[l].ran
        BY <2>1, <4>2 DEF ThreadType
      <4> QED BY <4>1, <4>3
    <3>4. \A i \in DOMAIN pending[k] : i \in DOMAIN pending'[k] /\ pending'[k][i] = pending[k][i]
      <4>1. CASE UNCHANGED pending
        BY <4>1
      <4>2. CASE ~UNCHANGED pending
        <5>1. PICK e \in thread[l].reported :
                \E kind \in {"send", "close"} :
                  QueueInLoop(object[e.object].loop, Holding(kind, e.object))
          BY <2>2, <4>2 DEF Wait, HandleEvent, HandleClose
        <5>2. PICK kind \in {"send", "close"} :
                QueueInLoop(object[e.object].loop, Holding(kind, e.object))
          BY <5>1
        <5>3. /\ Holding(kind, e.object) \in FunctorType
              /\ object[e.object].loop \in Loops
          BY <1>1, ClientsNamed, FunctorMade DEF TypeOK
        <5> QED BY <1>1, <5>2, <5>3, QueueGrows
      <4> QED BY <4>1, <4>2
    <3> QED BY <1>2, <3>1, <3>3, <3>4
  <2>3. CASE DoPendingFunctors(l)
    <3>1. /\ UNCHANGED <<map, timers, main>> /\ thread[l].at = "events"
          /\ pending' = [pending EXCEPT ![l] = <<>>]
      BY <2>3 DEF DoPendingFunctors
    <3>2. PICK at : thread' = [thread EXCEPT ![l].at = at, ![l].batch = pending[l]]
      BY <2>3 DEF DoPendingFunctors
    <3>3. thread[l].batch = <<>> /\ thread[l].ran = 0
      BY <1>1, <3>1 DEF ThreadSound
    <3>4. \A n \in Loops : n # l => thread'[n] = thread[n] /\ pending'[n] = pending[n]
      BY <2>1, <3>1, <3>2
    <3>5. thread'[l] = [thread[l] EXCEPT !.at = at, !.batch = pending[l]]
      BY <2>1, <3>2
    <3>6. thread'[l].batch = pending[l] /\ thread'[l].ran = 0
      BY <2>1, <3>3, <3>5 DEF ThreadType
    <3>7. CASE k = l
      <4>1. DOMAIN pending[l] = 1 .. Len(pending[l]) /\ DOMAIN thread[l].batch = {}
        BY <2>1, <3>3, LenProperties
      <4>2. \A i \in DOMAIN pending[l] : i > 0
        BY <2>1, <4>1, LenProperties
      <4> QED BY <1>2, <3>1, <3>6, <3>7, <4>1, <4>2
    <3>8. CASE k # l
      BY <1>2, <3>1, <3>4, <3>8
    <3> QED BY <3>7, <3>8
  <2>4. CASE RunSend(l) \/ RunClose(l) \/ RunRemove(l)
    <3>1. UNCHANGED <<map, timers, main>>
      BY <2>4 DEF RunSend, RunClose, RunRemove
    <3>2. /\ \/ Runs(l, "send") \/ Runs(l, "close") \/ Runs(l, "remove")
          /\ Next1(l) \in FunctorType
      BY <2>4, RunsKeep DEF RunSend, RunClose, RunRemove
    <3>3. \A i \in DOMAIN pending[k] : i \in DOMAIN pending'[k] /\ pending'[k][i] = pending[k][i]
      <4>1. CASE UNCHANGED pending
        BY <4>1
      <4>2. CASE ~UNCHANGED pending
        <5>1. PICK f \in FunctorType : QueueInLoop(l, f)
          BY <2>4, <4>2, RunQueues
        <5> QED BY <1>1, <5>1, QueueGrows
      <4> QED BY <4>1, <4>2
    <3>4. CASE k = l => Next1(l).fd # fd
      <4>1. \/ timers[k][fd] # None
            \/ main.at \in {"register", "timer"} /\ main.fd = fd
            \/ \E i \in DOMAIN pending[k] : pending[k][i].fd = fd
            \/ \E i \in DOMAIN thread'[k].batch :
                 i > thread'[k].ran /\ thread'[k].batch[i].fd = fd
        BY <3>1, <3>2, <3>4, RunsTimed
      <4> QED BY <3>1, <3>3, <4>1
    <3>5. CASE k = l /\ Next1(l).fd = fd
      <4>1. Next1(l).kind \notin {"send", "close"}
        BY <3>2, <3>5, FunctorFields, NoneAssumption
      <4>2. RunRemove(l)
        BY <2>4, <4>1 DEF RunSend, RunClose, Runs
      <4>3. QueueInLoop(l, Naming("erase", fd))
        BY <3>5, <4>2 DEF RunRemove, RemoveConnection
      <4>4. Naming("erase", fd) \in FunctorType /\ Naming("erase", fd).fd = fd
        BY FunctorMade
      <4> QED BY <1>1, <3>5, <4>3, <4>4, QueueGrows
    <3> QED BY <3>4, <3>5
  <2>5. CASE RunErase(l)
    <3>1. UNCHANGED <<timers, main, pending>> /\ Runs(l, "erase")
      BY <2>5 DEF RunErase
    <3>2. PICK g \in Fds : Erases(l, g)
      BY <2>5, Erased
    <3>3. map'[k][fd] = map[k][fd] /\ (k = l => Next1(l).fd # fd)
      BY <3>2 DEF Erases
    <3>4. \/ timers[k][fd] # None
          \/ main.at \in {"register", "timer"} /\ main.fd = fd
          \/ \E i \in DOMAIN pending[k] : pending[k][i].fd = fd
          \/ \E i \in DOMAIN thread'[k].batch :
               i > thread'[k].ran /\ thread'[k].batch[i].fd = fd
      BY <3>1, <3>3, RunsTimed
    <3> QED BY <3>1, <3>4
  <2>6. CASE DestroyFunctor(l)
    <3>1. /\ UNCHANGED <<map, timers, main, pending>>
          /\ thread[l].ran = Len(thread[l].batch)
      BY <2>6 DEF DestroyFunctor
    <3>2. PICK at, b, r : thread' = [thread EXCEPT ![l].at = at, ![l].batch = b, ![l].ran = r]
      <4>1. thread' = [thread EXCEPT
              ![l].at = IF Tail(thread[l].batch) = <<>> THEN "tick" ELSE "functors",
              ![l].batch = Tail(thread[l].batch), ![l].ran = thread[l].ran - 1]
        BY <2>6 DEF DestroyFunctor
      <4> QED BY <4>1
    <3>3. k # l => thread'[k] = thread[k]
      BY <2>1, <3>2
    <3>4. DOMAIN thread[l].batch = 1 .. Len(thread[l].batch) /\ Len(thread[l].batch) \in Nat
      BY <1>1, ThreadTyped, LenProperties
    <3>5. \A i \in DOMAIN thread[l].batch : ~(i > thread[l].ran)
      BY <3>1, <3>4
    <3> QED BY <1>2, <3>1, <3>3, <3>5
  <2>7. CASE FireTimer(l)
    <3>1. PICK g \in Fds :
            /\ timers' = [timers EXCEPT ![l][g] = None]
            /\ QueueInLoop(l, Naming("remove", g))
      BY <2>7 DEF FireTimer
    <3>2. UNCHANGED <<map, main, thread>>
      BY <2>7 DEF FireTimer
    <3>3. Naming("remove", g) \in FunctorType /\ Naming("remove", g).fd = g
      BY FunctorMade
    <3>4. /\ \A i \in DOMAIN pending[k] : i \in DOMAIN pending'[k] /\ pending'[k][i] = pending[k][i]
          /\ \E i \in DOMAIN pending'[l] : pending'[l][i] = Naming("remove", g)
      BY <1>1, <3>1, <3>3, QueueGrows
    <3>5. k # l \/ fd # g => timers'[k][fd] = timers[k][fd]
      BY <1>1, <3>1 DEF TypeOK
    <3>6. CASE k = l /\ fd = g
      BY <3>3, <3>4, <3>6
    <3>7. CASE k # l \/ fd # g
      BY <1>2, <3>2, <3>4, <3>5, <3>7
    <3> QED BY <3>6, <3>7
  <2> QED BY <1>7, <2>2, <2>3, <2>4, <2>5, <2>6, <2>7 DEF LoopStep
<1>8. CASE \/ \E c \in Clients : ClientConnects(c) \/ ClientTalks(c) \/ ClientLeaves(c)
           \/ Undefined \/ UNCHANGED vars
  <2>1. UNCHANGED <<map, timers, main, pending, thread>>
    BY <1>8 DEF ClientConnects, ClientTalks, ClientLeaves, Undefined, vars
  <2> QED BY <1>2, <2>1
<1> QED BY <1>3, <1>4, <1>5, <1>6, <1>7, <1>8 DEF Next, MainStep

\* A functor that is still to run is a functor.
LEMMA TimedNeverUntimed == Timed => NeverUntimed
BY DEF Timed, NeverUntimed, Functors, Elements

LEMMA NextAcceptDrains == TypeOK /\ AcceptDrains /\ [Next]_vars => AcceptDrains'
<1> SUFFICES ASSUME TypeOK, AcceptDrains, [Next]_vars, main'.at = "wait", backlog' # <<>>
             PROVE  listenEdge' \/ failed'
  BY DEF AcceptDrains
<1> USE DEF kernel, containers, history, MainAt
<1>1. main \in [ at : {"wait", "accept", "pool", "map", "register", "timer", "scope"},
                 fd : Fds \cup {None}, object : Objects \cup {None},
                 loop : Loops, next : Loops ]
  BY DEF TypeOK
<1>2. CASE MainStep
  BY <1>1, <1>2 DEF MainStep, MainWake, Accept, AcceptDone, AcceptFails, GetConnection,
                    AddConnection, AddChannel, AddTimer, LeaveScope
<1>3. CASE \E c \in Clients : ClientConnects(c)
  BY <1>3 DEF ClientConnects
<1>4. CASE ~MainStep /\ ~\E c \in Clients : ClientConnects(c)
  <2>1. UNCHANGED <<main, backlog, listenEdge, failed>>
    BY <1>4 DEF Next, LoopStep, Wait, HandleEvent, DoPendingFunctors, RunSend, RunClose, RunRemove,
                RunErase, DestroyFunctor, FireTimer, ClientTalks, ClientLeaves, Undefined, vars
  <2> QED BY <2>1 DEF AcceptDrains
<1> QED BY <1>2, <1>3, <1>4

-----------------------------------------------------------------------------
(* The theorems.                                                           *)

LEMMA InitRest == Init => Protection /\ ClosedForReason /\ Timed /\ AcceptDrains
BY DEF Init, Protection, ClosedForReason, Timed, AcceptDrains

LEMMA OwnersAlways == Spec => []Owners
BY InitOwners, NextOwners, PTL DEF Spec

LEMMA ConversationsAlways == Spec => []Conversations
<1>1. Spec => []Owners
  BY OwnersAlways
<1>2. Owners /\ Conversations /\ [Next]_vars => Conversations'
  BY NextConversations
<1> QED BY <1>1, <1>2, InitConversations, PTL DEF Spec

LEMMA ProtectionAlways == Spec => []Protection
<1>1. Spec => []Owners /\ []Conversations
  BY OwnersAlways, ConversationsAlways
<1>2. Owners /\ Conversations /\ Protection /\ [Next]_vars => Protection'
  BY NextProtection
<1>3. Init => Protection
  BY InitRest
<1> QED BY <1>1, <1>2, <1>3, PTL DEF Spec

\* Every variable of Server has its type, however many clients, descriptors, objects and
\* loops there are.
THEOREM TypeCorrect == Spec => []TypeOK
<1>1. Owners => TypeOK
  BY DEF Owners
<1> QED BY <1>1, OwnersAlways, PTL

\* A descriptor that is open has one live object that knows it, or is in the accepting
\* thread's hands; a free one has none.
LEMMA OwnersDescriptors ==
  ASSUME Owners
  PROVE  DescriptorsOwned
<1> SUFFICES ASSUME NEW fd \in Fds
             PROVE  LET owners == {o \in Live : object[o].fd = fd}
                    IN  IF socket[fd] = None \/ (main.at = "pool" /\ main.fd = fd) THEN owners = {}
                        ELSE Cardinality(owners) = 1 /\ channel[fd] \in owners \cup {None}
  BY DEF DescriptorsOwned
<1> DEFINE owners == {o \in Live : object[o].fd = fd}
<1>1. CASE socket[fd] = None \/ (main.at = "pool" /\ main.fd = fd)
  BY <1>1 DEF Owners, LiveOpen, Carries
<1>2. CASE ~(socket[fd] = None \/ (main.at = "pool" /\ main.fd = fd))
  <2>1. PICK o \in Live : object[o].fd = fd
    BY <1>2 DEF Owners, SocketOwned, Carries
  <2>2. owners = {o}
    BY <2>1 DEF Owners, LiveDistinct
  <2>3. Cardinality(owners) = 1
    BY <2>2, FS_Singleton
  <2>4. channel[fd] # None => channel[fd] \in owners
    BY DEF Owners, ChannelOwned
  <2> QED BY <1>2, <2>3, <2>4
<1> QED BY <1>1, <1>2

\* Descriptors, objects, pools and maps agree about who owns what at every step of every
\* thread, without a lock: an open descriptor has exactly one live object, an object in a pool
\* is closed and unused, and a map holds a connection under its own descriptor.
THEOREM OwnershipHolds == Spec => []Ownership
<1>1. Owners => Ownership
  BY OwnersDescriptors DEF Owners, Ownership
<1> QED BY <1>1, OwnersAlways, PTL

\* Only the accepting thread can take an object from under an event that is reported and not
\* handled yet; a loop's own removals never do, since they are queued.
THEOREM OnlyMainSurprises == Spec => EventsKeepObjects
<1>1. Spec => []Owners /\ []Conversations
  BY OwnersAlways, ConversationsAlways
<1>2. Owners /\ Conversations /\ [Next]_vars => [DispatchSound => DispatchSound' \/ LeaveScope]_vars
  BY EventsKept
<1> QED BY <1>1, <1>2, PTL DEF Spec, EventsKeepObjects

\* A client loses its connection only if it has left, its own timer has fired, or something of
\* an earlier connection was left behind when its descriptor was given to it.
THEOREM DisconnectedForReason == Spec => []ClosedForReason
<1>1. Spec => []Owners /\ []Conversations /\ []Protection
  BY OwnersAlways, ConversationsAlways, ProtectionAlways
<1>2. Owners /\ Conversations /\ Protection /\ ClosedForReason /\ [Next]_vars => ClosedForReason'
  BY NextClosedForReason
<1>3. Init => ClosedForReason
  BY InitRest
<1> QED BY <1>1, <1>2, <1>3, PTL DEF Spec

\* A connection in the map has a timer, or its removal is on its way: none is beyond the reach
\* of the idle timeout.
THEOREM AlwaysTimed == Spec => []NeverUntimed
<1>1. Spec => []Owners
  BY OwnersAlways
<1>2. Owners /\ Timed /\ [Next]_vars => Timed'
  BY NextTimed
<1>3. Init => Timed
  BY InitRest
<1>4. Timed => NeverUntimed
  BY TimedNeverUntimed
<1> QED BY <1>1, <1>2, <1>3, <1>4, PTL DEF Spec

\* No client is left in the backlog of an edge-triggered listening socket, unless accept
\* failed.
THEOREM BacklogDrains == Spec => []AcceptDrains
<1>1. Spec => []TypeOK
  BY TypeCorrect
<1>2. TypeOK /\ AcceptDrains /\ [Next]_vars => AcceptDrains'
  BY NextAcceptDrains
<1>3. Init => AcceptDrains
  BY InitRest
<1> QED BY <1>1, <1>2, <1>3, PTL DEF Spec
=============================================================================
