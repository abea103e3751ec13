------------------------ MODULE ConnectionPoolProofs ------------------------
(***************************************************************************)
(* Proofs about ConnectionPool, for any threads, handles and pool size:    *)
(* types, exclusive use, no leak, and that notify_one wakes enough         *)
(* threads.  Types, Exclusive and NoneLeaked are inductive together;       *)
(* NoLostNotify is inductive beside the types.                             *)
(***************************************************************************)
EXTENDS ConnectionPool, FiniteSetTheorems, SequenceTheorems, TLAPS

-----------------------------------------------------------------------------
(* The queue.                                                              *)

\* Taking the front of a queue without duplicates takes that handle out of it.
LEMMA TakeFront ==
  ASSUME NEW S, NEW q \in Seq(S), q # <<>>,
         \A i, j \in DOMAIN q : q[i] = q[j] => i = j
  PROVE  /\ Head(q) \in S
         /\ Tail(q) \in Seq(S)
         /\ Len(Tail(q)) = Len(q) - 1
         /\ \A i, j \in DOMAIN Tail(q) : Tail(q)[i] = Tail(q)[j] => i = j
         /\ {Tail(q)[i] : i \in DOMAIN Tail(q)}
              = {q[i] : i \in DOMAIN q} \ {Head(q)}
         /\ Head(q) \in {q[i] : i \in DOMAIN q}
<1> DEFINE r == Tail(q)
<1>1. /\ Head(q) \in S /\ r \in Seq(S) /\ Len(r) = Len(q) - 1
      /\ \A i \in 1 .. Len(r) : r[i] = q[i + 1]
  BY HeadTailProperties
<1>2. /\ DOMAIN q = 1 .. Len(q) /\ DOMAIN r = 1 .. Len(r)
      /\ Len(q) \in Nat /\ Len(r) \in Nat /\ Len(q) > 0
  BY <1>1, LenProperties, EmptySeq
<1>3. Head(q) = q[1]
  OBVIOUS
<1>4. \A i, j \in DOMAIN r : r[i] = r[j] => i = j
  BY <1>1, <1>2
<1>5. ASSUME NEW i \in DOMAIN r PROVE r[i] \in {q[k] : k \in DOMAIN q} \ {q[1]}
  BY <1>1, <1>2
<1>6. ASSUME NEW i \in DOMAIN q, q[i] # q[1] PROVE q[i] \in {r[k] : k \in DOMAIN r}
  <2>1. i - 1 \in DOMAIN r /\ r[i - 1] = q[i]
    BY <1>1, <1>2, <1>6
  <2> QED BY <2>1
<1> HIDE DEF r
<1> QED BY <1>1, <1>2, <1>3, <1>4, <1>5, <1>6 DEF r

\* Returning a handle that is not in the queue keeps it free of duplicates.
LEMMA PushBack ==
  ASSUME NEW S, NEW q \in Seq(S), NEW h \in S,
         h \notin {q[i] : i \in DOMAIN q},
         \A i, j \in DOMAIN q : q[i] = q[j] => i = j
  PROVE  /\ Append(q, h) \in Seq(S)
         /\ Len(Append(q, h)) = Len(q) + 1
         /\ \A i, j \in DOMAIN Append(q, h) :
              Append(q, h)[i] = Append(q, h)[j] => i = j
         /\ {Append(q, h)[i] : i \in DOMAIN Append(q, h)}
              = {q[i] : i \in DOMAIN q} \cup {h}
<1> DEFINE r == Append(q, h)
<1>1. /\ r \in Seq(S) /\ Len(r) = Len(q) + 1
      /\ \A i \in 1 .. Len(q) : r[i] = q[i]
      /\ r[Len(q) + 1] = h
  BY AppendProperties
<1>2. /\ DOMAIN q = 1 .. Len(q) /\ DOMAIN r = 1 .. Len(q) + 1 /\ Len(q) \in Nat
  BY <1>1, LenProperties
<1> HIDE DEF r
<1>3. \A i, j \in DOMAIN r : r[i] = r[j] => i = j
  BY <1>1, <1>2
<1>4. \A i \in DOMAIN r : r[i] \in {q[k] : k \in DOMAIN q} \cup {h}
  BY <1>1, <1>2
<1>5. ASSUME NEW i \in DOMAIN q PROVE q[i] \in {r[k] : k \in DOMAIN r}
  <2>1. i \in DOMAIN r /\ r[i] = q[i]
    BY <1>1, <1>2
  <2> QED BY <2>1
<1>6. h \in {r[k] : k \in DOMAIN r}
  BY <1>1, <1>2
<1> QED BY <1>1, <1>3, <1>4, <1>5, <1>6 DEF r

-----------------------------------------------------------------------------
(* Types, exclusive use, and no leak.                                      *)

\* What every step preserves.
Inv == TypeOK /\ Exclusive /\ NoneLeaked

LEMMA InitInv == Init => Inv
<1> SUFFICES ASSUME Init PROVE Inv
  OBVIOUS
<1>1. PICK n \in 0 .. PoolSize : \E first \in [1 .. n -> Handles] :
        /\ \A i, j \in 1 .. n : first[i] = first[j] => i = j
        /\ pool = first
  BY DEF Init
<1>2. /\ pool \in [1 .. n -> Handles] /\ n \in Nat
      /\ \A i, j \in 1 .. n : pool[i] = pool[j] => i = j
  BY <1>1, PoolAssumption
<1>3. pool \in Seq(Handles) /\ DOMAIN pool = 1 .. n
  BY <1>2
<1>4. InPool \subseteq Handles
  BY <1>2, <1>3 DEF InPool
<1>5. HeldBy(Threads) = {}
  BY DEF Init, HeldBy
<1>6. TypeOK
  BY <1>3, <1>4 DEF Init, TypeOK
<1>7. Exclusive
  BY <1>2, <1>3, <1>5 DEF Init, Exclusive
<1>8. NoneLeaked
  BY DEF Init, NoneLeaked
<1> QED BY <1>6, <1>7, <1>8 DEF Inv

\* Taking the front of the queue hands it from the queue to the thread.
LEMMA TakeInv ==
  ASSUME Inv, NEW t \in Threads, conn[t] = None, pool # <<>>, Take(t),
         UNCHANGED <<opened, broken, instance, undefined>>
  PROVE  Inv'
<1> DEFINE h == Head(pool)
<1>1. /\ h \in Handles /\ pool' \in Seq(Handles)
      /\ \A i, j \in DOMAIN pool' : pool'[i] = pool'[j] => i = j
      /\ InPool' = InPool \ {h}
      /\ h \in InPool
  <2>1. pool \in Seq(Handles) /\ \A i, j \in DOMAIN pool : pool[i] = pool[j] => i = j
    BY DEF Inv, TypeOK, Exclusive
  <2>2. /\ h \in Handles /\ Tail(pool) \in Seq(Handles)
        /\ \A i, j \in DOMAIN Tail(pool) : Tail(pool)[i] = Tail(pool)[j] => i = j
        /\ {Tail(pool)[i] : i \in DOMAIN Tail(pool)} = {pool[i] : i \in DOMAIN pool} \ {h}
        /\ h \in {pool[i] : i \in DOMAIN pool}
    BY <2>1, TakeFront
  <2>3. pool' = Tail(pool)
    BY DEF Take
  <2> QED BY <2>2, <2>3 DEF InPool
<1>2. conn' = [conn EXCEPT ![t] = h] /\ at' = [at EXCEPT ![t] = "query"]
  BY DEF Take
<1> HIDE DEF h
<1>3. HeldBy(Threads)' = HeldBy(Threads) \cup {h}
  BY <1>1, <1>2, NoneAssumption DEF Inv, TypeOK, HeldBy
<1>4. h \notin HeldBy(Threads)
  BY <1>1 DEF Inv, Exclusive
<1>5. TypeOK'
  BY <1>1, <1>2, NoneAssumption DEF Inv, TypeOK
<1>6. \A u, v \in Threads : conn'[u] # None /\ conn'[u] = conn'[v] => u = v
  BY <1>2, <1>4 DEF Inv, TypeOK, Exclusive, HeldBy
<1>7. Exclusive'
  BY <1>1, <1>3, <1>4, <1>6 DEF Inv, Exclusive
<1>8. NoneLeaked'
  BY <1>1, <1>3 DEF Inv, NoneLeaked
<1> QED BY <1>5, <1>7, <1>8 DEF Inv

LEMMA StepInv == Inv /\ [Next]_vars => Inv'
<1> SUFFICES ASSUME Inv, [Next]_vars PROVE Inv'
  OBVIOUS
<1> USE DEF At
<1>1. CASE UNCHANGED vars
  <2>1. TypeOK' = TypeOK /\ InPool' = InPool /\ HeldBy(Threads)' = HeldBy(Threads)
    BY <1>1 DEF TypeOK, InPool, HeldBy, vars
  <2> QED BY <1>1, <2>1 DEF Inv, Exclusive, NoneLeaked, vars
\* A step that changes neither the queue nor what is held or open.
<1>2. ASSUME NEW t \in Threads,
             NEW where \in {"idle", "waiting", "notified", "create", "query",
                            "ping", "close", "push"},
             at' = [at EXCEPT ![t] = where],
             where \in {"idle", "waiting", "notified", "create"} => conn[t] = None,
             where \in {"ping", "close", "push"} => conn[t] # None,
             UNCHANGED <<pool, conn, opened, broken, instance, undefined>>
      PROVE  Inv'
  <2>1. TypeOK'
    BY <1>2 DEF Inv, TypeOK
  <2>2. Exclusive' /\ NoneLeaked'
    BY <1>2 DEF Inv, Exclusive, NoneLeaked, InPool, HeldBy
  <2> QED BY <2>1, <2>2 DEF Inv
<1>3. ASSUME NEW t \in Threads, Get(t) PROVE Inv'
  <2>1. conn[t] = None
    BY <1>3 DEF Inv, TypeOK, Get
  <2>2. CASE pool # <<>>
    BY <1>3, <2>1, <2>2, TakeInv DEF Get
  <2>3. CASE pool = <<>>
    BY <1>2, <1>3, <2>1, <2>3 DEF Get
  <2> QED BY <2>2, <2>3
<1>4. ASSUME NEW t \in Threads, Wake(t) PROVE Inv'
  <2>1. conn[t] = None
    BY <1>4 DEF Inv, TypeOK, Wake
  <2>2. CASE pool # <<>>
    BY <1>4, <2>1, <2>2, TakeInv DEF Wake
  <2>3. CASE pool = <<>>
    BY <1>2, <1>4, <2>1, <2>3 DEF Wake
  <2> QED BY <2>2, <2>3
<1>5. ASSUME NEW t \in Threads, Timeout(t) PROVE Inv'
  <2>1. conn[t] = None
    BY <1>5 DEF Inv, TypeOK, Timeout
  <2>2. CASE pool # <<>>
    BY <1>5, <2>1, <2>2, TakeInv DEF Timeout
  <2>3. CASE pool = <<>>
    BY <1>2, <1>5, <2>1, <2>3 DEF Timeout
  <2> QED BY <2>2, <2>3
<1>6. ASSUME NEW t \in Threads, Create(t) PROVE Inv'
  <2>1. conn[t] = None
    BY <1>6 DEF Inv, TypeOK, Create
  <2>2. ASSUME NEW h \in Created, opened' = opened \cup {h}, conn' = [conn EXCEPT ![t] = h]
        PROVE  Inv'
    <3>1. HeldBy(Threads)' = HeldBy(Threads) \cup {h}
      BY <2>1, <2>2, NoneAssumption DEF Inv, TypeOK, HeldBy, Created
    <3>2. h \notin InPool \cup HeldBy(Threads) /\ InPool' = InPool
      BY <1>6, <2>2 DEF Inv, Exclusive, Created, Create, InPool
    <3>3. TypeOK'
      BY <1>6, <2>2, NoneAssumption DEF Inv, TypeOK, Create, Created
    <3>4. \A u, v \in Threads : conn'[u] # None /\ conn'[u] = conn'[v] => u = v
      BY <2>2, <3>2 DEF Inv, TypeOK, Exclusive, HeldBy
    <3>5. Exclusive'
      BY <1>6, <2>2, <3>1, <3>2, <3>4 DEF Inv, Exclusive, Create
    <3>6. NoneLeaked'
      BY <2>2, <3>1, <3>2 DEF Inv, NoneLeaked
    <3> QED BY <3>3, <3>5, <3>6 DEF Inv
  <2>3. CASE UNCHANGED <<opened, conn>>
    BY <1>2, <1>6, <2>1, <2>3 DEF Create
  <2> QED BY <1>6, <2>2, <2>3 DEF Create
<1>7. ASSUME NEW t \in Threads, EndQuery(t) PROVE Inv'
  BY <1>2, <1>7 DEF EndQuery
<1>8. ASSUME NEW t \in Threads, Ping(t) PROVE Inv'
  <2>1. conn[t] # None
    BY <1>8 DEF Inv, TypeOK, Ping
  <2> QED BY <1>2, <1>8, <2>1 DEF Ping
<1>9. ASSUME NEW t \in Threads, Replace(t) PROVE Inv'
  <2>1. /\ conn[t] # None /\ conn[t] \in Handles
        /\ conn[t] \in HeldBy(Threads) /\ conn[t] \notin InPool
    BY <1>9 DEF Inv, TypeOK, Exclusive, HeldBy, Replace
  <2>2. /\ InPool' = InPool /\ broken' = broken \ {conn[t]}
        /\ UNCHANGED <<pool, instance, undefined>>
    BY <1>9 DEF Replace, InPool
  <2>3. ASSUME NEW h \in Created \cup {conn[t]},
               opened' = (opened \ {conn[t]}) \cup {h},
               conn' = [conn EXCEPT ![t] = h],
               at' = [at EXCEPT ![t] = "push"]
        PROVE  Inv'
    <3>1. h \in Handles /\ h # None
      BY <2>1, NoneAssumption DEF Created
    <3>2. HeldBy(Threads)' = (HeldBy(Threads) \ {conn[t]}) \cup {h}
      BY <2>1, <2>3, <3>1 DEF Inv, TypeOK, Exclusive, HeldBy
    <3>3. h \notin InPool \cup (HeldBy(Threads) \ {conn[t]})
      BY <2>1 DEF Inv, Exclusive, Created
    <3>4. TypeOK'
      BY <2>1, <2>2, <2>3, <3>1 DEF Inv, TypeOK
    <3>5. \A u, v \in Threads : conn'[u] # None /\ conn'[u] = conn'[v] => u = v
      BY <2>3, <3>3 DEF Inv, TypeOK, Exclusive, HeldBy
    <3>6. Exclusive'
      BY <2>1, <2>2, <2>3, <3>2, <3>3, <3>5 DEF Inv, Exclusive
    <3>7. NoneLeaked'
      BY <2>2, <2>3, <3>2 DEF Inv, NoneLeaked
    <3> QED BY <3>4, <3>6, <3>7 DEF Inv
  <2>4. ASSUME opened' = opened \ {conn[t]},
               conn' = [conn EXCEPT ![t] = None],
               at' = [at EXCEPT ![t] = "idle"]
        PROVE  Inv'
    <3>1. HeldBy(Threads)' = HeldBy(Threads) \ {conn[t]}
      BY <2>1, <2>4 DEF Inv, TypeOK, Exclusive, HeldBy
    <3>2. TypeOK'
      BY <2>1, <2>2, <2>4 DEF Inv, TypeOK
    <3>3. Exclusive'
      BY <2>1, <2>2, <2>4, <3>1 DEF Inv, TypeOK, Exclusive
    <3>4. NoneLeaked'
      BY <2>2, <2>4, <3>1 DEF Inv, NoneLeaked
    <3> QED BY <3>2, <3>3, <3>4 DEF Inv
  <2> QED BY <1>9, <2>3, <2>4 DEF Replace
<1>10. ASSUME NEW t \in Threads, Push(t) PROVE Inv'
  <2>1. /\ conn[t] # None /\ conn[t] \in Handles
        /\ conn[t] \in HeldBy(Threads) /\ conn[t] \notin InPool
    BY <1>10 DEF Inv, TypeOK, Exclusive, HeldBy, Push
  <2>2. /\ pool' = Append(pool, conn[t])
        /\ conn' = [conn EXCEPT ![t] = None]
        /\ UNCHANGED <<opened, broken, instance, undefined>>
    BY <1>10 DEF Push
  <2>3. /\ pool' \in Seq(Handles)
        /\ \A i, j \in DOMAIN pool' : pool'[i] = pool'[j] => i = j
        /\ InPool' = InPool \cup {conn[t]}
    BY <2>1, <2>2, PushBack DEF Inv, TypeOK, Exclusive, InPool
  <2>4. HeldBy(Threads)' = HeldBy(Threads) \ {conn[t]}
    BY <2>1, <2>2 DEF Inv, TypeOK, Exclusive, HeldBy
  <2>5. \/ at' = [at EXCEPT ![t] = "idle"]
        \/ \E w \in Waiting : at' = [at EXCEPT ![t] = "idle", ![w] = "notified"]
    BY <1>10 DEF Push
  <2>6. \A w \in Waiting : w \in Threads /\ conn[w] = None /\ w # t
    BY <2>1 DEF Inv, TypeOK, Waiting
  <2>7. TypeOK'
    BY <2>2, <2>3, <2>5, <2>6 DEF Inv, TypeOK
  <2>8. \A u, v \in Threads : conn'[u] # None /\ conn'[u] = conn'[v] => u = v
    BY <2>2 DEF Inv, TypeOK, Exclusive
  <2>9. Exclusive'
    BY <2>1, <2>2, <2>3, <2>4, <2>8 DEF Inv, Exclusive
  <2>10. NoneLeaked'
    BY <2>2, <2>3, <2>4 DEF Inv, NoneLeaked
  <2> QED BY <2>7, <2>9, <2>10 DEF Inv
<1>11. ASSUME NEW h \in Handles, Break(h) PROVE Inv'
  <2>1. TypeOK'
    BY <1>11 DEF Inv, TypeOK, Break
  <2> QED BY <1>11, <2>1 DEF Inv, Exclusive, NoneLeaked, InPool, HeldBy, Break
<1>12. CASE Destroy
  <2>1. /\ pool' = <<>> /\ opened' = opened \ InPool /\ broken' = broken \ InPool
        /\ instance' = FALSE /\ UNCHANGED <<at, conn, undefined>>
    BY <1>12 DEF Destroy
  <2>2. pool' \in Seq(Handles) /\ DOMAIN pool' = {} /\ InPool' = {}
    BY <2>1 DEF InPool
  <2>3. HeldBy(Threads)' = HeldBy(Threads)
    BY <2>1 DEF HeldBy
  <2>4. TypeOK'
    BY <2>1, <2>2 DEF Inv, TypeOK
  <2>5. Exclusive'
    BY <2>1, <2>2, <2>3 DEF Inv, Exclusive
  <2>6. NoneLeaked'
    BY <2>1, <2>2, <2>3 DEF Inv, NoneLeaked
  <2> QED BY <2>4, <2>5, <2>6 DEF Inv
<1>13. CASE UseAfterDestroy
  BY <1>13 DEF Inv, TypeOK, Exclusive, NoneLeaked, InPool, HeldBy, UseAfterDestroy
<1> QED
  BY <1>1, <1>3, <1>4, <1>5, <1>6, <1>7, <1>8, <1>9, <1>10, <1>11, <1>12, <1>13
     DEF Next, Step

-----------------------------------------------------------------------------
(* Notifications.                                                          *)

LEMMA ThreadsFinite ==
  /\ IsFiniteSet(Notified) /\ Cardinality(Notified) \in Nat
  /\ IsFiniteSet(Notified)' /\ Cardinality(Notified)' \in Nat
<1>1. IsFiniteSet(Threads) /\ Notified \in SUBSET Threads /\ Notified' \in SUBSET Threads
  BY HandleAssumption DEF Notified
<1> QED BY <1>1, FS_Subset, FS_CardinalityType

\* Taking a connection uses up at most one notification and one connection.
LEMMA TakeNotify ==
  ASSUME TypeOK, NoLostNotify, NEW t \in Threads, pool # <<>>, Take(t)
  PROVE  NoLostNotify'
<1>1. Len(pool') = Len(pool) - 1 /\ Len(pool) \in Nat
  BY HeadTailProperties, LenProperties DEF TypeOK, Take
<1>2. Notified' = Notified \ {t} /\ Waiting' = Waiting \ {t}
  BY DEF TypeOK, Take, Notified, Waiting
<1>3. Cardinality(Notified') >= Cardinality(Notified) - 1
  BY <1>2, ThreadsFinite, FS_RemoveElement
<1> QED BY <1>1, <1>2, <1>3, ThreadsFinite DEF NoLostNotify

LEMMA StepNotify == TypeOK /\ NoLostNotify /\ [Next]_vars => NoLostNotify'
<1> SUFFICES ASSUME TypeOK, NoLostNotify, [Next]_vars PROVE NoLostNotify'
  OBVIOUS
<1> USE DEF At
<1>1. CASE UNCHANGED vars
  BY <1>1 DEF NoLostNotify, Waiting, Notified, vars
\* Going to sleep beside an empty queue.
<1>2. ASSUME NEW t \in Threads, pool = <<>>, pool' = pool PROVE NoLostNotify'
  <2>1. Len(pool') = 0
    BY <1>2
  <2> QED BY <2>1, ThreadsFinite DEF NoLostNotify
\* A step of a thread that neither waited nor waits now.
<1>3. ASSUME NEW t \in Threads, NEW where \in {"idle", "query", "close", "push", "ping"},
             at[t] \notin {"waiting", "notified"}, at' = [at EXCEPT ![t] = where],
             UNCHANGED pool
      PROVE  NoLostNotify'
  <2>1. Waiting' = Waiting /\ Notified' = Notified
    BY <1>3 DEF TypeOK, Waiting, Notified
  <2> QED BY <1>3, <2>1 DEF NoLostNotify
<1>4. ASSUME NEW t \in Threads, Get(t) \/ Wake(t) \/ Timeout(t) PROVE NoLostNotify'
  <2>1. CASE pool # <<>>
    BY <1>4, <2>1, TakeNotify DEF Get, Wake, Timeout
  <2>2. CASE pool = <<>>
    BY <1>2, <1>4, <2>2 DEF Get, Wake, Timeout
  <2> QED BY <2>1, <2>2
<1>5. ASSUME NEW t \in Threads, Create(t) PROVE NoLostNotify'
  BY <1>3, <1>5 DEF Create
<1>6. ASSUME NEW t \in Threads, EndQuery(t) PROVE NoLostNotify'
  BY <1>3, <1>6 DEF EndQuery
<1>7. ASSUME NEW t \in Threads, Ping(t) PROVE NoLostNotify'
  BY <1>3, <1>7 DEF Ping
<1>8. ASSUME NEW t \in Threads, Replace(t) PROVE NoLostNotify'
  BY <1>3, <1>8 DEF Replace
\* One more connection and, if anyone waits, one more notification.
<1>9. ASSUME NEW t \in Threads, Push(t) PROVE NoLostNotify'
  <2>1. CASE Waiting = {}
    <3>1. Waiting' = {}
      BY <1>9, <2>1 DEF TypeOK, Push, Waiting
    <3> QED BY <3>1 DEF NoLostNotify
  <2>2. CASE Waiting # {}
    <3>1. PICK w \in Waiting : at' = [at EXCEPT ![t] = "idle", ![w] = "notified"]
      BY <1>9, <2>2 DEF Push
    <3>2. w \in Threads /\ w # t /\ w \notin Notified /\ t \notin Notified
      BY <1>9 DEF Push, Waiting, Notified
    <3>3. Notified' = Notified \cup {w}
      BY <3>1, <3>2 DEF TypeOK, Notified
    <3>4. Cardinality(Notified') = Cardinality(Notified) + 1
      BY <3>2, <3>3, ThreadsFinite, FS_AddElement
    <3>5. Len(pool') = Len(pool) + 1 /\ Len(pool) \in Nat
      <4>1. conn[t] \in Handles
        BY <1>9 DEF TypeOK, Push
      <4> QED BY <1>9, <4>1, AppendProperties, LenProperties DEF TypeOK, Push
    <3>6. Len(pool) <= Cardinality(Notified)
      BY <2>2 DEF NoLostNotify
    <3> QED BY <3>4, <3>5, <3>6, ThreadsFinite DEF NoLostNotify
  <2> QED BY <2>1, <2>2
<1>10. ASSUME NEW h \in Handles, Break(h) PROVE NoLostNotify'
  BY <1>10 DEF Break, NoLostNotify, Waiting, Notified
<1>11. CASE Destroy
  <2>1. Len(pool') = 0
    BY <1>11 DEF Destroy
  <2> QED BY <2>1, ThreadsFinite DEF NoLostNotify
<1>12. CASE UseAfterDestroy
  BY <1>12 DEF UseAfterDestroy, NoLostNotify, Waiting, Notified
<1> QED
  BY <1>1, <1>4, <1>5, <1>6, <1>7, <1>8, <1>9, <1>10, <1>11, <1>12 DEF Next, Step

-----------------------------------------------------------------------------
(* The number of open connections.                                         *)

Creating == {t \in Threads : at[t] = "create"}
Bound == IF PoolSize >= Cardinality(Threads) THEN PoolSize ELSE Cardinality(Threads)

LEMMA BoundNumbers ==
  /\ Bound \in Nat /\ Bound >= PoolSize /\ Bound >= Cardinality(Threads)
  /\ IsFiniteSet(Creating) /\ Cardinality(Creating) \in Nat
  /\ IsFiniteSet(Creating') /\ Cardinality(Creating') \in Nat
<1>1. /\ IsFiniteSet(Threads) /\ Cardinality(Threads) \in Nat
      /\ Creating \in SUBSET Threads /\ Creating' \in SUBSET Threads
  BY HandleAssumption, FS_CardinalityType DEF Creating
<1>2. Bound \in Nat /\ Bound >= PoolSize /\ Bound >= Cardinality(Threads)
  BY <1>1, PoolAssumption DEF Bound
<1> QED BY <1>1, <1>2, FS_Subset, FS_CardinalityType

LEMMA OpenedFinite ==
  ASSUME TypeOK
  PROVE  IsFiniteSet(opened) /\ Cardinality(opened) \in Nat
BY HandleAssumption, FS_Subset, FS_CardinalityType DEF TypeOK

\* The threads that hold a connection are as many as the connections they hold.
LEMMA HoldersOutnumber ==
  ASSUME TypeOK
  PROVE  LET H == {t \in Threads : conn[t] # None}
         IN  /\ IsFiniteSet(H) /\ IsFiniteSet(HeldBy(Threads))
             /\ Cardinality(H) \in Nat /\ Cardinality(HeldBy(Threads)) \in Nat
             /\ Cardinality(HeldBy(Threads)) <= Cardinality(H)
<1> DEFINE H == {t \in Threads : conn[t] # None}
           f == [t \in H |-> conn[t]]
<1>1. IsFiniteSet(H) /\ Cardinality(H) \in Nat
  BY HandleAssumption, FS_Subset, FS_CardinalityType
<1>2. f \in [H -> HeldBy(Threads)]
  BY DEF HeldBy
<1>3. ASSUME NEW h \in HeldBy(Threads) PROVE \E t \in H : f[t] = h
  BY <1>3 DEF HeldBy
<1>4. f \in Surjection(H, HeldBy(Threads))
  BY <1>2, <1>3 DEF Surjection
<1>5. IsFiniteSet(HeldBy(Threads)) /\ Cardinality(HeldBy(Threads)) <= Cardinality(H)
  BY <1>1, <1>4, FS_Surjection
<1> QED BY <1>1, <1>5, FS_CardinalityType

LEMMA InitBounded == Init => Cardinality(opened) + Cardinality(Creating) <= Bound
<1> SUFFICES ASSUME Init PROVE Cardinality(opened) + Cardinality(Creating) <= Bound
  OBVIOUS
<1>1. PICK n \in 0 .. PoolSize : \E first \in [1 .. n -> Handles] : pool = first
  BY DEF Init
<1>2. /\ n \in Nat /\ n <= PoolSize /\ pool \in [1 .. n -> Handles]
      /\ IsFiniteSet(1 .. n) /\ Cardinality(1 .. n) = n
  BY <1>1, PoolAssumption, FS_Interval
<1>3. pool \in Surjection(1 .. n, InPool)
  BY <1>2 DEF InPool, Surjection
<1>4. Cardinality(opened) <= n /\ Cardinality(opened) \in Nat
  BY <1>2, <1>3, FS_Surjection, FS_CardinalityType DEF Init
<1>5. Cardinality(Creating) = 0
  <2>1. Creating = {}
    BY DEF Init, Creating
  <2> QED BY <2>1, FS_EmptySet
<1> QED BY <1>2, <1>4, <1>5, PoolAssumption, BoundNumbers

\* A thread gives up waiting only when every open connection is held by another
\* thread, and it holds none itself.
LEMMA TimeoutBounded ==
  ASSUME Inv, NEW t \in Threads, pool = <<>>, UNCHANGED opened,
         conn[t] = None, at' = [at EXCEPT ![t] = "create"]
  PROVE  Cardinality(opened') + Cardinality(Creating') <= Bound
<1> DEFINE H == {u \in Threads : conn[u] # None}
<1>1. /\ IsFiniteSet(H) /\ Cardinality(H) \in Nat
      /\ Cardinality(HeldBy(Threads)) \in Nat
      /\ Cardinality(HeldBy(Threads)) <= Cardinality(H)
  BY HoldersOutnumber DEF Inv
<1>2. opened = HeldBy(Threads)
  <2>1. InPool = {}
    BY DEF InPool
  <2> QED BY <2>1 DEF Inv, Exclusive, NoneLeaked
<1>3. H \cap Creating' = {} /\ H \cup Creating' \in SUBSET Threads
  BY DEF Inv, TypeOK, Creating
<1>4. Cardinality(H) + Cardinality(Creating') = Cardinality(H \cup Creating')
  <2> DEFINE C == Creating'
  <2>1. IsFiniteSet(C) /\ Cardinality(C) \in Nat
    BY BoundNumbers
  <2> HIDE DEF C, H
  <2>2. Cardinality(H \cup C) = Cardinality(H) + Cardinality(C) - Cardinality(H \cap C)
    BY <1>1, <2>1, FS_Union
  <2>3. Cardinality(H \cap C) = 0
    BY <1>3, FS_EmptySet DEF C
  <2> QED BY <1>1, <2>1, <2>2, <2>3 DEF C
<1>5. Cardinality(H \cup Creating') <= Cardinality(Threads)
  BY <1>3, HandleAssumption, FS_Subset
<1>6. Cardinality(Threads) \in Nat
  BY HandleAssumption, FS_CardinalityType
<1> HIDE DEF H
<1> QED BY <1>1, <1>2, <1>4, <1>5, <1>6, BoundNumbers

LEMMA StepBounded ==
  ASSUME Inv, Inv', Cardinality(opened) + Cardinality(Creating) <= Bound, [Next]_vars
  PROVE  Cardinality(opened') + Cardinality(Creating') <= Bound
<1> USE DEF At
<1>1. /\ IsFiniteSet(opened) /\ Cardinality(opened) \in Nat
      /\ IsFiniteSet(opened') /\ Cardinality(opened') \in Nat
  <2>1. IsFiniteSet(opened) /\ Cardinality(opened) \in Nat
    BY OpenedFinite DEF Inv
  <2>2. opened' \subseteq Handles
    BY DEF Inv, TypeOK
  <2> QED BY <2>1, <2>2, HandleAssumption, FS_Subset, FS_CardinalityType
\* A step that opens nothing and sends nobody to create.
<1>2. ASSUME opened' \subseteq opened, Creating' \subseteq Creating
      PROVE  Cardinality(opened') + Cardinality(Creating') <= Bound
  <2>1. Cardinality(opened') <= Cardinality(opened)
    BY <1>1, <1>2, FS_Subset
  <2>2. Cardinality(Creating') <= Cardinality(Creating)
    BY <1>2, BoundNumbers, FS_Subset
  <2> QED BY <1>1, <2>1, <2>2, BoundNumbers
<1>3. CASE UNCHANGED vars
  BY <1>2, <1>3 DEF vars, Creating
<1>4. ASSUME NEW t \in Threads, Get(t) \/ Wake(t) \/ EndQuery(t) \/ Ping(t)
      PROVE  Cardinality(opened') + Cardinality(Creating') <= Bound
  BY <1>2, <1>4 DEF Get, Wake, EndQuery, Ping, Take, Creating, Inv, TypeOK
<1>5. ASSUME NEW t \in Threads, Timeout(t)
      PROVE  Cardinality(opened') + Cardinality(Creating') <= Bound
  <2>1. CASE pool # <<>>
    BY <1>2, <1>5, <2>1 DEF Timeout, Take, Creating, Inv, TypeOK
  <2>2. CASE pool = <<>>
    <3>1. conn[t] = None
      BY <1>5 DEF Timeout, Inv, TypeOK
    <3> QED BY <1>5, <2>2, <3>1, TimeoutBounded DEF Timeout
  <2> QED BY <2>1, <2>2
<1>6. ASSUME NEW t \in Threads, Create(t)
      PROVE  Cardinality(opened') + Cardinality(Creating') <= Bound
  <2>1. t \in Creating /\ Creating' = Creating \ {t}
    BY <1>6 DEF Create, Creating, Inv, TypeOK
  <2>2. Cardinality(Creating') = Cardinality(Creating) - 1
    BY <2>1, BoundNumbers, FS_RemoveElement
  <2>3. opened' = opened \/ \E h \in Created : opened' = opened \cup {h}
    BY <1>6 DEF Create
  <2>4. Cardinality(opened') <= Cardinality(opened) + 1
    BY SMTT(30), <1>1, <2>3, FS_AddElement
  <2> QED BY <1>1, <2>2, <2>4, BoundNumbers
<1>7. ASSUME NEW t \in Threads, Replace(t)
      PROVE  Cardinality(opened') + Cardinality(Creating') <= Bound
  <2>1. conn[t] \in opened
    BY <1>7 DEF Replace, Inv, TypeOK, Exclusive, HeldBy
  <2>2. Creating' = Creating
    BY <1>7 DEF Replace, Creating, Inv, TypeOK
  <2>3. \/ opened' = opened \ {conn[t]}
        \/ \E h : opened' = (opened \ {conn[t]}) \cup {h}
    BY <1>7 DEF Replace
  <2>4. /\ IsFiniteSet(opened \ {conn[t]})
        /\ Cardinality(opened \ {conn[t]}) = Cardinality(opened) - 1
    BY <1>1, <2>1, FS_RemoveElement
  <2>5. ASSUME NEW h, opened' = (opened \ {conn[t]}) \cup {h}
        PROVE  Cardinality(opened') <= Cardinality(opened)
    <3>1. Cardinality(opened') \in {Cardinality(opened) - 1, Cardinality(opened)}
      <4> DEFINE rest == opened \ {conn[t]}
      <4>1. IsFiniteSet(rest) /\ Cardinality(rest) = Cardinality(opened) - 1
        BY <2>4
      <4> HIDE DEF rest
      <4>2. Cardinality(rest \cup {h}) = IF h \in rest THEN Cardinality(rest)
                                        ELSE Cardinality(rest) + 1
        BY <4>1, FS_AddElement
      <4>3. opened' = rest \cup {h}
        BY <2>5 DEF rest
      <4> QED BY <1>1, <4>1, <4>2, <4>3
    <3> QED BY <1>1, <3>1
  <2>6. Cardinality(opened') <= Cardinality(opened)
    <3>1. CASE opened' = opened \ {conn[t]}
      BY <1>1, <2>4, <3>1
    <3>2. CASE \E h : opened' = (opened \ {conn[t]}) \cup {h}
      BY <2>5, <3>2
    <3> QED BY <2>3, <3>1, <3>2
  <2> QED BY <1>1, <2>2, <2>6, BoundNumbers
<1>8. ASSUME NEW t \in Threads, Push(t)
      PROVE  Cardinality(opened') + Cardinality(Creating') <= Bound
  BY <1>2, <1>8 DEF Push, Waiting, Creating, Inv, TypeOK
<1>9. CASE (\E h \in Handles : Break(h)) \/ Destroy \/ UseAfterDestroy
  BY <1>2, <1>9 DEF Break, Destroy, UseAfterDestroy, Creating
<1> QED BY <1>3, <1>4, <1>5, <1>6, <1>7, <1>8, <1>9 DEF Next, Step

-----------------------------------------------------------------------------
(* The theorems.                                                           *)

LEMMA Invariance == Spec => []Inv
<1>1. Init => Inv
  BY InitInv
<1>2. Inv /\ [Next]_vars => Inv'
  BY StepInv
<1> QED BY <1>1, <1>2, PTL DEF Spec

\* Type correctness; a thread has a connection only between Get and Push.
THEOREM TypeCorrect == Spec => []TypeOK
<1>1. Inv => TypeOK
  BY DEF Inv
<1> QED BY <1>1, Invariance, PTL

\* No connection is ever used by two threads, used while it is in the queue,
\* queued twice, or used after it has been closed.
THEOREM UseIsExclusive == Spec => []Exclusive
<1>1. Inv => Exclusive
  BY DEF Inv
<1> QED BY <1>1, Invariance, PTL

\* An open connection is in the queue or in some thread's guard, whatever
\* times out, breaks or cannot be replaced.
THEOREM NothingLeaks == Spec => []NoneLeaked
<1>1. Inv => NoneLeaked
  BY DEF Inv
<1> QED BY <1>1, Invariance, PTL

\* For any threads and any size of the pool, a connection has one owner as long as it
\* is open.
THEOREM OwnerIsUnique == Spec => []OneOwner
<1>1. Exclusive /\ NoneLeaked => OneOwner
  BY DEF OneOwner
<1> QED BY <1>1, UseIsExclusive, NothingLeaks, PTL

\* For any number of threads, notify_one for each returned connection leaves
\* nobody asleep beside a connection that nobody has been woken for.
THEOREM NotifyIsEnough == Spec => []NoLostNotify
<1>1. Init => NoLostNotify
  BY DEF Init, NoLostNotify, Waiting
<1>2. TypeOK /\ NoLostNotify /\ [Next]_vars => NoLostNotify'
  BY StepNotify
<1> QED BY <1>1, <1>2, TypeCorrect, PTL DEF Spec

\* The pool never has more connections open, or being created after a timeout,
\* than its size or the number of threads, whichever is greater.
THEOREM OpenIsBounded == Spec => []OpenBounded
<1> DEFINE B == Cardinality(opened) + Cardinality(Creating) <= Bound
<1>1. Init => B
  BY InitBounded
<1>2. Inv /\ Inv' /\ B /\ [Next]_vars => B'
  BY StepBounded DEF Bound
<1>3. B => OpenBounded
  BY DEF OpenBounded, Creating, Bound
<1> QED BY <1>1, <1>2, <1>3, Invariance, PTL DEF Spec
=============================================================================
