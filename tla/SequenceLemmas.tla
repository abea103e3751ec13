--------------------------- MODULE SequenceLemmas ---------------------------
(***************************************************************************)
(* What the proofs about the components need of sequences and is not in    *)
(* SequenceTheorems: slices, prefixes, and FlattenSeq and filters, whose   *)
(* lemmas are proved by induction.  An induction theorem with an operator  *)
(* as its parameter cannot be instantiated here; with a set in its place   *)
(* it can.                                                                 *)
(***************************************************************************)
EXTENDS Integers, SequencesExt, SequenceTheorems, WellFoundedInduction, TLAPS

\* Induction over the naturals, for what can be said as membership of a set.
LEMMA SetInduction ==
  ASSUME NEW S, 0 \in S, \A n \in Nat : n \in S => n + 1 \in S
  PROVE  \A n \in Nat : n \in S
<1> DEFINE T == Nat \ S
<1>1. SUFFICES ASSUME T # {} PROVE FALSE
  OBVIOUS
<1>2. PICK m \in T : \A n \in T : ~(n < m)
  <2>1. IsWellFoundedOn(OpToRel(<,Nat), Nat)
    BY NatLessThanWellFounded
  <2>2. \E x \in T : \A y \in T : ~(<<y,x>> \in OpToRel(<,Nat))
    BY <1>1, <2>1, WFMin
  <2> QED BY <2>2 DEF OpToRel
<1>3. CASE m = 0
  BY <1>3
<1>4. CASE m # 0
  <2>1. m - 1 \in Nat /\ m - 1 < m
    BY <1>4
  <2> QED BY <2>1, <1>2
<1> QED BY <1>3, <1>4

\* A set of natural numbers has a least element.
LEMMA Least ==
  ASSUME NEW T \in SUBSET Nat, T # {}
  PROVE  \E x \in T : \A y \in T : x <= y
<1> DEFINE Less == {p \in Nat \X Nat : p[1] < p[2]}
<1>1. IsWellFoundedOn(OpToRel(<, Nat), Nat)
  BY NatLessThanWellFounded
<1>2. OpToRel(<, Nat) = Less
  BY DEF OpToRel
<1>3. IsWellFoundedOn(Less, Nat)
  BY <1>1, <1>2, Zenon
<1> HIDE DEF Less
<1>4. PICK x \in T : \A y \in T : <<y, x>> \notin Less
  BY <1>3, WFMin
<1>5. \A y \in T : ~(y < x)
  BY <1>4 DEF Less
<1> QED BY <1>5

\* A function on an interval from 1 is a sequence.
LEMMA FunctionIsSeq ==
  ASSUME NEW S, NEW n \in Nat, NEW f \in [1 .. n -> S]
  PROVE  f \in Seq(S) /\ Len(f) = n /\ DOMAIN f = 1 .. n
BY LenProperties, SeqDef

\* What lies between two offsets.
LEMMA Slice ==
  ASSUME NEW S, NEW d \in Seq(S), NEW r \in Nat, NEW w \in Nat, r <= w, w <= Len(d)
  PROVE  /\ SubSeq(d, r + 1, w) \in Seq(S)
         /\ Len(SubSeq(d, r + 1, w)) = w - r
         /\ \A i \in 1 .. w - r : SubSeq(d, r + 1, w)[i] = d[r + i]
<1>1. \A i \in r + 1 .. w : d[i] \in S
  BY ElementOfSeq, LenProperties
<1> QED BY <1>1, SubSeqProperties

\* Two slices with the same elements.
LEMMA SameSlice ==
  ASSUME NEW S, NEW d \in Seq(S), NEW r \in Nat, NEW w \in Nat, r <= w, w <= Len(d),
         NEW e \in Seq(S), NEW q \in Nat, NEW v \in Nat, v <= Len(e), v - q = w - r,
         \A i \in 1 .. w - r : e[q + i] = d[r + i]
  PROVE  SubSeq(e, q + 1, v) = SubSeq(d, r + 1, w)
<1>1. /\ SubSeq(d, r + 1, w) \in Seq(S)
      /\ Len(SubSeq(d, r + 1, w)) = w - r
      /\ \A i \in 1 .. w - r : SubSeq(d, r + 1, w)[i] = d[r + i]
  BY Slice
<1>2. /\ SubSeq(e, q + 1, v) \in Seq(S)
      /\ Len(SubSeq(e, q + 1, v)) = v - q
      /\ \A i \in 1 .. v - q : SubSeq(e, q + 1, v)[i] = e[q + i]
  <2>1. q <= v
    OBVIOUS
  <2> QED BY <2>1, Slice
<1>3. \A i \in 1 .. Len(SubSeq(d, r + 1, w)) :
        SubSeq(e, q + 1, v)[i] = SubSeq(d, r + 1, w)[i]
  BY <1>1, <1>2
<1>4. Len(SubSeq(e, q + 1, v)) = Len(SubSeq(d, r + 1, w))
  BY <1>1, <1>2
<1> QED BY <1>1, <1>2, <1>3, <1>4, SeqEqual

\* A sequence is what comes before an offset and what comes after it.
LEMMA Split ==
  ASSUME NEW S, NEW s \in Seq(S), NEW n \in 0 .. Len(s)
  PROVE  /\ SubSeq(s, 1, n) \in Seq(S) /\ Len(SubSeq(s, 1, n)) = n
         /\ SubSeq(s, n + 1, Len(s)) \in Seq(S)
         /\ s = SubSeq(s, 1, n) \o SubSeq(s, n + 1, Len(s))
<1>1. Len(s) \in Nat
  BY LenProperties
<1>2. /\ SubSeq(s, 0 + 1, n) \in Seq(S) /\ Len(SubSeq(s, 0 + 1, n)) = n - 0
      /\ SubSeq(s, n + 1, Len(s)) \in Seq(S)
  BY <1>1, Slice
<1>3. SubSeq(s, 1, n) \o SubSeq(s, n + 1, Len(s)) = SubSeq(s, 1, Len(s))
  <2>1. n \in 1 - 1 .. Len(s) /\ 1 \in 1 .. Len(s) + 1 /\ Len(s) \in n .. Len(s)
    BY <1>1
  <2> QED BY <2>1, ConcatAdjacentSubSeq
<1>4. SubSeq(s, 1, Len(s)) = s
  BY SubSeqFull
<1>5. SubSeq(s, 0 + 1, n) = SubSeq(s, 1, n) /\ n - 0 = n
  BY <1>1
<1> QED BY <1>2, <1>3, <1>4, <1>5

\* Concatenation is associative, quantified for the leaves below.
LEMMA Associative ==
  ASSUME NEW S
  PROVE  \A s, t, u \in Seq(S) : (s \o t) \o u = s \o (t \o u)
BY ConcatAssociative

\* Sequences are built by appending.
LEMMA SeqInduction ==
  ASSUME NEW S, NEW T, <<>> \in T, \A s \in Seq(S) : \A x \in S : s \in T => Append(s, x) \in T
  PROVE  \A s \in Seq(S) : s \in T
<1> DEFINE N == {n \in Nat : \A s \in Seq(S) : Len(s) = n => s \in T}
<1>1. 0 \in N
  BY EmptySeq
<1>2. ASSUME NEW n \in Nat, n \in N
      PROVE  n + 1 \in N
  <2>1. SUFFICES ASSUME NEW s \in Seq(S), Len(s) = n + 1 PROVE s \in T
    OBVIOUS
  <2>2. PICK t \in Seq(S), x \in S : s = Append(t, x)
    <3>1. s # <<>>
      BY <2>1
    <3> QED BY <3>1, SequenceEmptyOrAppend
  <2>3. Len(t) = n
    <3>1. Len(t) \in Nat /\ Len(s) = Len(t) + 1
      BY <2>2, AppendProperties, LenProperties
    <3> QED BY <2>1, <3>1
  <2> QED BY <1>2, <2>2, <2>3
<1> HIDE DEF N
<1>3. \A n \in Nat : n \in N
  BY <1>1, <1>2, SetInduction
<1> QED BY <1>3, LenProperties DEF N

-----------------------------------------------------------------------------
(* FlattenSeq is defined by the function that flattens the first i of the  *)
(* sequences.  There is one such function for every sequence of sequences. *)

Flattens(f, seqs) ==
  f = [i \in 1 .. Len(seqs) |-> IF i = 1 THEN seqs[i] ELSE f[i - 1] \o seqs[i]]

\* It depends on the first sequences only.
LEMMA FlattensSame ==
  ASSUME NEW s, NEW t, NEW f, NEW g, Flattens(f, s), Flattens(g, t),
         NEW n \in Nat, Len(s) \in Nat, Len(t) \in Nat, n <= Len(s), n <= Len(t),
         \A i \in 1 .. n : s[i] = t[i]
  PROVE  \A i \in 1 .. n : f[i] = g[i]
<1> DEFINE N == {i \in Nat : i \in 1 .. n => f[i] = g[i]}
<1>1. 0 \in N
  OBVIOUS
<1>2. \A i \in 1 .. n : i \in 1 .. Len(s) /\ i \in 1 .. Len(t)
  OBVIOUS
<1>3. \A i \in 1 .. n : f[i] = IF i = 1 THEN s[i] ELSE f[i - 1] \o s[i]
  BY <1>2 DEF Flattens
<1>4. \A i \in 1 .. n : g[i] = IF i = 1 THEN t[i] ELSE g[i - 1] \o t[i]
  BY <1>2 DEF Flattens
<1>5. ASSUME NEW i \in Nat, i \in N
      PROVE  i + 1 \in N
  <2>1. SUFFICES ASSUME i + 1 \in 1 .. n PROVE f[i + 1] = g[i + 1]
    OBVIOUS
  <2>2. CASE i = 0
    BY <1>3, <1>4, <2>1, <2>2
  <2>3. CASE i # 0
    <3>1. i \in 1 .. n /\ (i + 1) - 1 = i /\ i + 1 # 1
      BY <2>1, <2>3
    <3>2. f[i] = g[i]
      BY <1>5, <3>1
    <3> QED BY <1>3, <1>4, <2>1, <3>1, <3>2
  <2> QED BY <2>2, <2>3
<1> HIDE DEF N
<1>6. \A i \in Nat : i \in N
  BY <1>1, <1>5, SetInduction
<1> QED BY <1>6 DEF N

\* If there is one for a sequence, there is one for the sequence with one more.
LEMMA FlattensAppend ==
  ASSUME NEW S, NEW s \in Seq(S), NEW x \in S, NEW f, Flattens(f, s)
  PROVE  \E g : Flattens(g, Append(s, x))
<1> DEFINE n == Len(s)
           t == Append(s, x)
           g == [i \in 1 .. n + 1 |-> IF i <= n THEN f[i] ELSE IF n = 0 THEN x ELSE f[n] \o x]
<1>1. n \in Nat /\ Len(t) = n + 1 /\ (\A i \in 1 .. n : t[i] = s[i]) /\ t[n + 1] = x
  BY AppendProperties, LenProperties
<1>2. \A i \in 1 .. n : f[i] = IF i = 1 THEN s[i] ELSE f[i - 1] \o s[i]
  BY <1>1 DEF Flattens
<1> HIDE DEF n, t
<1>3. ASSUME NEW i \in 1 .. n + 1
      PROVE  g[i] = IF i = 1 THEN t[i] ELSE g[i - 1] \o t[i]
  <2>1. CASE i <= n
    <3>1. i \in 1 .. n /\ g[i] = f[i] /\ t[i] = s[i]
      BY <1>1, <2>1
    <3>2. i # 1 => g[i - 1] = f[i - 1]
      BY <1>1, <2>1
    <3> QED BY <1>2, <3>1, <3>2
  <2>2. CASE i = n + 1
    <3>1. g[i] = (IF n = 0 THEN x ELSE f[n] \o x) /\ t[i] = x
      BY <1>1, <2>2
    <3>2. n # 0 => g[n] = f[n] /\ i - 1 = n /\ i # 1
      BY <1>1, <2>2
    <3>3. n = 0 => i = 1
      BY <2>2
    <3> QED BY <3>1, <3>2, <3>3
  <2> QED BY <1>1, <2>1, <2>2
<1>4. g = [i \in 1 .. n + 1 |-> IF i = 1 THEN t[i] ELSE g[i - 1] \o t[i]]
  <2>1. g = [i \in 1 .. n + 1 |-> g[i]]
    OBVIOUS
  <2> HIDE DEF g
  <2> QED BY <1>3, <2>1
<1>5. Flattens(g, t)
  <2> HIDE DEF g
  <2> QED BY <1>1, <1>4 DEF Flattens
<1> HIDE DEF g
<1> QED BY <1>5 DEF t

\* So there is one for every sequence.
LEMMA FlattensExists ==
  ASSUME NEW S, NEW s \in Seq(S)
  PROVE  \E f : Flattens(f, s)
<1> DEFINE T == {t \in Seq(S) : \E f : Flattens(f, t)}
<1>1. <<>> \in T
  <2> DEFINE f == [i \in {} |-> i]
  <2>1. 1 .. Len(<<>>) = {}
    OBVIOUS
  <2>2. Flattens(f, <<>>)
    BY <2>1 DEF Flattens
  <2>3. <<>> \in Seq(S)
    BY EmptySeq
  <2> HIDE DEF f
  <2> QED BY <2>2, <2>3
<1>2. \A t \in Seq(S) : \A x \in S : t \in T => Append(t, x) \in T
  BY FlattensAppend, AppendProperties
<1> HIDE DEF T
<1>3. s \in T
  BY <1>1, <1>2, SeqInduction
<1> QED BY <1>3 DEF T

\* The function that FlattenSeq chooses is like any other.
LEMMA FlattenIs ==
  ASSUME NEW S, NEW s \in Seq(S), s # <<>>, NEW f, Flattens(f, s)
  PROVE  FlattenSeq(s) = f[Len(s)]
<1> DEFINE g == CHOOSE g : Flattens(g, s)
<1>1. Flattens(g, s)
  OBVIOUS
<1>2. Len(s) \in Nat \ {0}
  BY EmptySeq
<1>3. FlattenSeq(s) = g[Len(s)]
  <2>1. FlattenSeq(s) = (CHOOSE h : h = [i \in 1 .. Len(s) |-> IF i = 1 THEN s[i] ELSE h[i - 1] \o s[i]])[Len(s)]
    BY <1>2 DEF FlattenSeq
  <2> QED BY <2>1 DEF Flattens
<1> HIDE DEF g
<1>4. \A i \in 1 .. Len(s) : f[i] = g[i]
  BY <1>1, <1>2, FlattensSame
<1> QED BY <1>2, <1>3, <1>4

\* What is flattened last comes last.
LEMMA FlattenAppend ==
  ASSUME NEW S, NEW s \in Seq(S), NEW x \in S
  PROVE  FlattenSeq(Append(s, x)) = IF s = <<>> THEN x ELSE FlattenSeq(s) \o x
<1> DEFINE n == Len(s)
           t == Append(s, x)
<1>1. n \in Nat /\ Len(t) = n + 1 /\ (\A i \in 1 .. n : t[i] = s[i]) /\ t[n + 1] = x
      /\ t \in Seq(S) /\ t # <<>>
  BY AppendProperties, LenProperties
<1>2. PICK f : Flattens(f, s)
  BY FlattensExists
<1>3. PICK g : Flattens(g, t)
  BY <1>1, FlattensExists
<1>4. FlattenSeq(t) = g[n + 1]
  <2> HIDE DEF t
  <2> QED BY <1>1, <1>3, FlattenIs
<1>5. g[n + 1] = IF n = 0 THEN x ELSE g[n] \o x
  <2> HIDE DEF n, t
  <2>1. n + 1 \in 1 .. Len(t) /\ (n + 1) - 1 = n /\ (n + 1 = 1 <=> n = 0)
    BY <1>1
  <2>2. g[n + 1] = IF n + 1 = 1 THEN t[n + 1] ELSE g[(n + 1) - 1] \o t[n + 1]
    BY <1>3, <2>1 DEF Flattens
  <2> QED BY <1>1, <2>1, <2>2
<1>6. CASE s = <<>>
  BY <1>4, <1>5, <1>6
<1>7. CASE s # <<>>
  <2>1. n # 0
    BY <1>7, EmptySeq
  <2>2. FlattenSeq(s) = f[n]
    BY <1>2, <1>7, FlattenIs
  <2>3. f[n] = g[n]
    <3> HIDE DEF n, t
    <3>1. \A i \in 1 .. n : f[i] = g[i]
      <4> USE DEF n
      <4>1. n <= Len(s) /\ n <= Len(t) /\ Len(t) \in Nat
        BY <1>1
      <4> QED BY <1>1, <1>2, <1>3, <4>1, FlattensSame
    <3> QED BY <1>1, <2>1, <3>1
  <2> QED BY <1>4, <1>5, <1>7, <2>1, <2>2, <2>3
<1> QED BY <1>6, <1>7

\* Nothing is flattened to nothing.
LEMMA FlattenEmpty == FlattenSeq(<<>>) = <<>>
  BY DEF FlattenSeq

\* Sequences over a set are flattened to a sequence over it.
LEMMA FlattenType ==
  ASSUME NEW S, NEW s \in Seq(Seq(S))
  PROVE  FlattenSeq(s) \in Seq(S)
<1> DEFINE T == {t \in Seq(Seq(S)) : FlattenSeq(t) \in Seq(S)}
<1>1. <<>> \in T
  BY FlattenEmpty, EmptySeq
<1>2. ASSUME NEW t \in Seq(Seq(S)), NEW x \in Seq(S), t \in T
      PROVE  Append(t, x) \in T
  BY <1>2, FlattenAppend, AppendProperties, ConcatProperties
<1> HIDE DEF T
<1>3. s \in T
  BY <1>1, <1>2, SeqInduction
<1> QED BY <1>3 DEF T

\* For sequences of sequences the empty one needs no case of its own.
LEMMA FlattenLast ==
  ASSUME NEW S, NEW s \in Seq(Seq(S)), NEW x \in Seq(S)
  PROVE  FlattenSeq(Append(s, x)) = FlattenSeq(s) \o x
<1>1. CASE s = <<>>
  BY <1>1, FlattenAppend, FlattenEmpty, ConcatEmptySeq
<1>2. CASE s # <<>>
  BY <1>2, FlattenAppend
<1> QED BY <1>1, <1>2

\* What is flattened in two parts is flattened.
LEMMA FlattenConcat ==
  ASSUME NEW S, NEW s \in Seq(Seq(S)), NEW t \in Seq(Seq(S))
  PROVE  FlattenSeq(s \o t) = FlattenSeq(s) \o FlattenSeq(t)
<1> DEFINE T == {u \in Seq(Seq(S)) : FlattenSeq(s \o u) = FlattenSeq(s) \o FlattenSeq(u)}
<1>1. <<>> \in T
  BY FlattenEmpty, FlattenType, EmptySeq, ConcatEmptySeq
<1>2. ASSUME NEW u \in Seq(Seq(S)), NEW x \in Seq(S), u \in T
      PROVE  Append(u, x) \in T
  <2>1. s \o u \in Seq(Seq(S))
    BY ConcatProperties
  <2>2. s \o Append(u, x) = Append(s \o u, x)
    <3>1. <<x>> \in Seq(Seq(S))
      OBVIOUS
    <3>2. Append(u, x) = u \o <<x>> /\ Append(s \o u, x) = (s \o u) \o <<x>>
      BY <2>1, AppendIsConcat
    <3> QED BY <3>1, <3>2, ConcatAssociative
  <2>3. FlattenSeq(Append(s \o u, x)) = FlattenSeq(s \o u) \o x
    BY <2>1, FlattenLast
  <2>4. FlattenSeq(Append(u, x)) = FlattenSeq(u) \o x
    BY FlattenLast
  <2>5. (FlattenSeq(s) \o FlattenSeq(u)) \o x = FlattenSeq(s) \o (FlattenSeq(u) \o x)
    <3>1. PICK a, b : a = FlattenSeq(s) /\ b = FlattenSeq(u)
      OBVIOUS
    <3>2. a \in Seq(S) /\ b \in Seq(S)
      BY <3>1, FlattenType
    <3>3. \A p, q, r \in Seq(S) : (p \o q) \o r = p \o (q \o r)
      BY SMTT(30), Associative
    <3>4. (a \o b) \o x = a \o (b \o x)
      BY <3>2, <3>3
    <3> QED BY <3>1, <3>4
  <2> QED BY <1>2, <2>2, <2>3, <2>4, <2>5, AppendProperties
<1> HIDE DEF T
<1>3. t \in T
  BY <1>1, <1>2, SeqInduction
<1> QED BY <1>3 DEF T

-----------------------------------------------------------------------------
(* What a sequence is made into, element by element, and flattened.        *)

Image(F, s) == [i \in DOMAIN s |-> F[s[i]]]

\* A name for this, which the provers would take apart at every use of a lemma.
IsMap(F, S, T) == F \in [S -> T]

\* The image is a sequence,
LEMMA ImageType ==
  ASSUME NEW S, NEW T, NEW F, IsMap(F, S, T), NEW s \in Seq(S)
  PROVE  Image(F, s) \in Seq(T)
<1>1. Len(s) \in Nat /\ DOMAIN s = 1 .. Len(s) /\ \A i \in 1 .. Len(s) : s[i] \in S
  BY LenProperties, ElementOfSeq
<1>2. Image(F, s) \in [1 .. Len(s) -> T]
  BY <1>1 DEF Image, IsMap
<1> QED BY <1>1, <1>2, SeqDef

\* as long as what it is the image of.
LEMMA ImageLen ==
  ASSUME NEW S, NEW T, NEW F, IsMap(F, S, T), NEW s \in Seq(S)
  PROVE  Len(Image(F, s)) = Len(s)
<1>1. Len(s) \in Nat /\ DOMAIN s = 1 .. Len(s)
  BY LenProperties
<1>2. Image(F, s) \in Seq(T)
  BY ImageType
<1>3. DOMAIN Image(F, s) = 1 .. Len(s)
  BY <1>1 DEF Image
<1>4. DOMAIN Image(F, s) = 1 .. Len(Image(F, s)) /\ Len(Image(F, s)) \in Nat
  BY <1>2, LenProperties
<1> QED BY <1>1, <1>3, <1>4

\* The image of a concatenation is the concatenation of the images.
LEMMA ImageConcat ==
  ASSUME NEW S, NEW T, NEW F, IsMap(F, S, T), NEW s \in Seq(S)
  PROVE  \A t \in Seq(S) : Image(F, s \o t) = Image(F, s) \o Image(F, t)
<1> SUFFICES ASSUME NEW t \in Seq(S)
             PROVE  Image(F, s \o t) = Image(F, s) \o Image(F, t)
  OBVIOUS
<1>1. /\ s \o t \in Seq(S) /\ Len(s \o t) = Len(s) + Len(t)
      /\ \A i \in 1 .. Len(s) + Len(t) :
           (s \o t)[i] = IF i <= Len(s) THEN s[i] ELSE t[i - Len(s)]
  BY ConcatProperties
<1>2. Image(F, s) \in Seq(T) /\ Image(F, t) \in Seq(T) /\ Image(F, s \o t) \in Seq(T)
  BY <1>1, ImageType
<1>10. \A u \in Seq(S) : Len(Image(F, u)) = Len(u)
  BY ImageLen
<1>3. /\ Len(Image(F, s)) = Len(s) /\ Len(Image(F, t)) = Len(t)
      /\ Len(Image(F, s \o t)) = Len(s \o t)
  BY <1>1, <1>10
<1>4. /\ Image(F, s) \o Image(F, t) \in Seq(T)
      /\ Len(Image(F, s) \o Image(F, t)) = Len(Image(F, s)) + Len(Image(F, t))
      /\ \A i \in 1 .. Len(Image(F, s)) + Len(Image(F, t)) :
           (Image(F, s) \o Image(F, t))[i] =
             IF i <= Len(Image(F, s)) THEN Image(F, s)[i]
             ELSE Image(F, t)[i - Len(Image(F, s))]
  BY <1>2, ConcatProperties
<1>5. PICK m \in Nat, n \in Nat : m = Len(s) /\ n = Len(t)
  BY LenProperties
<1>6. DOMAIN s = 1 .. m /\ DOMAIN t = 1 .. n /\ DOMAIN (s \o t) = 1 .. m + n
  BY <1>1, <1>5, LenProperties
<1>7. /\ \A i \in 1 .. m : Image(F, s)[i] = F[s[i]]
      /\ \A i \in 1 .. n : Image(F, t)[i] = F[t[i]]
      /\ \A i \in 1 .. m + n : Image(F, s \o t)[i] = F[(s \o t)[i]]
  BY <1>6 DEF Image
<1>8. ASSUME NEW i \in 1 .. m + n
      PROVE  Image(F, s \o t)[i] = (Image(F, s) \o Image(F, t))[i]
  <2>1. CASE i <= m
    <3>1. i \in 1 .. m
      BY <2>1
    <3> QED BY <1>1, <1>3, <1>4, <1>5, <1>7, <2>1, <3>1
  <2>2. CASE ~(i <= m)
    <3>1. i - m \in 1 .. n
      BY <2>2
    <3>2. (s \o t)[i] = t[i - m]
      BY <1>1, <1>5, <2>2
    <3>3. (Image(F, s) \o Image(F, t))[i] = Image(F, t)[i - m]
      BY <1>3, <1>4, <1>5, <2>2
    <3> QED BY <1>7, <3>1, <3>2, <3>3
  <2> QED BY <2>1, <2>2
<1>9. Len(Image(F, s \o t)) = Len(Image(F, s) \o Image(F, t)) /\ Len(Image(F, s \o t)) = m + n
  BY <1>1, <1>3, <1>4, <1>5
<1> QED BY <1>2, <1>4, <1>8, <1>9, SeqEqual

\* What is flattened of an image is a sequence,
LEMMA FlattenImageType ==
  ASSUME NEW S, NEW T, NEW F, IsMap(F, S, Seq(T)), NEW s \in Seq(S)
  PROVE  FlattenSeq(Image(F, s)) \in Seq(T)
<1>1. Image(F, s) \in Seq(Seq(T))
  BY ImageType
<1> QED BY <1>1, FlattenType

\* nothing for nothing,
LEMMA FlattenImageEmpty ==
  ASSUME NEW F
  PROVE  FlattenSeq(Image(F, <<>>)) = <<>>
<1>1. Image(F, <<>>) = <<>>
  BY DEF Image
<1> QED BY <1>1, FlattenEmpty

\* what is flattened in two parts,
LEMMA FlattenImageConcat ==
  ASSUME NEW S, NEW T, NEW F, IsMap(F, S, Seq(T)), NEW s \in Seq(S)
  PROVE  \A t \in Seq(S) :
           FlattenSeq(Image(F, s \o t)) = FlattenSeq(Image(F, s)) \o FlattenSeq(Image(F, t))
<1> SUFFICES ASSUME NEW t \in Seq(S)
             PROVE  FlattenSeq(Image(F, s \o t)) =
                      FlattenSeq(Image(F, s)) \o FlattenSeq(Image(F, t))
  OBVIOUS
<1>1. Image(F, s) \in Seq(Seq(T)) /\ Image(F, t) \in Seq(Seq(T))
  BY ImageType
<1>2. \A u \in Seq(S) : Image(F, s \o u) = Image(F, s) \o Image(F, u)
  BY ImageConcat
<1> QED BY <1>1, <1>2, FlattenConcat

\* and of one element its image.
LEMMA FlattenImageOne ==
  ASSUME NEW S, NEW T, NEW F, IsMap(F, S, Seq(T)), NEW x \in S
  PROVE  FlattenSeq(Image(F, <<x>>)) = F[x]
<1>1. F[x] \in Seq(T) /\ <<>> \in Seq(Seq(T))
  BY EmptySeq DEF IsMap
<1>2. Image(F, <<x>>) = <<F[x]>>
  BY DEF Image
<1>3. <<F[x]>> = Append(<<>>, F[x])
  OBVIOUS
<1>4. FlattenSeq(Append(<<>>, F[x])) = FlattenSeq(<<>>) \o F[x]
  BY <1>1, FlattenLast
<1> QED BY <1>1, <1>2, <1>3, <1>4, FlattenEmpty, ConcatEmptySeq

\* What comes last.
LEMMA FlattenImageLast ==
  ASSUME NEW S, NEW T, NEW F, IsMap(F, S, Seq(T)), NEW s \in Seq(S), NEW x \in S
  PROVE  FlattenSeq(Image(F, Append(s, x))) = FlattenSeq(Image(F, s)) \o F[x]
<1>1. Append(s, x) = s \o <<x>> /\ <<x>> \in Seq(S)
  BY AppendIsConcat
<1>2. \A u \in Seq(S) :
        FlattenSeq(Image(F, s \o u)) = FlattenSeq(Image(F, s)) \o FlattenSeq(Image(F, u))
  BY FlattenImageConcat
<1>3. FlattenSeq(Image(F, <<x>>)) = F[x]
  BY FlattenImageOne
<1> QED BY <1>1, <1>2, <1>3

\* What comes first, after n - 1 elements.
LEMMA FlattenImageFirst ==
  ASSUME NEW S, NEW T, NEW F, IsMap(F, S, Seq(T)), NEW s \in Seq(S), NEW n \in 1 .. Len(s)
  PROVE  FlattenSeq(Image(F, SubSeq(s, n, Len(s)))) =
           F[s[n]] \o FlattenSeq(Image(F, SubSeq(s, n + 1, Len(s))))
<1>1. Len(s) \in Nat /\ s[n] \in S
  BY LenProperties, ElementOfSeq
<1>2. SubSeq(s, n, Len(s)) = <<s[n]>> \o SubSeq(s, n + 1, Len(s))
  BY <1>1, SubSeqRecursiveFirst
<1>3. PICK t, h : t = SubSeq(s, n + 1, Len(s)) /\ h = <<s[n]>>
  OBVIOUS
<1>4. t \in Seq(S)
  <2>1. \A i \in n + 1 .. Len(s) : s[i] \in S
    BY <1>1, ElementOfSeq
  <2> QED BY <1>1, <1>3, <2>1, SubSeqProperties
<1>5. h \in Seq(S)
  BY <1>1, <1>3
<1>6. FlattenSeq(Image(F, <<s[n]>>)) = F[s[n]]
  BY <1>1, FlattenImageOne
<1>7. \A u \in Seq(S) :
        FlattenSeq(Image(F, h \o u)) = FlattenSeq(Image(F, h)) \o FlattenSeq(Image(F, u))
  BY <1>5, FlattenImageConcat
<1> QED BY <1>2, <1>3, <1>4, <1>6, <1>7
=============================================================================
