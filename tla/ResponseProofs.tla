--------------------------- MODULE ResponseProofs ---------------------------
(***************************************************************************)
(* Proofs about Response, for any requests and any number of changes of    *)
(* the file while one is answered.                                         *)
(*                                                                         *)
(* The stack of NormalizePath holds the names that stay: a name has as     *)
(* many of them after it as there are more names than ".." (Balanced).     *)
(* Until it is sent, response_ is blank or a page without an encoding      *)
(* (Underway), and what Process has checked of the file was so at some     *)
(* moment since the request came (Checked).                                *)
(***************************************************************************)
EXTENDS Response, SequenceLemmas, FiniteSetTheorems

-----------------------------------------------------------------------------
(* Counting.                                                               *)

\* How many numbers of a set lie between two.
Count(T, i, j) == Cardinality({k \in i + 1 .. j : k \in T})

LEMMA CountOneMore ==
  ASSUME NEW T, NEW i \in Nat, NEW j \in Nat, i <= j
  PROVE  /\ Count(T, i, j) \in Nat /\ Count(T, i, i) = 0
         /\ Count(T, i, j + 1) = IF j + 1 \in T THEN Count(T, i, j) + 1 ELSE Count(T, i, j)
<1> DEFINE A == {k \in i + 1 .. j : k \in T}  B == {k \in i + 1 .. j + 1 : k \in T}
<1>1. IsFiniteSet(A) /\ Cardinality(A) \in Nat
  <2>1. IsFiniteSet(i + 1 .. j)
    <3>1. i + 1 \in Int /\ j \in Int
      OBVIOUS
    <3> QED BY <3>1, FS_Interval
  <2>2. A \in SUBSET (i + 1 .. j)
    OBVIOUS
  <2> HIDE DEF A
  <2>3. IsFiniteSet(A)
    BY <2>1, <2>2, FS_Subset
  <2> QED BY <2>3, FS_CardinalityType
<1>2. {k \in i + 1 .. i : k \in T} = {}
  OBVIOUS
<1>3. j + 1 \notin A
  OBVIOUS
<1>4. CASE j + 1 \in T
  <2>1. B = A \cup {j + 1}
    BY <1>4
  <2> HIDE DEF A, B
  <2>2. Cardinality(A \cup {j + 1}) = Cardinality(A) + 1
    BY <1>1, <1>3, FS_AddElement
  <2> QED BY <1>1, <1>2, <1>4, <2>1, <2>2, FS_EmptySet DEF A, B, Count
<1>5. CASE j + 1 \notin T
  <2>1. B = A
    BY <1>5
  <2> HIDE DEF A, B
  <2> QED BY <1>1, <1>2, <1>5, <2>1, FS_EmptySet DEF A, B, Count
<1> QED BY <1>4, <1>5

\* One more component.
LEMMA NamesAndUps ==
  ASSUME NEW c, NEW i \in Nat, NEW j \in Nat, i <= j
  PROVE  /\ Names(c, i, j) \in Nat /\ Ups(c, i, j) \in Nat
         /\ Names(c, i, i) = 0 /\ Ups(c, i, i) = 0
         /\ Names(c, i, j + 1) = IF IsName(c[j + 1]) THEN Names(c, i, j) + 1 ELSE Names(c, i, j)
         /\ Ups(c, i, j + 1) = IF c[j + 1] = ".." THEN Ups(c, i, j) + 1 ELSE Ups(c, i, j)
<1> DEFINE N == {k \in Nat : IsName(c[k])}  U == {k \in Nat : c[k] = ".."}
<1>1. /\ i + 1 .. i \subseteq Nat /\ i + 1 .. j \subseteq Nat
      /\ i + 1 .. j + 1 \subseteq Nat /\ j + 1 \in Nat
  OBVIOUS
<1>2. /\ Names(c, i, i) = Count(N, i, i) /\ Names(c, i, j) = Count(N, i, j)
      /\ Names(c, i, j + 1) = Count(N, i, j + 1)
  <2>1. /\ {k \in i + 1 .. i : IsName(c[k])} = {k \in i + 1 .. i : k \in N}
        /\ {k \in i + 1 .. j : IsName(c[k])} = {k \in i + 1 .. j : k \in N}
        /\ {k \in i + 1 .. j + 1 : IsName(c[k])} = {k \in i + 1 .. j + 1 : k \in N}
    BY <1>1
  <2> QED BY <2>1 DEF Names, Count
<1>3. /\ Ups(c, i, i) = Count(U, i, i) /\ Ups(c, i, j) = Count(U, i, j)
      /\ Ups(c, i, j + 1) = Count(U, i, j + 1)
  <2>1. /\ {k \in i + 1 .. i : c[k] = ".."} = {k \in i + 1 .. i : k \in U}
        /\ {k \in i + 1 .. j : c[k] = ".."} = {k \in i + 1 .. j : k \in U}
        /\ {k \in i + 1 .. j + 1 : c[k] = ".."} = {k \in i + 1 .. j + 1 : k \in U}
    BY <1>1
  <2> QED BY <2>1 DEF Ups, Count
<1>4. (j + 1 \in N <=> IsName(c[j + 1])) /\ (j + 1 \in U <=> c[j + 1] = "..")
  BY <1>1
<1> HIDE DEF N, U
<1>5. /\ Count(N, i, j) \in Nat /\ Count(N, i, i) = 0
      /\ Count(N, i, j + 1) = IF j + 1 \in N THEN Count(N, i, j) + 1 ELSE Count(N, i, j)
  BY CountOneMore
<1>6. /\ Count(U, i, j) \in Nat /\ Count(U, i, i) = 0
      /\ Count(U, i, j + 1) = IF j + 1 \in U THEN Count(U, i, j) + 1 ELSE Count(U, i, j)
  BY CountOneMore
<1> QED BY <1>2, <1>3, <1>4, <1>5, <1>6

\* Finite sets of positions.
LEMMA Positions ==
  ASSUME NEW n \in Nat, NEW S \in SUBSET (1 .. n)
  PROVE  IsFiniteSet(S) /\ Cardinality(S) \in Nat /\ (Cardinality(S) = 0 <=> S = {})
<1>1. IsFiniteSet(1 .. n)
  BY FS_Interval
<1>2. IsFiniteSet(S)
  BY <1>1, FS_Subset
<1> QED BY <1>2, FS_CardinalityType, FS_EmptySet

After(S, i) == Cardinality({k \in S : k > i})

\* A later position.
LEMMA PlaceAdd ==
  ASSUME NEW n \in Nat, NEW S \in SUBSET (1 .. n), NEW m \in Nat, m > n
  PROVE  /\ Cardinality(S \cup {m}) = Cardinality(S) + 1
         /\ Place(S \cup {m}, m) = Cardinality(S) + 1 /\ After(S \cup {m}, m) = 0
         /\ \A i \in S : /\ Place(S \cup {m}, i) = Place(S, i)
                         /\ After(S \cup {m}, i) = After(S, i) + 1
                         /\ After(S, i) \in Nat
<1> DEFINE T == S \cup {m}
<1>1. IsFiniteSet(S) /\ Cardinality(S) \in Nat /\ m \notin S
  <2>1. m \notin S
    OBVIOUS
  <2> QED BY <2>1, Positions
<1>2. Cardinality(T) = Cardinality(S) + 1
  BY <1>1, FS_AddElement
<1>3. Place(T, m) = Cardinality(S) + 1 /\ After(T, m) = 0
  <2>1. {k \in T : k <= m} = T /\ {k \in T : k > m} = {}
    <3>1. \A k \in T : k <= m /\ ~(k > m)
      OBVIOUS
    <3> HIDE DEF T
    <3> QED BY <3>1
  <2> QED BY <1>2, <2>1, FS_EmptySet DEF Place, After
<1>4. ASSUME NEW i \in S
      PROVE  Place(T, i) = Place(S, i) /\ After(T, i) = After(S, i) + 1 /\ After(S, i) \in Nat
  <2> DEFINE A == {k \in S : k > i}
  <2>1. {k \in T : k <= i} = {k \in S : k <= i} /\ {k \in T : k > i} = A \cup {m} /\ m \notin A
    BY <1>4
  <2>2. A \in SUBSET (1 .. n)
    OBVIOUS
  <2> HIDE DEF A, T
  <2>3. IsFiniteSet(A) /\ Cardinality(A) \in Nat
    BY <2>2, Positions
  <2>4. Cardinality(A \cup {m}) = Cardinality(A) + 1
    BY <2>1, <2>3, FS_AddElement
  <2>5. After(S, i) = Cardinality(A) /\ After(T, i) = Cardinality(A \cup {m})
    BY <2>1 DEF After, A
  <2>6. Place(T, i) = Place(S, i)
    BY <2>1 DEF Place
  <2> QED BY <2>3, <2>4, <2>5, <2>6
<1> HIDE DEF T
<1> QED BY <1>2, <1>3, <1>4 DEF T

\* The last position is taken away.
LEMMA PlaceDrop ==
  ASSUME NEW n \in Nat, NEW S \in SUBSET (1 .. n), NEW m \in S, \A i \in S : i <= m
  PROVE  /\ Cardinality(S \ {m}) = Cardinality(S) - 1 /\ Cardinality(S) >= 1
         /\ Place(S, m) = Cardinality(S) /\ After(S, m) = 0
         /\ \A i \in S \ {m} : /\ Place(S \ {m}, i) = Place(S, i)
                               /\ After(S \ {m}, i) = After(S, i) - 1
                               /\ After(S, i) \in Nat /\ After(S, i) >= 1
<1> DEFINE R == S \ {m}
<1>1. m \in Nat /\ m - 1 \in Nat /\ m > m - 1 /\ R \in SUBSET (1 .. m - 1) /\ R \cup {m} = S
  OBVIOUS
<1> HIDE DEF R
<1>2. PICK l \in Nat : l = m - 1
  BY <1>1
<1>3. /\ Cardinality(S) = Cardinality(R) + 1
      /\ Place(S, m) = Cardinality(R) + 1 /\ After(S, m) = 0
      /\ \A i \in R : /\ Place(S, i) = Place(R, i)
                      /\ After(S, i) = After(R, i) + 1 /\ After(R, i) \in Nat
  <2>1. R \in SUBSET (1 .. l) /\ m > l /\ m \in Nat
    BY <1>1, <1>2
  <2>2. /\ Cardinality(R \cup {m}) = Cardinality(R) + 1
        /\ Place(R \cup {m}, m) = Cardinality(R) + 1 /\ After(R \cup {m}, m) = 0
        /\ \A i \in R : /\ Place(R \cup {m}, i) = Place(R, i)
                        /\ After(R \cup {m}, i) = After(R, i) + 1 /\ After(R, i) \in Nat
    BY <2>1, PlaceAdd
  <2> QED BY <1>1, <2>2
<1>4. Cardinality(R) \in Nat
  BY <1>1, <1>2, Positions
<1>5. \A i \in R : /\ Place(R, i) = Place(S, i) /\ After(R, i) = After(S, i) - 1
                   /\ After(S, i) \in Nat /\ After(S, i) >= 1
  BY <1>3
<1>6. Cardinality(R) = Cardinality(S) - 1 /\ Cardinality(S) >= 1 /\ Place(S, m) = Cardinality(S)
  BY <1>3, <1>4
<1> QED BY ONLY <1>3, <1>5, <1>6 DEF R

\* A set of positions that is not empty has a last one.
LEMMA LastPosition ==
  ASSUME NEW n \in Nat, NEW S \in SUBSET (1 .. n), S # {}
  PROVE  \E m \in S : \A i \in S : i <= m
<1> DEFINE T == {n - i : i \in S}
<1>1. T \in SUBSET Nat /\ T # {}
  <2>1. \A i \in S : n - i \in Nat
    OBVIOUS
  <2>2. PICK i \in S : TRUE
    OBVIOUS
  <2> QED BY <2>1, <2>2
<1>2. PICK x \in T : \A y \in T : x <= y
  <2> HIDE DEF T
  <2> QED BY <1>1, Least
<1>3. PICK m \in S : x = n - m
  OBVIOUS
<1>4. \A i \in S : n - i \in T
  OBVIOUS
<1>5. \A i \in S : n - m <= n - i
  BY <1>2, <1>3, <1>4
<1>6. \A i \in S : i <= m
  <2> HIDE DEF T
  <2> TAKE i \in S
  <2>1. n - m <= n - i /\ i \in Int /\ m \in Int
    BY <1>5
  <2> QED BY <2>1
<1> QED BY <1>6

-----------------------------------------------------------------------------
(* The names that stay.                                                    *)

Balanced(c, n) ==
  \A i \in Stay(c, n) : Names(c, i, n) - Ups(c, i, n) = After(Stay(c, n), i)

LEMMA StayPositions ==
  ASSUME NEW c, NEW n \in Nat
  PROVE  Stay(c, n) \in SUBSET (1 .. n)
BY DEF Stay

\* With one more component a name stays if it did and is not taken back now.
LEMMA StaysOn ==
  ASSUME NEW c, NEW n \in Nat
  PROVE  /\ \A i \in 1 .. n : i \in Stay(c, n + 1) <=>
                 i \in Stay(c, n) /\ Ups(c, i, n + 1) <= Names(c, i, n + 1)
         /\ n + 1 \in Stay(c, n + 1) <=> IsName(c[n + 1])
<1>1. ASSUME NEW i \in 1 .. n
      PROVE  i \in Stay(c, n + 1) <=>
               i \in Stay(c, n) /\ Ups(c, i, n + 1) <= Names(c, i, n + 1)
  <2>1. i \in 1 .. n + 1 /\ i .. n + 1 = (i .. n) \cup {n + 1}
    OBVIOUS
  <2> QED BY <2>1 DEF Stay
<1>2. n + 1 \in Stay(c, n + 1) <=> IsName(c[n + 1])
  <2>1. n + 1 \in 1 .. n + 1 /\ n + 1 .. n + 1 = {n + 1} /\ n + 1 \in Nat
    OBVIOUS
  <2>2. Names(c, n + 1, n + 1) = 0 /\ Ups(c, n + 1, n + 1) = 0
    <3>1. PICK m \in Nat : m = n + 1
      BY <2>1
    <3>2. m <= m
      OBVIOUS
    <3>3. Names(c, m, m) = 0 /\ Ups(c, m, m) = 0
      BY <3>2, NamesAndUps
    <3> QED BY <3>1, <3>3
  <2>3. 0 <= 0
    OBVIOUS
  <2> QED BY <2>1, <2>2, <2>3 DEF Stay
<1> QED BY <1>1, <1>2

\* A name is added, ".." takes the last one away, and the balance is kept.
LEMMA StayStep ==
  ASSUME NEW c, NEW n \in Nat, Balanced(c, n)
  PROVE  /\ Balanced(c, n + 1)
         /\ IsName(c[n + 1]) => Stay(c, n + 1) = Stay(c, n) \cup {n + 1}
         /\ c[n + 1] \in {"", "."} => Stay(c, n + 1) = Stay(c, n)
         /\ c[n + 1] = ".." =>
              IF Stay(c, n) = {} THEN Stay(c, n + 1) = {}
              ELSE \E m \in Stay(c, n) : /\ \A i \in Stay(c, n) : i <= m
                                         /\ Stay(c, n + 1) = Stay(c, n) \ {m}
<1> DEFINE S == Stay(c, n)  T == Stay(c, n + 1)  x == c[n + 1]
<1>1. S \in SUBSET (1 .. n) /\ T \in SUBSET (1 .. n + 1) /\ n + 1 \notin S
  <2>1. S \in SUBSET (1 .. n)
    BY StayPositions
  <2>2. n + 1 \notin S
    BY <2>1
  <2>3. T \in SUBSET (1 .. n + 1)
    BY StayPositions
  <2> QED BY <2>1, <2>2, <2>3
<1>2. /\ \A i \in 1 .. n : i \in T <=> i \in S /\ Ups(c, i, n + 1) <= Names(c, i, n + 1)
      /\ n + 1 \in T <=> IsName(x)
  BY StaysOn
<1>3. \A i \in 1 .. n :
        /\ Names(c, i, n) \in Nat /\ Ups(c, i, n) \in Nat
        /\ Names(c, i, n + 1) = IF IsName(x) THEN Names(c, i, n) + 1 ELSE Names(c, i, n)
        /\ Ups(c, i, n + 1) = IF x = ".." THEN Ups(c, i, n) + 1 ELSE Ups(c, i, n)
  <2> TAKE i \in 1 .. n
  <2>1. i \in Nat /\ i <= n
    OBVIOUS
  <2> QED BY <2>1, NamesAndUps
<1>4. \A i \in S : Ups(c, i, n) <= Names(c, i, n)
  BY DEF Stay
<1>5. \A i \in S : Names(c, i, n) - Ups(c, i, n) = After(S, i)
  BY DEF Balanced
<1>6. \A i \in 1 .. n + 1 : i \in 1 .. n \/ i = n + 1
  OBVIOUS
<1>7. IsName(x) <=> x \notin {"", "."} /\ x # ".."
  BY DEF IsName
<1>8. \A i \in 1 .. n : Names(c, i, n + 1) \in Int /\ Ups(c, i, n + 1) \in Int
  BY <1>3
<1>9. (\A i \in T : Names(c, i, n + 1) - Ups(c, i, n + 1) = After(T, i)) => Balanced(c, n + 1)
  BY DEF Balanced
<1> HIDE DEF S, T, x
<1>10. CASE IsName(x)
  <2>1. T = S \cup {n + 1}
    <3>1. ASSUME NEW i \in S PROVE i \in T
      <4>1. i \in 1 .. n
        BY <1>1
      <4>2. /\ Names(c, i, n) \in Nat /\ Ups(c, i, n) \in Nat
            /\ Names(c, i, n + 1) = Names(c, i, n) + 1 /\ Ups(c, i, n + 1) = Ups(c, i, n)
        BY <1>3, <1>7, <1>10, <4>1
      <4>3. Ups(c, i, n + 1) <= Names(c, i, n + 1)
        BY <1>4, <4>2
      <4> QED BY <1>2, <4>1, <4>3
    <3>2. \A i \in T : i \in S \/ i = n + 1
      BY <1>1, <1>2, <1>6
    <3> QED BY <1>2, <1>10, <3>1, <3>2
  <2>2. PICK m \in Nat : m = n + 1 /\ m > n
    OBVIOUS
  <2>3. /\ After(T, m) = 0
        /\ \A i \in S : After(T, i) = After(S, i) + 1 /\ After(S, i) \in Nat
    <3>1. S \in SUBSET (1 .. n) /\ T = S \cup {m}
      BY <1>1, <2>1, <2>2
    <3> QED BY ONLY n \in Nat, <2>2, <3>1, PlaceAdd
  <2>4. ASSUME NEW i \in T PROVE Names(c, i, n + 1) - Ups(c, i, n + 1) = After(T, i)
    <3>1. CASE i \in S
      <4>1. i \in 1 .. n
        BY <1>1, <3>1
      <4>2. /\ Names(c, i, n) \in Nat /\ Ups(c, i, n) \in Nat
            /\ Names(c, i, n + 1) = Names(c, i, n) + 1 /\ Ups(c, i, n + 1) = Ups(c, i, n)
        BY <1>3, <1>7, <1>10, <4>1
      <4>3. After(T, i) = After(S, i) + 1 /\ Names(c, i, n) - Ups(c, i, n) = After(S, i)
        BY <1>5, <2>3, <3>1
      <4> QED BY <4>2, <4>3
    <3>2. CASE i = m
      <4>1. Names(c, m, m) = 0 /\ Ups(c, m, m) = 0
        <5>1. m <= m
          OBVIOUS
        <5> QED BY <5>1, NamesAndUps
      <4> QED BY <2>2, <2>3, <3>2, <4>1
    <3> QED BY <2>1, <2>2, <3>1, <3>2
  <2> QED BY <1>7, <1>9, <1>10, <2>1, <2>4 DEF S, T, x
<1>11. CASE x \in {"", "."}
  <2>1. T = S
    <3>1. \A i \in 1 .. n : i \in S => Ups(c, i, n + 1) <= Names(c, i, n + 1)
      BY <1>3, <1>4, <1>7, <1>11
    <3>2. n + 1 \notin T
      BY <1>2, <1>7, <1>11
    <3> QED BY <1>1, <1>2, <1>6, <3>1, <3>2
  <2>2. \A i \in T : Names(c, i, n + 1) - Ups(c, i, n + 1) = After(T, i)
    BY <1>1, <1>3, <1>5, <1>7, <1>11, <2>1
  <2> QED BY <1>7, <1>9, <1>11, <2>1, <2>2 DEF S, T, x
<1>12. CASE x = ".."
  <2>1. n + 1 \notin T
    BY <1>2, <1>7, <1>12
  <2>2. \A i \in 1 .. n : i \in T <=> i \in S /\ Ups(c, i, n) + 1 <= Names(c, i, n)
    BY <1>2, <1>3, <1>7, <1>12
  <2>3. CASE S = {}
    <3>1. T = {}
      BY <1>1, <1>6, <2>1, <2>2, <2>3
    <3> QED BY <1>7, <1>9, <1>12, <2>3, <3>1 DEF S, T, x
  <2>4. CASE S # {}
    <3>1. PICK m \in S : \A i \in S : i <= m
      BY <1>1, <2>4, LastPosition
    <3>2. /\ After(S, m) = 0
          /\ \A i \in S \ {m} : /\ After(S \ {m}, i) = After(S, i) - 1
                                /\ After(S, i) \in Nat /\ After(S, i) >= 1
      BY <1>1, <3>1, PlaceDrop
    <3>3. m \notin T
      BY <1>1, <1>3, <1>5, <2>2, <3>2
    <3>4. \A i \in S \ {m} : i \in T
      BY <1>1, <1>3, <1>5, <2>2, <3>2
    <3>5. T = S \ {m}
      BY <1>1, <1>6, <2>1, <2>2, <3>3, <3>4
    <3>6. ASSUME NEW i \in T PROVE Names(c, i, n + 1) - Ups(c, i, n + 1) = After(T, i)
      <4>1. i \in 1 .. n /\ i \in S \ {m}
        BY <1>1, <3>5
      <4>2. Names(c, i, n + 1) = Names(c, i, n) /\ Ups(c, i, n + 1) = Ups(c, i, n) + 1
        BY <1>3, <1>7, <1>12, <4>1
      <4>3. After(T, i) = After(S, i) - 1 /\ Names(c, i, n) - Ups(c, i, n) = After(S, i)
        BY <1>5, <3>2, <3>5, <4>1
      <4> QED BY <1>3, <3>2, <4>1, <4>2, <4>3
    <3> QED BY <1>7, <1>9, <1>12, <2>4, <3>1, <3>5, <3>6 DEF S, T, x
  <2> QED BY <2>3, <2>4
<1> QED BY <1>7, <1>10, <1>11, <1>12

-----------------------------------------------------------------------------
(* The stack of NormalizePath.                                             *)

Walks(f, c, n) == f = [i \in 0 .. n |-> IF i = 0 THEN <<>> ELSE Enter(f[i - 1], c[i])]

LEMMA WalkExists ==
  ASSUME NEW c
  PROVE  \A n \in Nat : \E f : Walks(f, c, n)
<1> DEFINE N == {n \in Nat : \E f : Walks(f, c, n)}
<1>1. 0 \in N
  <2>1. 0 .. 0 = {0}
    OBVIOUS
  <2>2. PICK f : f = [i \in {0} |-> <<>>]
    OBVIOUS
  <2>3. Walks(f, c, 0)
    BY <2>1, <2>2 DEF Walks
  <2> QED BY <2>3
<1>2. ASSUME NEW n \in Nat, n \in N PROVE n + 1 \in N
  <2>1. PICK f : Walks(f, c, n)
    BY <1>2
  <2>2. \A i \in 0 .. n : f[i] = IF i = 0 THEN <<>> ELSE Enter(f[i - 1], c[i])
    BY <2>1 DEF Walks
  <2>3. PICK x : x = Enter(f[n], c[n + 1])
    OBVIOUS
  <2> DEFINE g == [i \in 0 .. n + 1 |-> IF i <= n THEN f[i] ELSE x]
  <2>4. ASSUME NEW i \in 0 .. n + 1
        PROVE  g[i] = IF i = 0 THEN <<>> ELSE Enter(g[i - 1], c[i])
    <3>1. CASE i <= n
      <4>1. i \in 0 .. n /\ g[i] = f[i] /\ (i # 0 => g[i - 1] = f[i - 1])
        BY <3>1
      <4> HIDE DEF g
      <4> QED BY <2>2, <4>1
    <3>2. CASE ~(i <= n)
      <4>1. i = n + 1 /\ i - 1 = n /\ i # 0
        BY <3>2
      <4>2. g[i] = x /\ g[n] = f[n]
        BY <3>2
      <4> HIDE DEF g
      <4> QED BY <2>3, <4>1, <4>2
    <3> QED BY <3>1, <3>2
  <2>5. g = [i \in 0 .. n + 1 |-> g[i]]
    OBVIOUS
  <2> HIDE DEF g
  <2>6. Walks(g, c, n + 1)
    BY <2>4, <2>5 DEF Walks
  <2> QED BY <2>6
<1> HIDE DEF N
<1>3. \A n \in Nat : n \in N
  BY <1>1, <1>2, SetInduction
<1> QED BY <1>3 DEF N

\* Components; the provers do not know that a string in quotes is in STRING.
Parts == STRING \cup {"..", "%2e%2e", "x", "NUL"}

\* What is on the stack after n components are the names that stay.
LEMMA EnterSpells ==
  ASSUME NEW c, NEW n \in Nat, c[n + 1] \in Parts, Balanced(c, n),
         NEW p \in Seq(Parts), Spells(p, c, Stay(c, n))
  PROVE  /\ Enter(p, c[n + 1]) \in Seq(Parts)
         /\ Spells(Enter(p, c[n + 1]), c, Stay(c, n + 1))
<1> DEFINE S == Stay(c, n)  T == Stay(c, n + 1)  x == c[n + 1]
<1>1. /\ IsName(x) => T = S \cup {n + 1}
      /\ x \in {"", "."} => T = S
      /\ x = ".." => IF S = {} THEN T = {}
                     ELSE \E m \in S : (\A i \in S : i <= m) /\ T = S \ {m}
  BY StayStep
<1>2. S \in SUBSET (1 .. n) /\ Cardinality(S) \in Nat /\ (Cardinality(S) = 0 <=> S = {})
  BY StayPositions, Positions
<1>3. /\ Len(p) \in Nat /\ Len(p) = Cardinality(S)
      /\ \A k \in 1 .. Len(p) : \E i \in S : Place(S, i) = k /\ p[k] = c[i]
  BY LenProperties DEF Spells
<1>4. IsName(x) <=> x \notin {"", "."} /\ x # ".."
  BY DEF IsName
<1> HIDE DEF S, T
<1> SUFFICES Enter(p, x) \in Seq(Parts) /\ Spells(Enter(p, x), c, T)
  BY DEF T
<1>5. CASE IsName(x)
  <2>1. PICK m \in Nat : m = n + 1 /\ m > n
    OBVIOUS
  <2>2. T = S \cup {m} /\ c[m] = x
    BY <1>1, <1>5, <2>1
  <2>3. /\ Cardinality(T) = Cardinality(S) + 1 /\ Place(T, m) = Cardinality(S) + 1
        /\ \A i \in S : Place(T, i) = Place(S, i)
    <3>1. /\ Cardinality(S \cup {m}) = Cardinality(S) + 1
          /\ Place(S \cup {m}, m) = Cardinality(S) + 1
          /\ \A i \in S : Place(S \cup {m}, i) = Place(S, i)
      <4>1. S \in SUBSET (1 .. n) /\ n \in Nat /\ m \in Nat /\ m > n
        BY <1>2, <2>1
      <4> QED BY ONLY <4>1, PlaceAdd
    <3> QED BY <2>2, <3>1
  <2>4. Enter(p, x) = Append(p, x)
    BY <1>4, <1>5 DEF Enter
  <2>5. /\ Append(p, x) \in Seq(Parts) /\ Len(Append(p, x)) = Len(p) + 1
        /\ \A k \in 1 .. Len(p) : Append(p, x)[k] = p[k]
        /\ Append(p, x)[Len(p) + 1] = x
    BY AppendProperties
  <2> DEFINE q == Append(p, x)
  <2> HIDE DEF q, x
  <2>6. ASSUME NEW k \in 1 .. Len(p) + 1
        PROVE  \E i \in T : Place(T, i) = k /\ q[k] = c[i]
    <3>1. CASE k \in 1 .. Len(p)
      <4>1. PICK i \in S : Place(S, i) = k /\ p[k] = c[i]
        BY <1>3, <3>1
      <4>2. i \in T /\ Place(T, i) = k /\ q[k] = c[i]
        BY <2>2, <2>3, <2>5, <3>1, <4>1 DEF q
      <4> QED BY <4>2
    <3>2. CASE k = Len(p) + 1
      <4>1. m \in T /\ Place(T, m) = k /\ q[k] = c[m]
        BY <1>3, <2>2, <2>3, <2>5, <3>2 DEF q
      <4> QED BY <4>1
    <3> QED BY <1>3, <3>1, <3>2
  <2>7. Len(q) = Cardinality(T) /\ Len(q) = Len(p) + 1
    BY <1>3, <2>3, <2>5 DEF q
  <2>8. Spells(q, c, T)
    BY <2>6, <2>7 DEF Spells
  <2> QED BY <2>4, <2>5, <2>8 DEF q
<1>6. CASE x \in {"", "."}
  BY <1>1, <1>6 DEF Enter, S
<1>7. CASE x = ".."
  <2>1. Enter(p, x) = IF p = <<>> THEN p ELSE Front(p)
    BY <1>7 DEF Enter
  <2>2. p = <<>> <=> S = {}
    BY <1>2, <1>3, EmptySeq
  <2>3. CASE S = {}
    BY <1>1, <1>7, <2>1, <2>2, <2>3 DEF S
  <2>4. CASE S # {}
    <3>1. PICK m \in S : (\A i \in S : i <= m) /\ T = S \ {m}
      BY <1>1, <1>7, <2>4
    <3>2. /\ Cardinality(T) = Cardinality(S) - 1 /\ Cardinality(S) >= 1
          /\ Place(S, m) = Cardinality(S)
          /\ \A i \in T : Place(T, i) = Place(S, i)
      BY <1>2, <3>1, PlaceDrop
    <3>3. /\ Front(p) \in Seq(Parts) /\ Len(Front(p)) = Len(p) - 1
          /\ \A k \in 1 .. Len(p) - 1 : Front(p)[k] = p[k]
      <4>1. PICK l \in Nat : l = Len(p) - 1
        BY <1>3, <3>2
      <4>2. 0 <= l /\ l <= Len(p) /\ 0 + 1 = 1 /\ l - 0 = l
        BY <1>3, <4>1
      <4>3. /\ SubSeq(p, 0 + 1, l) \in Seq(Parts) /\ Len(SubSeq(p, 0 + 1, l)) = l - 0
            /\ \A k \in 1 .. l - 0 : SubSeq(p, 0 + 1, l)[k] = p[0 + k]
        BY <4>2, Slice
      <4>4. \A k \in 1 .. l : 0 + k = k
        OBVIOUS
      <4> QED BY <4>1, <4>2, <4>3, <4>4 DEF Front
    <3> DEFINE q == Front(p)
    <3> HIDE DEF q
    <3>4. Len(q) = Cardinality(T) /\ Len(q) = Len(p) - 1
      BY <1>3, <3>2, <3>3 DEF q
    <3>5. ASSUME NEW k \in 1 .. Len(q)
          PROVE  \E i \in T : Place(T, i) = k /\ q[k] = c[i]
      <4>1. k \in 1 .. Len(p) /\ k \in 1 .. Len(p) - 1 /\ k # Len(p)
        BY <1>3, <3>4
      <4>2. PICK i \in S : Place(S, i) = k /\ p[k] = c[i]
        BY <1>3, <4>1
      <4>3. i # m
        BY <1>3, <3>2, <4>1, <4>2
      <4>4. i \in T /\ Place(T, i) = k /\ q[k] = c[i]
        BY <3>1, <3>2, <3>3, <4>1, <4>2, <4>3 DEF q
      <4> QED BY <4>4
    <3>6. Spells(q, c, T)
      BY <3>4, <3>5 DEF Spells
    <3> QED BY <2>1, <2>2, <2>4, <3>3, <3>6 DEF q
  <2> QED BY <2>3, <2>4
<1> QED BY <1>4, <1>5, <1>6, <1>7

\* NormalizePath is that stack.
LEMMA NormalizeSpells ==
  ASSUME NEW c \in Seq(Parts)
  PROVE  NormalizePath(c) \in Seq(Parts) /\ Spells(NormalizePath(c), c, Stay(c, Len(c)))
<1> DEFINE f == CHOOSE f : Walks(f, c, Len(c))
<1>1. Len(c) \in Nat /\ \A i \in 1 .. Len(c) : c[i] \in Parts
  BY LenProperties, ElementOfSeq
<1>2. Walks(f, c, Len(c))
  BY <1>1, WalkExists
<1>3. NormalizePath(c) = f[Len(c)]
  <2>1. NormalizePath(c) =
          (CHOOSE h : h = [i \in 0 .. Len(c) |-> IF i = 0 THEN <<>> ELSE Enter(h[i - 1], c[i])])[Len(c)]
    BY DEF NormalizePath
  <2> QED BY <2>1 DEF Walks
<1> HIDE DEF f
<1>4. \A i \in 0 .. Len(c) : f[i] = IF i = 0 THEN <<>> ELSE Enter(f[i - 1], c[i])
  BY <1>2 DEF Walks
<1> DEFINE N == {n \in Nat : n <= Len(c) =>
                   /\ f[n] \in Seq(Parts) /\ Spells(f[n], c, Stay(c, n)) /\ Balanced(c, n)}
<1>5. 0 \in N
  <2>1. Stay(c, 0) = {}
    BY DEF Stay
  <2>2. f[0] = <<>>
    BY <1>1, <1>4
  <2>3. Spells(<<>>, c, {}) /\ Balanced(c, 0)
    BY <2>1, FS_EmptySet DEF Spells, Balanced
  <2> QED BY <2>1, <2>2, <2>3, EmptySeq
<1>6. ASSUME NEW n \in Nat, n \in N PROVE n + 1 \in N
  <2> SUFFICES ASSUME n + 1 <= Len(c)
               PROVE  /\ f[n + 1] \in Seq(Parts) /\ Spells(f[n + 1], c, Stay(c, n + 1))
                      /\ Balanced(c, n + 1)
    <3>1. n + 1 \in Nat
      OBVIOUS
    <3> QED BY <3>1, Zenon
  <2>1. n <= Len(c) /\ n + 1 \in 0 .. Len(c) /\ n + 1 \in 1 .. Len(c) /\ (n + 1) - 1 = n /\ n + 1 # 0
    BY <1>1
  <2>2. f[n] \in Seq(Parts) /\ Spells(f[n], c, Stay(c, n)) /\ Balanced(c, n)
    BY <1>6, <2>1
  <2>3. f[n + 1] = Enter(f[n], c[n + 1])
    BY <1>4, <2>1
  <2>4. c[n + 1] \in Parts
    BY <1>1, <2>1
  <2>5. Enter(f[n], c[n + 1]) \in Seq(Parts) /\ Spells(Enter(f[n], c[n + 1]), c, Stay(c, n + 1))
    BY <2>2, <2>4, EnterSpells
  <2>6. Balanced(c, n + 1)
    BY <2>2, StayStep
  <2> QED BY <2>3, <2>5, <2>6
<1> HIDE DEF N
<1>7. \A n \in Nat : n \in N
  BY <1>5, <1>6, SetInduction
<1>8. Len(c) \in N /\ Len(c) <= Len(c)
  BY <1>1, <1>7
<1> QED BY <1>3, <1>8 DEF N

LEMMA ShortSeq ==
  ASSUME NEW S
  PROVE  \A x, y \in S : <<x>> \in Seq(S) /\ <<x, y>> \in Seq(S)
OBVIOUS

\* A path has the type of its components.
LEMMA DecodedType ==
  ASSUME NEW target \in Seq(STRING)
  PROVE  Decoded(target) \in Seq(Parts)
<1> DEFINE s == [i \in DOMAIN target |-> UrlDecode(target[i])]
<1>1. \A token \in STRING : UrlDecode(token) \in Seq(Parts)
  <2>1. /\ <<"..">> \in Seq(Parts) /\ <<"%2e%2e">> \in Seq(Parts)
        /\ <<"x", "..">> \in Seq(Parts) /\ <<"NUL">> \in Seq(Parts)
    <3>1. ".." \in Parts /\ "%2e%2e" \in Parts /\ "x" \in Parts /\ "NUL" \in Parts
      BY DEF Parts
    <3> QED BY <3>1, ShortSeq, Zenon
  <2>2. \A token \in STRING : <<token>> \in Seq(Parts)
    <3>1. \A token \in STRING : token \in Parts
      BY DEF Parts
    <3> QED BY <3>1, ShortSeq, Zenon
  <2> TAKE token \in STRING
  <2>3. CASE token \in {"%2e%2e", "%252e%252e", "x%2f..", "%00"}
    BY <2>1, <2>3 DEF UrlDecode
  <2>4. CASE token \notin {"%2e%2e", "%252e%252e", "x%2f..", "%00"}
    BY <2>2, <2>4 DEF UrlDecode
  <2> QED BY <2>3, <2>4
<1>2. Len(target) \in Nat /\ DOMAIN target = 1 .. Len(target) /\ \A i \in 1 .. Len(target) : target[i] \in STRING
  BY LenProperties, ElementOfSeq
<1>3. s \in [1 .. Len(target) -> Seq(Parts)]
  BY <1>1, <1>2
<1>4. s \in Seq(Seq(Parts))
  BY <1>2, <1>3, FunctionIsSeq
<1> HIDE DEF s
<1>5. FlattenSeq(s) \in Seq(Parts)
  BY <1>4, FlattenType
<1> QED BY <1>5 DEF Decoded, s

\* Each position has a place of its own.
LEMMA PlaceOf ==
  ASSUME NEW n \in Nat, NEW S \in SUBSET (1 .. n), NEW i \in S
  PROVE  /\ Place(S, i) \in 1 .. Cardinality(S)
         /\ \A j \in S : Place(S, i) = Place(S, j) => i = j
<1> DEFINE A(j) == {k \in S : k <= j}
<1>1. \A j \in S : j \in Nat
  OBVIOUS
<1>2. \A j \in S : j \in A(j) /\ A(j) \in SUBSET S
  BY <1>1
<1>3. IsFiniteSet(S) /\ Cardinality(S) \in Nat
  BY Positions
<1>4. ASSUME NEW j \in S
      PROVE  /\ IsFiniteSet(A(j)) /\ Cardinality(A(j)) \in Nat
             /\ Cardinality(A(j)) <= Cardinality(S) /\ Cardinality(A(j)) # 0
  <2> DEFINE B == A(j)
  <2>1. B \in SUBSET S /\ j \in B
    BY <1>2
  <2> HIDE DEF B
  <2>2. IsFiniteSet(B) /\ Cardinality(B) <= Cardinality(S)
    BY <1>3, <2>1, FS_Subset
  <2>3. Cardinality(B) \in Nat /\ Cardinality(B) # 0
    BY <2>1, <2>2, FS_CardinalityType, FS_EmptySet
  <2> QED BY <2>2, <2>3 DEF B
<1>5. \A j \in S : Place(S, j) = Cardinality(A(j))
  BY DEF Place
<1>6. ASSUME NEW j \in S, NEW k \in S, j < k PROVE Cardinality(A(j)) # Cardinality(A(k))
  <2> DEFINE B == A(j)  C == A(k)
  <2>1. B \in SUBSET C /\ k \in C /\ k \notin B
    <3>1. j \in Nat /\ k \in Nat /\ j < k
      BY <1>1, <1>6
    <3>2. \A x \in S : x <= j => x <= k
      BY <1>1, <3>1
    <3>3. k <= k /\ ~(k <= j)
      BY <3>1
    <3> QED BY <3>2, <3>3
  <2>2. IsFiniteSet(C)
    BY <1>4
  <2> HIDE DEF B, C
  <2>3. Cardinality(C) # Cardinality(B)
    BY <2>1, <2>2, FS_Subset
  <2> QED BY <2>3 DEF B, C
<1> HIDE DEF A
<1>7. ASSUME NEW j \in S, Place(S, i) = Place(S, j) PROVE i = j
  <2>1. ~(i < j) /\ ~(j < i)
    BY <1>5, <1>6, <1>7
  <2> QED BY <1>1, <2>1
<1>8. Place(S, i) \in 1 .. Cardinality(S)
  BY <1>3, <1>4, <1>5
<1> QED BY <1>7, <1>8

\* What SafePath decides about the path is what Due says of it.
LEMMA SafePathIsDue ==
  ASSUME request.target \in Seq(STRING)
  PROVE  /\ SafePath(request.target) = {} <=> Due(file) = 403
         /\ \A p \in SafePath(request.target) :
              Spells(p, Components, Kept) /\ (p = <<>> <=> Kept = {})
<1> DEFINE c == Components  S == Kept  p == NormalizePath(c)
<1>1. c \in Seq(Parts) /\ Len(c) \in Nat /\ S = Stay(c, Len(c)) /\ c = Decoded(request.target)
  BY DecodedType, LenProperties DEF Components, Kept
<1>2. p \in Seq(Parts) /\ Spells(p, c, S) /\ S \in SUBSET (1 .. Len(c))
  BY <1>1, NormalizeSpells, StayPositions
<1> HIDE DEF c, S, p
<1>3. /\ Len(p) \in Nat /\ Len(p) = Cardinality(S) /\ DOMAIN p = 1 .. Len(p)
      /\ \A k \in 1 .. Len(p) : \E i \in S : Place(S, i) = k /\ p[k] = c[i]
  BY <1>2, LenProperties DEF Spells
<1>4. p = <<>> <=> S = {}
  BY <1>1, <1>2, <1>3, Positions, EmptySeq
<1>5. ToSet(p) = {c[i] : i \in S}
  <2>1. ASSUME NEW k \in 1 .. Len(p) PROVE \E i \in S : p[k] = c[i]
    BY <1>3
  <2>2. ASSUME NEW i \in S PROVE \E k \in 1 .. Len(p) : p[k] = c[i]
    <3>1. Place(S, i) \in 1 .. Len(p) /\ \A j \in S : Place(S, i) = Place(S, j) => i = j
      BY <1>1, <1>2, <1>3, PlaceOf
    <3>2. PICK j \in S : Place(S, j) = Place(S, i) /\ p[Place(S, i)] = c[j]
      BY <1>3, <3>1
    <3> QED BY <3>1, <3>2
  <2>3. ToSet(p) = {p[k] : k \in 1 .. Len(p)}
    BY <1>3 DEF ToSet
  <2>4. \A y : y \in {p[k] : k \in 1 .. Len(p)} => y \in {c[i] : i \in S}
    BY <2>1
  <2>5. \A y : y \in {c[i] : i \in S} => y \in {p[k] : k \in 1 .. Len(p)}
    BY <2>2
  <2> QED BY <2>3, <2>4, <2>5
<1>6. HasDots(p) <=> \E i \in S : HasDots(<<c[i]>>)
  <2>1. \A y : HasDots(<<y>>) <=> y \in {"..", "a..b"}
    BY DEF HasDots, ToSet
  <2> QED BY <1>5, <2>1 DEF HasDots
<1>7. SafePath(request.target) =
        IF "NUL" \in ToSet(c) \/ HasDots(p) \/ (p # <<>> /\ file \in {"none", "outside"})
        THEN {} ELSE {p}
  BY <1>1 DEF SafePath, p
<1>8. Due(file) = 403 <=> \/ "NUL" \in ToSet(c)
                          \/ \E i \in S : HasDots(<<c[i]>>)
                          \/ S # {} /\ file \in {"none", "outside"}
  BY DEF Due, c, S
<1>9. SafePath(request.target) = {} <=> Due(file) = 403
  BY <1>4, <1>6, <1>7, <1>8
<1>10. \A q \in SafePath(request.target) : q = p
  BY <1>7
<1> QED BY <1>2, <1>4, <1>9, <1>10 DEF c, S

-----------------------------------------------------------------------------
(* Responses and their headers.                                            *)

Type == "Content-Type"
Length == "Content-Length"
Encoding == "Content-Encoding"
Keeping == "Connection"

Resp(status, headers, body, keep, set) ==
  [ status |-> status, headers |-> headers, body |-> body,
    keepAlive |-> keep, contentLengthSet |-> set ]

NoHeaders == [k \in {} |-> ""]

LEMMA HeaderSet ==
  ASSUME NEW h, NEW key, NEW value
  PROVE  /\ DOMAIN With(h, key, value) = DOMAIN h \cup {key}
         /\ With(h, key, value)[key] = value
         /\ \A k \in DOMAIN h : k # key => With(h, key, value)[k] = h[k]
BY DEF With

\* TRUE as a value.
Yes == TRUE

LEMMA HeaderSetter ==
  \A st, h, b, keep, set, key, value :
    SetHeader(Resp(st, h, b, keep, set), key, value) = Resp(st, With(h, key, value), b, keep, set)
BY DEF SetHeader, Resp

\* What the methods do to the fields.
LEMMA Setters ==
  ASSUME NEW st, NEW h, NEW b, NEW keep, NEW set
  PROVE  /\ \A code : SetStatus(Resp(st, h, b, keep, set), code) = Resp(code, h, b, keep, set)
         /\ \A k : SetKeepAlive(Resp(st, h, b, keep, set), k) = Resp(st, h, b, k, set)
         /\ \A key, value : SetHeader(Resp(st, h, b, keep, set), key, value)
                              = Resp(st, With(h, key, value), b, keep, set)
         /\ \A c : SetBody(Resp(st, h, b, keep, set), c)
                     = Resp(st, With(h, Length, c.size), c, keep, Yes)
         /\ ClearBody(Resp(st, h, b, keep, set)) = Resp(st, h, NoBody, keep, set)
<1>1. \A code : SetStatus(Resp(st, h, b, keep, set), code) = Resp(code, h, b, keep, set)
  BY DEF SetStatus, Resp
<1>2. \A k : SetKeepAlive(Resp(st, h, b, keep, set), k) = Resp(st, h, b, k, set)
  BY DEF SetKeepAlive, Resp
<1>3. \A key, value : SetHeader(Resp(st, h, b, keep, set), key, value)
                        = Resp(st, With(h, key, value), b, keep, set)
  BY HeaderSetter
<1>4. ASSUME NEW c
      PROVE  SetBody(Resp(st, h, b, keep, set), c) = Resp(st, With(h, Length, c.size), c, keep, Yes)
  <2> DEFINE f == With(h, Length, c.size)
  <2>1. SetHeader(Resp(st, h, b, keep, set), "Content-Length", c.size) = Resp(st, f, b, keep, set)
    BY <1>3 DEF Length
  <2> HIDE DEF f
  <2>2. \A r : [r EXCEPT !.body = c, !.contentLengthSet = Yes]
                = [[r EXCEPT !.body = c] EXCEPT !.contentLengthSet = Yes]
    OBVIOUS
  <2>3. [Resp(st, f, b, keep, set) EXCEPT !.body = c] = Resp(st, f, c, keep, set)
    BY DEF Resp
  <2>4. [Resp(st, f, c, keep, set) EXCEPT !.contentLengthSet = Yes] = Resp(st, f, c, keep, Yes)
    BY DEF Resp
  <2>5. SetBody(Resp(st, h, b, keep, set), c)
          = [SetHeader(Resp(st, h, b, keep, set), "Content-Length", c.size)
               EXCEPT !.body = c, !.contentLengthSet = Yes]
    BY Zenon DEF SetBody, Yes
  <2> QED BY <2>1, <2>2, <2>3, <2>4, <2>5 DEF f
<1>5. ClearBody(Resp(st, h, b, keep, set)) = Resp(st, h, NoBody, keep, set)
  BY DEF ClearBody, Resp
<1> QED BY <1>1, <1>2, <1>3, <1>4, <1>5

LEMMA BlankIs == Blank = Resp(200, NoHeaders, NoBody, FALSE, FALSE)
BY DEF Blank, Resp, NoHeaders

\* The headers that are added when it is sent.
Filled(g, h, b, keep, set) ==
  /\ DOMAIN g = DOMAIN h \cup {Type, Length, Keeping}
  /\ Type \in DOMAIN h => g[Type] = h[Type]
  /\ g[Length] = IF set THEN h[Length] ELSE b.size
  /\ g[Keeping] = IF keep THEN "keep-alive" ELSE "close"

LEMMA DefaultHeaders ==
  \A st, h, b : \A keep, set \in BOOLEAN :
    (set => Length \in DOMAIN h) =>
      \E g : /\ BuildDefaultHeaders(Resp(st, h, b, keep, set)) = Resp(st, g, b, keep, set)
             /\ Filled(g, h, b, keep, set)
<1> SUFFICES ASSUME NEW st, NEW h, NEW b, NEW keep \in BOOLEAN, NEW set \in BOOLEAN,
                    set => Length \in DOMAIN h
             PROVE  \E g : /\ BuildDefaultHeaders(Resp(st, h, b, keep, set)) = Resp(st, g, b, keep, set)
                           /\ Filled(g, h, b, keep, set)
  OBVIOUS
<1> DEFINE r == Resp(st, h, b, keep, set)
           word == IF keep THEN "keep-alive" ELSE "close"
           h1 == IF Type \in DOMAIN h THEN h ELSE With(h, Type, "text/plain")
           h2 == IF set THEN h1 ELSE With(h1, Length, b.size)
           g == With(h2, Keeping, word)
           typed == IF Type \in DOMAIN r.headers THEN r ELSE SetHeader(r, Type, "text/plain")
           sized == IF r.contentLengthSet THEN typed ELSE SetHeader(typed, Length, r.body.size)
<1>1. r.headers = h /\ r.contentLengthSet = set /\ r.keepAlive = keep /\ r.body = b
  BY DEF Resp
<1>2. BuildDefaultHeaders(r) = SetHeader(sized, Keeping, IF r.keepAlive THEN "keep-alive" ELSE "close")
  BY DEF BuildDefaultHeaders, Type, Length, Keeping
<1>3. \A f, key, value : SetHeader(Resp(st, f, b, keep, set), key, value)
                          = Resp(st, With(f, key, value), b, keep, set)
  BY HeaderSetter
<1> HIDE DEF r
<1>4. typed = Resp(st, h1, b, keep, set)
  <2>1. CASE Type \in DOMAIN h
    BY <1>1, <2>1 DEF r
  <2>2. CASE Type \notin DOMAIN h
    <3>1. SetHeader(r, Type, "text/plain") = Resp(st, With(h, Type, "text/plain"), b, keep, set)
      BY <1>3, Zenon DEF r
    <3> QED BY <1>1, <2>2, <3>1
  <2> QED BY <2>1, <2>2
<1> HIDE DEF h1, typed
<1>5. sized = Resp(st, h2, b, keep, set)
  <2>1. CASE set
    BY <1>1, <1>4, <2>1, Zenon
  <2>2. CASE ~set
    <3>1. SetHeader(typed, Length, b.size) = Resp(st, With(h1, Length, b.size), b, keep, set)
      BY <1>3, <1>4, Zenon
    <3> QED BY <1>1, <2>2, <3>1, Zenon
  <2> QED BY <2>1, <2>2
<1> HIDE DEF h2, sized, word
<1>6. BuildDefaultHeaders(r) = Resp(st, g, b, keep, set)
  BY <1>1, <1>2, <1>3, <1>5, Zenon DEF word
<1>7. Type # Length /\ Type # Keeping /\ Length # Keeping
  BY DEF Type, Length, Keeping
<1> HIDE DEF g
<1>9. /\ DOMAIN h1 = DOMAIN h \cup {Type}
      /\ Type \in DOMAIN h => h1 = h
      /\ Length \in DOMAIN h => h1[Length] = h[Length]
  <2>1. CASE Type \in DOMAIN h
    BY <2>1 DEF h1
  <2>2. CASE Type \notin DOMAIN h
    <3>1. h1 = With(h, Type, "text/plain")
      BY <2>2 DEF h1
    <3>2. /\ DOMAIN h1 = DOMAIN h \cup {Type}
          /\ \A k \in DOMAIN h : k # Type => h1[k] = h[k]
      BY <3>1 DEF With
    <3> QED BY <1>7, <2>2, <3>2
  <2> QED BY <2>1, <2>2
<1>10. /\ DOMAIN h2 = DOMAIN h \cup {Type, Length}
       /\ h2[Type] = h1[Type]
       /\ set => h2[Length] = h[Length]
       /\ ~set => h2[Length] = b.size
  <2>1. CASE set
    <3>1. h2 = h1 /\ Length \in DOMAIN h
      BY <2>1 DEF h2
    <3> QED BY <1>9, <2>1, <3>1
  <2>2. CASE ~set
    <3>1. h2 = With(h1, Length, b.size)
      BY <2>2 DEF h2
    <3>2. /\ DOMAIN h2 = DOMAIN h1 \cup {Length} /\ h2[Length] = b.size
          /\ \A k \in DOMAIN h1 : k # Length => h2[k] = h1[k]
      BY <3>1 DEF With
    <3> QED BY <1>7, <1>9, <2>2, <3>2
  <2> QED BY <2>1, <2>2
<1>11. /\ DOMAIN g = DOMAIN h2 \cup {Keeping} /\ g[Keeping] = word
       /\ \A k \in DOMAIN h2 : k # Keeping => g[k] = h2[k]
  <2>1. g = With(h2, Keeping, word)
    BY DEF g
  <2> QED BY <2>1 DEF With
<1>12. /\ DOMAIN g = DOMAIN h \cup {Type, Length, Keeping}
       /\ Type \in DOMAIN h => g[Type] = h[Type]
       /\ set => g[Length] = h[Length]
       /\ ~set => g[Length] = b.size
  BY <1>7, <1>9, <1>10, <1>11
<1>13. Filled(g, h, b, keep, set)
  BY <1>11, <1>12 DEF Filled, word
<1> QED BY <1>6, <1>13 DEF r

\* What is sent of a response.
LEMMA Sent ==
  ASSUME NEW st, NEW h, NEW b, NEW keep \in BOOLEAN, NEW set \in BOOLEAN,
         set => Length \in DOMAIN h,
         Send(Resp(st, h, b, keep, set))
  PROVE  /\ wire'.status = st /\ wire'.body = b /\ wire'.sendfile = FALSE
         /\ response'.headers = wire'.headers
         /\ DOMAIN wire'.headers = DOMAIN h \cup {Type, Length, Keeping}
         /\ Type \in DOMAIN h => GetHeader(wire', Type) = h[Type]
         /\ GetHeader(wire', Length) = IF set THEN h[Length] ELSE b.size
         /\ GetHeader(wire', Keeping) = IF keep THEN "keep-alive" ELSE "close"
<1>1. PICK g : /\ BuildDefaultHeaders(Resp(st, h, b, keep, set)) = Resp(st, g, b, keep, set)
               /\ Filled(g, h, b, keep, set)
  BY DefaultHeaders
<1>2. response' = Resp(st, g, b, keep, set) /\ wire' = Serialize(response')
  BY <1>1 DEF Send
<1>3. response'.headers = g /\ response'.status = st /\ response'.body = b
  BY <1>2 DEF Resp
<1>4. /\ wire'.status = st /\ wire'.body = b /\ wire'.sendfile = FALSE /\ wire'.headers = g
  BY <1>2, <1>3 DEF Serialize
<1>5. Type \in DOMAIN g /\ Length \in DOMAIN g /\ Keeping \in DOMAIN g
  BY <1>1 DEF Filled
<1>6. \A k \in DOMAIN g : GetHeader(wire', k) = g[k]
  BY <1>4 DEF GetHeader
<1>7. /\ GetHeader(wire', Type) = g[Type] /\ GetHeader(wire', Length) = g[Length]
      /\ GetHeader(wire', Keeping) = g[Keeping]
  BY <1>5, <1>6
<1>8. GetHeader(wire', Length) = IF set THEN h[Length] ELSE b.size
  BY <1>1, <1>7 DEF Filled
<1> QED BY <1>1, <1>3, <1>4, <1>7, <1>8 DEF Filled

No == FALSE

\* A body that is not compressed.
Plain(of, size) == [of |-> of, size |-> size, zipped |-> No]

\* How an answer w comes out that is not a sendfile one.
Whole(w, st, of, keep) ==
  /\ w.status = st /\ w.sendfile = FALSE /\ w.body.of = of
  /\ DOMAIN w.headers \subseteq {Type, Length, Encoding, Keeping}
  /\ \/ w.body.zipped = FALSE /\ Encoding \notin DOMAIN w.headers
     \/ /\ w.body.zipped = TRUE /\ Encoding \in DOMAIN w.headers
        /\ request.gzip /\ ShouldCompress(GetHeader(w, Type))
  /\ GetHeader(w, Keeping) = IF keep THEN "keep-alive" ELSE "close"

\* A page, that is compressed where it can be.
LEMMA PageSent ==
  ASSUME NEW st, NEW h, NEW of, NEW size, NEW keep \in BOOLEAN,
         DOMAIN h = {Type, Length},
         NEW c \in Compressed(Resp(st, h, Plain(of, size), keep, Yes)), Send(c)
  PROVE  /\ Whole(wire', st, of, keep) /\ response'.headers = wire'.headers
         /\ size = 0 => wire'.body = Plain(of, size)
         /\ h[Length] = size => GetHeader(wire', Length) = wire'.body.size
<1> DEFINE b == Plain(of, size)  r == Resp(st, h, b, keep, Yes)
           z(n) == [of |-> of, size |-> n, zipped |-> Yes]
           k(n) == With(With(h, Length, n), Encoding, "gzip")
<1>1. Type # Length /\ Type # Encoding /\ Length # Encoding /\ Keeping \notin {Type, Length, Encoding}
  BY DEF Type, Length, Encoding, Keeping
<1>2. b.size = size /\ b.of = of /\ b.zipped = FALSE
  BY DEF Plain, No
<1>3. r.headers = h /\ r.body = b
  BY DEF Resp
<1>4. GetHeader(r, "Content-Type") = h[Type]
  BY <1>3 DEF GetHeader, Type
<1>5. Yes \in BOOLEAN /\ Yes
  BY DEF Yes
<1>6. ASSUME NEW n
      PROVE  SetHeader(SetBody(r, [r.body EXCEPT !.size = n, !.zipped = TRUE]), "Content-Encoding", "gzip")
               = Resp(st, k(n), z(n), keep, Yes)
  <2>1. [r.body EXCEPT !.size = n, !.zipped = TRUE] = z(n)
    <3>1. \A x : [x EXCEPT !.size = n, !.zipped = Yes] = [[x EXCEPT !.size = n] EXCEPT !.zipped = Yes]
      OBVIOUS
    <3>2. [Plain(of, size) EXCEPT !.size = n] = Plain(of, n)
      BY DEF Plain
    <3>3. [Plain(of, n) EXCEPT !.zipped = Yes] = z(n)
      BY DEF Plain
    <3>4. [r.body EXCEPT !.size = n, !.zipped = Yes] = z(n)
      BY <1>3, <3>1, <3>2, <3>3
    <3> QED BY <3>4, Zenon DEF Yes
  <2>2. z(n).size = n
    OBVIOUS
  <2> DEFINE y == z(n)
  <2>3. SetBody(r, y) = Resp(st, With(h, Length, y.size), y, keep, Yes)
    <3> HIDE DEF y, b
    <3> QED BY Setters
  <2> HIDE DEF b, y
  <2>4. SetHeader(Resp(st, With(h, Length, n), y, keep, Yes), Encoding, "gzip")
          = Resp(st, k(n), y, keep, Yes)
    BY HeaderSetter
  <2> QED BY <2>1, <2>2, <2>3, <2>4 DEF y, Encoding
<1>7. \/ c = r
      \/ /\ request.gzip /\ ShouldCompress(h[Type]) /\ size # 0
         /\ \E n \in {1, 3} : c = Resp(st, k(n), z(n), keep, Yes)
  <2>1. CASE ~request.gzip \/ ~ShouldCompress(h[Type]) \/ size = 0
    BY <1>2, <1>3, <1>4, <2>1 DEF Compressed
  <2>2. CASE request.gzip /\ ShouldCompress(h[Type]) /\ size # 0
    <3>1. \/ c = r
          \/ \E n \in {1, 3} :
               c = SetHeader(SetBody(r, [r.body EXCEPT !.size = n, !.zipped = TRUE]),
                             "Content-Encoding", "gzip")
      BY <1>2, <1>3, <1>4, <2>2 DEF Compressed
    <3> QED BY <1>6, <2>2, <3>1
  <2> QED BY <2>1, <2>2
<1>8. CASE c = r
  <2>1. Send(Resp(st, h, b, keep, Yes))
    BY <1>8
  <2> HIDE DEF b
  <2>2. /\ wire'.status = st /\ wire'.body = b /\ wire'.sendfile = FALSE
        /\ response'.headers = wire'.headers
        /\ DOMAIN wire'.headers = DOMAIN h \cup {Type, Length, Keeping}
        /\ GetHeader(wire', Length) = h[Length]
        /\ GetHeader(wire', Keeping) = IF keep THEN "keep-alive" ELSE "close"
    BY <1>5, <2>1, Sent
  <2>3. Encoding \notin DOMAIN wire'.headers
    BY <1>1, <2>2
  <2> QED BY <1>2, <2>2, <2>3 DEF Whole, b
<1>9. ASSUME request.gzip, ShouldCompress(h[Type]), size # 0,
             NEW n \in {1, 3}, c = Resp(st, k(n), z(n), keep, Yes)
      PROVE  /\ Whole(wire', st, of, keep) /\ response'.headers = wire'.headers
             /\ GetHeader(wire', Length) = wire'.body.size
  <2> DEFINE f == k(n)  y == z(n)
  <2>1. /\ DOMAIN f = {Type, Length, Encoding} /\ f[Type] = h[Type] /\ f[Length] = n
    BY <1>1 DEF With
  <2>2. y.size = n /\ y.of = of /\ y.zipped = TRUE
    BY DEF Yes
  <2>3. Send(Resp(st, f, y, keep, Yes))
    BY <1>9
  <2> HIDE DEF f, y
  <2>4. /\ wire'.status = st /\ wire'.body = y /\ wire'.sendfile = FALSE
        /\ response'.headers = wire'.headers
        /\ DOMAIN wire'.headers = DOMAIN f \cup {Type, Length, Keeping}
        /\ GetHeader(wire', Type) = f[Type]
        /\ GetHeader(wire', Length) = f[Length]
        /\ GetHeader(wire', Keeping) = IF keep THEN "keep-alive" ELSE "close"
    BY <1>5, <2>1, <2>3, Sent
  <2>5. Encoding \in DOMAIN wire'.headers
    BY <2>1, <2>4
  <2> QED BY <1>9, <2>1, <2>2, <2>4, <2>5 DEF Whole
<1> QED BY <1>7, <1>8, <1>9

\* A response with no more than these two headers, and one with a page.
Ready(r, st) ==
  \E h, b, keep, set : r = Resp(st, h, b, keep, set) /\ DOMAIN h \subseteq {Type, Length}

Paged(r, st, of, size, keep) ==
  \E f : r = Resp(st, f, Plain(of, size), keep, Yes) /\ DOMAIN f = {Type, Length} /\ f[Length] = size

LEMMA PageMade ==
  ASSUME NEW r, NEW st, Ready(r, st), NEW of, NEW size, NEW type
  PROVE  /\ \E keep : Paged(SetHeader(SetBody(r, Plain(of, size)), Type, type), st, of, size, keep)
         /\ \E keep : Paged(SetBody(SetHeader(r, Type, type), Plain(of, size)), st, of, size, keep)
<1>1. PICK h, b, keep, set : r = Resp(st, h, b, keep, set) /\ DOMAIN h \subseteq {Type, Length}
  BY DEF Ready
<1> DEFINE p == Plain(of, size)
           f == With(With(h, Length, size), Type, type)
           g == With(With(h, Type, type), Length, size)
<1>2. p.size = size
  BY DEF Plain
<1> HIDE DEF p
<1>3. SetHeader(SetBody(r, p), Type, type) = Resp(st, f, p, keep, Yes)
  <2>1. SetBody(r, p) = Resp(st, With(h, Length, size), p, keep, Yes)
    BY <1>1, <1>2, Setters
  <2> QED BY <2>1, HeaderSetter
<1>4. SetBody(SetHeader(r, Type, type), p) = Resp(st, g, p, keep, Yes)
  <2>1. SetHeader(r, Type, type) = Resp(st, With(h, Type, type), b, keep, set)
    BY <1>1, HeaderSetter
  <2> DEFINE e == With(h, Type, type)
  <2> HIDE DEF e
  <2>2. SetBody(Resp(st, e, b, keep, set), p) = Resp(st, With(e, Length, size), p, keep, Yes)
    BY <1>2, Setters
  <2> QED BY <2>1, <2>2 DEF e
<1>5. /\ DOMAIN f = {Type, Length} /\ f[Length] = size
      /\ DOMAIN g = {Type, Length} /\ g[Length] = size
  <2>1. Type # Length
    BY DEF Type, Length
  <2> QED BY <1>1, <2>1 DEF With
<1> HIDE DEF f, g
<1>6. Paged(SetHeader(SetBody(r, p), Type, type), st, of, size, keep)
  BY <1>3, <1>5 DEF Paged, p
<1>7. Paged(SetBody(SetHeader(r, Type, type), p), st, of, size, keep)
  BY <1>4, <1>5 DEF Paged, p
<1> QED BY <1>6, <1>7 DEF p

LEMMA TextMade ==
  ASSUME NEW r, NEW st, Ready(r, st), NEW what
  PROVE  /\ \E keep : Paged(SetText(r, what), st, what, 2, keep)
         /\ \E keep : Paged(SetHtml(r, what), st, what, 2, keep)
<1>1. Page(what) = Plain(what, 2)
  BY Zenon DEF Page, Plain, No
<1>2. \A type : \E keep : Paged(SetBody(SetHeader(r, Type, type), Plain(what, 2)), st, what, 2, keep)
  BY PageMade
<1> QED BY <1>1, <1>2 DEF SetText, SetHtml, Type

LEMMA BecomesReady ==
  /\ Ready(Blank, 200)
  /\ \A r, st, code : Ready(r, st) => Ready(SetStatus(r, code), code)
  /\ \A r, st, of, size, keep : Paged(r, st, of, size, keep) => Ready(r, st)
  /\ \A r, st, of, size, keep, k :
       Paged(r, st, of, size, keep) => Paged(SetKeepAlive(r, k), st, of, size, k)
<1>1. Ready(Blank, 200)
  <2>1. DOMAIN NoHeaders \subseteq {Type, Length}
    BY DEF NoHeaders
  <2> QED BY <2>1, BlankIs, Zenon DEF Ready
<1>2. ASSUME NEW r, NEW st, NEW code, Ready(r, st)
      PROVE  Ready(SetStatus(r, code), code)
  <2>1. PICK h, b, keep, set : r = Resp(st, h, b, keep, set) /\ DOMAIN h \subseteq {Type, Length}
    BY <1>2 DEF Ready
  <2>2. SetStatus(r, code) = Resp(code, h, b, keep, set)
    BY <2>1, Setters
  <2> QED BY <2>1, <2>2 DEF Ready
<1>3. ASSUME NEW r, NEW st, NEW of, NEW size, NEW keep, Paged(r, st, of, size, keep)
      PROVE  Ready(r, st) /\ \A k : Paged(SetKeepAlive(r, k), st, of, size, k)
  <2>1. PICK f : /\ r = Resp(st, f, Plain(of, size), keep, Yes)
                 /\ DOMAIN f = {Type, Length} /\ f[Length] = size
    BY <1>3 DEF Paged
  <2>2. \A k : SetKeepAlive(r, k) = Resp(st, f, Plain(of, size), k, Yes)
    BY <2>1, Setters
  <2>3. Ready(r, st)
    BY <2>1 DEF Ready
  <2> QED BY <2>1, <2>2, <2>3 DEF Paged
<1> QED BY <1>1, <1>2, <1>3

\* A page is sent.
LEMMA Delivered ==
  ASSUME NEW r, NEW st, NEW of, NEW size, NEW keep \in BOOLEAN, Paged(r, st, of, size, keep),
         NEW c \in Compressed(r), Send(c)
  PROVE  /\ Whole(wire', st, of, keep) /\ response'.headers = wire'.headers
         /\ GetHeader(wire', Length) = wire'.body.size
<1>1. PICK f : /\ r = Resp(st, f, Plain(of, size), keep, Yes)
               /\ DOMAIN f = {Type, Length} /\ f[Length] = size
  BY DEF Paged
<1>2. c \in Compressed(Resp(st, f, Plain(of, size), keep, Yes))
  BY <1>1
<1> QED BY <1>1, <1>2, PageSent

LEMMA Itself == \A r : r \in Compressed(r)
BY DEF Compressed

\* Refuse, which sends what is not compressed.
LEMMA Refused ==
  ASSUME NEW code, NEW what, NEW st, Ready(response, st), Refuse(code, what)
  PROVE  /\ Whole(wire', code, what, FALSE) /\ response'.headers = wire'.headers
         /\ GetHeader(wire', Length) = wire'.body.size
<1> DEFINE r == SetKeepAlive(SetText(SetStatus(response, code), what), FALSE)
<1>1. Ready(SetStatus(response, code), code)
  BY BecomesReady
<1>2. PICK k : Paged(SetText(SetStatus(response, code), what), code, what, 2, k)
  BY <1>1, TextMade
<1>3. Paged(r, code, what, 2, FALSE)
  <2>1. \A keep : Paged(SetKeepAlive(SetText(SetStatus(response, code), what), keep), code, what, 2, keep)
    BY <1>2, BecomesReady
  <2> QED BY <2>1, Zenon
<1>4. r \in Compressed(r) /\ Send(r)
  BY Itself DEF Refuse
<1> HIDE DEF r
<1>5. FALSE \in BOOLEAN
  OBVIOUS
<1> QED BY <1>3, <1>4, <1>5, Delivered

\* Complete.
LEMMA Completed ==
  ASSUME NEW r, NEW st, NEW of, NEW size, NEW keep, Paged(r, st, of, size, keep), Complete(r),
         NEW k \in BOOLEAN, k = IsKeepAlive(request)
  PROVE  /\ response'.headers = wire'.headers
         /\ request.method = "HEAD" => (\E o : Whole(wire', st, o, k)) /\ wire'.body = NoBody
         /\ request.method # "HEAD" => /\ Whole(wire', st, of, k)
                                       /\ GetHeader(wire', Length) = wire'.body.size
<1> DEFINE q == SetKeepAlive(r, k)
<1>2. Paged(q, st, of, size, k)
  BY BecomesReady
<1>3. CASE request.method # "HEAD"
  <2>1. PICK c \in Compressed(q) : Send(c)
    BY <1>3 DEF Complete
  <2> HIDE DEF q
  <2> QED BY <1>2, <1>3, <2>1, Delivered
<1>4. CASE request.method = "HEAD"
  <2>1. PICK c \in Compressed(ClearBody(q)) : Send(c)
    BY <1>4 DEF Complete
  <2> HIDE DEF q
  <2>2. PICK f : q = Resp(st, f, Plain(of, size), k, Yes) /\ DOMAIN f = {Type, Length}
    BY <1>2 DEF Paged
  <2>3. NoBody = Plain("", 0)
    BY Zenon DEF NoBody, Plain, No
  <2>4. ClearBody(q) = Resp(st, f, Plain("", 0), k, Yes)
    <3>1. ClearBody(Resp(st, f, Plain(of, size), k, Yes)) = Resp(st, f, NoBody, k, Yes)
      BY Setters
    <3> QED BY <2>2, <2>3, <3>1
  <2>5. c \in Compressed(Resp(st, f, Plain("", 0), k, Yes))
    BY <2>1, <2>4
  <2>6. /\ Whole(wire', st, "", k) /\ response'.headers = wire'.headers
        /\ wire'.body = Plain("", 0)
    BY <2>1, <2>2, <2>5, PageSent
  <2> QED BY <1>4, <2>3, <2>6
<1> QED BY <1>3, <1>4

-----------------------------------------------------------------------------
(* The invariant.                                                          *)

Opening == {"fileSize", "exists", "isRegularFile", "readToZip", "open", "read"}

Underway ==
  /\ at \in {"idle", "parsed", "safePath", "sent", "closed"} \cup Opening
  /\ at # "idle" => request \in Requests /\ file \in held
  /\ at \in {"idle", "parsed", "safePath"} \cup (Opening \ {"read"}) => response = Blank
  /\ at = "read" => \E st : Ready(response, st)

Checked ==
  /\ at \in {"exists", "isRegularFile", "readToZip", "open"} => request.method # "HEAD"
  /\ at \in Opening =>
       /\ IF Kept = {} THEN path = <<"index.html">> ELSE Spells(path, Components, Kept)
       /\ \E t \in held : Due(t) # 403
  /\ at \in Opening \ {"fileSize"} => \E t \in held : Due(t) # 413

\* What only depends on the request stays while it does.
LEMMA SameRequest ==
  ASSUME request' = request
  PROVE  Components' = Components /\ Kept' = Kept /\ \A t : Due(t)' = Due(t)
<1>1. Components' = Components
  BY DEF Components
<1>2. Kept' = Kept
  BY <1>1 DEF Kept
<1> QED BY <1>1, <1>2 DEF Due

\* What Due says of the things there are.
LEMMA DueOf ==
  /\ Due("big") \in {403, 413}
  /\ \A t \in Things \ {"big"} : Due(t) # 413
  /\ (\E t : Due(t) # 403) => Due("big") # 403
  /\ \A t \in Things : Opens(t) => Due(t) \in {200, 403, 413}
  /\ \A t \in Things : ~Opens(t) => Due(t) \in {404, 403}
BY DEF Due, Things, Opens

LEMMA FramedWhen ==
  ASSUME TypeOK', at' = "sent", request' = request,
         NEW st, NEW of, NEW keep \in BOOLEAN, Whole(wire', st, of, keep),
         keep <=> IsKeepAlive(request) /\ st \notin {403, 413},
         request.method = "HEAD" => st \in {403, 413} \/ wire'.body = NoBody,
         request.method # "HEAD" => GetHeader(wire', Length) = wire'.body.size
  PROVE  Framed'
<1>1. IsKeepAlive(request') <=> IsKeepAlive(request)
  OBVIOUS
<1>2. /\ Header("Content-Length")' = GetHeader(wire', Length)
      /\ Header("Content-Type")' = GetHeader(wire', Type)
      /\ Header("Connection")' = GetHeader(wire', Keeping)
  BY Zenon DEF Header, Length, Type, Keeping
<1>3. (wire.body.zipped = ("Content-Encoding" \in DOMAIN wire.headers))'
  <2> DEFINE P == "Content-Encoding" \in DOMAIN wire'.headers
  <2>1. \/ wire'.body.zipped = FALSE /\ ~P
        \/ wire'.body.zipped = TRUE /\ P
    BY DEF Whole, Encoding
  <2> SUFFICES wire'.body.zipped = P
    OBVIOUS
  <2>2. P \in BOOLEAN
    OBVIOUS
  <2> HIDE DEF P
  <2>3. (P => P = TRUE) /\ (~P => P = FALSE)
    BY <2>2
  <2> QED BY <2>1, <2>3, Zenon
<1>4. (wire.body.zipped => request.gzip /\ ShouldCompress(Header("Content-Type")))'
  BY <1>2 DEF Whole
<1>5. (wire.sendfile => Header("Content-Length") = 0)'
  BY DEF Whole
<1>6. (Header("Connection") = IF IsKeepAlive(request) /\ wire.status \notin {403, 413}
                              THEN "keep-alive" ELSE "close")'
  BY <1>1, <1>2 DEF Whole
<1>7. (request.method = "HEAD" => wire.status \in {403, 413} \/ wire.body = NoBody)'
  BY DEF Whole
<1>8. (request.method # "HEAD" /\ ~wire.sendfile => Header("Content-Length") = wire.body.size)'
  BY <1>2
<1> QED BY <1>3, <1>4, <1>5, <1>6, <1>7, <1>8, Zenon DEF Framed

LEMMA ServedWhen ==
  ASSUME at' = "sent", request' = request, held' = held, file' = file,
         (held = {file} /\ ~failed') => wire'.status = Due(file),
         wire'.status \in {Due(t) : t \in held} \cup {200, 404},
         wire'.status = 200 => /\ wire'.body = NoBody \/ wire'.body.of \in held
                               /\ \A refusal \in {403, 413} : \E t \in held : Due(t) # refusal
  PROVE  Served'
<1>1. \A t : Due(t)' = Due(t)
  BY SameRequest
<1> QED BY <1>1 DEF Served, Opening

LEMMA Elsewhere ==
  ASSUME TypeOK', Checked', at' # "sent"
  PROVE  Framed' /\ Served'
BY DEF Framed, Served, Checked, Opening

LEMMA TargetOf ==
  ASSUME Underway, at # "idle"
  PROVE  IsRequest(request) /\ request.target \in Seq(STRING)
BY RequestAssumption DEF Underway, IsRequest

\* The steps that only look.
Look == NotRouted \/ Resolve \/ SizeFits \/ CheckExists \/ CheckRegular \/ OpenNot

LEMMA LookStep ==
  ASSUME TypeOK, Underway, Checked, Look
  PROVE  TypeOK' /\ Underway' /\ Checked'
<1>1. /\ request' = request /\ file' = file /\ held' = held /\ response' = response
      /\ at \in {"parsed", "safePath"} \cup (Opening \ {"read"})
      /\ at' \in {"safePath"} \cup Opening
      /\ failed' \in BOOLEAN
  BY DEF TypeOK, Look, NotRouted, Resolve, SizeFits, CheckExists, CheckRegular, OpenNot, OpenFails, Step,
         Environment, Opening
<1>2. TypeOK'
  BY <1>1 DEF TypeOK
<1>3. response' = Blank /\ Ready(response', 200)
  BY <1>1, BecomesReady DEF Underway
<1>4. Underway'
  BY <1>1, <1>3 DEF Underway, Opening
<1>5. Components' = Components /\ Kept' = Kept /\ \A t : Due(t)' = Due(t)
  BY <1>1, SameRequest
<1>6. file \in held /\ file \in Things /\ at # "idle"
  BY <1>1 DEF Underway, TypeOK, Opening
<1> SUFFICES Checked'
  BY <1>2, <1>4
<1>7. CASE NotRouted
  BY <1>7 DEF NotRouted, Step, Checked, Opening
<1>8. CASE Resolve
  <2>1. PICK p \in SafePath(request.target) : path' = IF p = <<>> THEN <<"index.html">> ELSE p
    BY <1>8 DEF Resolve
  <2>2. Due(file) # 403 /\ Spells(p, Components, Kept) /\ (p = <<>> <=> Kept = {})
    BY <1>6, <2>1, TargetOf, SafePathIsDue
  <2>3. at' = "fileSize"
    BY <1>8 DEF Resolve, Step
  <2> QED BY <1>1, <1>5, <1>6, <2>1, <2>2, <2>3 DEF Checked, Opening
<1>9. CASE SizeFits \/ CheckExists \/ CheckRegular \/ OpenNot
  <2>1. path' = path /\ at \in Opening \ {"read"} /\ at' \in Opening \ {"fileSize"}
    BY <1>9 DEF SizeFits, CheckExists, CheckRegular, OpenNot, Step, Opening
  <2>2. at' # "read" => request.method # "HEAD"
    BY <1>9 DEF SizeFits, CheckExists, CheckRegular, OpenNot, Step, Checked
  <2>3. \E t \in held : Due(t) # 413
    <3>1. CASE at = "fileSize"
      <4>1. file # "big"
        BY <1>9, <3>1 DEF SizeFits, CheckExists, CheckRegular, OpenNot, Step, StatSize, Limit
      <4> QED BY <1>6, <4>1, DueOf
    <3>2. CASE at # "fileSize"
      BY <2>1, <3>2 DEF Checked
    <3> QED BY <3>1, <3>2
  <2>4. /\ IF Kept = {} THEN path = <<"index.html">> ELSE Spells(path, Components, Kept)
        /\ \E t \in held : Due(t) # 403
    BY <2>1 DEF Checked
  <2>5. (IF Kept = {} THEN path = <<"index.html">> ELSE Spells(path, Components, Kept))'
    BY <1>5, <2>1, <2>4
  <2>6. (\E t \in held : Due(t) # 403)' /\ (\E t \in held : Due(t) # 413)'
    BY <1>1, <1>5, <2>3, <2>4
  <2> QED BY <1>1, <2>1, <2>2, <2>5, <2>6 DEF Checked, Opening
<1> QED BY <1>7, <1>8, <1>9 DEF Look

\* What is read to be compressed, or not there to be read.
LEMMA ZipStep ==
  ASSUME TypeOK, Underway, Checked, ReadToZip
  PROVE  TypeOK' /\ Underway' /\ Checked'
<1>1. /\ request' = request /\ file' = file /\ held' = held /\ path' = path
      /\ at = "readToZip" /\ at' = "read" /\ failed' \in BOOLEAN
  BY DEF TypeOK, ReadToZip, OpenSucceeds, OpenFails, Step, Environment
<1>2. Ready(response, 200)
  BY <1>1, BecomesReady DEF Underway, Opening
<1>3. \E st : Ready(response', st)
  <2>1. CASE response' = WithFile(response)
    <3>1. PICK size : Content(file) = Plain(file, size)
      BY Zenon DEF Content, Plain, No
    <3>2. Ready(SetStatus(response, 200), 200)
      BY <1>2, BecomesReady
    <3>3. WithFile(response) = SetHeader(SetBody(SetStatus(response, 200), Plain(file, size)), Type, GetMime(path))
      BY <3>1 DEF WithFile, Type
    <3>4. PICK keep : Paged(WithFile(response), 200, file, size, keep)
      BY <3>2, <3>3, PageMade
    <3>5. Ready(WithFile(response), 200)
      BY <3>4, BecomesReady
    <3> QED BY <2>1, <3>5
  <2>2. CASE response' = SetText(SetStatus(response, 404), "404 text")
    <3>1. Ready(SetStatus(response, 404), 404)
      BY <1>2, BecomesReady
    <3>2. PICK what : what = "404 text"
      OBVIOUS
    <3>3. PICK keep : Paged(SetText(SetStatus(response, 404), what), 404, what, 2, keep)
      BY <3>1, TextMade
    <3>4. Ready(SetText(SetStatus(response, 404), what), 404)
      BY <3>3, BecomesReady
    <3> QED BY <2>2, <3>2, <3>4
  <2> QED BY <2>1, <2>2 DEF ReadToZip
<1>4. DOMAIN response'.headers \subseteq {Type, Length}
  BY <1>3 DEF Ready, Resp
<1>5. TypeOK'
  BY <1>1, <1>4 DEF TypeOK, Type, Length
<1>6. Underway'
  BY <1>1, <1>3 DEF Underway, Opening
<1>7. Components' = Components /\ Kept' = Kept /\ \A t : Due(t)' = Due(t)
  BY <1>1, SameRequest
<1>8. Checked'
  BY <1>1, <1>7 DEF Checked, Opening
<1> QED BY <1>5, <1>6, <1>8

\* What is left of the invariant once an answer is sent.
LEMMA SentStep ==
  ASSUME TypeOK, Underway, at # "idle", at' = "sent", UNCHANGED Environment, failed' \in BOOLEAN,
         DOMAIN response'.headers \subseteq {Type, Length, Encoding, Keeping}
  PROVE  TypeOK' /\ Underway' /\ Checked'
<1>1. request' = request /\ file' = file /\ held' = held
  BY DEF Environment
<1>2. TypeOK'
  BY <1>1 DEF TypeOK, Type, Length, Encoding, Keeping
<1> QED BY <1>1, <1>2 DEF Underway, Checked, Opening

LEMMA SizeOf == \A t \in Things \ {"big"} : ~(StatSize(t) > Limit)
BY DEF Things, StatSize, Limit

LEMMA RefuseStep ==
  ASSUME TypeOK, Underway, Checked, Forbid \/ TooLarge
  PROVE  TypeOK' /\ Underway' /\ Checked' /\ Framed' /\ Served'
<1>1. /\ request' = request /\ file' = file /\ held' = held /\ UNCHANGED Environment
      /\ at \in {"safePath", "fileSize"} /\ at' = "sent" /\ failed' = failed
  BY DEF Forbid, TooLarge, Step, Environment
<1>2. Ready(response, 200)
  BY <1>1, BecomesReady DEF Underway, Opening
<1>3. file \in held /\ file \in Things /\ at # "idle" /\ failed' \in BOOLEAN
  BY <1>1 DEF Underway, TypeOK
<1>4. PICK code \in {403, 413} : Due(file) = code /\ \E what : Refuse(code, what)
  <2>1. CASE Forbid
    <3>1. Due(file) = 403
      BY <1>3, <2>1, TargetOf, SafePathIsDue DEF Forbid
    <3>2. \E what : Refuse(403, what)
      BY <2>1 DEF Forbid
    <3> QED BY <3>1, <3>2
  <2>2. CASE TooLarge
    <3>1. file = "big" /\ at = "fileSize"
      BY <1>3, <2>2, SizeOf DEF TooLarge, Step
    <3>2. \E t : Due(t) # 403
      BY <3>1 DEF Checked, Opening
    <3>3. Due(file) = 413
      BY <3>1, <3>2, DueOf
    <3>4. \E what : Refuse(413, what)
      BY <2>2 DEF TooLarge
    <3> QED BY <3>3, <3>4
  <2>3. Forbid \/ TooLarge
    OBVIOUS
  <2> QED BY <2>1, <2>2, <2>3, Zenon
<1>5. PICK what : Refuse(code, what)
  BY <1>4
<1>6. /\ Whole(wire', code, what, FALSE) /\ response'.headers = wire'.headers
      /\ GetHeader(wire', Length) = wire'.body.size
  BY <1>2, <1>5, Refused
<1>7. TypeOK' /\ Underway' /\ Checked'
  BY <1>1, <1>3, <1>6, SentStep DEF Whole
<1>8. Framed'
  <2>1. PICK keep \in BOOLEAN : keep = FALSE
    OBVIOUS
  <2>2. Whole(wire', code, what, keep)
    BY <1>6, <2>1, Zenon
  <2>3. keep <=> IsKeepAlive(request) /\ code \notin {403, 413}
    BY <1>4, <2>1
  <2> QED BY <1>1, <1>4, <1>6, <1>7, <2>2, <2>3, FramedWhen
<1>9. Served'
  <2>1. wire'.status = Due(file) /\ wire'.status # 200
    BY <1>4, <1>6 DEF Whole
  <2> QED BY <1>1, <1>3, <2>1, ServedWhen
<1> QED BY <1>7, <1>8, <1>9

LEMMA WithFilePaged ==
  ASSUME NEW st, Ready(response, st)
  PROVE  \E size, keep : Paged(WithFile(response), 200, file, size, keep)
<1>1. PICK size : Content(file) = Plain(file, size)
  BY Zenon DEF Content, Plain, No
<1>2. Ready(SetStatus(response, 200), 200)
  BY BecomesReady
<1>3. WithFile(response) = SetHeader(SetBody(SetStatus(response, 200), Plain(file, size)), Type, GetMime(path))
  BY <1>1 DEF WithFile, Type
<1> QED BY <1>2, <1>3, PageMade

\* What is due to a file that has been looked at.
LEMMA DueThen ==
  ASSUME TypeOK, Underway, Checked, at \in {"open", "read"}
  PROVE  /\ at # "idle" /\ file \in held
         /\ \A refusal \in {403, 413} : \E t \in held : Due(t) # refusal
         /\ held = {file} /\ Opens(file) => Due(file) = 200
         /\ held = {file} /\ ~Opens(file) => Due(file) = 404
<1>1. file \in held /\ file \in Things /\ held \subseteq Things
  BY DEF Underway, TypeOK
<1>2. (\E t \in held : Due(t) # 403) /\ (\E t \in held : Due(t) # 413)
  BY DEF Checked, Opening
<1>3. held = {file} => Due(file) # 403 /\ Due(file) # 413
  BY <1>2
<1> QED BY <1>1, <1>2, <1>3, DueOf

LEMMA ReadStep ==
  ASSUME TypeOK, Underway, Checked, ReadFile \/ NotFound
  PROVE  TypeOK' /\ Underway' /\ Checked' /\ Framed' /\ Served'
<1>1. /\ request' = request /\ file' = file /\ held' = held /\ UNCHANGED Environment
      /\ at = "read" /\ at' = "sent" /\ failed' \in BOOLEAN
  BY DEF TypeOK, ReadFile, NotFound, Step, Environment, OpenSucceeds, OpenFails
<1>2. PICK st0 : Ready(response, st0)
  BY <1>1 DEF Underway
<1>3. PICK r, st, of : /\ \E size, keep : Paged(r, st, of, size, keep)
                       /\ Complete(r)
                       /\ \/ st = 200 /\ of = file /\ Opens(file)
                          \/ st = 404 /\ (~failed' => ~Opens(file))
  <2>1. CASE ReadFile
    BY <1>2, <2>1, WithFilePaged DEF ReadFile, OpenSucceeds
  <2>2. CASE NotFound
    <3> DEFINE q == SetStatus(response, 404)
    <3>1. Ready(q, 404)
      BY <1>2, BecomesReady
    <3>2. ~failed' => ~Opens(file)
      BY <2>2 DEF NotFound, OpenFails
    <3>3. \/ Complete(SetHeader(SetBody(q, Page("404.html")), "Content-Type", "text/html"))
          \/ Complete(SetText(q, "404 text"))
      BY <2>2 DEF NotFound
    <3> HIDE DEF q
    <3>4. CASE Complete(SetText(q, "404 text"))
      <4>1. PICK what : what = "404 text"
        OBVIOUS
      <4>2. PICK keep : Paged(SetText(q, what), 404, what, 2, keep)
        BY <3>1, TextMade
      <4> QED BY <3>2, <3>4, <4>1, <4>2
    <3>5. CASE Complete(SetHeader(SetBody(q, Page("404.html")), "Content-Type", "text/html"))
      <4>1. PICK what, type : what = "404.html" /\ type = "text/html"
        OBVIOUS
      <4>2. Page(what) = Plain(what, 2)
        BY Zenon DEF Page, Plain, No
      <4>3. PICK keep : Paged(SetHeader(SetBody(q, Plain(what, 2)), Type, type), 404, what, 2, keep)
        BY <3>1, PageMade
      <4>4. Complete(SetHeader(SetBody(q, Plain(what, 2)), Type, type))
        BY <3>5, <4>1, <4>2 DEF Type
      <4> QED BY <3>2, <4>3, <4>4
    <3> QED BY <3>3, <3>4, <3>5
  <2> QED BY <2>1, <2>2
<1>4. PICK size, k : Paged(r, st, of, size, k)
  BY <1>3
<1>5. PICK keep \in BOOLEAN : keep = IsKeepAlive(request)
  BY DEF IsKeepAlive
<1>6. /\ response'.headers = wire'.headers
      /\ request.method = "HEAD" => (\E o : Whole(wire', st, o, keep)) /\ wire'.body = NoBody
      /\ request.method # "HEAD" => /\ Whole(wire', st, of, keep)
                                    /\ GetHeader(wire', Length) = wire'.body.size
  BY <1>3, <1>4, <1>5, Completed
<1>7. PICK o : Whole(wire', st, o, keep)
  BY <1>6
<1>8. TypeOK' /\ Underway' /\ Checked'
  <2>1. DOMAIN response'.headers \subseteq {Type, Length, Encoding, Keeping}
    BY <1>6, <1>7 DEF Whole
  <2> QED BY <1>1, <2>1, SentStep
<1>9. Framed'
  <2>1. st \notin {403, 413}
    BY <1>3
  <2>2. keep <=> IsKeepAlive(request) /\ st \notin {403, 413}
    BY <1>5, <2>1
  <2>3. /\ request.method = "HEAD" => st \in {403, 413} \/ wire'.body = NoBody
        /\ request.method # "HEAD" => GetHeader(wire', Length) = wire'.body.size
    BY <1>6
  <2> QED BY <1>1, <1>7, <1>8, <2>2, <2>3, FramedWhen
<1>10. Served'
  <2>1. wire'.status = st
    BY <1>7 DEF Whole
  <2>2. wire'.body = NoBody \/ wire'.body.of = of
    BY <1>6 DEF Whole
  <2>3. /\ file \in held
        /\ \A refusal \in {403, 413} : \E t \in held : Due(t) # refusal
        /\ held = {file} /\ Opens(file) => Due(file) = 200
        /\ held = {file} /\ ~Opens(file) => Due(file) = 404
    BY <1>1, DueThen
  <2>4. held = {file} /\ ~failed' => wire'.status = Due(file)
    BY <1>3, <2>1, <2>3
  <2>5. wire'.status = 200 => wire'.body = NoBody \/ wire'.body.of \in held
    BY <1>3, <2>1, <2>2, <2>3
  <2>6. wire'.status \in {Due(t) : t \in held} \cup {200, 404}
    BY <1>3, <2>1
  <2> QED BY <1>1, <2>3, <2>4, <2>5, <2>6, ServedWhen
<1> QED BY <1>8, <1>9, <1>10

LEMMA SendFileStep ==
  ASSUME TypeOK, Underway, Checked, SendFile
  PROVE  TypeOK' /\ Underway' /\ Checked' /\ Framed' /\ Served'
<1>1. /\ request' = request /\ file' = file /\ held' = held /\ UNCHANGED Environment
      /\ at = "open" /\ at' = "sent" /\ failed' \in BOOLEAN /\ Opens(file)
  BY DEF TypeOK, SendFile, Step, Environment, OpenSucceeds
<1>2. response = Resp(200, NoHeaders, NoBody, FALSE, FALSE)
  BY <1>1, BlankIs DEF Underway, Opening
<1>3. PICK keep \in BOOLEAN : keep = IsKeepAlive(request)
  BY DEF IsKeepAlive
<1> DEFINE h1 == With(NoHeaders, Type, GetMime(path))
           h == With(h1, Length, StatSize(file))
<1>4. PICK dont \in BOOLEAN : dont = FALSE
  OBVIOUS
<1>5. SetStatus(response, 200) = Resp(200, NoHeaders, NoBody, dont, dont)
  <2>1. \A d : SetStatus(Resp(200, NoHeaders, NoBody, d, d), 200) = Resp(200, NoHeaders, NoBody, d, d)
    BY Setters
  <2>2. response = Resp(200, NoHeaders, NoBody, dont, dont)
    BY <1>2, <1>4, Zenon
  <2> QED BY <2>1, <2>2
<1>6. DOMAIN h = {Type, Length}
  BY DEF With, NoHeaders
<1>7. SetHeader(SetHeader(SetStatus(response, 200), Type, GetMime(path)), Length, StatSize(file))
        = Resp(200, h, NoBody, dont, dont)
  <2>1. SetHeader(SetStatus(response, 200), Type, GetMime(path)) = Resp(200, h1, NoBody, dont, dont)
    BY <1>5, HeaderSetter
  <2> HIDE DEF h1
  <2> QED BY <2>1, HeaderSetter
<1> HIDE DEF h1, h
<1>8. PICK g : /\ BuildDefaultHeaders(Resp(200, h, NoBody, keep, dont)) = Resp(200, g, NoBody, keep, dont)
               /\ Filled(g, h, NoBody, keep, dont)
  <2>1. dont => Length \in DOMAIN h
    BY <1>4
  <2> QED BY <2>1, DefaultHeaders
<1>9. response' = Resp(200, g, NoBody, keep, dont)
  <2>1. SetKeepAlive(Resp(200, h, NoBody, dont, dont), keep) = Resp(200, h, NoBody, keep, dont)
    BY Setters
  <2>2. response' = BuildDefaultHeaders(SetKeepAlive(Resp(200, h, NoBody, dont, dont), keep))
    BY <1>3, <1>7, Zenon DEF SendFile, Type, Length
  <2> QED BY <1>8, <2>1, <2>2
<1>10. /\ wire'.status = 200 /\ wire'.headers = g /\ wire'.body = Content(file) /\ wire'.sendfile = TRUE
  <2>1. wire' = [Serialize(response') EXCEPT !.body = Content(file), !.sendfile = TRUE]
    BY DEF SendFile, HeadersOnly
  <2>2. response'.status = 200 /\ response'.headers = g
    BY <1>9 DEF Resp
  <2> HIDE DEF SendFile
  <2> QED BY <2>1, <2>2 DEF Serialize
<1>11. /\ DOMAIN g = {Type, Length, Keeping} /\ g[Length] = 0
       /\ keep => g[Keeping] = "keep-alive"
       /\ ~keep => g[Keeping] = "close"
  <2>1. NoBody.size = 0
    BY DEF NoBody
  <2> QED BY <1>4, <1>6, <1>8, <2>1 DEF Filled
<1>12. TypeOK' /\ Underway' /\ Checked'
  <2>1. DOMAIN response'.headers \subseteq {Type, Length, Encoding, Keeping}
    BY <1>9, <1>11 DEF Resp
  <2> QED BY <1>1, <2>1, SentStep
<1>13. Framed'
  <2>1. /\ Header("Content-Length")' = 0
        /\ Header("Connection")' = IF keep THEN "keep-alive" ELSE "close"
    <3>1. Header("Content-Length")' = g[Length] /\ Header("Connection")' = g[Keeping]
      BY <1>10, <1>11 DEF Header, GetHeader, Length, Keeping
    <3> QED BY <1>11, <3>1
  <2>2. request'.method # "HEAD"
    BY <1>1 DEF Checked
  <2>3. (wire.body.zipped = ("Content-Encoding" \in DOMAIN wire.headers))'
    <3> DEFINE P == "Content-Encoding" \in DOMAIN wire'.headers
    <3>1. ~P
      BY <1>10, <1>11 DEF Type, Length, Keeping
    <3>2. wire'.body.zipped = FALSE
      BY <1>1, <1>10 DEF Content
    <3>3. P = FALSE
      BY <3>1
    <3> SUFFICES wire'.body.zipped = P
      OBVIOUS
    <3> HIDE DEF P
    <3> QED BY <3>2, <3>3, Zenon
  <2>4. ~wire'.body.zipped
    BY <1>10 DEF Content
  <2>5. wire'.status \notin {403, 413} /\ wire'.sendfile
    BY <1>10
  <2>6. (Header("Connection") = IF IsKeepAlive(request) /\ wire.status \notin {403, 413}
                                THEN "keep-alive" ELSE "close")'
    BY <1>1, <1>3, <2>1, <2>5
  <2> QED BY <1>12, <2>1, <2>2, <2>3, <2>4, <2>5, <2>6, Zenon DEF Framed
<1>14. Served'
  <2>1. /\ file \in held
        /\ \A refusal \in {403, 413} : \E t \in held : Due(t) # refusal
        /\ held = {file} /\ Opens(file) => Due(file) = 200
    BY <1>1, DueThen
  <2>2. wire'.body.of \in held
    BY <1>10, <2>1 DEF Content
  <2>3. wire'.status \in {Due(t) : t \in held} \cup {200, 404}
    BY <1>10
  <2> QED BY <1>1, <1>10, <2>1, <2>2, <2>3, ServedWhen
<1> QED BY <1>12, <1>13, <1>14

\* The pages of the handlers.
LEMMA RouteStep ==
  ASSUME TypeOK, Underway, Checked, Route
  PROVE  TypeOK' /\ Underway' /\ Checked' /\ Framed' /\ Served'
<1>1. /\ request' = request /\ file' = file /\ held' = held /\ UNCHANGED Environment
      /\ at = "parsed" /\ at' = "sent" /\ failed' = failed /\ failed' \in BOOLEAN
      /\ IsRouted(request) /\ request.method # "HEAD"
  BY DEF TypeOK, Route, Step, Environment, IsRouted
<1>2. Ready(response, 200)
  BY <1>1, BecomesReady DEF Underway
<1>3. PICK keep \in BOOLEAN : keep = IsKeepAlive(request)
  BY DEF IsKeepAlive
<1>4. PICK r \in Handled(response) : \E c \in Compressed(SetKeepAlive(r, keep)) : Send(c)
  BY <1>3 DEF Route
<1>5. \E st \in {200, 404} : \E of, k : Paged(r, st, of, 2, k)
  <2>1. PICK what, type : what = "handler" /\ type = "text/html"
    OBVIOUS
  <2>2. Page(what) = Plain(what, 2)
    BY Zenon DEF Page, Plain, No
  <2>3. Ready(SetStatus(response, 200), 200) /\ Ready(SetStatus(response, 404), 404)
    BY <1>2, BecomesReady
  <2>4. CASE r = SetHtml(response, what)
    BY <1>2, <2>4, TextMade
  <2>5. CASE r = SetHeader(SetBody(SetStatus(response, 200), Plain(what, 2)), Type, type)
    BY <2>3, <2>5, PageMade
  <2>6. CASE r = SetText(SetStatus(response, 404), "404 text")
    <3>1. PICK text : text = "404 text"
      OBVIOUS
    <3>2. PICK k : Paged(SetText(SetStatus(response, 404), text), 404, text, 2, k)
      BY <2>3, TextMade
    <3>3. r = SetText(SetStatus(response, 404), text)
      BY <2>6, <3>1
    <3>4. Paged(r, 404, text, 2, k)
      BY <3>2, <3>3
    <3> QED BY <3>4
  <2>7. \/ r = SetHtml(response, "handler")
        \/ r = SetHeader(SetBody(SetStatus(response, 200), Page("handler")), "Content-Type", "text/html")
        \/ r = SetText(SetStatus(response, 404), "404 text")
    BY <1>4 DEF Handled
  <2>8. \/ r = SetHtml(response, what)
        \/ r = SetHeader(SetBody(SetStatus(response, 200), Plain(what, 2)), Type, type)
        \/ r = SetText(SetStatus(response, 404), "404 text")
    BY <2>1, <2>2, <2>7 DEF Type
  <2> QED BY <2>4, <2>5, <2>6, <2>8, Zenon
<1>6. PICK st \in {200, 404} : \E of, k : Paged(r, st, of, 2, k)
  BY <1>5
<1>7. PICK of : Paged(SetKeepAlive(r, keep), st, of, 2, keep)
  BY <1>6, BecomesReady
<1>8. /\ Whole(wire', st, of, keep) /\ response'.headers = wire'.headers
      /\ GetHeader(wire', Length) = wire'.body.size
  BY <1>4, <1>7, Delivered
<1>9. TypeOK' /\ Underway' /\ Checked'
  <2>1. DOMAIN response'.headers \subseteq {Type, Length, Encoding, Keeping}
    BY <1>8 DEF Whole
  <2> QED BY <1>1, <2>1, SentStep
<1>10. Framed'
  <2>1. keep <=> IsKeepAlive(request) /\ st \notin {403, 413}
    BY <1>3, <1>6
  <2> QED BY <1>1, <1>8, <1>9, <2>1, FramedWhen
<1>11. Served'
  BY <1>1 DEF Served, Opening, IsRouted
<1> QED BY <1>9, <1>10, <1>11

\* The steps of the clients and of the object's life.
LEMMA OtherStep ==
  ASSUME TypeOK, Underway, Checked,
         Arrive \/ Change \/ Reject \/ ResetForNextRequest \/ Close \/ Reuse
  PROVE  TypeOK' /\ Underway' /\ Checked' /\ at' # "sent"
<1>1. CASE Arrive
  <2>1. /\ at = "idle" /\ at' = "parsed" /\ request' \in Requests /\ file' \in Things /\ held' = {file'}
        /\ failed' = FALSE /\ response' = response
    BY <1>1 DEF Arrive
  <2>2. TypeOK'
    BY <2>1 DEF TypeOK
  <2> QED BY <2>1, <2>2 DEF Underway, Checked, Opening
<1>2. CASE Change
  <2>1. /\ at' = at /\ request' = request /\ path' = path /\ response' = response /\ failed' = failed
        /\ at \notin {"idle", "parsed", "sent", "closed"} /\ file' \in Things /\ held' = held \cup {file'}
    BY <1>2 DEF Change
  <2>2. TypeOK'
    BY <2>1 DEF TypeOK
  <2>3. Components' = Components /\ Kept' = Kept /\ \A t : Due(t)' = Due(t)
    BY <2>1, SameRequest
  <2>4. Underway'
    BY <2>1 DEF Underway
  <2>5. held \subseteq held'
    BY <2>1
  <2>6. Checked'
    BY <2>1, <2>3, <2>5 DEF Checked
  <2> QED BY <2>1, <2>2, <2>4, <2>6
<1>3. CASE Reject
  <2>1. /\ request' = request /\ file' = file /\ held' = held /\ failed' = failed
        /\ at = "parsed" /\ at' = "closed"
        /\ response' = SetKeepAlive(SetText(SetStatus(response, 400), "400 text"), FALSE)
    BY <1>3 DEF Reject, Step, Environment
  <2>2. Ready(SetStatus(response, 400), 400)
    <3>1. Ready(response, 200)
      BY <2>1, BecomesReady DEF Underway
    <3> QED BY <3>1, BecomesReady
  <2>3. PICK what : what = "400 text"
    OBVIOUS
  <2>4. PICK keep : Paged(SetText(SetStatus(response, 400), what), 400, what, 2, keep)
    BY <2>2, TextMade
  <2>5. \A k : Paged(SetKeepAlive(SetText(SetStatus(response, 400), what), k), 400, what, 2, k)
    BY <2>4, BecomesReady
  <2>6. \E k : Paged(response', 400, what, 2, k)
    <3>1. response' = SetKeepAlive(SetText(SetStatus(response, 400), what), FALSE)
      BY <2>1, <2>3
    <3>2. Paged(response', 400, what, 2, FALSE)
      BY <2>5, <3>1, Zenon
    <3> QED BY <3>2, Zenon
  <2>7. DOMAIN response'.headers \subseteq {Type, Length}
    BY <2>6 DEF Paged, Resp
  <2>8. TypeOK'
    BY <2>1, <2>7 DEF TypeOK, Type, Length
  <2> QED BY <2>1, <2>8 DEF Underway, Checked, Opening
<1>4. CASE ResetForNextRequest \/ Reuse
  <2>1. /\ at' = "idle" /\ request' = NoRequest /\ file' = "none" /\ held' = {} /\ failed' = FALSE
        /\ response' = Blank
    BY <1>4 DEF ResetForNextRequest, Reuse, Done
  <2>2. TypeOK'
    BY <2>1 DEF TypeOK, Things, Blank
  <2> QED BY <2>1, <2>2 DEF Underway, Checked, Opening
<1>5. CASE Close
  <2>1. /\ request' = request /\ file' = file /\ held' = held /\ failed' = failed
        /\ response' = response /\ at = "sent" /\ at' = "closed"
    BY <1>5 DEF Close, Step, Environment
  <2>2. TypeOK'
    BY <2>1 DEF TypeOK
  <2> QED BY <2>1, <2>2 DEF Underway, Checked, Opening
<1> QED BY <1>1, <1>2, <1>3, <1>4, <1>5

Inv == TypeOK /\ Underway /\ Checked /\ Framed /\ Served

LEMMA Invariance == Spec => []Inv
<1>1. Init => Inv
  <2> SUFFICES ASSUME Init PROVE Inv
    OBVIOUS
  <2>1. TypeOK
    BY DEF Init, TypeOK, Things, Blank
  <2>2. Underway /\ Checked
    BY DEF Init, Underway, Checked, Opening
  <2>3. Framed /\ Served
    BY <2>1 DEF Init, Framed, Served
  <2> QED BY <2>1, <2>2, <2>3 DEF Inv
<1>2. Inv /\ [Next]_vars => Inv'
  <2> SUFFICES ASSUME Inv, [Next]_vars PROVE Inv'
    OBVIOUS
  <2>1. TypeOK /\ Underway /\ Checked
    BY DEF Inv
  <2>2. CASE Forbid \/ TooLarge
    BY <2>1, <2>2, RefuseStep DEF Inv
  <2>3. CASE ReadFile \/ NotFound
    BY <2>1, <2>3, ReadStep DEF Inv
  <2>4. CASE SendFile
    BY <2>1, <2>4, SendFileStep DEF Inv
  <2>5. CASE Route
    BY <2>1, <2>5, RouteStep DEF Inv
  <2>6. CASE Look
    <3>1. at' # "sent"
      BY <2>6 DEF Look, NotRouted, Resolve, SizeFits, CheckExists, CheckRegular, OpenNot, Step
    <3> QED BY <2>1, <2>6, <3>1, LookStep, Elsewhere DEF Inv
  <2>7. CASE ReadToZip
    <3>1. at' # "sent"
      BY <2>7 DEF ReadToZip, Step
    <3> QED BY <2>1, <2>7, <3>1, ZipStep, Elsewhere DEF Inv
  <2>8. CASE Arrive \/ Change \/ Reject \/ ResetForNextRequest \/ Close \/ Reuse
    BY <2>1, <2>8, OtherStep, Elsewhere DEF Inv
  <2>9. CASE UNCHANGED vars
    <3>1. request' = request
      BY <2>9 DEF vars
    <3>2. Components' = Components /\ Kept' = Kept /\ \A t : Due(t)' = Due(t)
      BY <3>1, SameRequest
    <3>3. TypeOK' /\ Underway'
      BY <2>1, <2>9 DEF vars, TypeOK, Underway
    <3>4. Checked'
      BY <2>1, <2>9, <3>2 DEF vars, Checked
    <3>5. Framed'
      BY <2>9, <3>3 DEF vars, Inv, Framed, Header
    <3>6. Served'
      BY <2>9, <3>2 DEF vars, Inv, Served, Opening
    <3> QED BY <3>3, <3>4, <3>5, <3>6 DEF Inv
  <2> QED BY <2>2, <2>3, <2>4, <2>5, <2>6, <2>7, <2>8, <2>9 DEF Next, Process, Look
<1> QED BY <1>1, <1>2, PTL DEF Spec

\* A client can tell where an answer ends and how to read it: the headers that
\* Process, HttpResponse and GzipUtil give it are those of the body that follows,
\* after any other answers of the same object and whatever happens to the file.
THEOREM AnswersFramed == Spec => []Framed
<1>1. Inv => Framed
  BY DEF Inv
<1> QED BY <1>1, Invariance, PTL

\* The path that Process opens is the one the target leads to, a file that is left
\* alone gets the answer due to it, and of one that changes between the checks and
\* the opens nothing is sent that it has not held, past no check that refuses it all
\* the while.
THEOREM FilesServed == Spec => []Served
<1>1. Inv => Served
  BY DEF Inv
<1> QED BY <1>1, Invariance, PTL
=============================================================================
