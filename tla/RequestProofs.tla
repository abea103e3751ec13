--------------------------- MODULE RequestProofs ---------------------------
(***************************************************************************)
(* Proofs about the two modules that handle what a client asks for: from   *)
(* its bytes to a request (Buffer and HttpContext), and from the request   *)
(* to a row of the table (Accounts).                                       *)
(*                                                                         *)
(* First, for any bytes, sizes and conversations: the buffer is a queue of *)
(* bytes that keeps within its string, no byte of a client is lost between *)
(* recv and the parser, and the requests handled are the messages that     *)
(* were sent, in their order.                                              *)
(*                                                                         *)
(* Then, for any threads, names, passwords, salts, forms and rows of       *)
(* sql/init.sql, and any number of requests.  A row is never changed       *)
(* (RowsStay), so what a handler has seen of one stays true until it       *)
(* answers, and the answer afterwards.  The invariant says at each round   *)
(* trip what the handler knows of the row (Aware), that an answer on its   *)
(* way is true (Truth), and that of all who register a key at most one is  *)
(* about to be told so (OneWinner).                                        *)
(***************************************************************************)
EXTENDS HttpContext, Accounts, SequenceLemmas


\* Concatenation of bytes is associative, quantified for the leaves below.
LEMMA BytesAssociate ==
  \A s, t, u \in Seq(Bytes) : (s \o t) \o u = s \o (t \o u)
BY ConcatAssociative

-----------------------------------------------------------------------------
(* The buffer.                                                             *)

\* What is unread, in terms of the fields.
LEMMA UnreadOf ==
  ASSUME NEW d, NEW r, NEW w
  PROVE  Unread([data |-> d, readPos |-> r, writePos |-> w]) = SubSeq(d, r + 1, w)
BY DEF Unread

\* What IsBuffer says of them.
LEMMA BufferParts ==
  ASSUME NEW b, IsBuffer(b)
  PROVE  /\ b.data \in Seq(Bytes) /\ Len(b.data) \in Nat
         /\ DOMAIN b.data = 1 .. Len(b.data)
         /\ b.readPos \in Nat /\ b.writePos \in Nat
         /\ b.readPos <= b.writePos /\ b.writePos <= Len(b.data)
         /\ Unread(b) \in Seq(Bytes)
         /\ Len(Unread(b)) = ReadableBytes(b)
         /\ ReadableBytes(b) \in Nat
<1>1. /\ b.data \in Seq(Bytes) /\ Len(b.data) \in Nat
      /\ DOMAIN b.data = 1 .. Len(b.data)
      /\ b.readPos \in Nat /\ b.writePos \in Nat
      /\ b.readPos <= b.writePos /\ b.writePos <= Len(b.data)
  BY LenProperties DEF IsBuffer
<1>2. /\ SubSeq(b.data, b.readPos + 1, b.writePos) \in Seq(Bytes)
      /\ Len(SubSeq(b.data, b.readPos + 1, b.writePos)) = b.writePos - b.readPos
  BY <1>1, Slice
<1> QED BY <1>1, <1>2 DEF Unread, ReadableBytes

\* MoveToFront leaves what is unread as it is.
LEMMA MoveKeeps ==
  ASSUME NEW b, IsBuffer(b)
  PROVE  /\ IsBuffer(MoveToFront(b))
         /\ Unread(MoveToFront(b)) = Unread(b)
         /\ WritableBytes(MoveToFront(b)) = b.readPos + WritableBytes(b)
<1>1. PICK d, r, w : d = b.data /\ r = b.readPos /\ w = b.writePos
  OBVIOUS
<1>2. /\ d \in Seq(Bytes) /\ Len(d) \in Nat /\ DOMAIN d = 1 .. Len(d)
      /\ r \in Nat /\ w \in Nat /\ r <= w /\ w <= Len(d)
  BY <1>1, BufferParts
<1>3. PICK e : e = [i \in DOMAIN d |-> IF i <= w - r THEN d[r + i] ELSE d[i]]
  OBVIOUS
<1>4. e \in [1 .. Len(d) -> Bytes]
  BY <1>2, <1>3, ElementOfSeq
<1>5. e \in Seq(Bytes) /\ Len(e) = Len(d)
  BY <1>2, <1>4, FunctionIsSeq
<1>6. MoveToFront(b) = [data |-> e, readPos |-> 0, writePos |-> w - r]
  BY <1>1, <1>3 DEF MoveToFront, ReadableBytes
<1>7. IsBuffer(MoveToFront(b))
  BY <1>2, <1>5, <1>6 DEF IsBuffer
<1>8. SubSeq(e, 0 + 1, w - r) = SubSeq(d, r + 1, w)
  <2>1. \A i \in 1 .. w - r : e[0 + i] = d[r + i]
    BY <1>2, <1>3
  <2>2. w - r \in Nat /\ w - r <= Len(e) /\ (w - r) - 0 = w - r
    BY <1>2, <1>5
  <2> QED BY <1>2, <1>5, <2>1, <2>2, SameSlice
<1>9. Unread(MoveToFront(b)) = Unread(b)
  BY SMTT(30), <1>1, <1>2, <1>6, <1>8 DEF Unread
<1>10. WritableBytes(MoveToFront(b)) = b.readPos + WritableBytes(b)
  BY <1>1, <1>2, <1>5, <1>6 DEF WritableBytes
<1> QED BY <1>7, <1>9, <1>10

\* So does Grow, which makes the space asked for.
LEMMA GrowKeeps ==
  ASSUME NEW b, IsBuffer(b), NEW len \in Nat
  PROVE  /\ IsBuffer(Grow(b, len))
         /\ Unread(Grow(b, len)) = Unread(b)
         /\ WritableBytes(Grow(b, len)) >= len
<1>1. PICK d, r, w : d = b.data /\ r = b.readPos /\ w = b.writePos
  OBVIOUS
<1>2. /\ d \in Seq(Bytes) /\ Len(d) \in Nat
      /\ r \in Nat /\ w \in Nat /\ r <= w /\ w <= Len(d)
  BY <1>1, BufferParts
<1>3. PICK n : n = Larger(2 * Len(d), w + len)
  OBVIOUS
<1>4. n \in Nat /\ n >= Len(d) /\ n >= w + len /\ n - Len(d) \in Nat
  BY <1>2, <1>3 DEF Larger
<1>5. Zeros(n - Len(d)) \in Seq(Bytes) /\ Len(Zeros(n - Len(d))) = n - Len(d)
  <2>1. Zeros(n - Len(d)) \in [1 .. n - Len(d) -> Bytes]
    BY NulAssumption DEF Zeros
  <2> QED BY <1>4, <2>1, FunctionIsSeq
<1>6. PICK e : e = d \o Zeros(n - Len(d))
  OBVIOUS
<1>7. /\ e \in Seq(Bytes) /\ Len(e) = n
      /\ \A i \in 1 .. Len(d) : e[i] = d[i]
  BY <1>2, <1>4, <1>5, <1>6, ConcatProperties
<1>8. Grow(b, len) = [data |-> e, readPos |-> r, writePos |-> w]
  BY <1>1, <1>3, <1>6 DEF Grow
<1>9. IsBuffer(Grow(b, len))
  BY <1>2, <1>4, <1>7, <1>8 DEF IsBuffer
<1>10. SubSeq(e, r + 1, w) = SubSeq(d, r + 1, w)
  <2>1. \A i \in 1 .. w - r : e[r + i] = d[r + i]
    BY <1>2, <1>7
  <2> QED BY <1>2, <1>4, <1>7, <2>1, SameSlice
<1>11. WritableBytes(Grow(b, len)) >= len
  BY <1>2, <1>4, <1>7, <1>8 DEF WritableBytes
<1>12. Unread(Grow(b, len)) = SubSeq(e, r + 1, w)
  BY <1>8, UnreadOf
<1>13. Unread(b) = SubSeq(d, r + 1, w)
  BY <1>1 DEF Unread
<1> QED BY <1>9, <1>10, <1>11, <1>12, <1>13

\* Append puts bytes behind what is unread, within the string.
LEMMA AppendIsQueueing ==
  ASSUME NEW b, IsBuffer(b), NEW s \in Seq(Bytes)
  PROVE  /\ IsBuffer(AppendBytes(b, s))
         /\ Unread(AppendBytes(b, s)) = Unread(b) \o s
<1>1. PICK m : m = MakeSpace(b, Len(s))
  OBVIOUS
<1>2. Len(s) \in Nat
  BY LenProperties
<1>3. IsBuffer(m) /\ WritableBytes(m) >= Len(s) /\ Unread(m) = Unread(b)
  BY <1>1, <1>2, MoveKeeps, GrowKeeps DEF MakeSpace
<1>4. PICK d, r, w : d = m.data /\ r = m.readPos /\ w = m.writePos
  OBVIOUS
<1>5. /\ d \in Seq(Bytes) /\ Len(d) \in Nat
      /\ r \in Nat /\ w \in Nat /\ r <= w /\ w + Len(s) <= Len(d)
  BY <1>2, <1>3, <1>4, BufferParts DEF WritableBytes
<1>6. PICK e : e = [i \in DOMAIN d |->
                      IF i \in w + 1 .. w + Len(s) THEN s[i - w] ELSE d[i]]
  OBVIOUS
<1>7. e \in Seq(Bytes) /\ Len(e) = Len(d)
  <2>1. DOMAIN d = 1 .. Len(d)
    BY <1>5, LenProperties
  <2>2. ASSUME NEW i \in 1 .. Len(d)
        PROVE  (IF i \in w + 1 .. w + Len(s) THEN s[i - w] ELSE d[i]) \in Bytes
    <3>1. d[i] \in Bytes
      BY <1>5, ElementOfSeq
    <3>2. ASSUME i \in w + 1 .. w + Len(s) PROVE s[i - w] \in Bytes
      <4>1. i - w \in 1 .. Len(s)
        BY <1>2, <1>5, <3>2
      <4> QED BY <4>1, ElementOfSeq
    <3> QED BY <3>1, <3>2
  <2>3. e \in [1 .. Len(d) -> Bytes]
    BY <1>6, <2>1, <2>2
  <2> QED BY <1>5, <2>3, FunctionIsSeq
<1>12. SubSeq(e, r + 1, w + Len(s)) = SubSeq(d, r + 1, w) \o s
  <2>1. \A i \in 1 .. w : e[i] = d[i]
    BY <1>5, <1>6, LenProperties
  <2>2. \A i \in 1 .. Len(s) : e[w + i] = s[i]
    BY <1>2, <1>5, <1>6, LenProperties
  <2>3. PICK t : t = SubSeq(d, r + 1, w)
    OBVIOUS
  <2>4. t \in Seq(Bytes) /\ Len(t) = w - r /\ \A i \in 1 .. w - r : t[i] = d[r + i]
    <3>1. w <= Len(d)
      BY <1>2, <1>5
    <3> QED BY <1>5, <2>3, <3>1, Slice
  <2>5. PICK v \in Nat : v = w + Len(s)
    BY <1>2, <1>5
  <2>6. PICK u : u = SubSeq(e, r + 1, v)
    OBVIOUS
  <2>7. u \in Seq(Bytes) /\ Len(u) = v - r /\ \A i \in 1 .. v - r : u[i] = e[r + i]
    <3>1. r <= v /\ v <= Len(e)
      BY <1>2, <1>5, <1>7, <2>5
    <3> QED BY <1>5, <1>7, <2>6, <3>1, Slice
  <2>8. /\ t \o s \in Seq(Bytes)
        /\ Len(t \o s) = Len(t) + Len(s)
        /\ \A i \in 1 .. Len(t) + Len(s) :
             (t \o s)[i] = IF i <= Len(t) THEN t[i] ELSE s[i - Len(t)]
    <3>1. t \in Seq(Bytes)
      BY <2>4
    <3> QED BY <3>1, ConcatProperties
  <2>9. ASSUME NEW i \in 1 .. v - r
        PROVE  u[i] = (t \o s)[i]
    <3>1. CASE i <= w - r
      <4>1. i \in 1 .. w - r /\ r + i \in 1 .. w /\ i \in 1 .. Len(t) + Len(s)
        BY <1>2, <1>5, <2>4, <2>5, <3>1
      <4> QED BY <2>1, <2>4, <2>7, <2>8, <3>1, <4>1
    <3>2. CASE ~(i <= w - r)
      <4>1. /\ i - Len(t) \in 1 .. Len(s) /\ r + i = w + (i - Len(t))
            /\ i \in 1 .. Len(t) + Len(s) /\ ~(i <= Len(t))
        BY <1>2, <1>5, <2>4, <2>5, <3>2
      <4>2. u[i] = s[i - Len(t)]
        BY <2>2, <2>7, <4>1
      <4> QED BY <2>8, <4>1, <4>2
    <3> QED BY <3>1, <3>2
  <2>10. Len(u) = Len(t \o s) /\ Len(u) = v - r
    BY <1>2, <1>5, <2>4, <2>5, <2>7, <2>8
  <2>11. u = t \o s
    BY <2>7, <2>8, <2>9, <2>10, SeqEqual
  <2> QED BY <2>3, <2>5, <2>6, <2>11
<1>8. AppendBytes(b, s) = [data |-> e, readPos |-> r, writePos |-> w + Len(s)]
  BY <1>1, <1>4, <1>6 DEF AppendBytes, Write
<1>9. IsBuffer(AppendBytes(b, s))
  BY <1>2, <1>5, <1>7, <1>8 DEF IsBuffer
<1>10. Unread(AppendBytes(b, s)) = SubSeq(e, r + 1, w + Len(s))
  BY <1>8, UnreadOf
<1>11. Unread(m) = SubSeq(d, r + 1, w)
  BY <1>4 DEF Unread
<1> QED BY <1>3, <1>9, <1>10, <1>11, <1>12

\* Clear empties the buffer.
LEMMA ClearEmpties ==
  ASSUME NEW b, IsBuffer(b)
  PROVE  IsBuffer(Clear(b)) /\ Unread(Clear(b)) = <<>>
<1>1. IsBuffer(Clear(b))
  BY BufferParts DEF IsBuffer, Clear
<1>2. SubSeq(b.data, 1, 0) = <<>>
  BY SubSeqEmpty
<1> QED BY <1>1, <1>2 DEF Clear, Unread

\* Consume takes from the front of what is unread.
LEMMA ConsumeIsDequeueing ==
  ASSUME NEW b, IsBuffer(b), NEW n \in 0 .. ReadableBytes(b)
  PROVE  /\ IsBuffer(Consume(b, n))
         /\ Unread(b) = SubSeq(Unread(b), 1, n) \o Unread(Consume(b, n))
<1>1. PICK d, r, w : d = b.data /\ r = b.readPos /\ w = b.writePos
  OBVIOUS
<1>2. /\ d \in Seq(Bytes) /\ Len(d) \in Nat
      /\ r \in Nat /\ w \in Nat /\ r <= w /\ w <= Len(d)
      /\ ReadableBytes(b) = w - r
  BY <1>1, BufferParts DEF ReadableBytes
<1>3. PICK u : u = Unread(b)
  OBVIOUS
<1>4. u = SubSeq(d, r + 1, w)
  BY <1>1, <1>3 DEF Unread
<1>9. /\ u \in Seq(Bytes) /\ Len(u) = w - r
      /\ \A i \in 1 .. w - r : u[i] = d[r + i]
  BY <1>2, <1>4, Slice
<1>5. /\ u = SubSeq(u, 1, n) \o SubSeq(u, n + 1, Len(u))
  BY <1>2, <1>9, Split
<1>6. SubSeq(d, (r + n) + 1, w) = SubSeq(u, n + 1, w - r)
  <2>1. \A i \in 1 .. (w - r) - n : d[(r + n) + i] = u[n + i]
    BY <1>2, <1>9
  <2>2. /\ r + n \in Nat /\ w - (r + n) = (w - r) - n
        /\ w - r \in Nat /\ n <= w - r /\ n \in Nat /\ w - r <= Len(u)
    BY <1>2, <1>9
  <2>3. PICK p, q \in Nat : p = r + n /\ q = w - r
    BY <2>2
  <2>4. /\ n \in Nat /\ w \in Nat /\ p \in Nat /\ q \in Nat /\ n <= q /\ q <= Len(u)
        /\ w <= Len(d) /\ w - p = q - n
    BY <1>2, <2>2, <2>3
  <2>5. \A i \in 1 .. q - n : d[p + i] = u[n + i]
    BY ONLY <2>1, <2>3
  <2>6. d \in Seq(Bytes) /\ u \in Seq(Bytes)
    BY <1>2, <1>9
  <2>7. SubSeq(d, p + 1, w) = SubSeq(u, n + 1, q)
    <3>1. /\ SubSeq(d, p + 1, w) \in Seq(Bytes) /\ Len(SubSeq(d, p + 1, w)) = w - p
          /\ \A i \in 1 .. w - p : SubSeq(d, p + 1, w)[i] = d[p + i]
      <4>1. p <= w
        BY <2>4
      <4> QED BY <2>4, <2>6, <4>1, Slice
    <3>2. /\ SubSeq(u, n + 1, q) \in Seq(Bytes) /\ Len(SubSeq(u, n + 1, q)) = q - n
          /\ \A i \in 1 .. q - n : SubSeq(u, n + 1, q)[i] = u[n + i]
      BY <2>4, <2>6, Slice
    <3>3. \A i \in 1 .. q - n : SubSeq(d, p + 1, w)[i] = SubSeq(u, n + 1, q)[i]
      BY ONLY <2>4, <2>5, <3>1, <3>2
    <3> QED BY ONLY <2>4, <3>1, <3>2, <3>3, SeqEqual
  <2> QED BY <2>3, <2>7
<1>7. CASE r + n = w
  <2>1. Consume(b, n) = Clear(b)
    BY <1>1, <1>2, <1>7 DEF Consume
  <2>2. SubSeq(u, n + 1, Len(u)) = <<>>
    BY <1>2, <1>9, <1>7, SubSeqEmpty
  <2> QED BY <1>3, <1>5, <2>1, <2>2, ClearEmpties
<1>8. CASE r + n # w
  <2>1. Consume(b, n) = [data |-> d, readPos |-> r + n, writePos |-> w]
    BY <1>1, <1>2, <1>8 DEF Consume
  <2>2. IsBuffer(Consume(b, n))
    BY <1>2, <1>8, <2>1 DEF IsBuffer
  <2>3. Unread(Consume(b, n)) = SubSeq(d, (r + n) + 1, w)
    BY <2>1, UnreadOf
  <2> QED BY <1>3, <1>9, <1>5, <1>6, <2>2, <2>3
<1> QED BY <1>7, <1>8

-----------------------------------------------------------------------------
(* Lines.                                                                  *)

\* ReadLine takes the line and its CR LF.
LEMMA LineParts ==
  ASSUME IsBuffer(readBuffer), HasLine
  PROVE  /\ Line \in Seq(Bytes)
         /\ Len(Line) + 2 \in 0 .. ReadableBytes(readBuffer)
         /\ SubSeq(Unread(readBuffer), 1, Len(Line) + 2) = Line \o CRLF
         /\ CRLF \in Seq(Bytes)
<1>1. PICK u : u = Unread(readBuffer)
  OBVIOUS
<1>2. u \in Seq(Bytes) /\ Len(u) = ReadableBytes(readBuffer) /\ Len(u) \in Nat
  BY <1>1, BufferParts
<1>3. PICK T : T = LineEnds(readBuffer)
  OBVIOUS
<1>4. /\ T \in SUBSET Nat /\ T # {}
      /\ \A i \in T : i \in 1 .. Len(u) - 1 /\ u[i] = "cr" /\ u[i + 1] = "lf"
  BY <1>1, <1>2, <1>3 DEF LineEnds, HasLine
<1>5. \E i \in T : \A j \in T : i <= j
  BY <1>4, Least
<1>6. FirstLineEnd \in T
  BY <1>3, <1>5 DEF FirstLineEnd
<1>7. PICK n \in 1 .. Len(u) - 1 : n = FirstLineEnd /\ u[n] = "cr" /\ u[n + 1] = "lf"
  BY <1>4, <1>6
<1>8. /\ n - 1 \in 0 .. Len(u) /\ n + 1 \in 0 .. Len(u)
      /\ (n - 1) + 2 = n + 1
  BY <1>2, <1>7
<1>9. Line = SubSeq(u, 1, n - 1)
  BY <1>1, <1>7 DEF Line
<1>10. Line \in Seq(Bytes) /\ Len(Line) = n - 1
  BY <1>2, <1>8, <1>9, Split
<1>11. SubSeq(u, n, n + 1) = CRLF
  <2>1. PICK v : v = SubSeq(u, (n - 1) + 1, n + 1)
    OBVIOUS
  <2>2. /\ v \in Seq(Bytes) /\ Len(v) = (n + 1) - (n - 1)
        /\ \A i \in 1 .. (n + 1) - (n - 1) : v[i] = u[(n - 1) + i]
    <3>1. n - 1 \in Nat /\ n + 1 \in Nat /\ n - 1 <= n + 1 /\ n + 1 <= Len(u)
      BY <1>8
    <3> QED BY <1>2, <2>1, <3>1, Slice
  <2>3. Len(v) = 2 /\ v[1] = "cr" /\ v[2] = "lf"
    BY <1>7, <2>2
  <2>4. v = <<"cr", "lf">>
    BY <2>2, <2>3
  <2>5. (n - 1) + 1 = n
    BY <1>7
  <2> QED BY <2>1, <2>4, <2>5 DEF CRLF
<1>12. SubSeq(u, 1, n - 1) \o SubSeq(u, n, n + 1) = SubSeq(u, 1, n + 1)
  <2>1. /\ 1 \in 1 .. Len(u) + 1 /\ n - 1 \in 1 - 1 .. Len(u)
        /\ n + 1 \in n - 1 .. Len(u) /\ (n - 1) + 1 = n
    BY <1>2, <1>7
  <2>2. SubSeq(u, 1, n - 1) \o SubSeq(u, (n - 1) + 1, n + 1) = SubSeq(u, 1, n + 1)
    BY <1>2, <2>1, ConcatAdjacentSubSeq
  <2> QED BY <2>1, <2>2
<1>13. CRLF \in Seq(Bytes)
  BY TokenAssumption DEF CRLF
<1>14. Len(Line) + 2 = n + 1
  BY <1>8, <1>10
<1> QED BY <1>1, <1>2, <1>8, <1>9, <1>10, <1>11, <1>12, <1>13, <1>14

\* So it moves the line from what is unread to what is taken.
LEMMA TakeLineKeeps ==
  ASSUME TypeOK, TakeLine
  PROVE  /\ IsBuffer(readBuffer')
         /\ taken' \in Seq(Bytes)
         /\ taken' \o Unread(readBuffer') = taken \o Unread(readBuffer)
         /\ Unread(readBuffer') \in Seq(Bytes)
<1>1. PICK n : n = Len(Line) + 2
  OBVIOUS
<1>2. /\ Line \in Seq(Bytes) /\ CRLF \in Seq(Bytes)
      /\ n \in 0 .. ReadableBytes(readBuffer)
      /\ SubSeq(Unread(readBuffer), 1, n) = Line \o CRLF
  BY <1>1, LineParts DEF TypeOK, TakeLine
<1>3. readBuffer' = Consume(readBuffer, n) /\ taken' = (taken \o Line) \o CRLF
  BY <1>1 DEF TakeLine
<1>4. taken \in Seq(Bytes) /\ IsBuffer(readBuffer)
  BY DEF TypeOK
<1>5. /\ IsBuffer(readBuffer')
      /\ Unread(readBuffer) = (Line \o CRLF) \o Unread(readBuffer')
  BY <1>2, <1>3, <1>4, ConsumeIsDequeueing
<1>6. Unread(readBuffer') \in Seq(Bytes)
  BY <1>5, BufferParts
<1>7. taken \o Line \in Seq(Bytes) /\ Line \o CRLF \in Seq(Bytes)
  BY <1>2, <1>4, ConcatProperties
<1>8. (taken \o Line) \o CRLF \in Seq(Bytes)
  BY <1>2, <1>7, ConcatProperties
<1>9. (taken \o Line) \o CRLF = taken \o (Line \o CRLF)
  <2>1. taken \in Seq(Bytes) /\ Line \in Seq(Bytes) /\ CRLF \in Seq(Bytes)
    BY <1>2, <1>4
  <2> QED BY <2>1, BytesAssociate
<1>10. (taken \o (Line \o CRLF)) \o Unread(readBuffer') =
         taken \o ((Line \o CRLF) \o Unread(readBuffer'))
  <2>1. /\ taken \in Seq(Bytes) /\ Line \o CRLF \in Seq(Bytes)
        /\ Unread(readBuffer') \in Seq(Bytes)
    BY <1>4, <1>6, <1>7
  <2> QED BY <2>1, BytesAssociate
<1> QED BY <1>3, <1>5, <1>6, <1>8, <1>9, <1>10

\* ParseBody does the same with a body.
LEMMA ParseBodyKeeps ==
  ASSUME TypeOK, ParseBody
  PROVE  /\ IsBuffer(readBuffer')
         /\ taken' \in Seq(Bytes)
         /\ request'.body \in Seq(Bytes) /\ request' = [request EXCEPT !.body = request'.body]
         /\ taken' \o Unread(readBuffer') = taken \o Unread(readBuffer)
         /\ Unread(readBuffer') \in Seq(Bytes)
<1>1. PICK n : n = contentLength
  OBVIOUS
<1>2. IsBuffer(readBuffer) /\ taken \in Seq(Bytes) /\ n \in 0 .. ReadableBytes(readBuffer)
  <2>1. ReadableBytes(readBuffer) \in Nat
    BY BufferParts DEF TypeOK
  <2> QED BY <1>1, <2>1 DEF TypeOK, ParseBody
<1>3. PICK body : body = SubSeq(Unread(readBuffer), 1, n)
  OBVIOUS
<1>4. body \in Seq(Bytes)
  <2>1. Unread(readBuffer) \in Seq(Bytes) /\ n \in 0 .. Len(Unread(readBuffer))
    BY <1>2, BufferParts
  <2> QED BY <1>3, <2>1, Split
<1>5. /\ readBuffer' = Consume(readBuffer, n) /\ taken' = taken \o body
      /\ request' = [request EXCEPT !.body = body]
  BY <1>1, <1>3 DEF ParseBody
<1>6. IsBuffer(readBuffer') /\ Unread(readBuffer) = body \o Unread(readBuffer')
  BY <1>2, <1>3, <1>5, ConsumeIsDequeueing
<1>7. Unread(readBuffer') \in Seq(Bytes)
  BY <1>6, BufferParts
<1>8. taken \o body \in Seq(Bytes)
  BY <1>2, <1>4, ConcatProperties
<1>9. (taken \o body) \o Unread(readBuffer') = taken \o (body \o Unread(readBuffer'))
  BY <1>2, <1>4, <1>7, BytesAssociate
<1>10. request'.body = body
  BY <1>5 DEF TypeOK
<1> QED BY <1>4, <1>5, <1>6, <1>7, <1>8, <1>9, <1>10

\* What recv takes is queued.
LEMMA ReceiveKeeps ==
  ASSUME TypeOK, Receive
  PROVE  /\ IsBuffer(readBuffer')
         /\ coming' \in Seq(Bytes)
         /\ Unread(readBuffer') \o coming' = Unread(readBuffer) \o coming
<1>1. PICK n \in 1 .. MaxReceive :
        /\ n <= Len(coming)
        /\ readBuffer' = AppendBytes(readBuffer, SubSeq(coming, 1, n))
        /\ coming' = SubSeq(coming, n + 1, Len(coming))
  BY DEF Receive
<1>2. IsBuffer(readBuffer) /\ coming \in Seq(Bytes) /\ n \in 0 .. Len(coming)
  BY <1>1, BoundAssumption, LenProperties DEF TypeOK
<1>3. PICK p : p = SubSeq(coming, 1, n)
  OBVIOUS
<1>4. p \in Seq(Bytes) /\ coming' \in Seq(Bytes) /\ coming = p \o coming'
  BY <1>1, <1>2, <1>3, Split
<1>5. IsBuffer(readBuffer') /\ Unread(readBuffer') = Unread(readBuffer) \o p
  BY <1>1, <1>2, <1>3, <1>4, AppendIsQueueing
<1>6. Unread(readBuffer) \in Seq(Bytes)
  BY <1>2, BufferParts
<1>7. (Unread(readBuffer) \o p) \o coming' = Unread(readBuffer) \o (p \o coming')
  BY <1>4, <1>6, BytesAssociate
<1> QED BY <1>4, <1>5, <1>7

\* The buffer of a new connection is empty.
LEMMA NewIsEmpty ==
  IsBuffer(NewBuffer(InitSize)) /\ Unread(NewBuffer(InitSize)) = <<>>
<1>1. InitSize \in Nat
  BY BoundAssumption
<1>2. PICK z : z = Zeros(InitSize)
  OBVIOUS
<1>3. z \in Seq(Bytes) /\ Len(z) = InitSize
  <2>1. z \in [1 .. InitSize -> Bytes]
    BY <1>2, NulAssumption DEF Zeros
  <2> QED BY <1>1, <2>1, FunctionIsSeq
<1>4. NewBuffer(InitSize) = [data |-> z, readPos |-> 0, writePos |-> 0]
  BY <1>2 DEF NewBuffer
<1>5. IsBuffer(NewBuffer(InitSize))
  BY <1>1, <1>3, <1>4 DEF IsBuffer
<1>6. SubSeq(z, 0 + 1, 0) = <<>>
  BY SubSeqEmpty
<1> QED BY <1>4, <1>5, <1>6, UnreadOf

-----------------------------------------------------------------------------
(* The bytes of lines and of messages.                                     *)

Texts == Bytes \ {"cr", "lf"}

Messages == [lines : Seq(Texts), body : Seq(Bytes)]

LineMap == [text \in Texts |-> LineBytes(text)]

MessageMap == [m \in Messages |-> MessageBytes(m)]

\* A line is written as bytes.
LEMMA LineMapType == IsMap(LineMap, Texts, Seq(Bytes))
<1>1. ASSUME NEW text \in Texts PROVE LineBytes(text) \in Seq(Bytes)
  <2>1. <<text>> \in Seq(Bytes) /\ CRLF \in Seq(Bytes)
    BY TokenAssumption DEF Texts, CRLF
  <2> QED BY <2>1, ConcatProperties DEF LineBytes
<1> QED BY <1>1 DEF LineMap, IsMap

\* So lines are.
LEMMA LinesAre ==
  ASSUME NEW lines \in Seq(Texts)
  PROVE  LinesBytes(lines) = FlattenSeq(Image(LineMap, lines))
<1>1. \A i \in DOMAIN lines : lines[i] \in Texts
  BY LenProperties, ElementOfSeq
<1>2. \A i \in DOMAIN lines : LineMap[lines[i]] = LineBytes(lines[i])
  BY <1>1 DEF LineMap
<1>3. Image(LineMap, lines) = [i \in DOMAIN lines |-> LineBytes(lines[i])]
  BY <1>2 DEF Image
<1> QED BY <1>3 DEF LinesBytes

\* They are bytes.
LEMMA LinesType ==
  ASSUME NEW lines \in Seq(Texts)
  PROVE  LinesBytes(lines) \in Seq(Bytes)
BY LinesAre, LineMapType, FlattenImageType

\* What is left of a sequence from one of its elements on, or from behind the last.
LEMMA RestOfSeq ==
  ASSUME NEW S, NEW s \in Seq(S), NEW n \in 1 .. Len(s) + 1
  PROVE  SubSeq(s, n, Len(s)) \in Seq(S)
<1>1. Len(s) \in Nat /\ \A i \in n .. Len(s) : s[i] \in S
  BY LenProperties, ElementOfSeq
<1> QED BY <1>1, SubSeqProperties

\* The first line comes first.
LEMMA LinesFirst ==
  ASSUME NEW lines \in Seq(Texts), NEW n \in 1 .. Len(lines)
  PROVE  LinesBytes(SubSeq(lines, n, Len(lines))) =
           LineBytes(lines[n]) \o LinesBytes(SubSeq(lines, n + 1, Len(lines)))
<1>1. Len(lines) \in Nat
  BY LenProperties
<1>2. SubSeq(lines, n, Len(lines)) \in Seq(Texts) /\ SubSeq(lines, n + 1, Len(lines)) \in Seq(Texts)
  <2>1. n \in 1 .. Len(lines) + 1 /\ n + 1 \in 1 .. Len(lines) + 1
    BY <1>1
  <2> QED BY <2>1, RestOfSeq
<1>3. lines[n] \in Texts
  BY ElementOfSeq
<1>4. FlattenSeq(Image(LineMap, SubSeq(lines, n, Len(lines)))) =
        LineMap[lines[n]] \o FlattenSeq(Image(LineMap, SubSeq(lines, n + 1, Len(lines))))
  BY LineMapType, FlattenImageFirst
<1> QED BY <1>2, <1>3, <1>4, LinesAre DEF LineMap

\* Behind the last there is nothing.
LEMMA LinesEnd ==
  ASSUME NEW lines \in Seq(Texts)
  PROVE  LinesBytes(SubSeq(lines, Len(lines) + 1, Len(lines))) = <<>>
<1>1. SubSeq(lines, Len(lines) + 1, Len(lines)) = <<>>
  BY LenProperties, SubSeqEmpty
<1>2. <<>> \in Seq(Texts)
  BY EmptySeq
<1> QED BY <1>1, <1>2, LinesAre, FlattenImageEmpty

\* A message is written as bytes.
LEMMA MessageMapType == IsMap(MessageMap, Messages, Seq(Bytes))
<1>1. ASSUME NEW m \in Messages PROVE MessageBytes(m) \in Seq(Bytes)
  <2>1. LinesBytes(m.lines) \in Seq(Bytes) /\ m.body \in Seq(Bytes)
    BY LinesType DEF Messages
  <2>2. CRLF \in Seq(Bytes)
    BY TokenAssumption DEF CRLF
  <2>3. LinesBytes(m.lines) \o CRLF \in Seq(Bytes)
    BY <2>1, <2>2, ConcatProperties
  <2>4. (LinesBytes(m.lines) \o CRLF) \o m.body \in Seq(Bytes)
    BY <2>1, <2>3, ConcatProperties
  <2> QED BY <2>4 DEF MessageBytes
<1> QED BY <1>1 DEF MessageMap, IsMap

\* So messages are.
LEMMA WireIs ==
  ASSUME NEW c \in Seq(Messages)
  PROVE  Wire(c) = FlattenSeq(Image(MessageMap, c))
<1>1. \A i \in DOMAIN c : c[i] \in Messages
  BY LenProperties, ElementOfSeq
<1>2. \A i \in DOMAIN c : MessageMap[c[i]] = MessageBytes(c[i])
  BY <1>1 DEF MessageMap
<1>3. Image(MessageMap, c) = [i \in DOMAIN c |-> MessageBytes(c[i])]
  BY <1>2 DEF Image
<1> QED BY <1>3 DEF Wire

\* They are bytes.
LEMMA WireType ==
  ASSUME NEW c \in Seq(Messages)
  PROVE  Wire(c) \in Seq(Bytes)
BY WireIs, MessageMapType, FlattenImageType

\* So are conversations.
LEMMA ConversationType ==
  ASSUME NEW c \in Conversations
  PROVE  c \in Seq(Messages) /\ Wire(c) \in Seq(Bytes)
BY ConversationAssumption, WireType DEF Messages, Texts

\* The first message comes first.
LEMMA WireFirst ==
  ASSUME NEW c \in Seq(Messages), NEW n \in 1 .. Len(c)
  PROVE  Wire(SubSeq(c, n, Len(c))) = MessageBytes(c[n]) \o Wire(SubSeq(c, n + 1, Len(c)))
<1>1. Len(c) \in Nat
  BY LenProperties
<1>2. SubSeq(c, n, Len(c)) \in Seq(Messages) /\ SubSeq(c, n + 1, Len(c)) \in Seq(Messages)
  <2>1. n \in 1 .. Len(c) + 1 /\ n + 1 \in 1 .. Len(c) + 1
    BY <1>1
  <2> QED BY <2>1, RestOfSeq
<1>3. c[n] \in Messages
  BY ElementOfSeq
<1>4. FlattenSeq(Image(MessageMap, SubSeq(c, n, Len(c)))) =
        MessageMap[c[n]] \o FlattenSeq(Image(MessageMap, SubSeq(c, n + 1, Len(c))))
  BY MessageMapType, FlattenImageFirst
<1> QED BY <1>2, <1>3, <1>4, WireIs DEF MessageMap

\* Behind the last there is nothing.
LEMMA WireEnd ==
  ASSUME NEW c \in Seq(Messages)
  PROVE  Wire(SubSeq(c, Len(c) + 1, Len(c))) = <<>>
<1>1. SubSeq(c, Len(c) + 1, Len(c)) = <<>>
  BY LenProperties, SubSeqEmpty
<1>2. <<>> \in Seq(Messages)
  BY EmptySeq
<1> QED BY <1>1, <1>2, WireIs, FlattenImageEmpty

-----------------------------------------------------------------------------
(* The parser.                                                             *)

\* A new object has its types.
LEMMA TypeInit == Init => TypeOK
<1> SUFFICES ASSUME Init PROVE TypeOK
  OBVIOUS
<1>1. IsBuffer(readBuffer)
  BY NewIsEmpty DEF Init
<1>2. request \in [lines : Seq(Bytes), body : Seq(Bytes)]
  BY DEF Init, NoRequest
<1>3. sent \in Conversations /\ coming \in Seq(Bytes)
  BY ConversationType DEF Init
<1> QED BY <1>1, <1>2, <1>3 DEF Init, TypeOK

\* A line of the head that is not rejected.
LEMMA AddLineType ==
  ASSUME TypeOK, HasLine, AddLine
  PROVE  request' \in [lines : Seq(Bytes), body : Seq(Bytes)]
<1>1. Line \in Seq(Bytes)
  BY LineParts DEF TypeOK
<1>2. request.lines \in Seq(Bytes) /\ request \in [lines : Seq(Bytes), body : Seq(Bytes)]
  BY DEF TypeOK
<1>3. request.lines \o Line \in Seq(Bytes)
  BY <1>1, <1>2, ConcatProperties
<1> QED BY <1>2, <1>3 DEF AddLine

\* Every step keeps the types.
LEMMA TypeStep == TypeOK /\ [Next]_vars => TypeOK'
<1> SUFFICES ASSUME TypeOK, [Next]_vars PROVE TypeOK'
  OBVIOUS
<1>1. CASE ParseRequestLine
  <2>1. IsBuffer(readBuffer') /\ taken' \in Seq(Bytes)
    BY <1>1, TakeLineKeeps DEF ParseRequestLine
  <2>2. request' \in [lines : Seq(Bytes), body : Seq(Bytes)]
    BY <1>1, AddLineType DEF ParseRequestLine, TakeLine, Reject, TypeOK
  <2> QED BY <1>1, <2>1, <2>2 DEF TypeOK, ParseRequestLine, Reject
<1>2. CASE ParseHeaderLine
  <2>1. IsBuffer(readBuffer') /\ taken' \in Seq(Bytes)
    BY <1>2, TakeLineKeeps DEF ParseHeaderLine
  <2>2. request' \in [lines : Seq(Bytes), body : Seq(Bytes)]
    BY <1>2, AddLineType DEF ParseHeaderLine, TakeLine, Reject, TypeOK
  <2>3. contentLength' \in Nat
    <3>1. ASSUME NEW h \in Headers \ {"nan"}, Line = <<h>>, Line # <<"other">>
          PROVE  LengthOf[Line[1]] \in Nat
      <4>1. h \in {"len0", "len1", "len2", "huge"}
        BY <3>1 DEF Headers, LengthOf
      <4>2. MaxBody \in Nat
        BY BoundAssumption
      <4> QED BY <3>1, <4>1, <4>2 DEF LengthOf
    <3> QED BY <1>2, <3>1 DEF ParseHeaderLine, IsHeaderLine, HeaderLines, Reject, TypeOK
  <2> QED BY <1>2, <2>1, <2>2, <2>3 DEF TypeOK, ParseHeaderLine, Reject
<1>3. CASE EndHeaders
  <2>1. IsBuffer(readBuffer') /\ taken' \in Seq(Bytes)
    BY <1>3, TakeLineKeeps DEF EndHeaders
  <2> QED BY <1>3, <2>1 DEF TypeOK, EndHeaders
<1>4. CASE BodyTooLarge
  BY <1>4 DEF TypeOK, BodyTooLarge, Reject
<1>5. CASE ParseBody
  <2>1. /\ IsBuffer(readBuffer') /\ taken' \in Seq(Bytes)
        /\ request'.body \in Seq(Bytes)
        /\ request' = [request EXCEPT !.body = request'.body]
    BY <1>5, ParseBodyKeeps
  <2>2. request' \in [lines : Seq(Bytes), body : Seq(Bytes)]
    BY <2>1 DEF TypeOK
  <2> QED BY <1>5, <2>1, <2>2 DEF TypeOK, ParseBody
<1>6. CASE Incomplete
  BY <1>6 DEF TypeOK, Incomplete, context, histories
<1>7. CASE Complete
  <2>1. handled' \in Seq([lines : Seq(Bytes), body : Seq(Bytes)])
    BY <1>7, AppendProperties DEF TypeOK, Complete
  <2> QED BY <1>7, <2>1 DEF TypeOK, Complete, context
<1>8. CASE ProcessInWorker
  BY <1>8 DEF TypeOK, ProcessInWorker, context, histories
<1>9. CASE OnResponseFinished
  <2>1. request' \in [lines : Seq(Bytes), body : Seq(Bytes)]
    BY <1>9 DEF OnResponseFinished, Reset, NoRequest
  <2> QED BY <1>9, <2>1 DEF TypeOK, OnResponseFinished, Reset, histories
<1>10. CASE Receive
  <2>1. IsBuffer(readBuffer') /\ coming' \in Seq(Bytes)
    BY <1>10, ReceiveKeeps
  <2> QED BY <1>10, <2>1 DEF TypeOK, Receive, context, histories
<1>11. CASE Close
  BY <1>11 DEF TypeOK, Close, context, histories
<1>12. CASE Reuse
  <2>1. IsBuffer(readBuffer')
    BY <1>12, ClearEmpties DEF TypeOK, Reuse
  <2>2. request' \in [lines : Seq(Bytes), body : Seq(Bytes)]
    BY <1>12 DEF Reuse, Reset, NoRequest
  <2>3. sent' \in Conversations /\ coming' \in Seq(Bytes)
    BY <1>12, ConversationType DEF Reuse
  <2> QED BY <1>12, <2>1, <2>2, <2>3 DEF TypeOK, Reuse, Reset
<1>13. CASE UNCHANGED vars
  BY <1>13 DEF TypeOK, vars
<1> QED BY <1>1, <1>2, <1>3, <1>4, <1>5, <1>6, <1>7, <1>8, <1>9, <1>10, <1>11, <1>12,
           <1>13 DEF Next, LoopStep, ParseStep

\* The variables of the parser have their types, and the positions of the buffer
\* stay in order and within its string, whatever arrives in whatever pieces.
THEOREM TypeCorrect == Spec => []TypeOK
BY TypeInit, TypeStep, PTL DEF Spec

\* At first everything is on its way.
LEMMA NothingLostInit == Init => NoByteLost
<1> SUFFICES ASSUME Init PROVE NoByteLost
  OBVIOUS
<1>1. taken = <<>> /\ Unread(readBuffer) = <<>> /\ coming = Wire(sent)
  BY NewIsEmpty DEF Init
<1>2. Wire(sent) \in Seq(Bytes)
  BY ConversationType DEF Init
<1>3. (<<>> \o <<>>) \o Wire(sent) = Wire(sent)
  BY <1>2, ConcatEmptySeq, EmptySeq
<1> QED BY <1>1, <1>3 DEF NoByteLost

\* Every step moves bytes from one of the three places to the next.
LEMMA NothingLostStep == TypeOK /\ NoByteLost /\ [Next]_vars => NoByteLost'
<1> SUFFICES ASSUME TypeOK, NoByteLost, [Next]_vars PROVE NoByteLost'
  OBVIOUS
<1>1. ASSUME taken' \o Unread(readBuffer') = taken \o Unread(readBuffer),
             UNCHANGED <<coming, sent>>
      PROVE  NoByteLost'
  BY <1>1 DEF NoByteLost
<1>2. CASE ParseRequestLine \/ ParseHeaderLine \/ EndHeaders
  <2>1. TakeLine /\ UNCHANGED <<coming, sent>>
    BY <1>2 DEF ParseRequestLine, ParseHeaderLine, EndHeaders
  <2> QED BY <1>1, <2>1, TakeLineKeeps
<1>3. CASE ParseBody
  <2>1. UNCHANGED <<coming, sent>>
    BY <1>3 DEF ParseBody
  <2> QED BY <1>1, <1>3, <2>1, ParseBodyKeeps
<1>4. CASE Receive
  <2>1. /\ Unread(readBuffer') \o coming' = Unread(readBuffer) \o coming
        /\ IsBuffer(readBuffer') /\ coming' \in Seq(Bytes)
    BY <1>4, ReceiveKeeps
  <2>2. /\ Unread(readBuffer) \in Seq(Bytes) /\ Unread(readBuffer') \in Seq(Bytes)
        /\ taken \in Seq(Bytes) /\ coming \in Seq(Bytes)
    BY <2>1, BufferParts DEF TypeOK
  <2>3. (taken \o Unread(readBuffer)) \o coming = taken \o (Unread(readBuffer) \o coming)
    BY <2>2, BytesAssociate
  <2>4. (taken \o Unread(readBuffer')) \o coming' = taken \o (Unread(readBuffer') \o coming')
    <3>1. /\ taken \in Seq(Bytes) /\ Unread(readBuffer') \in Seq(Bytes)
          /\ coming' \in Seq(Bytes)
      BY <2>1, <2>2
    <3> QED BY <3>1, BytesAssociate
  <2>5. taken' = taken /\ sent' = sent
    BY <1>4 DEF Receive, histories
  <2> QED BY <2>1, <2>3, <2>4, <2>5 DEF NoByteLost
<1>5. CASE Reuse
  <2>1. taken' = <<>> /\ Unread(readBuffer') = <<>> /\ coming' = Wire(sent')
    BY <1>5, ClearEmpties DEF TypeOK, Reuse
  <2>2. Wire(sent') \in Seq(Bytes)
    BY <1>5, ConversationType DEF Reuse
  <2>3. (<<>> \o <<>>) \o Wire(sent') = Wire(sent')
    BY <2>2, ConcatEmptySeq, EmptySeq
  <2> QED BY <2>1, <2>3 DEF NoByteLost
<1>6. CASE \/ BodyTooLarge \/ Incomplete \/ Complete \/ ProcessInWorker
           \/ OnResponseFinished \/ Close \/ UNCHANGED vars
  <2>1. UNCHANGED <<taken, readBuffer, coming, sent>>
    BY <1>6 DEF BodyTooLarge, Incomplete, Complete, ProcessInWorker, OnResponseFinished,
                Close, vars, histories
  <2> QED BY <1>1, <2>1
<1> QED BY <1>2, <1>3, <1>4, <1>5, <1>6 DEF Next, LoopStep, ParseStep

\* What a client sends is, at any time, what the parser has taken, then what is
\* buffered, then what is on its way: no byte is lost, repeated or moved, and none
\* of the object's last connection is among them.
THEOREM NothingLost == Spec => []NoByteLost
<1>1. Init => TypeOK /\ NoByteLost
  BY TypeInit, NothingLostInit
<1>2. (TypeOK /\ NoByteLost) /\ [Next]_vars => (TypeOK /\ NoByteLost)'
  BY TypeStep, NothingLostStep
<1> QED BY <1>1, <1>2, PTL DEF Spec

\* Whatever is received, cut and parsed, the buffer's positions stay within its string
\* and no byte is lost between them.
THEOREM BufferIsSound == Spec => []BufferSound
<1>1. TypeOK /\ NoByteLost => BufferSound
  BY DEF BufferSound
<1> QED BY <1>1, TypeCorrect, NothingLost, PTL


-----------------------------------------------------------------------------
(* What is left of a message in the middle of it.                          *)

Rest == Unread(readBuffer) \o coming

\* The messages from the n-th on.
From(n) == SubSeq(sent, n, Len(sent))

\* The bytes of m behind its first j lines.
Left(m, j) == (LinesBytes(SubSeq(m.lines, j + 1, Len(m.lines))) \o CRLF) \o m.body

\* They are bytes.
LEMMA LeftType ==
  ASSUME NEW m \in Messages, NEW j \in 0 .. Len(m.lines)
  PROVE  Left(m, j) \in Seq(Bytes)
<1>1. m.lines \in Seq(Texts) /\ m.body \in Seq(Bytes)
  BY DEF Messages
<1>2. SubSeq(m.lines, j + 1, Len(m.lines)) \in Seq(Texts)
  <2>1. j + 1 \in 1 .. Len(m.lines) + 1
    BY <1>1, LenProperties
  <2> QED BY <1>1, <2>1, RestOfSeq
<1>7. LinesBytes(SubSeq(m.lines, j + 1, Len(m.lines))) \in Seq(Bytes)
  BY <1>2, LinesType
<1>3. PICK l \in Seq(Bytes) : l = LinesBytes(SubSeq(m.lines, j + 1, Len(m.lines)))
  BY <1>7
<1>4. CRLF \in Seq(Bytes)
  BY TokenAssumption DEF CRLF
<1>5. l \o CRLF \in Seq(Bytes)
  BY <1>4, ConcatProperties
<1>6. (l \o CRLF) \o m.body \in Seq(Bytes)
  BY <1>1, <1>5, ConcatProperties
<1> QED BY <1>3, <1>6 DEF Left

\* At first all of it is left.
LEMMA LeftAll ==
  ASSUME NEW m \in Messages
  PROVE  MessageBytes(m) = Left(m, 0)
<1>1. m.lines \in Seq(Texts)
  BY DEF Messages
<1>2. SubSeq(m.lines, 0 + 1, Len(m.lines)) = m.lines
  BY <1>1, SubSeqFull
<1> QED BY <1>2 DEF MessageBytes, Left

\* The next line comes next,
LEMMA LeftFirst ==
  ASSUME NEW m \in Messages, NEW j \in Nat, j < Len(m.lines)
  PROVE  Left(m, j) = (<<m.lines[j + 1]>> \o CRLF) \o Left(m, j + 1)
<1>1. m.lines \in Seq(Texts) /\ m.body \in Seq(Bytes) /\ Len(m.lines) \in Nat
  BY LenProperties DEF Messages
<1>2. PICK l, r : /\ l = LineBytes(m.lines[j + 1])
                  /\ r = LinesBytes(SubSeq(m.lines, (j + 1) + 1, Len(m.lines)))
  OBVIOUS
<1>3. j + 1 \in 1 .. Len(m.lines) /\ (j + 1) + 1 \in 1 .. Len(m.lines) + 1
  BY <1>1
<1>4. LinesBytes(SubSeq(m.lines, j + 1, Len(m.lines))) = l \o r
  BY <1>1, <1>2, <1>3, LinesFirst
<1>5. r \in Seq(Bytes)
  <2>1. SubSeq(m.lines, (j + 1) + 1, Len(m.lines)) \in Seq(Texts)
    BY <1>1, <1>3, RestOfSeq
  <2> QED BY <1>2, <2>1, LinesType
<1>6. CRLF \in Seq(Bytes) /\ l \in Seq(Bytes)
  <2>1. m.lines[j + 1] \in Texts
    BY <1>1, <1>3, ElementOfSeq
  <2>2. LineMap[m.lines[j + 1]] = l
    BY <1>2, <2>1 DEF LineMap
  <2> QED BY <2>1, <2>2, LineMapType, TokenAssumption DEF IsMap, CRLF
<1>7. (l \o r) \o CRLF = l \o (r \o CRLF)
  BY <1>5, <1>6, BytesAssociate
<1>8. r \o CRLF \in Seq(Bytes)
  BY <1>5, <1>6, ConcatProperties
<1>9. (l \o (r \o CRLF)) \o m.body = l \o ((r \o CRLF) \o m.body)
  BY <1>1, <1>6, <1>8, BytesAssociate
<1>10. Left(m, j) = ((l \o r) \o CRLF) \o m.body
  BY <1>4 DEF Left
<1>11. Left(m, j + 1) = (r \o CRLF) \o m.body
  BY <1>2 DEF Left
<1> QED BY <1>2, <1>7, <1>9, <1>10, <1>11 DEF LineBytes

\* and after the last line the empty one, and the body.
LEMMA LeftLast ==
  ASSUME NEW m \in Messages
  PROVE  Left(m, Len(m.lines)) = (<<>> \o CRLF) \o m.body
<1>1. m.lines \in Seq(Texts)
  BY DEF Messages
<1> QED BY <1>1, LinesEnd DEF Left

\* Of two equal concatenations the first parts are equal if they are as long, and so
\* are the others.
LEMMA SameParts ==
  ASSUME NEW S, NEW s \in Seq(S), NEW t \in Seq(S), NEW a \in Seq(S), NEW b \in Seq(S),
         s \o a = t \o b, Len(s) = Len(t)
  PROVE  s = t /\ a = b
<1>1. /\ \A i \in 1 .. Len(s) + Len(a) :
           (s \o a)[i] = IF i <= Len(s) THEN s[i] ELSE a[i - Len(s)]
      /\ \A i \in 1 .. Len(t) + Len(b) :
           (t \o b)[i] = IF i <= Len(t) THEN t[i] ELSE b[i - Len(t)]
  BY ConcatProperties
<1>2. Len(s) \in Nat /\ Len(a) \in Nat /\ Len(b) \in Nat
  BY LenProperties
<1>3. \A i \in 1 .. Len(s) : s[i] = t[i]
  BY <1>1, <1>2
<1>4. s = t
  BY <1>3, SeqEqual
<1> QED BY <1>4, ConcatSimplifications

\* If what has not been taken begins with a text and CR LF, then the text is the line
\* that is found, wherever what has been received ends.
LEMMA LineIs ==
  ASSUME TypeOK, HasLine, NEW text \in Seq(Texts), NEW rest \in Seq(Bytes),
         Rest = (text \o CRLF) \o rest
  PROVE  Line = text
<1>1. PICK u, n, q : u = Unread(readBuffer) /\ n = Len(text) /\ q = Len(u)
  OBVIOUS
<1>2. /\ u \in Seq(Bytes) /\ coming \in Seq(Bytes) /\ text \in Seq(Bytes)
      /\ CRLF \in Seq(Bytes) /\ n \in Nat /\ q \in Nat
  <2>1. u \in Seq(Bytes) /\ coming \in Seq(Bytes)
    BY <1>1, BufferParts DEF TypeOK
  <2>2. text \in Seq(Bytes)
    <3>1. Texts \subseteq Bytes
      BY DEF Texts
    <3> QED BY <3>1, SeqMonotonic
  <2> QED BY <1>1, <2>1, <2>2, LenProperties, TokenAssumption DEF CRLF
<1>3. \A i \in 1 .. q : Rest[i] = u[i]
  <2>1. \A i \in 1 .. Len(u) + Len(coming) :
          (u \o coming)[i] = IF i <= Len(u) THEN u[i] ELSE coming[i - Len(u)]
    BY <1>2, ConcatProperties
  <2>2. Len(coming) \in Nat /\ Rest = u \o coming
    BY <1>1, <1>2, LenProperties DEF Rest
  <2> QED BY <1>1, <1>2, <2>1, <2>2
<1>4. /\ \A i \in 1 .. n : Rest[i] = text[i]
      /\ Rest[n + 1] = "cr" /\ Rest[n + 2] = "lf"
  <2>1. PICK h : h = text \o CRLF
    OBVIOUS
  <2>2. Len(CRLF) = 2 /\ CRLF[1] = "cr" /\ CRLF[2] = "lf"
    BY DEF CRLF
  <2>3. /\ h \in Seq(Bytes) /\ Len(h) = n + 2
        /\ \A i \in 1 .. n + 2 : h[i] = IF i <= n THEN text[i] ELSE CRLF[i - n]
    <3>1. /\ text \o CRLF \in Seq(Bytes) /\ Len(text \o CRLF) = Len(text) + Len(CRLF)
          /\ \A i \in 1 .. Len(text) + Len(CRLF) :
               (text \o CRLF)[i] = IF i <= Len(text) THEN text[i] ELSE CRLF[i - Len(text)]
      BY <1>2, ConcatProperties
    <3> QED BY <1>1, <2>1, <2>2, <3>1
  <2>4. \A i \in 1 .. Len(h) + Len(rest) :
          (h \o rest)[i] = IF i <= Len(h) THEN h[i] ELSE rest[i - Len(h)]
    BY <2>3, ConcatProperties
  <2>5. \A i \in 1 .. n + 2 : Rest[i] = h[i]
    <3>1. Len(rest) \in Nat
      BY LenProperties
    <3> QED BY <1>2, <2>1, <2>3, <2>4, <3>1
  <2>6. /\ n + 1 \in 1 .. n + 2 /\ n + 2 \in 1 .. n + 2 /\ ~(n + 1 <= n) /\ ~(n + 2 <= n)
        /\ (n + 1) - n = 1 /\ (n + 2) - n = 2
    BY <1>2
  <2>7. h[n + 1] = "cr" /\ h[n + 2] = "lf"
    BY <2>2, <2>3, <2>6
  <2>8. \A i \in 1 .. n : i \in 1 .. n + 2 /\ i <= n
    BY <1>2
  <2> QED BY <2>3, <2>5, <2>6, <2>7, <2>8
<1>5. PICK f : f = FirstLineEnd
  OBVIOUS
<1>6. /\ f \in 1 .. q - 1 /\ u[f] = "cr" /\ u[f + 1] = "lf"
      /\ \A j \in 1 .. q - 1 : u[j] = "cr" /\ u[j + 1] = "lf" => f <= j
  <2>1. PICK T : T = LineEnds(readBuffer)
    OBVIOUS
  <2>2. T = {i \in 1 .. q - 1 : u[i] = "cr" /\ u[i + 1] = "lf"}
    BY <1>1, <2>1 DEF LineEnds
  <2>3. T \in SUBSET Nat /\ T # {}
    BY <1>2, <2>1, <2>2 DEF HasLine
  <2>4. \E i \in T : \A j \in T : i <= j
    BY <2>3, Least
  <2>5. f \in T /\ \A j \in T : f <= j
    BY <1>5, <2>1, <2>4 DEF FirstLineEnd
  <2> QED BY <2>2, <2>5
<1>7. f = n + 1
  <2>1. ~(f <= n)
    <3>1. SUFFICES ASSUME f <= n PROVE FALSE
      OBVIOUS
    <3>2. f \in 1 .. n /\ f \in 1 .. q
      BY <1>2, <1>6, <3>1
    <3>3. text[f] = "cr"
      BY <1>3, <1>4, <1>6, <3>2
    <3>4. text[f] \in Texts
      BY <1>1, <3>2, ElementOfSeq
    <3> QED BY <3>3, <3>4 DEF Texts
  <2>2. ~(f > n + 1)
    <3>1. SUFFICES ASSUME f > n + 1 PROVE FALSE
      OBVIOUS
    <3>2. n + 1 \in 1 .. q - 1 /\ n + 1 \in 1 .. q /\ n + 2 \in 1 .. q /\ (n + 1) + 1 = n + 2
      BY <1>2, <1>6, <3>1
    <3>3. u[n + 1] = "cr" /\ u[(n + 1) + 1] = "lf"
      BY <1>3, <1>4, <3>2
    <3>4. f <= n + 1
      BY <1>6, <3>2, <3>3
    <3> QED BY <1>2, <1>6, <3>1, <3>4
  <2> QED BY <1>2, <1>6, <2>1, <2>2
<1>8. Line = SubSeq(u, 1, n)
  BY <1>1, <1>2, <1>5, <1>7 DEF Line
<1>9. SubSeq(u, 1, n) \in Seq(Bytes) /\ Len(SubSeq(u, 1, n)) = n
      /\ \A i \in 1 .. n : SubSeq(u, 1, n)[i] = u[i]
  <2>1. n \in 0 .. q /\ \A i \in 1 .. n : i \in 1 .. q
    BY <1>2, <1>6, <1>7
  <2>2. /\ SubSeq(u, 0 + 1, n) \in Seq(Bytes) /\ Len(SubSeq(u, 0 + 1, n)) = n - 0
        /\ \A i \in 1 .. n - 0 : SubSeq(u, 0 + 1, n)[i] = u[0 + i]
    BY <1>1, <1>2, <2>1, Slice
  <2>3. 0 + 1 = 1 /\ n - 0 = n /\ \A i \in 1 .. n : 0 + i = i
    BY <1>2
  <2> QED BY <2>2, <2>3
<1>10. \A i \in 1 .. n : SubSeq(u, 1, n)[i] = text[i]
  <2>1. \A i \in 1 .. n : i \in 1 .. q
    BY <1>2, <1>6, <1>7
  <2> QED BY <1>3, <1>4, <1>9, <2>1
<1>11. SubSeq(u, 1, n) = text
  BY <1>1, <1>2, <1>9, <1>10, SeqEqual
<1> QED BY <1>8, <1>11

\* So taking a line takes this one, and leaves the rest.
LEMMA TakesLine ==
  ASSUME TypeOK, TakeLine, coming' = coming, NEW text \in Seq(Texts), NEW rest \in Seq(Bytes),
         Rest = (text \o CRLF) \o rest
  PROVE  Line = text /\ Rest' = rest
<1>1. Line = text
  BY LineIs DEF TakeLine
<1>2. PICK n : n = Len(Line) + 2
  OBVIOUS
<1>3. /\ Line \in Seq(Bytes) /\ CRLF \in Seq(Bytes)
      /\ n \in 0 .. ReadableBytes(readBuffer)
      /\ SubSeq(Unread(readBuffer), 1, n) = Line \o CRLF
  BY <1>2, LineParts DEF TypeOK, TakeLine
<1>4. readBuffer' = Consume(readBuffer, n)
  BY <1>2 DEF TakeLine
<1>5. IsBuffer(readBuffer) /\ coming \in Seq(Bytes)
  BY DEF TypeOK
<1>6. IsBuffer(readBuffer') /\ Unread(readBuffer) = (Line \o CRLF) \o Unread(readBuffer')
  BY <1>3, <1>4, <1>5, ConsumeIsDequeueing
<1>7. PICK v, h : v = Unread(readBuffer') /\ h = Line \o CRLF
  OBVIOUS
<1>8. v \in Seq(Bytes) /\ h \in Seq(Bytes)
  BY <1>3, <1>6, <1>7, BufferParts, ConcatProperties
<1>9. (h \o v) \o coming = h \o (v \o coming)
  BY <1>5, <1>8, BytesAssociate
<1>10. h \o (v \o coming) = h \o rest
  BY <1>1, <1>6, <1>7, <1>9 DEF Rest
<1>11. v \o coming \in Seq(Bytes)
  BY <1>5, <1>8, ConcatProperties
<1>12. v \o coming = rest
  BY <1>8, <1>10, <1>11, ConcatSimplifications
<1> QED BY <1>1, <1>7, <1>12 DEF Rest

\* Where nothing is left there is no line.
LEMMA NoLineInNothing ==
  ASSUME TypeOK, Rest = <<>>
  PROVE  ~HasLine
<1>1. PICK u : u = Unread(readBuffer)
  OBVIOUS
<1>2. u \in Seq(Bytes) /\ coming \in Seq(Bytes)
  BY <1>1, BufferParts DEF TypeOK
<1>3. u = <<>>
  BY <1>1, <1>2, ConcatEqualIffEmpty DEF Rest
<1>4. Len(u) = 0
  BY <1>3, EmptySeq
<1> QED BY <1>1, <1>4 DEF HasLine, LineEnds


-----------------------------------------------------------------------------
(* What the lines of a message say.                                        *)

\* A request line has no length, and is no header.
LEMMA StartLine ==
  ASSUME NEW l, l \in StartLines
  PROVE  CanBeParsed(<<l>>) /\ LengthIs(<<l>>, 0)
<1>1. Len(<<l>>) = 1 /\ DOMAIN <<l>> = 1 .. 1 /\ <<l>>[1] = l /\ <<l>> # <<>>
  OBVIOUS
<1>2. l \notin DOMAIN LengthOf
  BY DEF StartLines, LengthOf
<1> QED BY <1>1, <1>2 DEF CanBeParsed, LengthIs

\* A header line that is added is the last.
LEMMA HeaderLine ==
  ASSUME NEW lines \in Seq(Bytes), NEW h \in HeaderLines, NEW n,
         CanBeParsed(lines), LengthIs(lines, n)
  PROVE  /\ CanBeParsed(Append(lines, h))
         /\ LengthIs(Append(lines, h), IF h = "other" THEN n ELSE LengthOf[h])
<1>1. h \in Bytes
  BY TokenAssumption DEF HeaderLines
<1>2. PICK t, k : t = Append(lines, h) /\ k = Len(lines)
  OBVIOUS
<1>3. /\ t # <<>> /\ Len(t) = k + 1 /\ DOMAIN t = 1 .. k + 1
      /\ \A i \in 1 .. k : t[i] = lines[i]
      /\ t[k + 1] = h
      /\ k \in Nat /\ DOMAIN lines = 1 .. k
  <2>1. /\ t \in Seq(Bytes) /\ t # <<>> /\ Len(t) = k + 1
        /\ \A i \in 1 .. k : t[i] = lines[i]
        /\ t[k + 1] = h
    BY <1>1, <1>2, AppendProperties
  <2> QED BY <1>2, <2>1, LenProperties
<1>4. CanBeParsed(t)
  <2>1. lines # <<>> /\ lines[1] \in StartLines /\ \A i \in 2 .. k : lines[i] \in HeaderLines
    BY <1>2 DEF CanBeParsed
  <2>2. k # 0
    BY <1>2, <2>1, EmptySeq
  <2>3. 1 \in 1 .. k
    BY <1>3, <2>2
  <2>4. t[1] \in StartLines
    BY <1>3, <2>1, <2>3
  <2>5. ASSUME NEW i \in 2 .. k + 1 PROVE t[i] \in HeaderLines
    <3>1. CASE i = k + 1
      BY <1>3, <3>1
    <3>2. CASE i # k + 1
      <4>1. i \in 2 .. k /\ i \in 1 .. k
        BY <1>3, <3>2
      <4> QED BY <1>3, <2>1, <4>1
    <3> QED BY <3>1, <3>2
  <2> QED BY <1>3, <2>4, <2>5 DEF CanBeParsed
<1>5. LengthIs(t, IF h = "other" THEN n ELSE LengthOf[h])
  <2>1. CASE h = "other"
    <3>1. h \notin DOMAIN LengthOf
      BY <2>1 DEF LengthOf
    <3>2. CASE n = 0 /\ \A i \in 1 .. k : lines[i] \notin DOMAIN LengthOf
      <4>1. \A i \in 1 .. k + 1 : t[i] \notin DOMAIN LengthOf
        <5>1. \A i \in 1 .. k + 1 : i \in 1 .. k \/ i = k + 1
          BY <1>3
        <5> QED BY <1>3, <3>1, <3>2, <5>1
      <4> QED BY <1>3, <2>1, <3>2, <4>1 DEF LengthIs
    <3>3. CASE \E i \in 1 .. k :
                 /\ lines[i] \in DOMAIN LengthOf /\ n = LengthOf[lines[i]]
                 /\ \A j \in i + 1 .. k : lines[j] \notin DOMAIN LengthOf
      <4>1. PICK i \in 1 .. k :
              /\ lines[i] \in DOMAIN LengthOf /\ n = LengthOf[lines[i]]
              /\ \A j \in i + 1 .. k : lines[j] \notin DOMAIN LengthOf
        BY <3>3
      <4>2. i \in 1 .. k + 1 /\ t[i] = lines[i]
        BY <1>3
      <4>3. \A j \in i + 1 .. k + 1 : t[j] \notin DOMAIN LengthOf
        <5>1. \A j \in i + 1 .. k + 1 : (j \in i + 1 .. k /\ j \in 1 .. k) \/ j = k + 1
          BY <1>3
        <5> QED BY <1>3, <3>1, <4>1, <5>1
      <4> QED BY <1>3, <2>1, <4>1, <4>2, <4>3 DEF LengthIs
    <3> QED BY <1>2, <1>3, <3>2, <3>3 DEF LengthIs
  <2>2. CASE h # "other"
    <3>1. h \in DOMAIN LengthOf
      BY <2>2 DEF HeaderLines, Headers
    <3>2. k + 1 \in 1 .. k + 1 /\ \A j \in (k + 1) + 1 .. k + 1 : FALSE
      BY <1>3
    <3> QED BY <1>3, <2>2, <3>1, <3>2 DEF LengthIs
  <2> QED BY <2>1, <2>2
<1> QED BY <1>2, <1>4, <1>5

\* The lines say one length.
LEMMA OneLength ==
  ASSUME NEW lines \in Seq(Bytes), NEW n, NEW q, LengthIs(lines, n), LengthIs(lines, q)
  PROVE  n = q
<1>1. PICK k \in Nat : k = Len(lines) /\ DOMAIN lines = 1 .. k
  BY LenProperties
<1>2. CASE \A i \in 1 .. k : lines[i] \notin DOMAIN LengthOf
  BY <1>1, <1>2 DEF LengthIs
<1>3. CASE ~ \A i \in 1 .. k : lines[i] \notin DOMAIN LengthOf
  <2>1. PICK i \in 1 .. k :
          /\ lines[i] \in DOMAIN LengthOf /\ n = LengthOf[lines[i]]
          /\ \A j \in i + 1 .. k : lines[j] \notin DOMAIN LengthOf
    BY <1>1, <1>3 DEF LengthIs
  <2>2. PICK p \in 1 .. k :
          /\ lines[p] \in DOMAIN LengthOf /\ q = LengthOf[lines[p]]
          /\ \A j \in p + 1 .. k : lines[j] \notin DOMAIN LengthOf
    BY <1>1, <1>3 DEF LengthIs
  <2>3. ~(i < p) /\ ~(p < i)
    <3>1. i < p => p \in i + 1 .. k
      OBVIOUS
    <3>2. p < i => i \in p + 1 .. k
      OBVIOUS
    <3> QED BY <2>1, <2>2, <3>1, <3>2
  <2>4. i = p
    BY <2>3
  <2> QED BY <2>1, <2>2, <2>4
<1> QED BY <1>2, <1>3

\* A message of the client whose lines can be parsed has the body that they say,
\* or one that is rejected for its length.
LEMMA Framed ==
  ASSUME TypeOK, NEW i \in 1 .. Len(sent), NEW n \in Nat,
         CanBeParsed(sent[i].lines), LengthIs(sent[i].lines, n), n <= MaxBody
  PROVE  Len(sent[i].body) = n /\ WellFormed(sent[i])
<1>1. sent \in Conversations /\ sent \in Seq(Messages)
  BY ConversationType DEF TypeOK
<1>2. i \in DOMAIN sent /\ sent[i] \in Messages
  BY <1>1, LenProperties, ElementOfSeq
<1>3. sent[i].lines \in Seq(Bytes)
  <2>1. Texts \subseteq Bytes /\ sent[i].lines \in Seq(Texts)
    BY <1>2 DEF Texts, Messages
  <2> QED BY <2>1, SeqMonotonic
<1>4. \/ LengthIs(sent[i].lines, Len(sent[i].body))
      \/ \E q \in Nat : q > MaxBody /\ LengthIs(sent[i].lines, q)
  BY <1>1, <1>2, FramingAssumption
<1>5. MaxBody \in Nat
  BY BoundAssumption
<1>6. ~ \E q \in Nat : q > MaxBody /\ LengthIs(sent[i].lines, q)
  <2>1. SUFFICES ASSUME NEW q \in Nat, q > MaxBody, LengthIs(sent[i].lines, q) PROVE FALSE
    OBVIOUS
  <2>2. q = n
    BY <1>3, <2>1, OneLength
  <2> QED BY <1>5, <2>1, <2>2
<1>7. LengthIs(sent[i].lines, Len(sent[i].body))
  BY <1>4, <1>6
<1>8. Len(sent[i].body) = n
  BY <1>3, <1>7, OneLength
<1> QED BY <1>7, <1>8 DEF WellFormed


-----------------------------------------------------------------------------
(* Requests are handled as they were sent.                                 *)

\* Behind the k-th message, and before the next: nothing of it has been taken.
Between(k) ==
  /\ state = "REQUEST_LINE" /\ request = NoRequest /\ contentLength = 0
  /\ Rest = Wire(From(k + 1))

\* In the lines of the next message.
InHead(k) ==
  /\ state = "HEADERS" /\ k < Len(sent)
  /\ \E j \in 1 .. Len(sent[k + 1].lines) :
       /\ request = [lines |-> SubSeq(sent[k + 1].lines, 1, j), body |-> <<>>]
       /\ CanBeParsed(request.lines)
       /\ LengthIs(request.lines, contentLength)
       /\ Rest = Left(sent[k + 1], j) \o Wire(From(k + 2))

\* Before its body, and all its lines are there.
InBody(k) ==
  /\ state = "BODY" /\ k < Len(sent)
  /\ request = [lines |-> sent[k + 1].lines, body |-> <<>>]
  /\ CanBeParsed(request.lines)
  /\ LengthIs(request.lines, contentLength)
  /\ Rest = sent[k + 1].body \o Wire(From(k + 2))

\* All of it has been taken.
Finished(k) ==
  /\ state = "FINISH" /\ k < Len(sent)
  /\ request = sent[k + 1]
  /\ WellFormed(sent[k + 1])
  /\ Rest = Wire(From(k + 2))

\* The requests handled are the first messages.
FirstHandled ==
  /\ Len(handled) <= Len(sent)
  /\ \A i \in 1 .. Len(handled) : handled[i] = sent[i] /\ WellFormed(sent[i])

\* Where the parser is, by where the connection is.
ParserInv ==
  /\ FirstHandled
  /\ at \in {"idle", "read", "parse"} =>
       \/ Between(Len(handled))
       \/ InHead(Len(handled))
       \/ InBody(Len(handled))
       \/ (at = "parse" /\ Finished(Len(handled)))
  /\ at = "respond" => Len(handled) > 0 /\ Finished(Len(handled) - 1)
  /\ at = "error" => Len(handled) < Len(sent) /\ ~WellFormed(sent[Len(handled) + 1])

\* The messages from one on, and the next of them, are what they have to be.
LEMMA SentParts ==
  ASSUME TypeOK
  PROVE  /\ sent \in Seq(Messages) /\ Len(sent) \in Nat
         /\ \A i \in 1 .. Len(sent) :
              /\ sent[i] \in Messages /\ sent[i].lines \in Seq(Texts)
              /\ sent[i].body \in Seq(Bytes) /\ Len(sent[i].lines) \in Nat
         /\ \A i \in 1 .. Len(sent) + 1 : Wire(From(i)) \in Seq(Bytes)
<1>1. sent \in Seq(Messages) /\ Len(sent) \in Nat
  BY ConversationType, LenProperties DEF TypeOK
<1>2. \A i \in 1 .. Len(sent) : sent[i] \in Messages
  BY <1>1, ElementOfSeq
<1>3. \A i \in 1 .. Len(sent) : /\ sent[i].lines \in Seq(Texts)
                                /\ sent[i].body \in Seq(Bytes)
  BY <1>2 DEF Messages
<1>4. \A i \in 1 .. Len(sent) : Len(sent[i].lines) \in Nat
  BY <1>3, LenProperties
<1>5. ASSUME NEW i \in 1 .. Len(sent) + 1 PROVE Wire(From(i)) \in Seq(Bytes)
  <2>1. From(i) \in Seq(Messages)
    BY <1>1, RestOfSeq DEF From
  <2> QED BY <2>1, WireType
<1> QED BY <1>1, <1>2, <1>3, <1>4, <1>5

\* When a message is next, it is what comes first of what has not been taken.
LEMMA NextMessage ==
  ASSUME TypeOK, NEW k \in Nat, k < Len(sent)
  PROVE  Wire(From(k + 1)) = Left(sent[k + 1], 0) \o Wire(From(k + 2))
<1>1. sent \in Seq(Messages) /\ k + 1 \in 1 .. Len(sent) /\ sent[k + 1] \in Messages
  BY SentParts
<1>2. Wire(SubSeq(sent, k + 1, Len(sent))) =
        MessageBytes(sent[k + 1]) \o Wire(SubSeq(sent, (k + 1) + 1, Len(sent)))
  BY <1>1, WireFirst
<1>3. (k + 1) + 1 = k + 2
  OBVIOUS
<1> QED BY <1>1, <1>2, <1>3, LeftAll DEF From

\* Behind the last there is nothing.
LEMMA NoMessage ==
  ASSUME TypeOK
  PROVE  Wire(From(Len(sent) + 1)) = <<>>
BY SentParts, WireEnd DEF From

\* In the middle of a message, the line taken is its next one, or the empty one
\* behind its lines.
LEMMA LineOfMessage ==
  ASSUME TypeOK, TakeLine, coming' = coming, NEW k \in Nat, k < Len(sent),
         NEW j \in 0 .. Len(sent[k + 1].lines),
         Rest = Left(sent[k + 1], j) \o Wire(From(k + 2))
  PROVE  IF j < Len(sent[k + 1].lines)
         THEN /\ Line = <<sent[k + 1].lines[j + 1]>>
              /\ sent[k + 1].lines[j + 1] \in Texts
              /\ Rest' = Left(sent[k + 1], j + 1) \o Wire(From(k + 2))
         ELSE /\ Line = <<>>
              /\ Rest' = sent[k + 1].body \o Wire(From(k + 2))
<1>1. PICK m, w : m = sent[k + 1] /\ w = Wire(From(k + 2))
  OBVIOUS
<1>2. /\ m \in Messages /\ m.lines \in Seq(Texts) /\ m.body \in Seq(Bytes)
      /\ Len(m.lines) \in Nat /\ w \in Seq(Bytes) /\ CRLF \in Seq(Bytes)
  <2>1. k + 1 \in 1 .. Len(sent) /\ k + 2 \in 1 .. Len(sent) + 1
    BY SentParts
  <2>2. CRLF \in Seq(Bytes)
    BY TokenAssumption DEF CRLF
  <2> QED BY <1>1, <2>1, <2>2, SentParts
<1>3. CASE j < Len(m.lines)
  <2>1. PICK t, r : t = m.lines[j + 1] /\ r = Left(m, j + 1)
    OBVIOUS
  <2>2. j + 1 \in 1 .. Len(m.lines) /\ j \in Nat /\ j + 1 \in 0 .. Len(m.lines)
    BY <1>1, <1>2, <1>3
  <2>3. t \in Texts
    BY <1>2, <2>1, <2>2, ElementOfSeq
  <2>4. r \in Seq(Bytes)
    BY <1>2, <2>1, <2>2, LeftType
  <2>5. Left(m, j) = (<<t>> \o CRLF) \o r
    BY <1>2, <1>3, <2>1, <2>2, LeftFirst
  <2>6. <<t>> \in Seq(Texts) /\ <<t>> \in Seq(Bytes)
    BY <2>3 DEF Texts
  <2>7. <<t>> \o CRLF \in Seq(Bytes)
    BY <1>2, <2>6, ConcatProperties
  <2>8. ((<<t>> \o CRLF) \o r) \o w = (<<t>> \o CRLF) \o (r \o w)
    BY <1>2, <2>4, <2>7, BytesAssociate
  <2>9. r \o w \in Seq(Bytes)
    BY <1>2, <2>4, ConcatProperties
  <2>10. Rest = (<<t>> \o CRLF) \o (r \o w)
    BY <1>1, <2>5, <2>8
  <2>11. Line = <<t>> /\ Rest' = r \o w
    BY <2>6, <2>9, <2>10, TakesLine
  <2> QED BY <1>1, <1>3, <2>1, <2>3, <2>11
<1>4. CASE ~(j < Len(m.lines))
  <2>1. j = Len(m.lines)
    BY <1>1, <1>2, <1>4
  <2>2. Left(m, j) = (<<>> \o CRLF) \o m.body
    BY <1>2, <2>1, LeftLast
  <2>3. <<>> \in Seq(Texts) /\ <<>> \in Seq(Bytes)
    BY EmptySeq
  <2>4. <<>> \o CRLF \in Seq(Bytes)
    BY <1>2, <2>3, ConcatProperties
  <2>5. ((<<>> \o CRLF) \o m.body) \o w = (<<>> \o CRLF) \o (m.body \o w)
    BY <1>2, <2>4, BytesAssociate
  <2>6. m.body \o w \in Seq(Bytes)
    BY <1>2, ConcatProperties
  <2>7. Rest = (<<>> \o CRLF) \o (m.body \o w)
    BY <1>1, <2>2, <2>5
  <2>8. Line = <<>> /\ Rest' = m.body \o w
    BY <2>3, <2>6, <2>7, TakesLine
  <2> QED BY <1>1, <1>4, <2>8
<1> QED BY <1>3, <1>4


\* In the middle of parsing, the parser is where its state says.
LEMMA Where ==
  ASSUME TypeOK, ParserInv, at \in {"idle", "read", "parse"}
  PROVE  /\ Len(handled) \in Nat /\ Len(handled) <= Len(sent)
         /\ state = "REQUEST_LINE" => Between(Len(handled))
         /\ state = "HEADERS" => InHead(Len(handled))
         /\ state = "BODY" => InBody(Len(handled))
         /\ state = "FINISH" => Finished(Len(handled))
<1>1. Len(handled) \in Nat
  BY LenProperties DEF TypeOK
<1>2. Len(handled) <= Len(sent)
  BY DEF ParserInv, FirstHandled
<1>3. \/ Between(Len(handled)) \/ InHead(Len(handled)) \/ InBody(Len(handled))
      \/ Finished(Len(handled))
  BY DEF ParserInv
<1> QED BY <1>1, <1>2, <1>3 DEF Between, InHead, InBody, Finished

\* A request line is the first of the next message.
LEMMA RequestLineStep ==
  ASSUME TypeOK, ParserInv, ParseRequestLine
  PROVE  ParserInv'
<1>1. PICK k : k = Len(handled)
  OBVIOUS
<1>2. /\ at = "parse" /\ state = "REQUEST_LINE" /\ TakeLine /\ HasLine
      /\ coming' = coming /\ sent' = sent /\ handled' = handled
  BY DEF ParseRequestLine, Parsing, TakeLine
<1>3. k \in Nat /\ k <= Len(sent) /\ Between(k)
  BY <1>1, <1>2, Where
<1>4. k < Len(sent)
  <2>1. SUFFICES ASSUME ~(k < Len(sent)) PROVE FALSE
    OBVIOUS
  <2>2. Len(sent) \in Nat
    BY SentParts
  <2>3. k = Len(sent)
    BY <1>3, <2>1, <2>2
  <2>4. Rest = <<>>
    BY <1>3, <2>3, NoMessage DEF Between
  <2> QED BY <1>2, <2>4, NoLineInNothing
<1>5. PICK m : m = sent[k + 1]
  OBVIOUS
<1>6. m \in Messages /\ m.lines \in Seq(Texts) /\ Len(m.lines) \in Nat
  BY <1>3, <1>4, <1>5, SentParts
<1>7. Rest = Left(sent[k + 1], 0) \o Wire(From(k + 2))
  BY <1>3, <1>4, NextMessage DEF Between
<1>8. IF 0 < Len(m.lines)
      THEN /\ Line = <<m.lines[0 + 1]>>
           /\ m.lines[0 + 1] \in Texts
           /\ Rest' = Left(m, 0 + 1) \o Wire(From(k + 2))
      ELSE Line = <<>>
  <2>1. 0 \in 0 .. Len(sent[k + 1].lines)
    BY <1>5, <1>6
  <2> QED BY <1>2, <1>3, <1>4, <1>5, <1>7, <2>1, LineOfMessage
<1>9. CASE IsStartLine(Line)
  <2>1. Line # <<>>
    BY <1>9 DEF IsStartLine
  <2>2. 0 < Len(m.lines)
    BY <1>8, <2>1
  <2>3. PICK l : l = m.lines[1]
    OBVIOUS
  <2>4. Line = <<l>> /\ l \in Texts /\ Rest' = Left(m, 1) \o Wire(From(k + 2))
    BY <1>8, <2>2, <2>3
  <2>5. l \in StartLines
    BY <1>9, <2>4 DEF IsStartLine
  <2>6. /\ state' = "HEADERS" /\ contentLength' = contentLength /\ at' = at
        /\ request' = [request EXCEPT !.lines = @ \o Line]
    BY <1>9 DEF ParseRequestLine, AddLine
  <2>7. request = [lines |-> <<>>, body |-> <<>>] /\ contentLength = 0
    BY <1>3 DEF Between, NoRequest
  <2>8. <<>> \o <<l>> = <<l>>
    BY <2>4
  <2>9. request' = [lines |-> <<l>>, body |-> <<>>]
    BY <2>4, <2>6, <2>7, <2>8
  <2>10. SubSeq(m.lines, 1, 1) = <<l>>
    <3>1. 1 \in 1 .. Len(m.lines) /\ 1 \in 1 .. Len(m.lines)
      BY <1>6, <2>2
    <3>2. SubSeq(m.lines, 0 + 1, 1) \in Seq(Texts) /\ Len(SubSeq(m.lines, 0 + 1, 1)) = 1 - 0
          /\ \A i \in 1 .. 1 - 0 : SubSeq(m.lines, 0 + 1, 1)[i] = m.lines[0 + i]
      <4>1. 0 <= 1 /\ 1 <= Len(m.lines) /\ 0 \in Nat /\ 1 \in Nat
        BY <3>1
      <4> QED BY <1>6, <4>1, Slice
    <3>3. Len(SubSeq(m.lines, 1, 1)) = 1 /\ SubSeq(m.lines, 1, 1)[1] = l
          /\ SubSeq(m.lines, 1, 1) \in Seq(Texts)
      BY <2>3, <3>2
    <3>4. <<l>> \in Seq(Texts) /\ Len(<<l>>) = 1 /\ <<l>>[1] = l
      BY <2>4
    <3>5. \A i \in 1 .. 1 : SubSeq(m.lines, 1, 1)[i] = <<l>>[i]
      BY <3>3, <3>4
    <3> QED BY <3>3, <3>4, <3>5, SeqEqual
  <2>11. CanBeParsed(<<l>>) /\ LengthIs(<<l>>, 0)
    BY <2>5, StartLine
  <2>12. InHead(k)'
    <3>1. \E j \in 1 .. Len(m.lines) :
            /\ request' = [lines |-> SubSeq(m.lines, 1, j), body |-> <<>>]
            /\ CanBeParsed(request'.lines)
            /\ LengthIs(request'.lines, contentLength')
            /\ Rest' = Left(m, j) \o Wire(From(k + 2))
      <4>1. 1 \in 1 .. Len(m.lines)
        BY <1>6, <2>2
      <4>2. request'.lines = <<l>> /\ contentLength' = 0
        BY <2>6, <2>7, <2>9
      <4> QED BY <2>4, <2>9, <2>10, <2>11, <4>1, <4>2
    <3> QED BY <1>2, <1>4, <1>5, <2>6, <3>1 DEF InHead, From
  <2> QED BY <1>1, <1>2, <2>6, <2>12 DEF ParserInv, FirstHandled
<1>10. CASE ~IsStartLine(Line)
  <2>1. ~CanBeParsed(m.lines)
    <3>1. CASE 0 < Len(m.lines)
      <4>1. Line = <<m.lines[1]>>
        BY <1>8, <3>1
      <4> QED BY <1>10, <4>1 DEF IsStartLine, CanBeParsed
    <3>2. CASE ~(0 < Len(m.lines))
      <4>1. m.lines = <<>>
        BY <1>6, <3>2, EmptySeq
      <4> QED BY <4>1 DEF CanBeParsed
    <3> QED BY <3>1, <3>2
  <2>2. ~WellFormed(m)
    BY <2>1 DEF WellFormed
  <2>3. at' = "error"
    BY <1>10 DEF ParseRequestLine, Reject
  <2> QED BY <1>1, <1>2, <1>4, <1>5, <2>2, <2>3 DEF ParserInv, FirstHandled
<1> QED BY <1>9, <1>10

\* A header line is the next of the message.
LEMMA HeaderLineStep ==
  ASSUME TypeOK, ParserInv, ParseHeaderLine
  PROVE  ParserInv'
<1>1. PICK k : k = Len(handled)
  OBVIOUS
<1>2. /\ at = "parse" /\ state = "HEADERS" /\ TakeLine /\ Line # <<>>
      /\ coming' = coming /\ sent' = sent /\ handled' = handled
  BY DEF ParseHeaderLine, Parsing
<1>3. k \in Nat /\ k < Len(sent) /\ InHead(k)
  BY <1>1, <1>2, Where DEF InHead
<1>5. PICK m : m = sent[k + 1]
  OBVIOUS
<1>6. m \in Messages /\ m.lines \in Seq(Texts) /\ Len(m.lines) \in Nat
  BY <1>3, <1>5, SentParts
<1>4. PICK j \in 1 .. Len(m.lines) :
        /\ request = [lines |-> SubSeq(m.lines, 1, j), body |-> <<>>]
        /\ CanBeParsed(request.lines)
        /\ LengthIs(request.lines, contentLength)
        /\ Rest = Left(m, j) \o Wire(From(k + 2))
  BY <1>3, <1>5 DEF InHead
<1>7. IF j < Len(m.lines)
      THEN /\ Line = <<m.lines[j + 1]>>
           /\ m.lines[j + 1] \in Texts
           /\ Rest' = Left(m, j + 1) \o Wire(From(k + 2))
      ELSE Line = <<>>
  <2>1. j \in 0 .. Len(sent[k + 1].lines)
    BY <1>5, <1>6
  <2> QED BY <1>2, <1>3, <1>4, <1>5, <2>1, LineOfMessage
<1>8. PICK h : h = m.lines[j + 1]
  OBVIOUS
<1>9. /\ j < Len(m.lines) /\ Line = <<h>> /\ h \in Texts
      /\ Rest' = Left(m, j + 1) \o Wire(From(k + 2))
  BY <1>2, <1>7, <1>8
<1>10. CASE IsHeaderLine(Line)
  <2>1. h \in HeaderLines
    BY <1>9, <1>10 DEF IsHeaderLine
  <2>2. /\ state' = "HEADERS" /\ at' = at
        /\ request' = [request EXCEPT !.lines = @ \o Line]
        /\ contentLength' = IF Line = <<"other">> THEN contentLength ELSE LengthOf[Line[1]]
    BY <1>2, <1>10 DEF ParseHeaderLine, AddLine
  <2>3. PICK p : p = SubSeq(m.lines, 1, j)
    OBVIOUS
  <2>4. request = [lines |-> p, body |-> <<>>] /\ CanBeParsed(p) /\ LengthIs(p, contentLength)
    BY <1>4, <2>3
  <2>5. p \in Seq(Texts) /\ p \in Seq(Bytes) /\ SubSeq(m.lines, 1, j + 1) = Append(p, h)
    <3>1. j \in 0 .. Len(m.lines)
      BY <1>6
    <3>2. p \in Seq(Texts)
      BY <1>6, <2>3, <3>1, Split
    <3>3. Texts \subseteq Bytes
      BY DEF Texts
    <3>4. p \in Seq(Bytes)
      BY <3>2, <3>3, SeqMonotonic
    <3>5. SubSeq(m.lines, 1, j + 1) = SubSeq(m.lines, 1, (j + 1) - 1) \o <<m.lines[j + 1]>>
      <4>1. 1 \in 1 .. Len(m.lines) /\ j + 1 \in 1 .. Len(m.lines)
        BY <1>6, <1>9
      <4> QED BY <1>6, <4>1, SubSeqRecursiveSecond
    <3>6. (j + 1) - 1 = j
      OBVIOUS
    <3>7. Append(p, h) = p \o <<h>>
      BY <1>9, <3>2, AppendIsConcat
    <3> QED BY <1>8, <2>3, <3>2, <3>4, <3>5, <3>6, <3>7
  <2>6. request' = [lines |-> Append(p, h), body |-> <<>>]
    <3>1. p \o Line = Append(p, h)
      BY <1>9, <2>5, AppendIsConcat
    <3> QED BY <2>2, <2>4, <3>1
  <2>7. contentLength' = IF h = "other" THEN contentLength ELSE LengthOf[h]
    BY <1>9, <2>2
  <2>8. /\ CanBeParsed(Append(p, h))
        /\ LengthIs(Append(p, h), IF h = "other" THEN contentLength ELSE LengthOf[h])
    BY <2>1, <2>4, <2>5, HeaderLine
  <2>9. InHead(k)'
    <3>1. \E i \in 1 .. Len(m.lines) :
            /\ request' = [lines |-> SubSeq(m.lines, 1, i), body |-> <<>>]
            /\ CanBeParsed(request'.lines)
            /\ LengthIs(request'.lines, contentLength')
            /\ Rest' = Left(m, i) \o Wire(From(k + 2))
      <4>1. j + 1 \in 1 .. Len(m.lines)
        BY <1>6, <1>9
      <4>2. request'.lines = Append(p, h)
        BY <2>6
      <4> QED BY <1>9, <2>5, <2>6, <2>7, <2>8, <4>1, <4>2
    <3> QED BY <1>2, <1>3, <1>5, <2>2, <3>1 DEF InHead, From
  <2> QED BY <1>1, <1>2, <2>2, <2>9 DEF ParserInv, FirstHandled
<1>11. CASE ~IsHeaderLine(Line)
  <2>1. h \notin HeaderLines
    BY <1>9, <1>11 DEF IsHeaderLine
  <2>2. j + 1 \in 2 .. Len(m.lines)
    BY <1>6, <1>9
  <2>3. ~WellFormed(m)
    BY <1>8, <2>1, <2>2 DEF WellFormed, CanBeParsed
  <2>4. at' = "error"
    BY <1>11 DEF ParseHeaderLine, Reject
  <2> QED BY <1>1, <1>2, <1>3, <1>5, <2>3, <2>4 DEF ParserInv, FirstHandled
<1> QED BY <1>10, <1>11

\* The empty line is the one behind the lines of the message.
LEMMA EndHeadersStep ==
  ASSUME TypeOK, ParserInv, EndHeaders
  PROVE  ParserInv'
<1>1. PICK k : k = Len(handled)
  OBVIOUS
<1>2. /\ at = "parse" /\ state = "HEADERS" /\ TakeLine /\ Line = <<>>
      /\ coming' = coming /\ sent' = sent /\ handled' = handled
      /\ state' = IF contentLength > 0 THEN "BODY" ELSE "FINISH"
      /\ contentLength' = contentLength /\ request' = request /\ at' = at
  BY DEF EndHeaders, Parsing
<1>3. k \in Nat /\ k < Len(sent) /\ InHead(k)
  BY <1>1, <1>2, Where DEF InHead
<1>4. PICK m : m = sent[k + 1]
  OBVIOUS
<1>5. /\ m \in Messages /\ m.lines \in Seq(Texts) /\ Len(m.lines) \in Nat
      /\ m.body \in Seq(Bytes) /\ Wire(From(k + 2)) \in Seq(Bytes)
  <2>1. k + 1 \in 1 .. Len(sent) /\ k + 2 \in 1 .. Len(sent) + 1
    BY <1>3, SentParts
  <2> QED BY <1>4, <2>1, SentParts
<1>6. PICK j \in 1 .. Len(m.lines) :
        /\ request = [lines |-> SubSeq(m.lines, 1, j), body |-> <<>>]
        /\ CanBeParsed(request.lines)
        /\ LengthIs(request.lines, contentLength)
        /\ Rest = Left(m, j) \o Wire(From(k + 2))
  BY <1>3, <1>4 DEF InHead
<1>7. IF j < Len(m.lines)
      THEN Line = <<m.lines[j + 1]>>
      ELSE Line = <<>> /\ Rest' = m.body \o Wire(From(k + 2))
  <2>1. j \in 0 .. Len(sent[k + 1].lines)
    BY <1>4, <1>5
  <2> QED BY <1>2, <1>3, <1>4, <1>6, <2>1, LineOfMessage
<1>8. j = Len(m.lines) /\ Rest' = m.body \o Wire(From(k + 2))
  <2>1. <<m.lines[j + 1]>> # <<>>
    OBVIOUS
  <2>2. ~(j < Len(m.lines))
    BY <1>2, <1>7, <2>1
  <2>3. j = Len(m.lines)
    BY <1>5, <2>2
  <2> QED BY <1>7, <2>2, <2>3
<1>9. /\ request = [lines |-> m.lines, body |-> <<>>]
      /\ CanBeParsed(m.lines) /\ LengthIs(m.lines, contentLength)
  <2>1. SubSeq(m.lines, 1, j) = m.lines
    BY <1>5, <1>8, SubSeqFull
  <2>2. request = [lines |-> m.lines, body |-> <<>>]
    BY <1>6, <2>1
  <2>3. request.lines = m.lines
    BY <2>2
  <2> QED BY <1>6, <2>2, <2>3
<1>10. CASE contentLength > 0
  <2>1. InBody(k)'
    BY <1>2, <1>3, <1>4, <1>8, <1>9, <1>10 DEF InBody, From
  <2> QED BY <1>1, <1>2, <2>1 DEF ParserInv, FirstHandled
<1>11. CASE ~(contentLength > 0)
  <2>1. contentLength = 0 /\ MaxBody \in Nat
    BY <1>11, BoundAssumption DEF TypeOK
  <2>2. k + 1 \in 1 .. Len(sent) /\ 0 <= MaxBody
    BY <1>3, <2>1, SentParts
  <2>3. Len(m.body) = 0 /\ WellFormed(m)
    BY <1>4, <1>9, <2>1, <2>2, Framed
  <2>4. m.body = <<>>
    BY <1>5, <2>3, EmptySeq
  <2>5. request' = m
    BY <1>2, <1>5, <1>9, <2>4 DEF Messages
  <2>6. Rest' = Wire(From(k + 2))
    BY <1>5, <1>8, <2>4, ConcatEmptySeq
  <2>7. Finished(k)'
    BY <1>2, <1>3, <1>4, <1>11, <2>3, <2>5, <2>6 DEF Finished, From
  <2> QED BY <1>1, <1>2, <2>7 DEF ParserInv, FirstHandled
<1> QED BY <1>10, <1>11

\* A body is refused if the message says that it is too long.
LEMMA BodyTooLargeStep ==
  ASSUME TypeOK, ParserInv, BodyTooLarge
  PROVE  ParserInv'
<1>1. PICK k : k = Len(handled)
  OBVIOUS
<1>2. /\ at = "parse" /\ state = "BODY" /\ contentLength > MaxBody /\ at' = "error"
      /\ sent' = sent /\ handled' = handled
  BY DEF BodyTooLarge, Parsing, Reject
<1>3. k \in Nat /\ k < Len(sent) /\ InBody(k)
  BY <1>1, <1>2, Where DEF InBody
<1>4. PICK m : m = sent[k + 1]
  OBVIOUS
<1>5. m.lines \in Seq(Bytes) /\ Len(m.body) \in Nat
  <2>1. m.lines \in Seq(Texts) /\ m.body \in Seq(Bytes)
    BY <1>3, <1>4, SentParts
  <2>2. Texts \subseteq Bytes
    BY DEF Texts
  <2> QED BY <2>1, <2>2, SeqMonotonic, LenProperties
<1>6. LengthIs(m.lines, contentLength)
  BY <1>3, <1>4 DEF InBody
<1>7. ~WellFormed(m)
  <2>1. SUFFICES ASSUME WellFormed(m) PROVE FALSE
    OBVIOUS
  <2>2. LengthIs(m.lines, Len(m.body)) /\ Len(m.body) <= MaxBody
    BY <2>1 DEF WellFormed
  <2>3. Len(m.body) = contentLength
    BY <1>5, <1>6, <2>2, OneLength
  <2>4. MaxBody \in Nat
    BY BoundAssumption
  <2> QED BY <1>2, <1>5, <2>2, <2>3, <2>4
<1> QED BY <1>1, <1>2, <1>3, <1>4, <1>7 DEF ParserInv, FirstHandled

\* Otherwise it is taken when it is there.
LEMMA BodyStep ==
  ASSUME TypeOK, ParserInv, ParseBody
  PROVE  ParserInv'
<1>1. PICK k : k = Len(handled)
  OBVIOUS
<1>2. /\ at = "parse" /\ state = "BODY" /\ contentLength <= MaxBody
      /\ ReadableBytes(readBuffer) >= contentLength
      /\ state' = "FINISH" /\ contentLength' = contentLength /\ at' = at
      /\ coming' = coming /\ sent' = sent /\ handled' = handled
  BY DEF ParseBody, Parsing
<1>3. k \in Nat /\ k < Len(sent) /\ InBody(k)
  BY <1>1, <1>2, Where DEF InBody
<1>4. PICK m, w, n : m = sent[k + 1] /\ w = Wire(From(k + 2)) /\ n = contentLength
  OBVIOUS
<1>5. m \in Messages /\ m.lines \in Seq(Texts) /\ m.body \in Seq(Bytes) /\ w \in Seq(Bytes)
  <2>1. k + 1 \in 1 .. Len(sent) /\ k + 2 \in 1 .. Len(sent) + 1
    BY <1>3, SentParts
  <2> QED BY <1>4, <2>1, SentParts
<1>6. /\ request = [lines |-> m.lines, body |-> <<>>]
      /\ CanBeParsed(m.lines) /\ LengthIs(m.lines, n)
      /\ Rest = m.body \o w
  BY <1>3, <1>4 DEF InBody
<1>7. Len(m.body) = n /\ WellFormed(m) /\ n \in Nat
  <2>1. n \in Nat /\ k + 1 \in 1 .. Len(sent)
    BY <1>3, <1>4, SentParts DEF TypeOK
  <2> QED BY <1>2, <1>4, <1>6, <2>1, Framed
<1>8. PICK u, b : u = Unread(readBuffer) /\ b = SubSeq(u, 1, n)
  OBVIOUS
<1>9. /\ u \in Seq(Bytes) /\ n \in 0 .. Len(u) /\ n \in 0 .. ReadableBytes(readBuffer)
      /\ IsBuffer(readBuffer) /\ coming \in Seq(Bytes)
  <2>1. /\ u \in Seq(Bytes) /\ Len(u) = ReadableBytes(readBuffer)
        /\ ReadableBytes(readBuffer) \in Nat
    BY <1>8, BufferParts DEF TypeOK
  <2> QED BY <1>2, <1>4, <1>7, <2>1 DEF TypeOK
<1>10. b \in Seq(Bytes) /\ Len(b) = n
  BY <1>8, <1>9, Split
<1>11. readBuffer' = Consume(readBuffer, n) /\ request' = [request EXCEPT !.body = b]
  BY <1>4, <1>8 DEF ParseBody
<1>12. PICK v : v = Unread(readBuffer')
  OBVIOUS
<1>13. u = b \o v /\ v \in Seq(Bytes)
  BY <1>8, <1>9, <1>11, <1>12, ConsumeIsDequeueing, BufferParts
<1>14. (b \o v) \o coming = b \o (v \o coming)
  BY <1>9, <1>10, <1>13, BytesAssociate
<1>15. v \o coming \in Seq(Bytes)
  BY <1>9, <1>13, ConcatProperties
<1>16. b \o (v \o coming) = m.body \o w
  BY <1>6, <1>8, <1>13, <1>14 DEF Rest
<1>17. b = m.body /\ v \o coming = w
  <2>1. PICK r, c : r = v \o coming /\ c = m.body
    OBVIOUS
  <2>2. r \in Seq(Bytes) /\ c \in Seq(Bytes) /\ b \o r = c \o w /\ Len(b) = Len(c)
    BY <1>5, <1>7, <1>10, <1>15, <1>16, <2>1
  <2>3. b = c /\ r = w
    BY <1>5, <1>10, <2>2, SameParts
  <2> QED BY <2>1, <2>3
<1>18. request' = m
  <2>1. request' = [lines |-> m.lines, body |-> m.body]
    BY <1>6, <1>11, <1>17
  <2> QED BY <1>5, <2>1 DEF Messages
<1>19. Rest' = w
  BY <1>2, <1>12, <1>17 DEF Rest
<1>20. Finished(k)'
  BY <1>2, <1>3, <1>4, <1>7, <1>18, <1>19 DEF Finished, From
<1> QED BY <1>1, <1>2, <1>20 DEF ParserInv, FirstHandled


\* At first a new client's messages are all on their way.
LEMMA ParserInit ==
  ASSUME NEW c \in Conversations
  PROVE  Wire(SubSeq(c, 0 + 1, Len(c))) = Wire(c) /\ <<>> \o Wire(c) = Wire(c)
<1>1. c \in Seq(Messages) /\ Wire(c) \in Seq(Bytes)
  BY ConversationType
<1>2. SubSeq(c, 1, Len(c)) = c
  BY <1>1, SubSeqFull
<1>3. PICK w : w = Wire(c)
  OBVIOUS
<1>4. <<>> \o w = w
  BY <1>1, <1>3, ConcatEmptySeq
<1>5. 0 + 1 = 1
  OBVIOUS
<1> QED BY <1>2, <1>3, <1>4, <1>5

\* Every step keeps the parser where it has to be.
LEMMA ParserStep == TypeOK /\ ParserInv /\ [Next]_vars => ParserInv'
<1> SUFFICES ASSUME TypeOK, ParserInv, [Next]_vars PROVE ParserInv'
  OBVIOUS
<1>1. PICK k : k = Len(handled) /\ k \in Nat
  BY LenProperties DEF TypeOK
<1>2. ASSUME NEW i, Rest' = Rest, UNCHANGED <<context, sent>>
      PROVE  /\ Between(i) => Between(i)'
             /\ InHead(i) => InHead(i)'
             /\ InBody(i) => InBody(i)'
             /\ Finished(i) => Finished(i)'
  BY <1>2 DEF Between, InHead, InBody, Finished, From, context
<1>3. ASSUME UNCHANGED <<sent, handled>> PROVE FirstHandled'
  BY <1>3 DEF ParserInv, FirstHandled
<1>4. ASSUME UNCHANGED <<sent, handled, context>>, Rest' = Rest,
             \/ at' = at
             \/ at = "idle" /\ at' = "read"
             \/ at = "read" /\ at' = "parse"
             \/ at = "parse" /\ at' = "idle" /\ state # "FINISH"
             \/ at' = "closed"
      PROVE  ParserInv'
  <2>1. Len(handled') = k /\ FirstHandled'
    BY <1>1, <1>3, <1>4
  <2>2. /\ Between(k) => Between(k)'
        /\ InHead(k) => InHead(k)'
        /\ InBody(k) => InBody(k)'
        /\ Finished(k) => Finished(k)'
        /\ Finished(k - 1) => Finished(k - 1)'
    BY <1>2, <1>4
  <2>3. at' \in {"idle", "read", "parse"} =>
          \/ Between(k)'
          \/ InHead(k)'
          \/ InBody(k)'
          \/ (at' = "parse" /\ Finished(k)')
    BY <1>1, <1>4, <2>2 DEF ParserInv, Finished
  <2>4. at' = "respond" => k > 0 /\ Finished(k - 1)'
    BY <1>1, <1>4, <2>2 DEF ParserInv
  <2>5. at' = "error" => k < Len(sent) /\ ~WellFormed(sent[k + 1])
    BY <1>1, <1>4 DEF ParserInv
  <2>6. sent' = sent
    BY <1>4
  <2> QED BY <1>1, <2>1, <2>3, <2>4, <2>5, <2>6 DEF ParserInv
<1>5. CASE ParseRequestLine
  BY <1>5, RequestLineStep
<1>6. CASE ParseHeaderLine
  BY <1>6, HeaderLineStep
<1>7. CASE EndHeaders
  BY <1>7, EndHeadersStep
<1>8. CASE BodyTooLarge
  BY <1>8, BodyTooLargeStep
<1>9. CASE ParseBody
  BY <1>9, BodyStep
<1>10. CASE Incomplete
  <2>1. UNCHANGED <<sent, handled, context>> /\ Rest' = Rest
    BY <1>10 DEF Incomplete, histories, Rest
  <2>2. at = "parse" /\ at' = "idle" /\ state # "FINISH"
    BY <1>10 DEF Incomplete, Parsing
  <2> QED BY <1>4, <2>1, <2>2
<1>11. CASE Complete
  <2>1. /\ at = "parse" /\ state = "FINISH" /\ at' = "respond"
        /\ handled' = Append(handled, request)
        /\ UNCHANGED <<context, sent>> /\ Rest' = Rest
    BY <1>11 DEF Complete, Parsing, Rest
  <2>2. Finished(k) /\ k <= Len(sent)
    BY <1>1, <2>1, Where
  <2>3. k < Len(sent) /\ request = sent[k + 1] /\ WellFormed(sent[k + 1])
    BY <2>2 DEF Finished
  <2>4. /\ Len(handled') = k + 1
        /\ \A i \in 1 .. k : handled'[i] = handled[i]
        /\ handled'[k + 1] = request
    BY <1>1, <2>1, AppendProperties DEF TypeOK
  <2>5. FirstHandled'
    <3>1. \A i \in 1 .. k : handled[i] = sent[i] /\ WellFormed(sent[i])
      BY <1>1 DEF ParserInv, FirstHandled
    <3>2. \A i \in 1 .. k + 1 : i \in 1 .. k \/ i = k + 1
      BY <1>1
    <3>3. \A i \in 1 .. k + 1 : handled'[i] = sent[i] /\ WellFormed(sent[i])
      BY <2>3, <2>4, <3>1, <3>2
    <3>4. k + 1 <= Len(sent)
      BY <1>1, <2>3, SentParts
    <3> QED BY <2>1, <2>4, <3>3, <3>4 DEF FirstHandled
  <2>6. (k + 1) - 1 = k /\ k + 1 > 0
    BY <1>1
  <2>7. Finished(k)'
    BY <1>2, <2>1, <2>2
  <2> QED BY <2>1, <2>4, <2>5, <2>6, <2>7 DEF ParserInv
<1>12. CASE ProcessInWorker
  <2>1. UNCHANGED <<sent, handled, context>> /\ Rest' = Rest
    BY <1>12 DEF ProcessInWorker, histories, Rest
  <2> QED BY <1>4, <1>12, <2>1 DEF ProcessInWorker
<1>13. CASE OnResponseFinished
  <2>1. /\ at = "respond" /\ at' \in {"parse", "idle"}
        /\ UNCHANGED <<sent, handled>> /\ Rest' = Rest
        /\ request' = NoRequest /\ state' = "REQUEST_LINE" /\ contentLength' = 0
    BY <1>13 DEF OnResponseFinished, Reset, histories, Rest
  <2>2. k > 0 /\ Finished(k - 1)
    BY <1>1, <2>1 DEF ParserInv
  <2>3. (k - 1) + 2 = k + 1
    BY <1>1
  <2>4. Rest = Wire(From(k + 1))
    BY <2>2, <2>3 DEF Finished
  <2>5. Between(k)'
    BY <2>1, <2>4 DEF Between, From
  <2> QED BY <1>1, <1>3, <2>1, <2>5 DEF ParserInv
<1>14. CASE Receive
  <2>1. Rest' = Rest
    BY <1>14, ReceiveKeeps DEF Rest
  <2>2. UNCHANGED <<sent, handled, context>>
    BY <1>14 DEF Receive, histories
  <2> QED BY <1>4, <1>14, <2>1, <2>2 DEF Receive
<1>15. CASE Close
  <2>1. UNCHANGED <<sent, handled, context>> /\ Rest' = Rest
    BY <1>15 DEF Close, histories, Rest
  <2> QED BY <1>4, <1>15, <2>1 DEF Close
<1>16. CASE Reuse
  <2>1. /\ at' = "idle" /\ handled' = <<>> /\ sent' \in Conversations
        /\ coming' = Wire(sent') /\ Unread(readBuffer') = <<>>
        /\ request' = NoRequest /\ state' = "REQUEST_LINE" /\ contentLength' = 0
    BY <1>16, ClearEmpties DEF Reuse, Reset, TypeOK
  <2>2. Len(handled') = 0 /\ Len(sent') \in Nat
    BY <2>1, EmptySeq, ConversationType, LenProperties
  <2>3. Rest' = Wire(From(0 + 1))'
    BY <2>1, ParserInit DEF Rest, From
  <2>4. Between(0)'
    BY <2>1, <2>3 DEF Between
  <2>5. FirstHandled'
    BY <2>2 DEF FirstHandled
  <2> QED BY <2>1, <2>2, <2>4, <2>5 DEF ParserInv
<1>17. CASE UNCHANGED vars
  <2>1. UNCHANGED <<sent, handled, context>> /\ Rest' = Rest /\ at' = at
    BY <1>17 DEF vars, context, Rest
  <2> QED BY <1>4, <2>1
<1> QED BY <1>5, <1>6, <1>7, <1>8, <1>9, <1>10, <1>11, <1>12, <1>13, <1>14, <1>15, <1>16,
           <1>17 DEF Next, LoopStep, ParseStep

\* However requests are cut into pieces and joined on their way, and whatever the
\* context was used for before: what the parser hands over is what the client sent, in
\* order, each whole and once, and only the first message that is malformed is refused.
THEOREM HandledAsSent == Spec => []RequestsAsSent
<1>1. Init => ParserInv
  <2> SUFFICES ASSUME Init PROVE ParserInv
    OBVIOUS
  <2>1. /\ at = "idle" /\ handled = <<>> /\ sent \in Conversations
        /\ coming = Wire(sent) /\ Unread(readBuffer) = <<>>
        /\ request = NoRequest /\ state = "REQUEST_LINE" /\ contentLength = 0
    BY NewIsEmpty DEF Init
  <2>2. Len(handled) = 0 /\ Len(sent) \in Nat
    BY <2>1, EmptySeq, ConversationType, LenProperties
  <2>3. Rest = Wire(From(0 + 1))
    BY <2>1, ParserInit DEF Rest, From
  <2>4. Between(0)
    BY <2>1, <2>3 DEF Between
  <2> QED BY <2>1, <2>2, <2>4 DEF ParserInv, FirstHandled
<1>2. TypeOK /\ ParserInv => RequestsAsSent
  <2> SUFFICES ASSUME TypeOK, ParserInv PROVE RequestsAsSent
    OBVIOUS
  <2>1. PICK k \in Nat : k = Len(handled) /\ DOMAIN handled = 1 .. k
    BY LenProperties DEF TypeOK
  <2>2. /\ k <= Len(sent)
        /\ \A i \in 1 .. k : handled[i] = sent[i] /\ WellFormed(sent[i])
    BY <2>1 DEF ParserInv, FirstHandled
  <2>3. IsPrefix(handled, sent)
    <3>1. sent \in Seq(Messages) /\ Len(sent) \in Nat
      BY SentParts
    <3>2. PICK p : p = SubSeq(sent, 1, k)
      OBVIOUS
    <3>3. p \in Seq(Messages) /\ Len(p) = k /\ \A i \in 1 .. k : p[i] = sent[i]
      <4>1. /\ SubSeq(sent, 0 + 1, k) \in Seq(Messages) /\ Len(SubSeq(sent, 0 + 1, k)) = k - 0
            /\ \A i \in 1 .. k - 0 : SubSeq(sent, 0 + 1, k)[i] = sent[0 + i]
        BY <2>2, <3>1, Slice
      <4> QED BY <3>2, <4>1
    <3>4. handled \in Seq(Messages)
      <4>1. \A i \in 1 .. k : handled[i] \in Messages
        BY <2>2, <3>1, SentParts
      <4>2. handled \in [1 .. k -> Messages]
        BY <2>1, <4>1, LenProperties DEF TypeOK
      <4> QED BY <4>2, FunctionIsSeq
    <3>5. handled = p
      BY <2>1, <2>2, <3>3, <3>4, SeqEqual
    <3>6. SubSeq(handled, 1, k) = handled
      BY <2>1, <3>4, SubSeqFull
    <3> QED BY <2>1, <2>2, <3>2, <3>5, <3>6 DEF IsPrefix
  <2>4. \A i \in DOMAIN handled : WellFormed(handled[i])
    BY <2>1, <2>2
  <2> QED BY <2>3, <2>4 DEF ParserInv, RequestsAsSent
<1> QED BY <1>1, <1>2, TypeInit, TypeStep, ParserStep, PTL DEF Spec

-----------------------------------------------------------------------------
(* Accounts.  The invariant.                                               *)

Working == {"guard", "prepare", "execute", "fetch", "hash", "insert"}

\* The account has this password.
Stored(key, password) == users[key] # None /\ VerifyPassword(password, users[key])

\* What the answer says of the account.
Truth(a) ==
  /\ a.answer \in {"registered", "taken", "welcome"} => users[a.name.key] # None
  /\ a.answer \in {"registered", "welcome"} => VerifyPassword(a.password, users[a.name.key])
  /\ a.before # {} /\ ~a.lost =>
       /\ a.answer = "wrong" => a.password \notin a.before
       /\ a.answer = "welcome" => a.password \in a.before
       /\ a.answer # "registered"

\* The statement and the guard, and whose account it is.
Clean(h) ==
  /\ h.stmt <=> h.at \in {"execute", "fetch", "insert"}
  /\ h.at \in {"prepare", "execute", "fetch", "hash", "insert"} => h.guard
  /\ h.at = "idle" => ~h.guard
  /\ h.at \in Working \/ (h.at = "leave" /\ h.answer \in OfAccount) =>
       h.name \in Usernames /\ h.password \in Passwords
  /\ h.before # {} => h.name \in Usernames

\* What the handler knows of the row.
Aware(h) ==
  /\ \A p \in h.before : Stored(h.name.key, p)
  /\ h.at = "fetch" =>
       /\ h.row # None => h.row = users[h.name.key]
       /\ h.path = "login" /\ h.before # {} => h.row = users[h.name.key]
  /\ h.at = "insert" => \E salt \in Salts : h.row = HashPassword(h.password, salt)
  /\ h.at = "leave" /\ h.answer \in OfAccount => Truth(h)
  /\ h.at = "leave" /\ h.answer = "registered" => confirmed[h.name.key] = <<>>

HandlersSound == \A t \in Threads : Clean(thread[t]) /\ Aware(thread[t])

\* About to be told that the account is registered.
Wins(h) == h.at = "leave" /\ h.answer = "registered"

OneWinner ==
  \A t, u \in Threads :
    Wins(thread[t]) /\ Wins(thread[u]) /\ thread[t].name.key = thread[u].name.key => t = u

ToldSound == \A a \in told : Truth(a)

ConfirmedSound ==
  \A k \in Keys :
    /\ Len(confirmed[k]) <= 1
    /\ \A p \in Range(confirmed[k]) : Stored(k, p)

Inv == AccountsTypeOK /\ HandlersSound /\ OneWinner /\ ToldSound /\ ConfirmedSound

\* A row that is there stays as it is.
RowsStay == \A k \in Keys : users[k] # None => users'[k] = users[k]

-----------------------------------------------------------------------------
(* Passwords and forms.                                                    *)

\* A password verifies against its own hash.
LEMMA HashVerifies ==
  ASSUME NEW p \in Passwords, NEW salt \in Salts
  PROVE  /\ VerifyPassword(p, HashPassword(p, salt))
         /\ HashPassword(p, salt) \in Rows
         /\ HashPassword(p, salt) # None
<1>1. HashPassword(p, salt) \in [salt : Salts, hash : Salts \X {q.text : q \in Passwords}]
  BY DEF HashPassword
<1>2. HashPassword(p, salt) \in Rows
  BY <1>1 DEF Rows
<1>3. VerifyPassword(p, HashPassword(p, salt))
  BY DEF HashPassword, VerifyPassword
<1> QED BY <1>2, <1>3, NoneAssumption

\* At most one password verifies against a row.
LEMMA VerifiesOne ==
  ASSUME NEW p \in Passwords, NEW q \in Passwords, NEW s,
         VerifyPassword(p, s), VerifyPassword(q, s)
  PROVE  p = q
<1>1. HashPassword(p, s.salt) = HashPassword(q, s.salt)
  BY DEF VerifyPassword
<1>2. <<s.salt, p.text>> = <<s.salt, q.text>>
  BY <1>1 DEF HashPassword
<1>3. p.text = q.text
  BY <1>2
<1> QED BY <1>3, TextAssumption

\* A sequence without positions.
LEMMA EmptyDomain ==
  ASSUME NEW S, NEW s \in Seq(S), DOMAIN s = {}
  PROVE  s = <<>>
<1>1. Len(s) \in Nat /\ DOMAIN s = 1 .. Len(s)
  BY LenProperties
<1>2. ~(1 <= Len(s))
  BY <1>1
<1> QED BY <1>1, <1>2, EmptySeq

\* A set of positions has a last one.
LEMMA LastPosition ==
  ASSUME NEW n \in Nat, NEW S \in SUBSET (1 .. n), S # {}
  PROVE  \E i \in S : \A j \in S : j <= i
<1> DEFINE T == {n - i : i \in S}
<1>1. T \in SUBSET Nat /\ T # {}
  <2>1. \A i \in S : n - i \in Nat
    OBVIOUS
  <2> QED BY <2>1
<1>2. PICK x \in T : \A y \in T : x <= y
  BY <1>1, Least
<1>3. PICK i \in S : x = n - i
  BY <1>2
<1>4. \A j \in S : n - j \in T
  OBVIOUS
<1>5. \A j \in S : n - i <= n - j
  BY <1>2, <1>3, <1>4
<1> QED BY <1>5

\* A field has a value of its kind, or none.
LEMMA FieldType ==
  ASSUME NEW form \in Forms
  PROVE  /\ Field(form, "username") \in Usernames \cup {None}
         /\ Field(form, "password") \in Passwords \cup {None}
<1>1. form \in Seq(Inputs)
  BY FormAssumption
<1>2. Len(form) \in Nat /\ DOMAIN form = 1 .. Len(form) /\ \A i \in DOMAIN form : form[i] \in Inputs
  BY <1>1
<1>3. ASSUME NEW name
      PROVE  \/ Field(form, name) = None
             \/ \E i \in DOMAIN form : form[i].field = name /\ Field(form, name) = form[i].value
  <2> DEFINE given == {i \in DOMAIN form : form[i].field = name}
  <2>1. CASE given = {}
    BY <2>1 DEF Field
  <2>2. CASE given # {}
    <3>1. \E i \in given : \A j \in given : j <= i
      BY <1>2, <2>2, LastPosition
    <3> DEFINE last == CHOOSE i \in given : \A j \in given : j <= i
    <3>2. last \in given
      BY <3>1
    <3>3. Field(form, name) = form[last].value
      BY <2>2 DEF Field
    <3> QED BY <3>2, <3>3
  <2> QED BY <2>1, <2>2
<1>4. \A i \in DOMAIN form : form[i].field = "username" => form[i].value \in Usernames \cup {None}
  BY <1>2 DEF Inputs
<1>5. \A i \in DOMAIN form : form[i].field = "password" => form[i].value \in Passwords \cup {None}
  BY <1>2 DEF Inputs
<1> QED BY <1>3, <1>4, <1>5

\* Objection has something to say, or None.
LEMMA ObjectionType ==
  ASSUME NEW name, NEW password, NEW confirm
  PROVE  Objection(name, password, confirm) \in {"mismatch", "format", "length", None}
  BY DEF Objection

-----------------------------------------------------------------------------
(* Types.                                                                  *)

Handlers ==
  [ at : {"idle", "guard", "prepare", "execute", "fetch", "hash", "insert", "leave"},
    path : {"none", "login", "register"},
    name : Usernames \cup {None}, password : Passwords \cup {None},
    guard : BOOLEAN, stmt : BOOLEAN, row : Rows \cup {None},
    answer : Answers \cup {"none"}, before : SUBSET Passwords, lost : BOOLEAN ]

\* A handler goes on, and the others stand still.
LEMMA LocalStep ==
  ASSUME AccountsTypeOK, NEW t \in Threads, NEW r, Local(t, r)
  PROVE  /\ thread'[t] = r
         /\ \A u \in Threads : u # t => thread'[u] = thread[u]
         /\ r \in Handlers => thread' \in [Threads -> Handlers]
         /\ thread \in [Threads -> Handlers]
<1>1. thread \in [Threads -> Handlers] /\ thread' = [thread EXCEPT ![t] = r]
  BY DEF AccountsTypeOK, Handlers, Local
<1> QED BY <1>1

\* A thread that waits for a request.
LEMMA IdleType ==
  /\ Idle \in Handlers
  /\ Idle.at = "idle" /\ Idle.before = {} /\ ~Idle.guard /\ ~Idle.stmt /\ Idle.row = None
  /\ Idle.answer = "none"
  BY DEF Idle, Handlers

\* What Respond makes of a handler.
Answered(h, answer) ==
  [h EXCEPT !.at = "leave", !.stmt = FALSE, !.row = None, !.answer = answer]

LEMMA AnsweredType ==
  ASSUME NEW h \in Handlers, NEW answer \in Answers
  PROVE  LET r == Answered(h, answer)
         IN  /\ r \in Handlers
             /\ r.at = "leave" /\ r.answer = answer /\ ~r.stmt
             /\ r.name = h.name /\ r.password = h.password /\ r.guard = h.guard
             /\ r.before = h.before /\ r.lost = h.lost
  BY DEF Handlers, Answered

-----------------------------------------------------------------------------
(* What is known stays true.                                               *)

LEMMA TruthStays ==
  ASSUME NEW a, a.name.key \in Keys, RowsStay, Truth(a)
  PROVE  Truth(a)'
  BY DEF Truth, RowsStay

LEMMA StoredStays ==
  ASSUME NEW k \in Keys, NEW p, RowsStay, Stored(k, p)
  PROVE  Stored(k, p)'
  BY DEF Stored, RowsStay

LEMMA AwareStays ==
  ASSUME NEW h \in Handlers, Clean(h), Aware(h), RowsStay,
         Wins(h) => confirmed'[h.name.key] = confirmed[h.name.key]
  PROVE  Aware(h)'
<1>1. h.name \in Usernames => h.name.key \in Keys
  BY DEF Keys
<1>2. \A p \in h.before : Stored(h.name.key, p)'
  BY <1>1, StoredStays DEF Aware, Clean
<1>3. CASE h.at = "fetch"
  <2>1. h.name.key \in Keys
    BY <1>1, <1>3 DEF Clean, Working
  <2>2. h.row # None => h.row = users[h.name.key]
    BY <1>3 DEF Aware
  <2>3. h.row # None => h.row = users'[h.name.key]
    BY <2>1, <2>2 DEF RowsStay
  <2>4. h.path = "login" /\ h.before # {} => h.row = users[h.name.key]
    BY <1>3 DEF Aware
  <2>5. h.before # {} => users[h.name.key] # None
    BY DEF Aware, Stored
  <2>6. h.path = "login" /\ h.before # {} => h.row = users'[h.name.key]
    BY <2>1, <2>4, <2>5 DEF RowsStay
  <2> QED BY <1>2, <1>3, <2>3, <2>6 DEF Aware
<1>4. CASE h.at = "leave"
  <2>1. h.answer \in OfAccount => Truth(h)'
    BY <1>1, <1>4, TruthStays DEF Aware, Clean
  <2>2. h.answer = "registered" => confirmed'[h.name.key] = <<>>
    BY <1>4 DEF Aware, Wins
  <2> QED BY <1>2, <1>4, <2>1, <2>2 DEF Aware
<1>5. CASE h.at \notin {"fetch", "leave"}
  BY <1>2, <1>5 DEF Aware
<1> QED BY <1>3, <1>4, <1>5

\* A step of one handler, which adds a row at most.
LEMMA Step ==
  ASSUME Inv, NEW t \in Threads, NEW r \in Handlers, Local(t, r),
         users' \in [Keys -> Rows \cup {None}], up' \in BOOLEAN, requests' \in 0 .. MaxRequests,
         UNCHANGED <<told, confirmed>>,
         RowsStay, Clean(r), Aware(r)', Wins(r) => users[r.name.key] = None
  PROVE  Inv'
<1>1. /\ thread'[t] = r
      /\ \A u \in Threads : u # t => thread'[u] = thread[u]
      /\ thread' \in [Threads -> Handlers]
      /\ thread \in [Threads -> Handlers]
  BY LocalStep DEF Inv
<1>2. AccountsTypeOK'
  BY <1>1 DEF Inv, AccountsTypeOK, Handlers
<1>3. HandlersSound'
  <2> SUFFICES ASSUME NEW u \in Threads
               PROVE  Clean(thread[u])' /\ Aware(thread[u])'
    BY DEF HandlersSound
  <2>1. CASE u = t
    BY <1>1, <2>1 DEF Clean, Aware, Stored, Truth
  <2>2. CASE u # t
    <3> DEFINE h == thread[u]
    <3>1. Clean(h) /\ Aware(h) /\ h \in Handlers /\ thread'[u] = h
      BY <1>1, <2>2 DEF Inv, HandlersSound
    <3>2. PICK g \in Handlers : g = h
      BY <3>1
    <3>3. Clean(g) /\ Aware(g)' /\ thread'[u] = g
      BY <3>1, <3>2, AwareStays
    <3> HIDE DEF h
    <3> QED BY <3>3 DEF Clean, Aware, Stored, Truth
  <2> QED BY <2>1, <2>2
<1>4. OneWinner'
  <2>1. \A u \in Threads : Wins(thread[u]) => users[thread[u].name.key] # None
    BY DEF Inv, HandlersSound, Aware, Wins, Truth, OfAccount
  <2> SUFFICES ASSUME NEW u \in Threads, NEW v \in Threads, u # v,
                      Wins(thread[u])', Wins(thread[v])',
                      thread'[u].name.key = thread'[v].name.key
               PROVE  FALSE
    BY DEF OneWinner
  <2>2. CASE u = t
    BY <1>1, <2>1, <2>2 DEF Wins
  <2>3. CASE v = t
    BY <1>1, <2>1, <2>3 DEF Wins
  <2>4. CASE u # t /\ v # t
    BY <1>1, <2>4 DEF Wins, Inv, OneWinner
  <2> QED BY <2>2, <2>3, <2>4
<1>5. ToldSound'
  <2> SUFFICES ASSUME NEW a \in told
               PROVE  Truth(a)'
    BY DEF ToldSound
  <2>1. a.name.key \in Keys /\ Truth(a)
    BY DEF Inv, AccountsTypeOK, ToldSound, Keys
  <2> QED BY <2>1, TruthStays
<1>6. ConfirmedSound'
  <2> SUFFICES ASSUME NEW k \in Keys
               PROVE  Len(confirmed[k]) <= 1 /\ \A p \in Range(confirmed[k]) : Stored(k, p)'
    BY DEF ConfirmedSound
  <2> QED BY StoredStays DEF Inv, ConfirmedSound
<1> QED BY <1>2, <1>3, <1>4, <1>5, <1>6 DEF Inv

\* A step of one handler that leaves the table alone.
LEMMA QuietStep ==
  ASSUME Inv, NEW t \in Threads, NEW r \in Handlers, Local(t, r),
         UNCHANGED <<users, up, told, confirmed>>, requests' \in 0 .. MaxRequests,
         Clean(r), Aware(r), ~Wins(r)
  PROVE  Inv'
<1>1. users' \in [Keys -> Rows \cup {None}] /\ up' \in BOOLEAN /\ RowsStay
  BY DEF Inv, AccountsTypeOK, RowsStay
<1>2. Aware(r)'
  BY DEF Aware, Stored, Truth
<1> QED BY <1>1, <1>2, Step

-----------------------------------------------------------------------------
(* The actions.                                                            *)

\* A handler has its type, and is clean and aware.
LEMMA HandlerFacts ==
  ASSUME Inv, NEW t \in Threads
  PROVE  /\ thread[t] \in Handlers /\ Clean(thread[t]) /\ Aware(thread[t])
         /\ requests \in 0 .. MaxRequests
  BY DEF Inv, AccountsTypeOK, HandlersSound, Handlers

\* The answers that say nothing of an account.
Failures == {"empty", "mismatch", "format", "length", "error", "failed"}

\* A handler that is clean and aware may always answer that it has failed.
LEMMA FailureSound ==
  ASSUME NEW h \in Handlers, Clean(h), Aware(h), NEW answer \in Failures
  PROVE  LET r == Answered(h, answer)
         IN  /\ r \in Handlers /\ Clean(r) /\ ~Wins(r)
             /\ Aware(r)
<1> DEFINE r == Answered(h, answer)
<1>1. answer \in Answers /\ answer \notin OfAccount
  BY DEF Failures, Answers, OfAccount
<1>2. /\ r \in Handlers
      /\ r.at = "leave" /\ r.answer = answer /\ ~r.stmt
      /\ r.name = h.name /\ r.before = h.before
  BY <1>1, AnsweredType
<1> HIDE DEF r
<1>3. Clean(r) /\ ~Wins(r)
  BY <1>1, <1>2 DEF Clean, Wins, OfAccount, Working
<1>4. Aware(r)
  BY <1>1, <1>2 DEF Aware, OfAccount
<1> QED BY <1>2, <1>3, <1>4 DEF r

\* Respond after a failure.
LEMMA FailureStep ==
  ASSUME Inv, NEW t \in Threads, NEW answer \in Failures, Respond(t, answer),
         UNCHANGED <<users, up, requests, told, confirmed>>
  PROVE  Inv'
<1> DEFINE r == Answered(thread[t], answer)
<1>1. Local(t, r)
  BY DEF Respond, Answered
<1>2. r \in Handlers /\ Clean(r) /\ ~Wins(r) /\ Aware(r)
  BY HandlerFacts, FailureSound
<1> HIDE DEF r
<1> QED BY <1>1, <1>2, QuietStep, HandlerFacts

LEMMA BeginStep ==
  ASSUME Inv, NEW t \in Threads, NEW path \in {"login", "register"}, NEW form \in Forms,
         Begin(t, path, form)
  PROVE  Inv'
<1> DEFINE name      == Field(form, "username")
           password  == Field(form, "password")
           objection == IF name = None \/ password = None THEN "empty"
                        ELSE IF path = "login" THEN None
                        ELSE Objection(name, password, Field(form, "confirmPassword"))
           before    == Range(confirmed[name.key])
           refused   == [Idle EXCEPT !.at = "leave", !.answer = objection]
           begun     == [[Idle EXCEPT !.path = path, !.name = name, !.password = password]
                           EXCEPT !.at = "guard", !.before = before]
<1>1. /\ requests < MaxRequests /\ requests' = requests + 1
      /\ UNCHANGED <<users, up, told, confirmed>>
      /\ objection # None => Local(t, refused)
      /\ objection = None => Local(t, begun)
  BY DEF Begin
<1>2. requests' \in 0 .. MaxRequests
  BY <1>1, HandlerFacts, RequestAssumption
<1>3. objection \in Failures \cup {None} /\ "empty" # None
  BY ObjectionType, NoneAssumption DEF Failures, Answers
<1>4. CASE objection # None
  <2>1. objection \in Failures /\ objection \in Answers /\ objection \notin OfAccount
    BY <1>3, <1>4 DEF Failures, Answers, OfAccount
  <2>2. /\ refused \in Handlers
        /\ refused.at = "leave" /\ refused.answer = objection /\ ~refused.stmt /\ refused.before = {}
    <3> HIDE DEF objection
    <3> QED BY <2>1 DEF Idle, Handlers
  <2> HIDE DEF refused, objection
  <2>3. Clean(refused) /\ Aware(refused) /\ ~Wins(refused)
    BY <2>1, <2>2 DEF Clean, Aware, Wins, Working, OfAccount
  <2> QED BY <1>1, <1>2, <1>4, <2>2, <2>3, QuietStep
<1>5. CASE objection = None
  <2>1. name \in Usernames /\ password \in Passwords
    BY <1>3, <1>5, FieldType
  <2>2. name.key \in Keys /\ confirmed \in [Keys -> Seq(Passwords)]
    BY <2>1 DEF Keys, Inv, AccountsTypeOK
  <2>3. before \in SUBSET Passwords
    BY <2>2 DEF Range
  <2>4. \A p \in before : Stored(name.key, p)
    BY <2>2 DEF Inv, ConfirmedSound
  <2>5. /\ begun \in Handlers
        /\ begun.at = "guard" /\ begun.name = name /\ begun.password = password /\ ~begun.stmt
        /\ begun.before = before
    <3> HIDE DEF name, password, before
    <3> QED BY <2>1, <2>3 DEF Idle, Handlers
  <2> HIDE DEF begun, name, password, before
  <2>6. Clean(begun) /\ Aware(begun) /\ ~Wins(begun)
    BY <2>1, <2>4, <2>5 DEF Clean, Aware, Wins, Working
  <2> QED BY <1>1, <1>2, <1>5, <2>5, <2>6, QuietStep
<1> QED BY <1>4, <1>5

LEMMA BorrowStep ==
  ASSUME Inv, NEW t \in Threads, Borrow(t)
  PROVE  Inv'
<1> DEFINE h == thread[t]
           r == [h EXCEPT !.at = "prepare", !.guard = TRUE]
<1>1. h.at = "guard" /\ UNCHANGED <<users, up, requests, told, confirmed>>
  BY DEF Borrow, At
<1>2. h \in Handlers /\ Clean(h) /\ Aware(h) /\ requests \in 0 .. MaxRequests
  BY HandlerFacts
<1>3. CASE Local(t, r)
  <2> HIDE DEF h
  <2>1. /\ r \in Handlers
        /\ r.at = "prepare" /\ r.guard /\ r.stmt = h.stmt /\ r.name = h.name
        /\ r.password = h.password /\ r.before = h.before
    BY <1>2 DEF Handlers
  <2> HIDE DEF r
  <2>2. Clean(r) /\ Aware(r) /\ ~Wins(r)
    BY <1>1, <1>2, <2>1 DEF Clean, Aware, Wins, Working
  <2> QED BY <1>1, <1>2, <1>3, <2>1, <2>2, QuietStep
<1>4. CASE Respond(t, "error")
  BY <1>1, <1>4, FailureStep DEF Failures
<1> QED BY <1>3, <1>4 DEF Borrow

LEMMA PrepareStep ==
  ASSUME Inv, NEW t \in Threads, Prepare(t)
  PROVE  Inv'
<1> DEFINE h == thread[t]
           r == [h EXCEPT !.at = "execute", !.stmt = "execute" \in {"execute", "insert"}]
<1>1. h.at = "prepare" /\ UNCHANGED <<users, up, requests, told, confirmed>>
  BY DEF Prepare, At
<1>2. h \in Handlers /\ Clean(h) /\ Aware(h) /\ requests \in 0 .. MaxRequests
  BY HandlerFacts
<1>3. CASE Local(t, r)
  <2> HIDE DEF h
  <2>1. /\ r \in Handlers
        /\ r.at = "execute" /\ r.guard = h.guard /\ r.stmt /\ r.name = h.name
        /\ r.password = h.password /\ r.before = h.before
    BY <1>2 DEF Handlers
  <2> HIDE DEF r
  <2>2. Clean(r) /\ Aware(r) /\ ~Wins(r)
    BY <1>1, <1>2, <2>1 DEF Clean, Aware, Wins, Working
  <2> QED BY <1>1, <1>2, <1>3, <2>1, <2>2, QuietStep
<1>4. CASE Respond(t, "error")
  BY <1>1, <1>4, FailureStep DEF Failures
<1> QED BY <1>3, <1>4 DEF Prepare, Query

LEMMA ExecuteStep ==
  ASSUME Inv, NEW t \in Threads, Execute(t)
  PROVE  Inv'
<1> DEFINE h == thread[t]
           k == h.name.key
<1>1. h.at = "execute" /\ UNCHANGED <<users, up, requests, told, confirmed>>
  BY DEF Execute, At
<1>2. h \in Handlers /\ Clean(h) /\ Aware(h) /\ requests \in 0 .. MaxRequests
  BY HandlerFacts
<1>3. k \in Keys /\ users[k] \in Rows \cup {None}
  BY <1>1, <1>2 DEF Clean, Working, Keys, Inv, AccountsTypeOK
<1>4. ASSUME NEW row \in Rows \cup {None},
             row = users[k] \/ (row = None /\ h.path # "login"),
             Local(t, [h EXCEPT !.at = "fetch", !.row = row])
      PROVE  Inv'
  <2> DEFINE r == [h EXCEPT !.at = "fetch", !.row = row]
  <2> HIDE DEF h
  <2>1. /\ r \in Handlers
        /\ r.at = "fetch" /\ r.guard = h.guard /\ r.stmt = h.stmt /\ r.name = h.name
        /\ r.password = h.password /\ r.before = h.before /\ r.row = row /\ r.path = h.path
    BY <1>2 DEF Handlers
  <2>2. Local(t, r)
    BY <1>4
  <2> HIDE DEF r
  <2>3. Clean(r) /\ Aware(r) /\ ~Wins(r)
    BY <1>1, <1>2, <1>4, <2>1 DEF Clean, Aware, Wins, Working
  <2> QED BY <1>1, <1>2, <2>1, <2>2, <2>3, QuietStep
<1>5. CASE Local(t, [h EXCEPT !.at = "fetch", !.row = users[k]])
  BY <1>3, <1>4, <1>5
<1>6. CASE h.path = "login" /\ Respond(t, "error")
  BY <1>1, <1>6, FailureStep DEF Failures
<1>7. CASE h.path # "login" /\ Local(t, [h EXCEPT !.at = "fetch", !.row = None])
  BY <1>4, <1>7
<1> QED BY <1>5, <1>6, <1>7 DEF Execute

\* What Fetch makes of a row that is there, and of none.
LEMMA FetchStep ==
  ASSUME Inv, NEW t \in Threads, Fetch(t)
  PROVE  Inv'
<1> DEFINE h == thread[t]
           k == h.name.key
<1>1. h.at = "fetch" /\ UNCHANGED <<users, up, requests, told, confirmed>>
  BY DEF Fetch, At
<1>2. h \in Handlers /\ Clean(h) /\ Aware(h) /\ requests \in 0 .. MaxRequests
  BY HandlerFacts
<1>3. /\ h.name \in Usernames /\ h.password \in Passwords /\ h.guard
      /\ k \in Keys
  BY <1>1, <1>2 DEF Clean, Working, Keys
<1>4. PICK lost \in BOOLEAN :
        LET g     == [h EXCEPT !.lost = lost, !.stmt = FALSE, !.row = None]
            found == ~lost /\ h.row # None
        IN  Local(t, IF g.path = "login"
                     THEN [g EXCEPT !.at = "leave",
                            !.answer = IF found /\ VerifyPassword(g.password, h.row)
                                       THEN "welcome" ELSE "wrong"]
                     ELSE IF found THEN [g EXCEPT !.at = "leave", !.answer = "taken"]
                     ELSE [g EXCEPT !.at = "hash"])
  BY DEF Fetch
<1> DEFINE g     == [h EXCEPT !.lost = lost, !.stmt = FALSE, !.row = None]
           found == ~lost /\ h.row # None
           right == found /\ VerifyPassword(h.password, h.row)
<1>5. g \in Handlers /\ g.path = h.path /\ g.password = h.password
  BY <1>2 DEF Handlers
<1>6. \A p \in h.before : Stored(k, p) /\ p \in Passwords
  BY <1>2 DEF Aware, Handlers
<1>7. found => h.row = users[k] /\ users[k] # None
  BY <1>1, <1>2 DEF Aware
<1>8. CASE h.path = "login"
  <2> DEFINE answer == IF right THEN "welcome" ELSE "wrong"
             r      == [g EXCEPT !.at = "leave", !.answer = answer]
  <2>1. Local(t, r)
    BY <1>4, <1>5, <1>8
  <2>2. answer \in Answers /\ answer \in OfAccount /\ answer # "registered" /\ answer # "taken"
    BY DEF Answers, OfAccount
  <2>3. right => VerifyPassword(h.password, users[k]) /\ users[k] # None
    BY <1>7
  <2>4. h.before # {} => h.row = users[k] /\ users[k] # None
    BY <1>1, <1>2, <1>6, <1>8 DEF Aware, Stored
  <2>5. h.before # {} /\ right => h.password \in h.before
    BY <1>3, <1>6, <2>3, VerifiesOne DEF Stored
  <2>6. h.before # {} /\ ~lost /\ ~right => h.password \notin h.before
    BY <1>6, <2>4 DEF Stored
  <2>7. answer = "welcome" <=> right
    OBVIOUS
  <2> HIDE DEF h, answer, right, found
  <2>8. /\ r \in Handlers
        /\ r.at = "leave" /\ r.guard = h.guard /\ ~r.stmt /\ r.name = h.name
        /\ r.password = h.password /\ r.before = h.before /\ r.lost = lost /\ r.answer = answer
    BY ZenonT(40), <1>2, <2>2 DEF Handlers
  <2> HIDE DEF r, g
  <2>9. Clean(r) /\ ~Wins(r)
    BY <1>1, <1>2, <1>3, <2>2, <2>8 DEF Clean, Wins, Working
  <2>10. Truth(r)
    BY <2>2, <2>3, <2>5, <2>6, <2>7, <2>8 DEF Truth
  <2>11. Aware(r)
    BY <1>6, <2>2, <2>8, <2>10 DEF Aware
  <2> QED BY <1>1, <1>2, <2>1, <2>8, <2>9, <2>11, QuietStep
<1>9. CASE h.path # "login" /\ found
  <2> DEFINE r == [g EXCEPT !.at = "leave", !.answer = "taken"]
  <2>1. Local(t, r)
    BY <1>4, <1>5, <1>9
  <2> HIDE DEF h, found
  <2>2. /\ r \in Handlers
        /\ r.at = "leave" /\ r.guard = h.guard /\ ~r.stmt /\ r.name = h.name
        /\ r.password = h.password /\ r.before = h.before /\ r.lost = lost /\ r.answer = "taken"
    BY ZenonT(40), <1>2 DEF Handlers, Answers
  <2> HIDE DEF r, g
  <2>3. Clean(r) /\ ~Wins(r)
    BY <1>1, <1>2, <1>3, <2>2 DEF Clean, Wins, Working
  <2>4. Truth(r)
    BY <1>7, <1>9, <2>2 DEF Truth
  <2>5. Aware(r)
    BY <1>6, <2>2, <2>4 DEF Aware
  <2> QED BY <1>1, <1>2, <2>1, <2>2, <2>3, <2>5, QuietStep
<1>10. CASE h.path # "login" /\ ~found
  <2> DEFINE r == [g EXCEPT !.at = "hash"]
  <2>1. Local(t, r)
    BY <1>4, <1>5, <1>10
  <2> HIDE DEF h, found
  <2>2. /\ r \in Handlers
        /\ r.at = "hash" /\ r.guard = h.guard /\ ~r.stmt /\ r.name = h.name
        /\ r.password = h.password /\ r.before = h.before
    BY <1>2 DEF Handlers
  <2> HIDE DEF r, g
  <2>3. Clean(r) /\ ~Wins(r) /\ Aware(r)
    BY <1>1, <1>2, <1>3, <1>6, <2>2 DEF Clean, Wins, Working, Aware
  <2> QED BY <1>1, <1>2, <2>1, <2>2, <2>3, QuietStep
<1> QED BY <1>8, <1>9, <1>10

LEMMA HashStep ==
  ASSUME Inv, NEW t \in Threads, Hash(t)
  PROVE  Inv'
<1> DEFINE h == thread[t]
<1>1. h.at = "hash" /\ UNCHANGED <<users, up, requests, told, confirmed>>
  BY DEF Hash, At
<1>2. h \in Handlers /\ Clean(h) /\ Aware(h) /\ requests \in 0 .. MaxRequests
  BY HandlerFacts
<1>3. h.password \in Passwords /\ h.name \in Usernames
  BY <1>1, <1>2 DEF Clean, Working
<1>4. ASSUME NEW salt \in Salts,
             Local(t, [h EXCEPT !.at = "insert", !.stmt = TRUE,
                                !.row = HashPassword(h.password, salt)])
      PROVE  Inv'
  <2> DEFINE row == HashPassword(h.password, salt)
             r   == [h EXCEPT !.at = "insert", !.stmt = TRUE, !.row = row]
  <2>1. row \in Rows
    BY <1>3, HashVerifies
  <2>2. Local(t, r)
    BY <1>4
  <2>3. \E s \in Salts : row = HashPassword(h.password, s)
    OBVIOUS
  <2> HIDE DEF h, row
  <2>4. /\ r \in Handlers
        /\ r.at = "insert" /\ r.guard = h.guard /\ r.stmt /\ r.name = h.name
        /\ r.password = h.password /\ r.before = h.before /\ r.row = row
    BY <1>2, <2>1 DEF Handlers
  <2> HIDE DEF r
  <2>5. Clean(r) /\ ~Wins(r) /\ Aware(r)
    BY <1>1, <1>2, <2>3, <2>4 DEF Clean, Wins, Working, Aware
  <2> QED BY <1>1, <1>2, <2>2, <2>4, <2>5, QuietStep
<1>5. CASE Respond(t, "error")
  BY <1>1, <1>5, FailureStep DEF Failures
<1> QED BY <1>4, <1>5 DEF Hash

\* A row is inserted once, and whoever inserted it is the only one who may be told.
LEMMA InsertStep ==
  ASSUME Inv, NEW t \in Threads, Insert(t)
  PROVE  Inv'
<1> DEFINE h == thread[t]
           k == h.name.key
<1>1. h.at = "insert" /\ UNCHANGED <<up, requests, told, confirmed>>
  BY DEF Insert, At
<1>2. h \in Handlers /\ Clean(h) /\ Aware(h) /\ requests \in 0 .. MaxRequests
  BY HandlerFacts
<1>3. h.name \in Usernames /\ h.password \in Passwords /\ k \in Keys
  BY <1>1, <1>2 DEF Clean, Working, Keys
<1>4. PICK salt \in Salts : h.row = HashPassword(h.password, salt)
  BY <1>1, <1>2 DEF Aware
<1>5. h.row \in Rows /\ h.row # None /\ VerifyPassword(h.password, h.row)
  BY <1>3, <1>4, HashVerifies
<1>6. CASE UNCHANGED users /\ Respond(t, "failed")
  BY <1>1, <1>6, FailureStep DEF Failures
<1>7. ASSUME users[k] = None, Inserted(t), NEW answer \in {"registered", "failed"},
             Respond(t, answer)
      PROVE  Inv'
  <2> DEFINE r == Answered(h, answer)
  <2>1. Local(t, r)
    BY <1>7 DEF Respond, Answered
  <2>2. users \in [Keys -> Rows \cup {None}] /\ users' = [users EXCEPT ![k] = h.row]
    BY <1>7 DEF Inv, AccountsTypeOK, Inserted
  <2>3. /\ users' \in [Keys -> Rows \cup {None}]
        /\ users'[k] = h.row
        /\ RowsStay
    BY <1>3, <1>5, <1>7, <2>2 DEF RowsStay
  <2>4. h.before = {}
    BY <1>2, <1>7 DEF Aware, Stored
  <2>5. confirmed[k] = <<>>
    <3>1. confirmed[k] \in Seq(Passwords) /\ \A p \in Range(confirmed[k]) : users[k] # None
      BY <1>3 DEF Inv, AccountsTypeOK, ConfirmedSound, Stored
    <3>2. DOMAIN confirmed[k] = {}
      BY <1>7, <3>1 DEF Range
    <3> QED BY <3>1, <3>2, EmptyDomain
  <2>6. answer \in Answers
    BY <1>7 DEF Answers
  <2>7. /\ r \in Handlers
        /\ r.at = "leave" /\ r.answer = answer /\ ~r.stmt
        /\ r.name = h.name /\ r.password = h.password /\ r.guard = h.guard
        /\ r.before = h.before
    BY <1>2, <2>6, AnsweredType
  <2> HIDE DEF r
  <2>8. PICK q \in Handlers : q = r
    BY <2>7
  <2>9. Clean(q) /\ Local(t, q)
    BY <1>1, <1>2, <1>3, <2>1, <2>7, <2>8 DEF Clean, Working
  <2>10. /\ q.at = "leave" /\ q.answer = answer /\ q.before = {}
         /\ q.name.key = k /\ q.password = h.password
    BY <2>4, <2>7, <2>8
  <2>11. users'[q.name.key] # None /\ VerifyPassword(q.password, users'[q.name.key])
    BY <1>5, <2>3, <2>10
  <2>12. Truth(q)'
    BY <2>10, <2>11 DEF Truth
  <2>13. confirmed'[q.name.key] = <<>>
    BY <1>1, <2>5, <2>10
  <2>14. Aware(q)'
    BY <2>10, <2>12, <2>13 DEF Aware
  <2>15. Wins(q) => users[q.name.key] = None
    BY <1>7, <2>10
  <2>16. up' \in BOOLEAN /\ requests' \in 0 .. MaxRequests
    BY <1>1, <1>2 DEF Inv, AccountsTypeOK
  <2> QED BY <1>1, <2>3, <2>9, <2>14, <2>15, <2>16, Step
<1> QED BY <1>6, <1>7 DEF Insert

\* An idle handler owes nothing and knows nothing.
LEMMA IdleSound == Clean(Idle) /\ ~Wins(Idle) /\ Aware(Idle)
  BY IdleType DEF Clean, Aware, Wins, Working

\* The first password in a sequence of them.
LEMMA OnePassword ==
  ASSUME NEW p \in Passwords
  PROVE  /\ Append(<<>>, p) \in Seq(Passwords) /\ Len(Append(<<>>, p)) = 1
         /\ Range(Append(<<>>, p)) = {p}
<1>1. Append(<<>>, p) = <<p>>
  OBVIOUS
<1>2. <<p>> \in Seq(Passwords) /\ Len(<<p>>) = 1 /\ DOMAIN <<p>> = {1} /\ <<p>>[1] = p
  OBVIOUS
<1>3. Range(<<p>>) = {p}
  BY <1>2 DEF Range
<1> QED BY <1>1, <1>2, <1>3

LEMMA LeaveStep ==
  ASSUME Inv, NEW t \in Threads, Leave(t)
  PROVE  Inv'
<1> DEFINE h == thread[t]
           k == h.name.key
           a == [name |-> h.name, password |-> h.password, answer |-> h.answer,
                 before |-> h.before, lost |-> h.lost]
<1>1. /\ h.at = "leave" /\ Local(t, Idle) /\ UNCHANGED <<users, up, requests>>
      /\ told' = IF h.answer \notin OfAccount THEN told ELSE told \cup {a}
      /\ confirmed' = IF h.answer # "registered" THEN confirmed
                      ELSE [confirmed EXCEPT ![k] = Append(@, h.password)]
  BY DEF Leave, At
<1>2. h \in Handlers /\ Clean(h) /\ Aware(h) /\ requests \in 0 .. MaxRequests
  BY HandlerFacts
<1>3. h.answer \in OfAccount =>
        h.name \in Usernames /\ h.password \in Passwords /\ k \in Keys /\ Truth(h)
  BY <1>1, <1>2 DEF Clean, Aware, Keys
<1>4. h.answer = "registered" => h.answer \in OfAccount /\ confirmed[k] = <<>>
  BY <1>1, <1>2 DEF Aware, OfAccount
<1>5. /\ users \in [Keys -> Rows \cup {None}] /\ confirmed \in [Keys -> Seq(Passwords)]
      /\ up \in BOOLEAN
      /\ told \subseteq [name : Usernames, password : Passwords, answer : OfAccount,
                         before : SUBSET Passwords, lost : BOOLEAN]
  BY DEF Inv, AccountsTypeOK
<1>6. RowsStay
  BY <1>1 DEF RowsStay
<1>7. /\ thread'[t] = Idle
      /\ \A u \in Threads : u # t => thread'[u] = thread[u]
      /\ thread' \in [Threads -> Handlers]
      /\ thread \in [Threads -> Handlers]
  BY <1>1, LocalStep, IdleType DEF Inv
<1>8. CASE h.answer \notin OfAccount
  <2>1. UNCHANGED <<users, up, told, confirmed>>
    BY <1>1, <1>4, <1>8
  <2> QED BY <1>1, <1>2, <2>1, IdleType, IdleSound, QuietStep
<1>9. CASE h.answer \in OfAccount
  <2>1. a \in [name : Usernames, password : Passwords, answer : OfAccount,
               before : SUBSET Passwords, lost : BOOLEAN]
    <3> HIDE DEF h
    <3> QED BY <1>2, <1>3, <1>9 DEF Handlers
  <2>2. told' = told \cup {a} /\ Truth(a)
    <3>1. told' = told \cup {a}
      BY <1>1, <1>9
    <3>2. a.name = h.name /\ a.password = h.password /\ a.answer = h.answer
          /\ a.before = h.before /\ a.lost = h.lost
      OBVIOUS
    <3>3. Truth(h)
      BY <1>3, <1>9
    <3> HIDE DEF h, a
    <3> QED BY <3>1, <3>2, <3>3 DEF Truth
  <2>3. /\ confirmed' \in [Keys -> Seq(Passwords)]
        /\ h.answer # "registered" => confirmed' = confirmed
        /\ h.answer = "registered" => /\ Len(confirmed'[k]) = 1
                                      /\ Range(confirmed'[k]) = {h.password}
                                      /\ \A l \in Keys : l # k => confirmed'[l] = confirmed[l]
    <3>1. CASE h.answer # "registered"
      BY <1>1, <1>5, <3>1
    <3>2. CASE h.answer = "registered"
      <4> DEFINE s == Append(<<>>, h.password)
      <4>1. confirmed' = [confirmed EXCEPT ![k] = s] /\ k \in Keys
        BY <1>1, <1>3, <1>4, <3>2
      <4>2. s \in Seq(Passwords) /\ Len(s) = 1 /\ Range(s) = {h.password}
        BY <1>3, <1>9, OnePassword
      <4> HIDE DEF s, k
      <4> QED BY <1>5, <3>2, <4>1, <4>2
    <3> QED BY <3>1, <3>2
  <2>4. AccountsTypeOK'
    BY <1>1, <1>2, <1>5, <1>7, <2>1, <2>2, <2>3 DEF AccountsTypeOK, Handlers
  <2>5. HandlersSound'
    <3> SUFFICES ASSUME NEW u \in Threads
                 PROVE  Clean(thread[u])' /\ Aware(thread[u])'
      BY DEF HandlersSound
    <3>1. CASE u = t
      <4>1. thread'[u].before = {} /\ thread'[u].at = "idle"
        BY <1>7, <3>1, IdleType
      <4>2. Clean(thread[u])'
        BY <1>7, <3>1, IdleSound DEF Clean
      <4> QED BY <4>1, <4>2 DEF Aware
    <3>2. CASE u # t
      <4>1. PICK g \in Handlers : g = thread[u]
        BY <1>7
      <4>2. Clean(g) /\ Aware(g) /\ thread'[u] = g
        BY <1>7, <3>2, <4>1 DEF Inv, HandlersSound
      <4>3. Wins(g) => g.name \in Usernames /\ g.name.key \in Keys
        BY <4>2 DEF Wins, Clean, OfAccount, Keys
      <4>4. Wins(g) /\ h.answer = "registered" => g.name.key # k
        BY <1>1, <3>2, <4>1 DEF Inv, OneWinner, Wins
      <4>5. Wins(g) => confirmed'[g.name.key] = confirmed[g.name.key]
        BY <2>3, <4>3, <4>4
      <4>6. Aware(g)'
        BY <1>6, <4>2, <4>5, AwareStays
      <4> HIDE DEF h
      <4> QED BY <4>2, <4>6 DEF Clean, Aware, Stored, Truth
    <3> QED BY <3>1, <3>2
  <2>6. OneWinner'
    <3>1. \A u \in Threads : Wins(thread[u])' => Wins(thread[u]) /\ thread'[u] = thread[u]
      BY <1>7, IdleType DEF Wins
    <3> QED BY <3>1 DEF Inv, OneWinner
  <2>7. ToldSound'
    <3> SUFFICES ASSUME NEW b \in told'
                 PROVE  Truth(b)'
      BY DEF ToldSound
    <3>1. PICK c : c = b
      OBVIOUS
    <3>2. c \in told \/ c = a
      BY <2>2, <3>1
    <3>3. Truth(c)
      BY <2>2, <3>2 DEF Inv, ToldSound
    <3>4. c.name.key \in Keys
      BY <1>5, <2>1, <3>2 DEF Keys
    <3>5. Truth(c)'
      BY <1>6, <3>3, <3>4, TruthStays
    <3> QED BY <3>1, <3>5
  <2>8. ConfirmedSound'
    <3> SUFFICES ASSUME NEW l \in Keys
                 PROVE  Len(confirmed'[l]) <= 1 /\ \A p \in Range(confirmed'[l]) : Stored(l, p)'
      BY DEF ConfirmedSound
    <3>1. Len(confirmed[l]) <= 1 /\ \A p \in Range(confirmed[l]) : Stored(l, p)
      BY DEF Inv, ConfirmedSound
    <3>2. \A p : Stored(l, p) => Stored(l, p)'
      BY <1>6, StoredStays
    <3>3. CASE h.answer = "registered" /\ l = k
      <4>1. Len(confirmed'[l]) = 1 /\ Range(confirmed'[l]) = {h.password}
        BY <2>3, <3>3
      <4>2. Stored(l, h.password)
        BY <1>3, <1>9, <3>3 DEF Truth, Stored
      <4>3. PICK p : p = h.password
        OBVIOUS
      <4>4. Stored(l, p)'
        BY <3>2, <4>2, <4>3
      <4> HIDE DEF h, k, a
      <4> QED BY <4>1, <4>3, <4>4
    <3>4. CASE h.answer # "registered" \/ l # k
      <4>1. confirmed'[l] = confirmed[l]
        BY <2>3, <3>4
      <4> HIDE DEF h, k, a
      <4> QED BY <3>1, <3>2, <4>1
    <3> QED BY <3>3, <3>4
  <2> QED BY <2>4, <2>5, <2>6, <2>7, <2>8 DEF Inv
<1> QED BY <1>8, <1>9

\* The process ends, and no handler is left.
LEMMA TerminateStep ==
  ASSUME Inv, NEW t \in Threads, Terminate(t)
  PROVE  Inv'
<1>1. /\ thread' = [u \in Threads |-> Idle] /\ up' = FALSE
      /\ UNCHANGED <<users, requests, told, confirmed>>
  BY DEF Terminate
<1>2. \A u \in Threads : thread'[u] = Idle
  BY <1>1
<1>3. AccountsTypeOK'
  <2>1. thread' \in [Threads -> Handlers]
    BY <1>1, IdleType
  <2> QED BY <1>1, <2>1 DEF Inv, AccountsTypeOK, Handlers
<1>4. HandlersSound'
  BY <1>2, IdleType DEF HandlersSound, Clean, Aware, Working
<1>5. OneWinner'
  BY <1>2, IdleType DEF OneWinner, Wins
<1>6. ToldSound' /\ ConfirmedSound'
  BY <1>1 DEF Inv, ToldSound, Truth, ConfirmedSound, Stored
<1> QED BY <1>3, <1>4, <1>5, <1>6 DEF Inv

\* What does not touch the table, the handlers or the histories.
LEMMA RestartStep ==
  ASSUME Inv, UNCHANGED <<users, thread, requests, told, confirmed>>, up' \in BOOLEAN
  PROVE  Inv'
<1>1. AccountsTypeOK'
  BY DEF Inv, AccountsTypeOK
<1>2. HandlersSound' /\ OneWinner'
  BY DEF Inv, HandlersSound, OneWinner, Clean, Aware, Stored, Truth, Wins
<1>3. ToldSound' /\ ConfirmedSound'
  BY DEF Inv, ToldSound, Truth, ConfirmedSound, Stored
<1> QED BY <1>1, <1>2, <1>3 DEF Inv

LEMMA InvInit ==
  ASSUME AccountsInit
  PROVE  Inv
<1>1. AccountsTypeOK
  <2>1. users \in [Keys -> Rows \cup {None}]
    BY DEF AccountsInit, Rows
  <2>2. thread \in [Threads -> Handlers]
    BY IdleType DEF AccountsInit
  <2>3. /\ 0 \in 0 .. MaxRequests
        /\ <<>> \in Seq(Passwords)
    BY RequestAssumption
  <2>4. up \in BOOLEAN /\ requests = 0 /\ told = {} /\ confirmed \in [Keys -> Seq(Passwords)]
    BY <2>3 DEF AccountsInit
  <2> QED BY <2>1, <2>2, <2>3, <2>4 DEF AccountsTypeOK, Handlers
<1>2. \A t \in Threads : thread[t] = Idle
  BY DEF AccountsInit
<1>3. HandlersSound
  BY <1>2, IdleSound DEF HandlersSound
<1>4. OneWinner
  BY <1>2, IdleSound DEF OneWinner
<1>5. ToldSound
  BY DEF AccountsInit, ToldSound
<1>6. ConfirmedSound
  <2> SUFFICES ASSUME NEW k \in Keys
               PROVE  Len(confirmed[k]) <= 1 /\ \A p \in Range(confirmed[k]) : Stored(k, p)
    BY DEF ConfirmedSound
  <2>1. confirmed[k] = <<>>
    BY DEF AccountsInit
  <2>2. Range(<<>>) = {}
    BY DEF Range
  <2> QED BY <2>1, <2>2
<1> QED BY <1>1, <1>3, <1>4, <1>5, <1>6 DEF Inv

LEMMA InvNext ==
  ASSUME Inv, [AccountsNext]_accountsVars
  PROVE  Inv'
<1>1. ASSUME NEW t \in Threads, NEW path \in {"login", "register"}, NEW form \in Forms,
             Begin(t, path, form)
      PROVE  Inv'
  BY <1>1, BeginStep
<1>2. ASSUME NEW t \in Threads, HandlerStep(t)
      PROVE  Inv'
  BY <1>2, BorrowStep, PrepareStep, ExecuteStep, FetchStep, HashStep, InsertStep, LeaveStep
     DEF HandlerStep
<1>3. ASSUME NEW t \in Threads, Terminate(t)
      PROVE  Inv'
  BY <1>3, TerminateStep
<1>4. CASE Restart
  BY <1>4, RestartStep DEF Restart
<1>5. CASE UNCHANGED accountsVars
  BY <1>5, RestartStep DEF accountsVars, Inv, AccountsTypeOK
<1> QED BY <1>1, <1>2, <1>3, <1>4, <1>5 DEF AccountsNext

LEMMA Invariance == AccountsSpec => []Inv
<1>1. AccountsInit => Inv
  BY InvInit
<1>2. Inv /\ [AccountsNext]_accountsVars => Inv'
  BY InvNext
<1> QED BY <1>1, <1>2, PTL DEF AccountsSpec

-----------------------------------------------------------------------------
(* What it shows.                                                          *)

\* Whatever fails, a handler closes its statement before ~DBGuard returns the
\* connection, and no guard outlives its handler.
THEOREM ConnectionsStayClean == AccountsSpec => []ConnectionsClean
<1>1. Inv => ConnectionsClean
  BY DEF Inv, HandlersSound, Clean, ConnectionsClean
<1> QED BY <1>1, Invariance, PTL

\* What a client was told of an account stays true, and an account was given to
\* one client only, for any number of IO threads that register and log in at once.
THEOREM AnswersStayTrue == AccountsSpec => []AnswersTrue
<1>1. Inv => AnswersTrue
  BY DEF Inv, ToldSound, Truth, ConfirmedSound, AnswersTrue
<1> QED BY <1>1, Invariance, PTL

\* A registered client is let in with the password registered and no other, and
\* its name is given to nobody else.
THEOREM RegisteredCanLogIn == AccountsSpec => []LoginsRight
<1>1. Inv => LoginsRight
  BY DEF Inv, ToldSound, Truth, LoginsRight
<1> QED BY <1>1, Invariance, PTL
=============================================================================
