------------------------------- MODULE Buffer -------------------------------
(***************************************************************************)
(* The read and write buffer of a connection: a string of bytes and two    *)
(* positions in it, between which is what has not been read yet.  The      *)
(* positions are offsets from 0, as in the code, and data counts from 1:   *)
(* the byte at offset k is data[k + 1].                                    *)
(***************************************************************************)
EXTENDS Integers, Sequences

CONSTANT Bytes

\* What resize fills with.
Nul == "nul"

ASSUME NulAssumption == Nul \in Bytes

Zeros(n) == [i \in 1 .. n |-> Nul]

NewBuffer(initSize) == [data |-> Zeros(initSize), readPos |-> 0, writePos |-> 0]

ReadableBytes(b) == b.writePos - b.readPos
WritableBytes(b) == Len(b.data) - b.writePos

\* What PeekReadable and ReadBegin give access to.
Unread(b) == SubSeq(b.data, b.readPos + 1, b.writePos)

\* What is unread is moved to the front.
MoveToFront(b) ==
  [ data     |-> [i \in DOMAIN b.data |->
                    IF i <= ReadableBytes(b) THEN b.data[b.readPos + i] ELSE b.data[i]],
    readPos  |-> 0,
    writePos |-> ReadableBytes(b) ]

Larger(m, n) == IF m > n THEN m ELSE n

Grow(b, len) ==
  LET newSize == Larger(2 * Len(b.data), b.writePos + len)
  IN  [ data     |-> b.data \o Zeros(newSize - Len(b.data)),
        readPos  |-> b.readPos,
        writePos |-> b.writePos ]

\* Mutant: the free space at the front is counted also when it is not used.
MakeSpaceWithoutMove(b, len) ==
  IF b.readPos + WritableBytes(b) >= len THEN b ELSE Grow(b, len)

MakeSpace(b, len) ==
  IF WritableBytes(b) >= len THEN b
  ELSE IF b.readPos + WritableBytes(b) >= len THEN MoveToFront(b)
  ELSE Grow(b, len)

\* memcpy of s to the write position.
Write(b, s) ==
  [ data     |-> [i \in DOMAIN b.data |->
                    IF i \in b.writePos + 1 .. b.writePos + Len(s)
                    THEN s[i - b.writePos] ELSE b.data[i]],
    readPos  |-> b.readPos,
    writePos |-> b.writePos + Len(s) ]

AppendBytes(b, s) == Write(MakeSpace(b, Len(s)), s)

Clear(b) == [data |-> b.data, readPos |-> 0, writePos |-> 0]

\* Retrieve does the same, and returns what it takes.
Consume(b, len) ==
  LET take == IF len < ReadableBytes(b) THEN len ELSE ReadableBytes(b)
  IN  IF b.readPos + take = b.writePos THEN Clear(b)
      ELSE [data |-> b.data, readPos |-> b.readPos + take, writePos |-> b.writePos]

\* The positions of CR LF in what is unread.
LineEnds(b) ==
  LET u == Unread(b)
  IN  {i \in 1 .. Len(u) - 1 : u[i] = "cr" /\ u[i + 1] = "lf"}

\* Both positions are within the string, and in order.
IsBuffer(b) ==
  /\ b \in [data : Seq(Bytes), readPos : Nat, writePos : Nat]
  /\ b.readPos <= b.writePos
  /\ b.writePos <= Len(b.data)
=============================================================================
