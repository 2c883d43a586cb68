------------------------------ MODULE RingBuffer ------------------------------
(***************************************************************************)
(* RingBuffer of qserialdevice: a list of blocks, of which the first is    *)
(* read from head on and the last is written up to tail.  A ring is a      *)
(* record; an operation is an operator from ring to ring.  Bytes that a    *)
(* block has room for and nobody wrote are Junk.                           *)
(***************************************************************************)
EXTENDS Integers, Sequences, SequencesExt

CONSTANTS
    BlockSize,      \* basicBlockSize
    Junk            \* an uninitialised byte

Larger(a, b) == IF a > b THEN a ELSE b
Smaller(a, b) == IF a < b THEN a ELSE b

\* clear(), which the constructor calls: one block of no size.
EmptyRing == [blocks |-> <<<<>>>>, head |-> 0, tail |-> 0, last |-> 0, size |-> 0]

\* QByteArray::resize() of block i.
Resize(r, i, n) ==
    [r EXCEPT !.blocks[i] =
        [j \in 1..n |-> IF j <= Len(@) THEN @[j] ELSE Junk]]

IsEmpty(r) == r.last = 0 /\ r.tail = 0

NextDataBlockSize(r) ==
    (IF r.last = 0 THEN r.tail ELSE Len(r.blocks[1])) - r.head

\* The live bytes of each block, from start to end as the loops of indexOf()
\* and peek() have them, and all of them.
Parts(r) ==
    [i \in 1..Len(r.blocks) |->
        SubSeq(r.blocks[i],
               1 + (IF i = 1 THEN r.head ELSE 0),
               IF i = r.last + 1 THEN r.tail ELSE Len(r.blocks[i]))]
Contents(r) == FlattenSeq(Parts(r))

\* "always buffers.size() - 1", head and tail inside their blocks.
Fits(r) ==
    /\ r.last = Len(r.blocks) - 1
    /\ r.head \in 0..Len(r.blocks[1])
    /\ r.tail \in 0..Len(r.blocks[r.last + 1])
    /\ r.last = 0 => r.head <= r.tail

Rings ==
    {r \in [blocks : Seq(Seq(Nat)), head : Nat, tail : Nat, last : Nat, size : Nat] : Fits(r)}

\* The loops work on a ring and what is left to do, or what has been read.
Jobs == [ring : Rings, left : Nat]
Readings == [data : Seq(Nat), ring : Rings]
Job(r, n) == [ring |-> r, left |-> n]

\* while (More(s)) s = Turn(s);
While(States, More(_), Turn(_), start) ==
    LET loop[s \in States] == IF More(s) THEN loop[Turn(s)] ELSE s
    IN  loop[start]

\* free() drops whole blocks, but the last one, which it clears.
DropFirst(s) ==
    Job([s.ring EXCEPT !.blocks = Tail(@), !.last = @ - 1, !.head = 0],
        s.left - NextDataBlockSize(s.ring))

FreeLoop(r, n) ==
    LET done == While(Jobs,
                      LAMBDA s : s.left >= NextDataBlockSize(s.ring) /\ Len(s.ring.blocks) # 1,
                      DropFirst, Job(r, n))
        ring == done.ring
    IN  IF done.left >= NextDataBlockSize(ring)
          THEN [Resize(ring, 1, BlockSize) EXCEPT !.head = 0, !.tail = 0, !.last = 0]
        ELSE IF ring.head + done.left = ring.tail /\ ring.last = 0
          THEN [ring EXCEPT !.head = 0, !.tail = 0]
        ELSE [ring EXCEPT !.head = @ + done.left]

Free(r, n) ==
    LET f == FreeLoop([r EXCEPT !.size = Larger(@ - n, 0)], n)
    IN  IF IsEmpty(f) THEN EmptyRing ELSE f

ReserveUnshrunk(r, n) ==
    IF r.size = 0
      THEN [Resize(r, 1, Larger(BlockSize, n)) EXCEPT !.size = n, !.tail = n]
    ELSE IF r.tail + n <= Len(r.blocks[r.last + 1])
      THEN [r EXCEPT !.size = @ + n, !.tail = @ + n]
    ELSE [r EXCEPT !.blocks = Append(@, [j \in 1..Larger(BlockSize, n) |-> Junk]),
                   !.last = @ + 1, !.tail = n, !.size = @ + n]

\* reserve(): room for n bytes, which are the last n before the new tail.
Reserve(r, n) ==
    LET end == r.last + 1
        used == [r EXCEPT !.size = @ + n, !.tail = @ + n]
    IN  IF r.size = 0
          THEN [Resize(r, 1, Larger(BlockSize, n)) EXCEPT !.size = n, !.tail = n]
        ELSE IF r.tail + n <= Len(r.blocks[end]) THEN used
        ELSE IF r.tail < Len(r.blocks[end]) \div 2
          THEN Resize(used, end, r.tail + n)
        ELSE [Resize(r, end, r.tail) EXCEPT
                !.blocks = Append(@, [j \in 1..Larger(BlockSize, n) |-> Junk]),
                !.last = @ + 1, !.tail = n, !.size = @ + n]

\* The caller of reserve(n) fills the first bytes of the room.
Fill(r, n, data) ==
    [r EXCEPT !.blocks[r.last + 1] =
        [j \in DOMAIN @ |-> IF j - (r.tail - n) \in DOMAIN data
                              THEN data[j - (r.tail - n)] ELSE @[j]]]

\* putChar() and what writeData() does: reserve, then copy.
Put(r, data) == Fill(Reserve(r, Len(data)), Len(data), data)

\* chop() drops whole blocks from the end.
DropLast(s) ==
    Job([s.ring EXCEPT !.blocks = Front(@), !.last = @ - 1,
                       !.tail = Len(s.ring.blocks[s.ring.last])],
        s.left - s.ring.tail)

ChopLoop(r, n) ==
    LET done == While(Jobs, LAMBDA s : s.ring.last # 0 /\ s.left > s.ring.tail,
                      DropLast, Job(r, n))
        ring == done.ring
    IN  IF ring.last = 0 /\ ring.tail - done.left <= ring.head
          THEN [ring EXCEPT !.tail = 0, !.head = 0]
          ELSE [ring EXCEPT !.tail = @ - done.left]

Chop(r, n) == ChopLoop([r EXCEPT !.size = Larger(@ - n, 0)], n)

Truncate(r, pos) == IF pos < r.size THEN Chop(r, r.size - pos) ELSE r

(***************************************************************************)
(* Reading.  A result is a record of the data and the ring that is left.   *)
(***************************************************************************)
\* A block, or what is wanted of it.
ReadSome(s, n) ==
    LET k == Smaller(n - Len(s.data), NextDataBlockSize(s.ring))
    IN  [data |-> s.data \o SubSeq(s.ring.blocks[1], s.ring.head + 1, s.ring.head + k),
         ring |-> Free(s.ring, k)]

ReadLoop(r, n) ==
    While(Readings, LAMBDA s : Len(s.data) < n, LAMBDA s : ReadSome(s, n),
          [data |-> <<>>, ring |-> r])

Read(r, max) == ReadLoop(r, Smaller(r.size, max))

GetChar(r) == [data |-> <<r.blocks[1][r.head + 1]>>, ring |-> Free(r, 1)]

Skip(r, n) == Read(r, n).ring

\* read() of an unspecified amount: what is left of the first block.
ReadBlock(r) ==
    IF r.size = 0 THEN [data |-> <<>>, ring |-> r]
    ELSE LET data == SubSeq(r.blocks[1], r.head + 1, r.head + NextDataBlockSize(r))
             left == [r EXCEPT !.blocks = Tail(@), !.head = 0,
                               !.size = @ - Len(data)]
         IN  [data |-> data,
              ring |-> IF r.last # 0 THEN [left EXCEPT !.last = @ - 1]
                       ELSE [left EXCEPT !.blocks = <<<<>>>>, !.tail = 0]]

IndexOf(r, c) ==
    LET at == {i \in 1..Len(Contents(r)) : Contents(r)[i] = c}
    IN  IF at = {} THEN -1 ELSE (CHOOSE i \in at : \A j \in at : i <= j) - 1

CanReadLine(r, newline) == IndexOf(r, newline) # -1

\* readLine(): one byte of the caller's room is kept for the terminator.
ReadLine(r, max, newline) ==
    LET index == IndexOf(r, newline)
    IN  IF index = -1 THEN Read(r, max)
        ELSE ReadLoop(r, Smaller(index + 1, max - 1))

Peek(r, max) == SubSeq(Contents(r), 1, Smaller(r.size, max))

(***************************************************************************)
(* Writing other than at the end of a block.                               *)
(***************************************************************************)
UngetChar(r, c) ==
    LET s == IF r.head > 0 THEN [r EXCEPT !.head = @ - 1]
             ELSE [r EXCEPT !.blocks = <<[j \in 1..BlockSize |-> Junk]>> \o @,
                            !.head = BlockSize - 1, !.last = @ + 1]
    IN  [s EXCEPT !.blocks[1][s.head + 1] = c, !.size = @ + 1]

AppendBlock(r, data) ==
    [Resize(r, r.last + 1, r.tail) EXCEPT
        !.blocks = Append(@, data), !.last = @ + 1,
        !.tail = Len(data), !.size = @ + Len(data)]

-----------------------------------------------------------------------------
\* The ring fits its blocks, and the count of bytes is that of the bytes held,
\* all of which somebody wrote.
WellFormed(r) ==
    /\ Fits(r)
    /\ r.size = Len(Contents(r))
    /\ Junk \notin {Contents(r)[i] : i \in DOMAIN Contents(r)}
    /\ IsEmpty(r) <=> r.size = 0

\* A result of reading is what a queue of the same bytes would give.
ReadsPrefix(result, r) ==
    /\ WellFormed(result.ring)
    /\ result.data \o Contents(result.ring) = Contents(r)

\* Every operation on ring r does to its contents what it does to a queue.
QueueAlgebra(r, bytes, newline) ==
    /\ \A n \in 0..r.size + 1 :
         /\ ReadsPrefix(Read(r, n), r) /\ Len(Read(r, n).data) = Smaller(n, r.size)
         /\ Peek(r, n) = Read(r, n).data
         /\ Contents(Truncate(r, n)) = Peek(r, n)
         /\ n > 0 => ReadsPrefix(ReadLine(r, n, newline), r)
    /\ ReadsPrefix(ReadBlock(r), r)
    /\ r.size > 0 => ReadsPrefix(GetChar(r), r)
    /\ \A c \in bytes :
         /\ WellFormed(UngetChar(r, c))
         /\ Contents(UngetChar(r, c)) = <<c>> \o Contents(r)
         /\ \A n \in 1..3 : LET data == [i \in 1..n |-> c] IN
              /\ WellFormed(Put(r, data))
              /\ Contents(Put(r, data)) = Contents(r) \o data
              /\ Contents(AppendBlock(r, data)) = Contents(r) \o data
              /\ Contents(Put(UngetChar(r, c), data)) = <<c>> \o Contents(r) \o data
=============================================================================
