------------------------------ MODULE DataQueue ------------------------------
(***************************************************************************)
(* The ring buffer DataQueue<T>.  A queue is one record; an operation maps *)
(* the queue before the call to the queue after it.                        *)
(*                                                                         *)
(* A pointer p into the storage is the offset p - mStorBegin, so mStorEnd  *)
(* is cap; the null mEnd of an empty queue is NoEnd.  A cell outside the   *)
(* queue holds Junk: what malloc or an earlier element left there is not   *)
(* to be read.                                                             *)
(***************************************************************************)
EXTENDS Integers, Sequences

CONSTANTS
  Values,   (* The elements. *)
  Junk

ASSUME JunkAssumption == Junk \notin Values

NoEnd == -1
DefaultCapacity == 4

Lesser(a, b) == IF a < b THEN a ELSE b

Pointers(c, b, e, m) == [cap |-> c, begin |-> b, end |-> e, mem |-> m]

(* RecordMem *)
Stored(c, s, m) == Pointers(c, 0, IF s = 0 THEN NoEnd ELSE s, m)

NewQueue == Stored(DefaultCapacity, 0, [i \in 0 .. DefaultCapacity - 1 |-> Junk])

Empty(q) == q.end = NoEnd
Full(q) == q.end = q.begin

Size(q) ==
  IF Empty(q) THEN 0
  ELSE IF q.begin < q.end THEN q.end - q.begin
  ELSE (q.cap - q.begin) + q.end

Available(q) == q.cap - Size(q)

Folded(q) ==
  /\ ~Empty(q)
  /\ IF Full(q) THEN q.begin > 0 ELSE q.end < q.begin

FoldedHead(q) == IF Folded(q) THEN q.cap - q.begin ELSE 0
FoldedTail(q) == IF Folded(q) THEN q.end ELSE 0

FreeTail(q) ==
  IF Empty(q) THEN q.cap
  ELSE IF Full(q) THEN 0
  ELSE IF Folded(q) THEN q.begin - q.end
  ELSE q.cap - q.end

FreeHead(q) == IF Full(q) \/ Folded(q) THEN 0 ELSE q.begin

(* The offset k cells after p, going around the storage. *)
Around(q, p, k) == IF p + k < q.cap THEN p + k ELSE p + k - q.cap

(* `if (p == mStorEnd) p = mStorBegin` *)
Wrap(q, p) == IF p = q.cap THEN 0 ELSE p

(* The elements, front first: what PeekFront shows. *)
Content(q) == [k \in 1 .. Size(q) |-> q.mem[Around(q, q.begin, k - 1)]]

(* The storage after s is copied to it from offset p on, around its end. *)
Written(q, p, s) ==
  [i \in 0 .. q.cap - 1 |->
     LET k == IF i >= p THEN i - p ELSE i + q.cap - p
     IN  IF k < Len(s) THEN s[k + 1] ELSE q.mem[i]]

(* The storage after the n elements from offset p on have left the queue. *)
Vacated(q, p, n) == Written(q, p, [k \in 1 .. n |-> Junk])

(* Mutant: the storage is copied as it lies, folded or not. *)
ReallocUnfolded(q, c) ==
  Stored(c, Size(q), [i \in 0 .. c - 1 |-> IF i < Size(q) THEN q.mem[i] ELSE Junk])

Realloc(q, c) ==
  Stored(c, Size(q), [i \in 0 .. c - 1 |-> IF i < Size(q) THEN Content(q)[i + 1] ELSE Junk])

Rearrange(q) == IF q.begin = 0 THEN q ELSE Realloc(q, q.cap)

AdjustCapacity(q, c) ==
  IF c < Size(q) \/ c = q.cap THEN Rearrange(q) ELSE Realloc(q, c)

(* Both PushFront and PushBack of one element begin so. *)
WithRoom(q) == IF Full(q) THEN AdjustCapacity(q, 2 * q.cap) ELSE q

(* `if (Empty()) mEnd = mBegin` *)
EndAtBegin(q) == IF Empty(q) THEN Pointers(q.cap, q.begin, q.begin, q.mem) ELSE q

(* `if (mBegin == mEnd) ...`: a queue that has become empty. *)
Popped(c, b, e, m) == IF b = e THEN Pointers(c, 0, NoEnd, m) ELSE Pointers(c, b, e, m)

PushFront(q, e) ==
  LET r == EndAtBegin(WithRoom(q))
      b == IF r.begin = 0 THEN r.cap - 1 ELSE r.begin - 1
  IN  Pointers(r.cap, b, r.end, Written(r, b, <<e>>))

PopFront(q) ==
  Popped(q.cap, Wrap(q, q.begin + 1), q.end, Vacated(q, q.begin, 1))

PushBack(q, e) ==
  LET r == EndAtBegin(WithRoom(q))
  IN  Pointers(r.cap, r.begin, Wrap(r, r.end + 1), Written(r, r.end, <<e>>))

PopBack(q) ==
  LET e == IF q.end = 0 THEN q.cap - 1 ELSE q.end - 1
  IN  Popped(q.cap, q.begin, e, Vacated(q, e, 1))

(* PushBack(buf, n): the part up to the end of the storage, then the rest. *)
Grown(q, n) ==
  EndAtBegin(IF Size(q) + n > q.cap THEN AdjustCapacity(q, 2 * (Size(q) + n)) ELSE q)

FirstPart(r, n) == IF r.begin <= r.end THEN Lesser(r.cap - r.end, n) ELSE 0

(* Where the rest begins. *)
SecondPart(r, n) == IF r.begin <= r.end THEN Wrap(r, r.end + FirstPart(r, n)) ELSE r.end

(* Mutant: the assertion wants another free cell. *)
PushBackAssertsEarly(q, n) ==
  LET r == Grown(q, n)
      rest == n - FirstPart(r, n)
  IN  rest > 0 => r.begin - SecondPart(r, n) > rest + 1

PushBackAsserts(q, n) ==
  LET r == Grown(q, n)
      rest == n - FirstPart(r, n)
  IN  rest > 0 => r.begin - SecondPart(r, n) > rest

PushBackN(q, s) ==
  LET r == Grown(q, Len(s))
      rest == Len(s) - FirstPart(r, Len(s))
  IN  Pointers(r.cap, r.begin, SecondPart(r, Len(s)) + rest, Written(r, r.end, s))

(* AcceptBack(n), after the caller has put the elements s behind the end:  *)
(* the same steps without the growth, and an assertion that allows the     *)
(* exact fill.                                                             *)
AcceptBackAsserts(q, n) ==
  LET r == EndAtBegin(q)
      rest == n - FirstPart(r, n)
  IN  n <= Available(q) /\ (rest > 0 => r.begin - SecondPart(r, n) >= rest)

AcceptBack(q, s) ==
  LET r == EndAtBegin(q)
      rest == Len(s) - FirstPart(r, Len(s))
  IN  Pointers(r.cap, r.begin, SecondPart(r, Len(s)) + rest, Written(r, r.end, s))

(* Mutant: `mBegin > mEnd`, which forgets the full queue. *)
DropHeadUnlessFull(q, n) == IF q.begin > q.end THEN Lesser(q.cap - q.begin, n) ELSE 0

(* DropFront(n) and PopFront(buf, n) move mBegin the same way. *)
DropHead(q, n) == IF q.begin >= q.end THEN Lesser(q.cap - q.begin, n) ELSE 0

DropFrontAsserts(q, n) ==
  LET rest == n - DropHead(q, n)
  IN  n <= Size(q) /\ (rest > 0 => q.end - Wrap(q, q.begin + DropHead(q, n)) >= rest)

DropFront(q, n) ==
  LET first == Wrap(q, q.begin + DropHead(q, n))
      rest == n - DropHead(q, n)
  IN  Popped(q.cap, first + rest, q.end, Vacated(q, q.begin, n))

Clear(q) == Pointers(q.cap, 0, NoEnd, Vacated(q, q.begin, Size(q)))

-----------------------------------------------------------------------------
(* What the operations keep. *)

IsQueue(q) ==
  /\ DOMAIN q = {"cap", "begin", "end", "mem"}
  /\ q.cap \in Nat \ {0} /\ q.begin \in Nat /\ q.end \in Nat \cup {NoEnd}
  /\ q.mem \in [0 .. q.cap - 1 -> Values \cup {Junk}]

(* The pointers stand in the storage, mEnd never on its end (RecordMem's   *)
(* comment), and an empty queue begins at its start.                       *)
Placed(q) ==
  /\ q.begin \in 0 .. q.cap - 1
  /\ q.end \in {NoEnd} \cup 0 .. q.cap - 1
  /\ q.end = NoEnd => q.begin = 0

(* The sizes of the parts are those of the whole. *)
PartsAddUp(q) ==
  /\ Size(q) \in 0 .. q.cap
  /\ FreeHead(q) + FreeTail(q) = Available(q)
  /\ Folded(q) => FoldedHead(q) > 0 /\ FoldedHead(q) + FoldedTail(q) = Size(q)
  /\ Full(q) <=> Available(q) = 0

=============================================================================
