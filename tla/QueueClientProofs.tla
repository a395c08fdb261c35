-------------------------- MODULE QueueClientProofs --------------------------
(***************************************************************************)
(* Proofs about DataQueue and Connection: the pointers of a queue stay in  *)
(* their storage, the queue is a deque, and the bytes of a connection      *)
(* reach the wire in order; for any elements, capacities and batches.      *)
(***************************************************************************)
EXTENDS QueueClient, Connection, FifoLemmas

(* The pointers of q stand in a storage of at least one cell. *)
Good(q0) == q0.cap \in Nat \ {0} /\ Placed(q0)

LEMMA SizeBounds ==
  ASSUME NEW r, Good(r)
  PROVE  /\ Size(r) \in 0 .. r.cap
         /\ Full(r) <=> Size(r) = r.cap
         /\ Empty(r) <=> Size(r) = 0
BY DEF Good, Placed, Size, Full, Empty, NoEnd

LEMMA GoodSizes ==
  ASSUME NEW r, Good(r)
  PROVE  PartsAddUp(r)
BY DEF Good, Placed, PartsAddUp, Size, Full, Empty, NoEnd, FreeHead, FreeTail, Folded,
       FoldedHead, FoldedTail, Available

LEMMA PointersFields ==
  ASSUME NEW c, NEW b, NEW e, NEW m
  PROVE  /\ Pointers(c, b, e, m).cap = c
         /\ Pointers(c, b, e, m).begin = b
         /\ Pointers(c, b, e, m).end = e
BY DEF Pointers

(* New memory with a cell to spare has its end off the end of the storage. *)
LEMMA ReallocGood ==
  ASSUME NEW r, Good(r), NEW c \in Nat, c > Size(r)
  PROVE  /\ Good(Realloc(r, c))
         /\ Realloc(r, c).cap = c /\ Realloc(r, c).begin = 0
         /\ Size(Realloc(r, c)) = Size(r)
<1> DEFINE m == [i \in 0 .. c - 1 |-> IF i < Size(r) THEN Content(r)[i + 1] ELSE Junk]
<1>1. Realloc(r, c) = Pointers(c, 0, IF Size(r) = 0 THEN NoEnd ELSE Size(r), m)
  BY DEF Realloc, Stored
<1> HIDE DEF m
<1>2. /\ Realloc(r, c).cap = c /\ Realloc(r, c).begin = 0
      /\ Realloc(r, c).end = IF Size(r) = 0 THEN NoEnd ELSE Size(r)
  BY <1>1, PointersFields
<1>3. Size(r) \in Nat
  BY SizeBounds
<1> QED
  BY <1>2, <1>3 DEF Good, Placed, Size, Empty, NoEnd

LEMMA RearrangeGood ==
  ASSUME NEW r, Good(r), ~Full(r)
  PROVE  /\ Good(Rearrange(r)) /\ Rearrange(r).cap = r.cap
         /\ Size(Rearrange(r)) = Size(r)
<1>1. Size(r) < r.cap /\ r.cap \in Nat
  BY SizeBounds DEF Good
<1>2. CASE r.begin = 0
  BY <1>2 DEF Rearrange
<1>3. CASE r.begin # 0
  BY <1>1, <1>3, ReallocGood DEF Rearrange
<1> QED
  BY <1>2, <1>3

(* AdjustCapacity to more than the elements, or to too little when there is room. *)
LEMMA AdjustGood ==
  ASSUME NEW r, Good(r), NEW c \in Nat, c > Size(r) \/ (c < Size(r) /\ ~Full(r))
  PROVE  /\ Good(AdjustCapacity(r, c))
         /\ Size(AdjustCapacity(r, c)) = Size(r)
         /\ c > Size(r) => AdjustCapacity(r, c).cap = c
<1>1. Size(r) \in Nat /\ (Full(r) <=> Size(r) = r.cap) /\ r.cap \in Nat
  BY SizeBounds DEF Good
<1>2. CASE c < Size(r) /\ ~Full(r)
  BY <1>1, <1>2, RearrangeGood DEF AdjustCapacity
<1>3. CASE c > Size(r) /\ c = r.cap
  BY <1>1, <1>3, RearrangeGood DEF AdjustCapacity
<1>4. CASE c > Size(r) /\ c # r.cap
  BY <1>1, <1>4, ReallocGood DEF AdjustCapacity
<1> QED
  BY <1>2, <1>3, <1>4

LEMMA WithRoomGood ==
  ASSUME NEW r, Good(r)
  PROVE  /\ Good(WithRoom(r)) /\ ~Full(WithRoom(r))
         /\ Size(WithRoom(r)) = Size(r)
<1>1. /\ Size(r) \in 0 .. r.cap /\ (Full(r) <=> Size(r) = r.cap)
      /\ r.cap \in Nat \ {0}
  BY SizeBounds DEF Good
<1>2. CASE ~Full(r)
  BY <1>2 DEF WithRoom
<1>3. CASE Full(r)
  <2> DEFINE a == AdjustCapacity(r, 2 * r.cap)
  <2>1. 2 * r.cap \in Nat /\ 2 * r.cap > Size(r)
    BY <1>1
  <2>2. Good(a) /\ Size(a) = Size(r) /\ a.cap = 2 * r.cap
    BY <2>1, AdjustGood
  <2>3. WithRoom(r) = a
    BY <1>3 DEF WithRoom
  <2> HIDE DEF a
  <2>4. ~Full(a)
    BY <1>1, <1>3, <2>2, SizeBounds
  <2> QED
    BY <2>2, <2>3, <2>4
<1> QED
  BY <1>2, <1>3

(* EndAtBegin gives an empty queue an end, and leaves any other alone. *)
LEMMA EndAtBeginFacts ==
  ASSUME NEW r, Good(r)
  PROVE  /\ EndAtBegin(r).cap = r.cap /\ EndAtBegin(r).begin = r.begin
         /\ EndAtBegin(r).end = IF Empty(r) THEN 0 ELSE r.end
         /\ r.begin \in 0 .. r.cap - 1
         /\ EndAtBegin(r).end \in 0 .. r.cap - 1
<1>1. CASE Empty(r)
  BY <1>1, PointersFields DEF EndAtBegin, Good, Placed, Empty
<1>2. CASE ~Empty(r)
  BY <1>2 DEF EndAtBegin, Good, Placed, Empty
<1> QED
  BY <1>1, <1>2

LEMMA PushFrontGood ==
  ASSUME NEW r, Good(r), NEW e
  PROVE  Good(PushFront(r, e))
<1> DEFINE w == WithRoom(r)
<1> DEFINE x == EndAtBegin(w)
<1> DEFINE b == IF x.begin = 0 THEN x.cap - 1 ELSE x.begin - 1
<1> DEFINE m == Written(x, b, <<e>>)
<1>1. Good(w) /\ ~Full(w)
  BY WithRoomGood
<1>2. PushFront(r, e) = Pointers(x.cap, b, x.end, m)
  BY DEF PushFront
<1>3. /\ x.cap = w.cap /\ x.begin = w.begin /\ w.begin \in 0 .. w.cap - 1
      /\ x.end \in 0 .. w.cap - 1 /\ w.cap \in Nat \ {0}
  <2> HIDE DEF w
  <2> QED
    BY <1>1, EndAtBeginFacts DEF Good
<1>4. b \in 0 .. x.cap - 1
  BY <1>3
<1> HIDE DEF x, b, m
<1> QED
  BY <1>2, <1>3, <1>4, PointersFields DEF Good, Placed, NoEnd

LEMMA PushBackGood ==
  ASSUME NEW r, Good(r), NEW e
  PROVE  Good(PushBack(r, e)) /\ WithRoom(r).end # WithRoom(r).cap
<1> DEFINE w == WithRoom(r)
<1> DEFINE x == EndAtBegin(w)
<1> DEFINE m == Written(x, x.end, <<e>>)
<1> DEFINE d == Wrap(x, x.end + 1)
<1>1. Good(w) /\ ~Full(w)
  BY WithRoomGood
<1>2. PushBack(r, e) = Pointers(x.cap, x.begin, d, m)
  BY DEF PushBack
<1>3. /\ x.cap = w.cap /\ x.begin = w.begin /\ w.begin \in 0 .. w.cap - 1
      /\ x.end \in 0 .. w.cap - 1 /\ w.cap \in Nat \ {0}
  <2> HIDE DEF w
  <2> QED
    BY <1>1, EndAtBeginFacts DEF Good
<1>4. d \in 0 .. x.cap - 1
  BY <1>3 DEF Wrap
<1>5. w.end # w.cap
  <2> HIDE DEF w
  <2> QED
    BY <1>1 DEF Good, Placed, NoEnd
<1> HIDE DEF x, d, m
<1> QED
  BY <1>2, <1>3, <1>4, <1>5, PointersFields DEF Good, Placed, NoEnd

LEMMA PoppedGood ==
  ASSUME NEW c \in Nat \ {0}, NEW b \in 0 .. c - 1, NEW e \in 0 .. c - 1, NEW m
  PROVE  Good(Popped(c, b, e, m))
<1>1. CASE b = e
  BY <1>1, PointersFields DEF Popped, Good, Placed, NoEnd
<1>2. CASE b # e
  BY <1>2, PointersFields DEF Popped, Good, Placed, NoEnd
<1> QED
  BY <1>1, <1>2

LEMMA PopGood ==
  ASSUME NEW r, Good(r), ~Empty(r)
  PROVE  Good(PopFront(r)) /\ Good(PopBack(r))
<1>1. r.cap \in Nat \ {0} /\ r.begin \in 0 .. r.cap - 1 /\ r.end \in 0 .. r.cap - 1
  BY DEF Good, Placed, Empty
<1>2. Wrap(r, r.begin + 1) \in 0 .. r.cap - 1
  BY <1>1 DEF Wrap
<1>3. (IF r.end = 0 THEN r.cap - 1 ELSE r.end - 1) \in 0 .. r.cap - 1
  BY <1>1
<1> QED
  BY <1>1, <1>2, <1>3, PoppedGood DEF PopFront, PopBack

(* Where the end of a queue with an end stands, from its size. *)
LEMMA EndFromSize ==
  ASSUME NEW r, Good(r), Size(r) < r.cap
  PROVE  /\ EndAtBegin(r).cap = r.cap /\ EndAtBegin(r).begin = r.begin
         /\ r.begin \in 0 .. r.cap - 1
         /\ EndAtBegin(r).end \in 0 .. r.cap - 1
         /\ EndAtBegin(r).end = IF r.begin + Size(r) < r.cap
                                  THEN r.begin + Size(r)
                                  ELSE r.begin + Size(r) - r.cap
<1>1. CASE Empty(r)
  BY <1>1, EndAtBeginFacts DEF Size, Empty, Good, Placed, NoEnd
<1>2. CASE ~Empty(r)
  <2>1. r.begin \in 0 .. r.cap - 1 /\ r.end \in 0 .. r.cap - 1 /\ r.cap \in Nat
    BY <1>2 DEF Good, Placed, Empty
  <2>2. Size(r) = IF r.begin < r.end THEN r.end - r.begin ELSE (r.cap - r.begin) + r.end
    BY <1>2 DEF Size
  <2>3. /\ EndAtBegin(r).cap = r.cap /\ EndAtBegin(r).begin = r.begin
        /\ EndAtBegin(r).end = r.end
    BY <1>2, EndAtBeginFacts
  <2>4. CASE r.begin < r.end
    BY <2>1, <2>2, <2>3, <2>4
  <2>5. CASE ~(r.begin < r.end)
    BY <2>1, <2>2, <2>3, <2>5
  <2> QED
    BY <2>4, <2>5
<1> QED
  BY <1>1, <1>2

(* The two parts of an append that fits: the second one ends at mBegin at  *)
(* the latest, and there only when the call fills the queue.               *)
LEMMA AppendFacts ==
  ASSUME NEW r, r.cap \in Nat \ {0}, r.begin \in 0 .. r.cap - 1, r.end \in 0 .. r.cap - 1,
         NEW s \in Nat, NEW n \in Nat \ {0}, s + n <= r.cap,
         r.end = IF r.begin + s < r.cap THEN r.begin + s ELSE r.begin + s - r.cap
  PROVE  /\ SecondPart(r, n) + (n - FirstPart(r, n)) \in 0 .. r.cap - 1
         /\ n - FirstPart(r, n) > 0 =>
              r.begin - SecondPart(r, n) >= n - FirstPart(r, n)
         /\ n - FirstPart(r, n) > 0
              /\ ~(r.begin - SecondPart(r, n) > n - FirstPart(r, n)) =>
              s + n = r.cap /\ r.begin > 0
         /\ SecondPart(r, n) + (n - FirstPart(r, n)) = Around(r, r.begin, s + n)
<1> USE DEF Around
<1>1. CASE r.begin <= r.end /\ n < r.cap - r.end
  BY <1>1 DEF FirstPart, SecondPart, Lesser, Wrap
<1>2. CASE r.begin <= r.end /\ ~(n < r.cap - r.end)
  <2>1. FirstPart(r, n) = r.cap - r.end /\ SecondPart(r, n) = 0
    BY <1>2 DEF FirstPart, SecondPart, Lesser, Wrap
  <2>2. r.end = r.begin + s
    BY <1>2
  <2> DEFINE rest == n - (r.cap - r.end)
  <2>3. rest \in Nat /\ rest <= r.begin /\ rest = Around(r, r.begin, s + n)
    BY <1>2, <2>2
  <2>4. rest = r.begin => s + n = r.cap
    <3>1. r.begin \in Int /\ r.end \in Int /\ r.cap \in Int /\ rest = n - r.cap + r.end
      OBVIOUS
    <3> QED
      BY <2>2, <3>1
  <2>5. 0 + rest = rest /\ r.begin - 0 = r.begin
    BY <2>3
  <2> HIDE DEF rest
  <2>6. rest \in 0 .. r.cap - 1
    BY <2>3
  <2>7. n - FirstPart(r, n) = rest
    BY <2>1 DEF rest
  <2> QED
    BY <2>1, <2>3, <2>4, <2>5, <2>6, <2>7
<1>3. CASE ~(r.begin <= r.end)
  <2>1. FirstPart(r, n) = 0 /\ SecondPart(r, n) = r.end
    BY <1>3 DEF FirstPart, SecondPart
  <2>2. r.end = r.begin + s - r.cap
    BY <1>3
  <2> QED
    BY <1>3, <2>1, <2>2
<1> QED
  BY <1>1, <1>2, <1>3

LEMMA GrownFacts ==
  ASSUME NEW r, Good(r), NEW n \in Nat \ {0}
  PROVE  LET g == Grown(r, n) IN
         /\ g.cap \in Nat \ {0} /\ g.begin \in 0 .. g.cap - 1 /\ g.end \in 0 .. g.cap - 1
         /\ Size(r) \in Nat /\ Size(r) + n <= g.cap
         /\ g.end = IF g.begin + Size(r) < g.cap
                      THEN g.begin + Size(r) ELSE g.begin + Size(r) - g.cap
         /\ Size(r) + n = g.cap => g.cap = r.cap /\ g.begin = r.begin
<1> DEFINE s == Size(r)
<1> DEFINE a == IF s + n > r.cap THEN AdjustCapacity(r, 2 * (s + n)) ELSE r
<1>1. s \in Nat /\ r.cap \in Nat \ {0}
  BY SizeBounds DEF Good
<1>2. /\ Good(a) /\ Size(a) = s /\ s + n <= a.cap
      /\ s + n = a.cap => a = r
  <2>1. CASE s + n > r.cap
    <3>1. 2 * (s + n) \in Nat /\ 2 * (s + n) > s
      BY <1>1
    <3>2. /\ Good(AdjustCapacity(r, 2 * (s + n)))
          /\ Size(AdjustCapacity(r, 2 * (s + n))) = s
          /\ AdjustCapacity(r, 2 * (s + n)).cap = 2 * (s + n)
      BY <3>1, AdjustGood
    <3> HIDE DEF s
    <3> QED
      BY <1>1, <2>1, <3>2
  <2>2. CASE ~(s + n > r.cap)
    BY <1>1, <2>2
  <2> QED
    BY <2>1, <2>2
<1>3. Grown(r, n) = EndAtBegin(a)
  BY DEF Grown
<1> HIDE DEF a
<1>4. a.cap \in Nat \ {0} /\ Size(a) < a.cap
  BY <1>1, <1>2 DEF Good
<1> QED
  BY <1>1, <1>2, <1>3, <1>4, EndFromSize

LEMMA PushBackNGood ==
  ASSUME NEW r, Good(r), NEW s, Len(s) \in Nat \ {0}
  PROVE  Good(PushBackN(r, s))
<1> DEFINE g == Grown(r, Len(s))
<1> DEFINE e == SecondPart(g, Len(s)) + (Len(s) - FirstPart(g, Len(s)))
<1> DEFINE m == Written(g, g.end, s)
<1>1. PushBackN(r, s) = Pointers(g.cap, g.begin, e, m)
  BY DEF PushBackN
<1>2. /\ g.cap \in Nat \ {0} /\ g.begin \in 0 .. g.cap - 1 /\ g.end \in 0 .. g.cap - 1
      /\ Size(r) \in Nat /\ Size(r) + Len(s) <= g.cap
      /\ g.end = IF g.begin + Size(r) < g.cap
                   THEN g.begin + Size(r) ELSE g.begin + Size(r) - g.cap
  BY GrownFacts
<1> HIDE DEF g
<1>3. e \in 0 .. g.cap - 1
  BY <1>2, AppendFacts
<1> HIDE DEF e, m
<1>4. g.cap \in Nat \ {0} /\ g.begin \in 0 .. g.cap - 1
  BY <1>2
<1>5. Good(Pointers(g.cap, g.begin, e, m))
  BY <1>3, <1>4, PointersFields DEF Good, Placed, NoEnd
<1> QED
  BY <1>1, <1>5

LEMMA PushBackAssertFacts ==
  ASSUME NEW r, Good(r), NEW n \in Nat \ {0}, ~PushBackAsserts(r, n)
  PROVE  Available(r) = n /\ r.begin > 0
<1> DEFINE g == Grown(r, n)
<1>1. /\ g.cap \in Nat \ {0} /\ g.begin \in 0 .. g.cap - 1 /\ g.end \in 0 .. g.cap - 1
      /\ Size(r) \in Nat /\ Size(r) + n <= g.cap
      /\ g.end = IF g.begin + Size(r) < g.cap
                   THEN g.begin + Size(r) ELSE g.begin + Size(r) - g.cap
      /\ Size(r) + n = g.cap => g.cap = r.cap /\ g.begin = r.begin
  BY GrownFacts
<1>2. /\ n - FirstPart(g, n) > 0
      /\ ~(g.begin - SecondPart(g, n) > n - FirstPart(g, n))
  BY DEF PushBackAsserts
<1> HIDE DEF g
<1>3. Size(r) + n = g.cap /\ g.begin > 0
  BY <1>1, <1>2, AppendFacts
<1> QED
  BY <1>1, <1>3 DEF Available

(* An append that takes every free cell of a queue that does not begin at  *)
(* its storage ends where the queue begins.                                *)
LEMMA ExactFillFails ==
  ASSUME NEW r, Good(r), NEW n \in Nat \ {0}, n = Available(r), r.begin > 0
  PROVE  ~PushBackAsserts(r, n)
<1>1. /\ Size(r) \in Nat /\ r.cap \in Nat \ {0} /\ Size(r) + n = r.cap /\ Size(r) < r.cap
      /\ r.begin \in 0 .. r.cap - 1
  BY SizeBounds DEF Good, Placed, Available
<1>2. Grown(r, n) = EndAtBegin(r)
  BY <1>1 DEF Grown
<1>3. PICK g : g = EndAtBegin(r)
  OBVIOUS
<1>4. /\ g.cap = r.cap /\ g.begin = r.begin /\ g.end \in 0 .. r.cap - 1
      /\ g.end = IF r.begin + Size(r) < r.cap THEN r.begin + Size(r) ELSE r.begin + Size(r) - r.cap
  BY <1>1, <1>3, EndFromSize
<1>5. CASE g.begin <= g.end
  <2>1. g.end = r.begin + Size(r) /\ ~(n < r.cap - g.end)
    BY <1>1, <1>4, <1>5
  <2>2. FirstPart(g, n) = r.cap - g.end /\ SecondPart(g, n) = 0
    BY <1>1, <1>4, <1>5, <2>1 DEF FirstPart, SecondPart, Lesser, Wrap
  <2>3. n - FirstPart(g, n) = r.begin
    BY <1>1, <2>1, <2>2
  <2> QED
    BY <1>1, <1>2, <1>3, <1>4, <2>2, <2>3 DEF PushBackAsserts
<1>6. CASE ~(g.begin <= g.end)
  <2>1. FirstPart(g, n) = 0 /\ SecondPart(g, n) = g.end
    BY <1>6 DEF FirstPart, SecondPart
  <2>2. n - FirstPart(g, n) = n /\ r.begin - g.end = n
    BY <1>1, <1>4, <1>6, <2>1
  <2> QED
    BY <1>2, <1>3, <1>4, <2>1, <2>2 DEF PushBackAsserts
<1> QED
  BY <1>5, <1>6

LEMMA AcceptBackGood ==
  ASSUME NEW r, Good(r), NEW s, Len(s) \in Nat \ {0}, Len(s) <= Available(r)
  PROVE  Good(AcceptBack(r, s)) /\ AcceptBackAsserts(r, Len(s))
<1> DEFINE n == Len(s)
<1> DEFINE g == EndAtBegin(r)
<1> DEFINE e == SecondPart(g, n) + (n - FirstPart(g, n))
<1> DEFINE m == Written(g, g.end, s)
<1>1. AcceptBack(r, s) = Pointers(g.cap, g.begin, e, m)
  BY DEF AcceptBack
<1>2. (n - FirstPart(g, n) > 0 => g.begin - SecondPart(g, n) >= n - FirstPart(g, n))
        => AcceptBackAsserts(r, n)
  BY DEF AcceptBackAsserts
<1>3. Size(r) \in Nat /\ r.cap \in Nat \ {0} /\ Size(r) + n <= r.cap
  BY SizeBounds DEF Good, Available
<1>4. /\ g.cap = r.cap /\ g.begin \in 0 .. g.cap - 1 /\ g.end \in 0 .. g.cap - 1
      /\ g.end = IF g.begin + Size(r) < g.cap
                   THEN g.begin + Size(r) ELSE g.begin + Size(r) - g.cap
  BY <1>3, EndFromSize
<1> HIDE DEF g, n
<1>5. /\ e \in 0 .. g.cap - 1
      /\ n - FirstPart(g, n) > 0 => g.begin - SecondPart(g, n) >= n - FirstPart(g, n)
  <2>1. n \in Nat \ {0}
    BY DEF n
  <2> QED
    BY <1>3, <1>4, <2>1, AppendFacts
<1>6. AcceptBackAsserts(r, n)
  BY <1>2, <1>5
<1> HIDE DEF e, m
<1>7. Good(Pointers(g.cap, g.begin, e, m))
  BY <1>3, <1>4, <1>5, PointersFields DEF Good, Placed, NoEnd
<1> QED
  BY <1>1, <1>6, <1>7 DEF n

LEMMA DropFrontGood ==
  ASSUME NEW r, Good(r), NEW n \in 1 .. Size(r)
  PROVE  Good(DropFront(r, n)) /\ DropFrontAsserts(r, n)
<1> DEFINE first == Wrap(r, r.begin + DropHead(r, n))
<1> DEFINE rest == n - DropHead(r, n)
<1> DEFINE m == Vacated(r, r.begin, n)
<1>1. DropFront(r, n) = Popped(r.cap, first + rest, r.end, m)
  BY DEF DropFront
<1>2. /\ r.cap \in Nat \ {0} /\ r.begin \in 0 .. r.cap - 1 /\ r.end \in 0 .. r.cap - 1
      /\ Size(r) = IF r.begin < r.end THEN r.end - r.begin ELSE (r.cap - r.begin) + r.end
      /\ n \in Nat \ {0} /\ n <= Size(r)
  BY SizeBounds DEF Good, Placed, Size, Empty
<1>3. first + rest \in 0 .. r.cap - 1 /\ (rest > 0 => r.end - first >= rest)
  <2>1. CASE r.begin < r.end
    <3>1. DropHead(r, n) = 0 /\ first = r.begin /\ rest = n
      BY <1>2, <2>1 DEF DropHead, Wrap
    <3> QED
      BY <1>2, <2>1, <3>1
  <2>2. CASE ~(r.begin < r.end) /\ n < r.cap - r.begin
    <3>1. DropHead(r, n) = n /\ first = r.begin + n /\ rest = 0
      BY <1>2, <2>2 DEF DropHead, Wrap, Lesser
    <3> QED
      BY <1>2, <2>2, <3>1
  <2>3. CASE ~(r.begin < r.end) /\ ~(n < r.cap - r.begin)
    <3>1. /\ DropHead(r, n) = r.cap - r.begin
          /\ first = 0 /\ rest = n - (r.cap - r.begin)
      BY <1>2, <2>3 DEF DropHead, Wrap, Lesser
    <3> QED
      BY <1>2, <2>3, <3>1
  <2> QED
    BY <2>1, <2>2, <2>3
<1>4. DropFrontAsserts(r, n)
  BY <1>2, <1>3 DEF DropFrontAsserts
<1> HIDE DEF first, rest, m
<1>5. Good(DropFront(r, n))
  BY <1>1, <1>2, <1>3, PoppedGood
<1> QED
  BY <1>4, <1>5

LEMMA ClearGood ==
  ASSUME NEW r, Good(r)
  PROVE  Good(Clear(r))
BY PointersFields DEF Clear, Good, Placed, NoEnd

-----------------------------------------------------------------------------
(* The elements. *)

(* What a cell may hold, and a queue whose pointers stand in its storage.  *)
Cells == Values \cup {Junk}

Ring(r) == IsQueue(r) /\ Placed(r)

LEMMA RingFacts ==
  ASSUME NEW r, Ring(r)
  PROVE  /\ Good(r) /\ r.cap \in Nat \ {0} /\ r.begin \in 0 .. r.cap - 1
         /\ r.mem \in [0 .. r.cap - 1 -> Cells]
         /\ Size(r) \in 0 .. r.cap
<1>1. Good(r) /\ r.cap \in Nat \ {0} /\ r.begin \in 0 .. r.cap - 1
  BY DEF Ring, IsQueue, Good, Placed
<1> QED
  BY <1>1, SizeBounds DEF Ring, IsQueue, Cells

LEMMA PointersRing ==
  ASSUME NEW c, NEW b, NEW e, NEW m, Good(Pointers(c, b, e, m)),
         m \in [0 .. c - 1 -> Cells]
  PROVE  Ring(Pointers(c, b, e, m))
<1> DEFINE r == Pointers(c, b, e, m)
<1>1. r = [cap |-> c, begin |-> b, end |-> e, mem |-> m]
  BY DEF Pointers
<1>2. DOMAIN r = {"cap", "begin", "end", "mem"} /\ r.cap = c /\ r.mem = m
  BY <1>1
<1> HIDE DEF r
<1>3. r.cap \in Nat \ {0} /\ Placed(r)
  BY DEF Good, r
<1>4. r.begin \in Nat /\ r.end \in Nat \cup {NoEnd}
  BY <1>3 DEF Placed, NoEnd
<1> QED
  BY <1>2, <1>3, <1>4 DEF Ring, IsQueue, Cells, r

(* Going around the storage: once, in two steps, all around, and to cells  *)
(* that differ.                                                            *)
LEMMA AroundIn ==
  ASSUME NEW r, r.cap \in Nat \ {0}, NEW p \in 0 .. r.cap - 1, NEW k \in 0 .. r.cap
  PROVE  Around(r, p, k) \in 0 .. r.cap - 1 /\ Around(r, p, 0) = p
BY DEF Around

LEMMA AroundTwice ==
  ASSUME NEW r, r.cap \in Nat \ {0}, NEW p \in 0 .. r.cap - 1, NEW k \in 0 .. r.cap,
         NEW j \in 0 .. r.cap - k
  PROVE  Around(r, Around(r, p, k), j) = Around(r, p, k + j)
<1>1. CASE p + k < r.cap
  <2>1. Around(r, p, k) = p + k /\ (p + k) + j = p + (k + j)
    BY <1>1 DEF Around
  <2> QED
    BY <2>1 DEF Around
<1>2. CASE ~(p + k < r.cap)
  <2>1. /\ Around(r, p, k) = p + k - r.cap /\ (p + k - r.cap) + j = p + (k + j) - r.cap
        /\ p + k - r.cap + j < r.cap /\ ~(p + (k + j) < r.cap)
    BY <1>2 DEF Around
  <2> QED
    BY <2>1 DEF Around
<1> QED
  BY <1>1, <1>2

LEMMA AroundBack ==
  ASSUME NEW r, r.cap \in Nat \ {0}, NEW p \in 0 .. r.cap - 1, NEW k \in 0 .. r.cap,
         NEW j \in 0 .. k - 1
  PROVE  Around(r, Around(r, p, k), r.cap - k + j) = Around(r, p, j)
<1>1. CASE p + k < r.cap
  <2>1. Around(r, p, k) = p + k /\ (p + k) + (r.cap - k + j) = p + j + r.cap
    BY <1>1 DEF Around
  <2> QED
    BY <1>1, <2>1 DEF Around
<1>2. CASE ~(p + k < r.cap)
  <2>1. Around(r, p, k) = p + k - r.cap /\ (p + k - r.cap) + (r.cap - k + j) = p + j
    BY <1>2 DEF Around
  <2> QED
    BY <2>1 DEF Around
<1> QED
  BY <1>1, <1>2

LEMMA AroundApart ==
  ASSUME NEW r, r.cap \in Nat \ {0}, NEW p \in 0 .. r.cap - 1, NEW k \in 0 .. r.cap - 1,
         NEW j \in 0 .. r.cap - 1, k # j
  PROVE  Around(r, p, k) # Around(r, p, j)
BY DEF Around

(* The elements are the cells from mBegin on. *)
LEMMA ContentFacts ==
  ASSUME NEW r, Ring(r)
  PROVE  /\ Content(r) \in Seq(Cells) /\ Len(Content(r)) = Size(r)
         /\ \A k \in 1 .. Size(r) : Content(r)[k] = r.mem[Around(r, r.begin, k - 1)]
<1>1. /\ r.cap \in Nat \ {0} /\ r.begin \in 0 .. r.cap - 1 /\ Size(r) \in 0 .. r.cap
      /\ r.mem \in [0 .. r.cap - 1 -> Cells]
  BY RingFacts
<1>2. ASSUME NEW k \in 1 .. Size(r) PROVE r.mem[Around(r, r.begin, k - 1)] \in Cells
  <2>1. k - 1 \in 0 .. r.cap
    BY <1>1
  <2>2. Around(r, r.begin, k - 1) \in 0 .. r.cap - 1
    BY <1>1, <2>1, AroundIn
  <2> QED
    BY <1>1, <2>2
<1>3. Content(r) = [k \in 1 .. Size(r) |-> r.mem[Around(r, r.begin, k - 1)]]
  BY DEF Content
<1>4. Content(r) \in [1 .. Size(r) -> Cells]
  BY <1>2, <1>3
<1>5. Size(r) \in Nat
  BY <1>1
<1>6. Content(r) \in Seq(Cells) /\ Len(Content(r)) = Size(r)
  <2> HIDE DEF Cells
  <2> QED
    BY <1>4, <1>5
<1> QED
  BY <1>3, <1>6

LEMMA SameContent ==
  ASSUME NEW r, Ring(r), NEW c \in Seq(Cells), Len(c) = Size(r),
         \A k \in 1 .. Size(r) : c[k] = r.mem[Around(r, r.begin, k - 1)]
  PROVE  Content(r) = c
<1>1. /\ Content(r) \in Seq(Cells) /\ Len(Content(r)) = Size(r)
      /\ \A k \in 1 .. Size(r) : Content(r)[k] = r.mem[Around(r, r.begin, k - 1)]
  BY ContentFacts
<1>2. Len(Content(r)) = Len(c) /\ \A k \in 1 .. Len(Content(r)) : Content(r)[k] = c[k]
  BY <1>1
<1> QED
  BY <1>1, <1>2, SeqEqual

(* A sequence that fits in the storage is written to the cells from p on,  *)
(* and to no other.                                                        *)
LEMMA WrittenFacts ==
  ASSUME NEW r, r.cap \in Nat \ {0}, r.mem \in [0 .. r.cap - 1 -> Cells],
         NEW p \in 0 .. r.cap - 1, NEW s \in Seq(Cells), Len(s) <= r.cap
  PROVE  /\ Written(r, p, s) \in [0 .. r.cap - 1 -> Cells]
         /\ \A j \in 0 .. r.cap - 1 :
              Written(r, p, s)[Around(r, p, j)] =
                IF j < Len(s) THEN s[j + 1] ELSE r.mem[Around(r, p, j)]
<1> DEFINE K(i) == IF i >= p THEN i - p ELSE i + r.cap - p
           m == Written(r, p, s)
<1>1. m = [i \in 0 .. r.cap - 1 |-> IF K(i) < Len(s) THEN s[K(i) + 1] ELSE r.mem[i]]
  BY DEF Written
<1>2. Len(s) \in Nat /\ \A k \in 1 .. Len(s) : s[k] \in Cells
  OBVIOUS
<1>3. \A i \in 0 .. r.cap - 1 : K(i) \in 0 .. r.cap - 1
  OBVIOUS
<1> HIDE DEF Cells
<1>4. ASSUME NEW i \in 0 .. r.cap - 1
      PROVE  (IF K(i) < Len(s) THEN s[K(i) + 1] ELSE r.mem[i]) \in Cells
  <2>1. CASE K(i) < Len(s)
    <3>1. K(i) \in 0 .. r.cap - 1
      BY <1>3
    <3> DEFINE k == K(i)
    <3> HIDE DEF K
    <3>2. k + 1 \in 1 .. Len(s)
      BY <1>2, <2>1, <3>1
    <3> QED
      BY <1>2, <2>1, <3>2
  <2>2. CASE ~(K(i) < Len(s))
    BY <2>2
  <2> QED
    BY <2>1, <2>2
<1>5. m \in [0 .. r.cap - 1 -> Cells]
  BY <1>1, <1>4
<1>6. ASSUME NEW j \in 0 .. r.cap - 1
      PROVE  m[Around(r, p, j)] = IF j < Len(s) THEN s[j + 1] ELSE r.mem[Around(r, p, j)]
  <2> DEFINE i == Around(r, p, j)
  <2>1. i \in 0 .. r.cap - 1 /\ K(i) = j
    BY DEF Around
  <2>2. m[i] = IF K(i) < Len(s) THEN s[K(i) + 1] ELSE r.mem[i]
    BY <1>1, <2>1
  <2> QED
    BY <2>1, <2>2
<1> QED
  BY <1>5, <1>6

(* EndAtBegin has the cells and the elements' places of the queue.         *)
LEMMA EndAtBeginRing ==
  ASSUME NEW r, Ring(r), Size(r) < r.cap
  PROVE  /\ EndAtBegin(r).cap = r.cap /\ EndAtBegin(r).begin = r.begin
         /\ EndAtBegin(r).mem = r.mem
         /\ EndAtBegin(r).end = Around(r, r.begin, Size(r))
<1>1. Good(r)
  BY RingFacts
<1>2. /\ EndAtBegin(r).cap = r.cap /\ EndAtBegin(r).begin = r.begin
      /\ EndAtBegin(r).end = Around(r, r.begin, Size(r))
  BY <1>1, EndFromSize DEF Around
<1>3. EndAtBegin(r).mem = r.mem
  BY DEF EndAtBegin, Pointers
<1> QED
  BY <1>2, <1>3

(* The elements s are written behind those of r, and the end moves past    *)
(* them.                                                                   *)
LEMMA AppendContent ==
  ASSUME NEW r, Ring(r), NEW s \in Seq(Cells), Len(s) > 0, Size(r) + Len(s) <= r.cap,
         NEW g, g.cap = r.cap, g.mem = r.mem
  PROVE  LET x == Pointers(r.cap, r.begin, Around(r, r.begin, Size(r) + Len(s)),
                           Written(g, Around(r, r.begin, Size(r)), s))
         IN  Ring(x) /\ Content(x) = Content(r) \o s
<1> DEFINE e == Around(r, r.begin, Size(r) + Len(s))
           p == Around(r, r.begin, Size(r))
           m == Written(g, p, s)
           x == Pointers(r.cap, r.begin, e, m)
<1>1. /\ r.cap \in Nat \ {0} /\ r.begin \in 0 .. r.cap - 1 /\ Size(r) \in 0 .. r.cap - 1
      /\ r.mem \in [0 .. r.cap - 1 -> Cells] /\ Len(s) \in Nat \ {0}
      /\ Size(r) + Len(s) \in 0 .. r.cap
  BY RingFacts
<1>2. e \in 0 .. r.cap - 1 /\ p \in 0 .. r.cap - 1
  <2>1. Size(r) \in 0 .. r.cap
    BY <1>1
  <2> QED
    BY <1>1, <2>1, AroundIn
<1>3. /\ m \in [0 .. r.cap - 1 -> Cells]
      /\ \A j \in 0 .. r.cap - 1 :
           m[Around(g, p, j)] = IF j < Len(s) THEN s[j + 1] ELSE g.mem[Around(g, p, j)]
  <2>1. g.cap \in Nat \ {0} /\ g.mem \in [0 .. g.cap - 1 -> Cells] /\ p \in 0 .. g.cap - 1
        /\ Len(s) <= g.cap
    BY <1>1, <1>2
  <2> HIDE DEF p
  <2> QED
    BY <2>1, WrittenFacts
<1> HIDE DEF m
<1>4. x.cap = r.cap /\ x.begin = r.begin /\ x.end = e /\ x.mem = m
  BY DEF Pointers
<1>5. Good(x)
  BY <1>1, <1>2, <1>4 DEF Good, Placed, NoEnd
<1>6. Ring(x)
  BY <1>3, <1>5, PointersRing
<1>7. Size(x) = Size(r) + Len(s)
  <2>1. x.end # NoEnd
    BY <1>2, <1>4 DEF NoEnd
  <2>2. Size(x) = IF r.begin < e THEN e - r.begin ELSE (r.cap - r.begin) + e
    BY <1>4, <2>1 DEF Size, Empty
  <2> DEFINE n == Size(r) + Len(s)
  <2>3. n \in 1 .. r.cap
    BY <1>1
  <2>4. e = IF r.begin + n < r.cap THEN r.begin + n ELSE r.begin + n - r.cap
    BY DEF Around
  <2> DEFINE C == r.cap
             B == r.begin
             X == Size(x)
  <2>5. /\ C \in Nat /\ B \in 0 .. C - 1 /\ n \in 1 .. C
        /\ e = (IF B + n < C THEN B + n ELSE B + n - C)
        /\ X = (IF B < e THEN e - B ELSE (C - B) + e)
    BY <1>1, <2>2, <2>3, <2>4
  <2> HIDE DEF n, e, C, B, X
  <2>6. X = n
    <3>1. CASE B + n < C
      BY <2>5, <3>1
    <3>2. CASE ~(B + n < C)
      BY <2>5, <3>2
    <3> QED
      BY <3>1, <3>2
  <2> QED
    BY <2>6 DEF n, X
<1> DEFINE c == Content(r) \o s
<1>8. Content(r) \in Seq(Cells) /\ Len(Content(r)) = Size(r)
  BY ContentFacts
<1>9. /\ c \in Seq(Cells) /\ Len(c) = Size(r) + Len(s)
      /\ \A k \in 1 .. Size(r) + Len(s) :
           c[k] = IF k <= Size(r) THEN Content(r)[k] ELSE s[k - Size(r)]
  <2> DEFINE a == Content(r)
  <2> HIDE DEF a
  <2>1. a \in Seq(Cells) /\ Len(a) = Size(r)
    BY <1>8 DEF a
  <2>2. /\ a \o s \in Seq(Cells) /\ Len(a \o s) = Len(a) + Len(s)
        /\ \A k \in 1 .. Len(a) + Len(s) :
             (a \o s)[k] = IF k <= Len(a) THEN a[k] ELSE s[k - Len(a)]
    BY <2>1, ConcatProperties
  <2> QED
    BY <2>1, <2>2 DEF a
<1> HIDE DEF c
<1>10. \A k \in 0 .. r.cap : Around(x, r.begin, k) = Around(r, r.begin, k)
                             /\ Around(g, r.begin, k) = Around(r, r.begin, k)
  BY <1>4 DEF Around
<1>11. ASSUME NEW k \in 1 .. Size(r) + Len(s)
       PROVE  c[k] = m[Around(r, r.begin, k - 1)]
  <2>1. CASE k <= Size(r)
    <3> DEFINE j == r.cap - Size(r) + (k - 1)
               i == Around(r, r.begin, k - 1)
    <3>1. j \in 0 .. r.cap - 1 /\ Len(s) <= j
      BY <1>1, <2>1
    <3>2. i = Around(g, p, j)
      <4>1. k - 1 \in 0 .. Size(r) - 1 /\ Size(r) \in 0 .. r.cap
        BY <1>1, <2>1
      <4>2. Around(r, p, j) = i
        BY <1>1, <4>1, AroundBack
      <4> QED
        BY <4>2 DEF Around
    <3> HIDE DEF j, i
    <3>3. m[i] = r.mem[i]
      BY <1>1, <1>3, <3>1, <3>2
    <3>4. Content(r)[k] = r.mem[i]
      BY <1>1, <2>1, ContentFacts DEF i
    <3> QED
      BY <1>9, <2>1, <3>3, <3>4 DEF i
  <2>2. CASE ~(k <= Size(r))
    <3> DEFINE j == k - 1 - Size(r)
    <3>1. j \in 0 .. r.cap - 1 /\ j < Len(s) /\ j + 1 = k - Size(r) /\ Size(r) + j = k - 1
          /\ j \in 0 .. r.cap - Size(r)
      BY <1>1, <2>2
    <3>2. Around(r, p, j) = Around(r, r.begin, k - 1)
      <4>1. Size(r) \in 0 .. r.cap
        BY <1>1
      <4> HIDE DEF j
      <4>2. Around(r, p, j) = Around(r, r.begin, Size(r) + j)
        BY <1>1, <3>1, <4>1, AroundTwice
      <4> QED
        BY <3>1, <4>2
    <3>3. Around(g, p, j) = Around(r, p, j)
      BY DEF Around
    <3> HIDE DEF j
    <3>4. m[Around(g, p, j)] = s[j + 1]
      BY <1>3, <3>1
    <3> QED
      BY <1>9, <2>2, <3>1, <3>2, <3>3, <3>4
  <2> QED
    BY <2>1, <2>2
<1>12. \A k \in 1 .. Size(x) : c[k] = x.mem[Around(x, x.begin, k - 1)]
  <2> SUFFICES ASSUME NEW k \in 1 .. Size(x) PROVE c[k] = x.mem[Around(x, x.begin, k - 1)]
    OBVIOUS
  <2>1. k \in 1 .. Size(r) + Len(s) /\ k - 1 \in 0 .. r.cap
    BY <1>1, <1>7
  <2> QED
    BY <1>4, <1>10, <1>11, <2>1
<1> HIDE DEF x
<1>13. Content(x) = c
  BY <1>6, <1>7, <1>9, <1>12, SameContent
<1> QED
  BY <1>6, <1>13 DEF x, c, m

(* The first n elements leave, and the beginning moves past them.          *)
LEMMA DropContent ==
  ASSUME NEW r, Ring(r), NEW n \in 1 .. Size(r)
  PROVE  LET x == Popped(r.cap, Around(r, r.begin, n), r.end, Vacated(r, r.begin, n))
         IN  Ring(x) /\ Content(x) = SubSeq(Content(r), n + 1, Size(r))
<1> DEFINE b == Around(r, r.begin, n)
           m == Vacated(r, r.begin, n)
           x == Popped(r.cap, b, r.end, m)
           c == SubSeq(Content(r), n + 1, Size(r))
<1>1. /\ r.cap \in Nat \ {0} /\ r.begin \in 0 .. r.cap - 1 /\ Size(r) \in 1 .. r.cap
      /\ r.mem \in [0 .. r.cap - 1 -> Cells] /\ Good(r) /\ n \in 1 .. r.cap
  BY RingFacts
<1>2. r.end \in 0 .. r.cap - 1 /\ r.end = Around(r, r.begin, Size(r))
  <2>1. ~Empty(r)
    BY <1>1, SizeBounds
  <2>2. r.end \in 0 .. r.cap - 1
    BY <1>1, <2>1 DEF Good, Placed, Empty
  <2>3. Size(r) = IF r.begin < r.end THEN r.end - r.begin ELSE (r.cap - r.begin) + r.end
    BY <2>1 DEF Size
  <2>4. CASE r.begin < r.end
    BY <1>1, <2>2, <2>3, <2>4 DEF Around
  <2>5. CASE ~(r.begin < r.end)
    BY <1>1, <2>2, <2>3, <2>5 DEF Around
  <2> QED
    BY <2>4, <2>5
<1>3. b \in 0 .. r.cap - 1
  <2>1. n \in 0 .. r.cap
    BY <1>1
  <2> QED
    BY <1>1, <2>1, AroundIn
<1>4. /\ m \in [0 .. r.cap - 1 -> Cells]
      /\ \A j \in 0 .. r.cap - 1 : n <= j =>
           m[Around(r, r.begin, j)] = r.mem[Around(r, r.begin, j)]
  <2> DEFINE s == [k \in 1 .. n |-> Junk]
  <2>1. s \in Seq(Cells) /\ Len(s) = n
    BY <1>1 DEF Cells
  <2> HIDE DEF s
  <2>2. m = Written(r, r.begin, s)
    BY DEF Vacated, s
  <2> QED
    BY <1>1, <2>1, <2>2, WrittenFacts
<1> HIDE DEF m
<1>5. x = IF b = r.end THEN Pointers(r.cap, 0, NoEnd, m) ELSE Pointers(r.cap, b, r.end, m)
  BY DEF Popped
<1>6. Good(x)
  BY <1>1, <1>2, <1>3, PoppedGood
<1>7. Ring(x)
  BY <1>4, <1>5, <1>6, PointersRing
<1>8. /\ Content(r) \in Seq(Cells) /\ Len(Content(r)) = Size(r)
      /\ \A k \in 1 .. Size(r) : Content(r)[k] = r.mem[Around(r, r.begin, k - 1)]
  BY ContentFacts
<1>9. /\ c \in Seq(Cells) /\ Len(c) = Size(r) - n
      /\ \A i \in 1 .. Size(r) - n : c[i] = Content(r)[n + i]
  <2>1. n \in 0 .. Len(Content(r))
    BY <1>1, <1>8
  <2> QED
    BY <1>8, <2>1, Parts
<1> HIDE DEF c, x
<1>10. CASE n = Size(r)
  <2>1. x = Pointers(r.cap, 0, NoEnd, m)
    BY <1>2, <1>5, <1>10
  <2>2. Size(x) = 0
    BY <2>1, PointersFields DEF Size, Empty
  <2>3. Len(c) = Size(x) /\ \A k \in 1 .. Size(x) : c[k] = x.mem[Around(x, x.begin, k - 1)]
    BY <1>1, <1>9, <1>10, <2>2
  <2>4. Content(x) = c
    BY <1>7, <1>9, <2>3, SameContent
  <2> QED
    BY <1>7, <2>4 DEF x, c, m
<1>11. CASE n # Size(r)
  <2>1. b # r.end
    BY <1>1, <1>2, <1>11 DEF Around
  <2>2. x.cap = r.cap /\ x.begin = b /\ x.end = r.end /\ x.mem = m
    BY <1>5, <2>1 DEF Pointers
  <2>3. Size(x) = Size(r) - n
    <3>1. Size(x) = IF b < r.end THEN r.end - b ELSE (r.cap - b) + r.end
      BY <1>2, <2>2 DEF Size, Empty, NoEnd
    <3>2. /\ b = IF r.begin + n < r.cap THEN r.begin + n ELSE r.begin + n - r.cap
          /\ r.end = IF r.begin + Size(r) < r.cap THEN r.begin + Size(r)
                     ELSE r.begin + Size(r) - r.cap
          /\ n < Size(r)
      BY <1>1, <1>2, <1>11 DEF Around
    <3> HIDE DEF b
    <3> QED
      BY <1>1, <3>1, <3>2
  <2>4. ASSUME NEW k \in 1 .. Size(x)
        PROVE  c[k] = x.mem[Around(x, x.begin, k - 1)]
    <3> DEFINE j == n + (k - 1)
    <3>1. /\ k \in 1 .. Size(r) - n /\ n + k \in 1 .. Size(r) /\ j = n + k - 1
          /\ j \in 0 .. r.cap - 1 /\ n <= j /\ k - 1 \in 0 .. r.cap - n
      BY <1>1, <2>3
    <3>2. Around(x, b, k - 1) = Around(r, b, k - 1)
      BY <2>2 DEF Around
    <3>3. Around(r, b, k - 1) = Around(r, r.begin, j)
      <4>1. n \in 0 .. r.cap
        BY <1>1
      <4> QED
        BY <1>1, <3>1, <4>1, AroundTwice
    <3> HIDE DEF j
    <3>4. c[k] = r.mem[Around(r, r.begin, j)]
      BY <1>8, <1>9, <3>1
    <3> QED
      BY <1>4, <2>2, <3>1, <3>2, <3>3, <3>4
  <2>5. Content(x) = c
    BY <1>1, <1>7, <1>9, <2>3, <2>4, SameContent
  <2> QED
    BY <1>7, <2>5 DEF x, c, m
<1> QED
  BY <1>10, <1>11

(* New memory holds the same elements. *)
LEMMA ReallocContent ==
  ASSUME NEW r, Ring(r), NEW c \in Nat, c > Size(r)
  PROVE  Ring(Realloc(r, c)) /\ Content(Realloc(r, c)) = Content(r)
<1> DEFINE a == Content(r)
           m == [i \in 0 .. c - 1 |-> IF i < Size(r) THEN a[i + 1] ELSE Junk]
           x == Realloc(r, c)
<1>1. Good(r) /\ Size(r) \in Nat
  BY RingFacts
<1>2. Good(x) /\ x.cap = c /\ x.begin = 0 /\ Size(x) = Size(r)
  BY <1>1, ReallocGood
<1>3. x = Pointers(c, 0, IF Size(r) = 0 THEN NoEnd ELSE Size(r), m)
  BY DEF Realloc, Stored
<1>4. a \in Seq(Cells) /\ Len(a) = Size(r)
  BY ContentFacts
<1> HIDE DEF a, x
<1>5. m \in [0 .. c - 1 -> Cells]
  <2>1. ASSUME NEW i \in 0 .. c - 1, i < Size(r) PROVE a[i + 1] \in Cells
    BY <1>1, <1>4, <2>1
  <2>2. Junk \in Cells
    BY DEF Cells
  <2> HIDE DEF Cells
  <2> QED
    BY <2>1, <2>2
<1>6. x.mem = m
  BY <1>3 DEF Pointers
<1>7. Ring(x)
  <2> HIDE DEF m
  <2> QED
    BY <1>2, <1>3, <1>5, PointersRing
<1>8. ASSUME NEW k \in 1 .. Size(x) PROVE a[k] = x.mem[Around(x, x.begin, k - 1)]
  <2>1. /\ k - 1 \in 0 .. c - 1 /\ k - 1 < Size(r) /\ (k - 1) + 1 = k
        /\ Around(x, x.begin, k - 1) = k - 1
    BY <1>1, <1>2 DEF Around
  <2> QED
    BY <1>6, <2>1
<1>9. Content(x) = a
  BY <1>2, <1>4, <1>7, <1>8, SameContent
<1> QED
  BY <1>7, <1>9 DEF a, x

LEMMA RearrangeContent ==
  ASSUME NEW r, Ring(r), ~Full(r)
  PROVE  Ring(Rearrange(r)) /\ Content(Rearrange(r)) = Content(r)
<1>1. r.cap \in Nat /\ r.cap > Size(r)
  BY RingFacts, SizeBounds
<1> QED
  BY <1>1, ReallocContent DEF Rearrange

LEMMA AdjustContent ==
  ASSUME NEW r, Ring(r), NEW c \in Nat, c > Size(r) \/ (c < Size(r) /\ ~Full(r))
  PROVE  Ring(AdjustCapacity(r, c)) /\ Content(AdjustCapacity(r, c)) = Content(r)
<1>1. Size(r) \in Nat /\ (Full(r) <=> Size(r) = r.cap)
  BY RingFacts, SizeBounds
<1>2. CASE c < Size(r) \/ c = r.cap
  BY <1>1, <1>2, RearrangeContent DEF AdjustCapacity
<1>3. CASE ~(c < Size(r) \/ c = r.cap)
  BY <1>1, <1>3, ReallocContent DEF AdjustCapacity
<1> QED
  BY <1>2, <1>3

LEMMA WithRoomContent ==
  ASSUME NEW r, Ring(r)
  PROVE  /\ Ring(WithRoom(r)) /\ Content(WithRoom(r)) = Content(r)
         /\ Size(WithRoom(r)) < WithRoom(r).cap
<1>1. Good(r) /\ r.cap \in Nat \ {0} /\ Size(r) \in 0 .. r.cap
  BY RingFacts
<1>2. Ring(WithRoom(r)) /\ Content(WithRoom(r)) = Content(r)
  <2>1. CASE Full(r)
    <3>1. 2 * r.cap \in Nat /\ 2 * r.cap > Size(r)
      BY <1>1
    <3>2. /\ Ring(AdjustCapacity(r, 2 * r.cap))
          /\ Content(AdjustCapacity(r, 2 * r.cap)) = Content(r)
      BY <3>1, AdjustContent
    <3> QED
      BY <2>1, <3>2 DEF WithRoom
  <2>2. CASE ~Full(r)
    BY <2>2 DEF WithRoom
  <2> QED
    BY <2>1, <2>2
<1> DEFINE w == WithRoom(r)
<1>3. Good(w) /\ ~Full(w)
  BY <1>1, WithRoomGood
<1> HIDE DEF w
<1>4. Size(w) \in 0 .. w.cap /\ Size(w) # w.cap /\ w.cap \in Nat
  BY <1>3, SizeBounds DEF Good
<1>5. Size(w) < w.cap
  BY <1>4
<1> QED
  BY <1>2, <1>5 DEF w

(* The queue that an append of n elements grows to, before mEnd is set.    *)
LEMMA GrownContent ==
  ASSUME NEW r, Ring(r), NEW n \in Nat \ {0}
  PROVE  \E a : /\ Ring(a) /\ Content(a) = Content(r) /\ Size(a) + n <= a.cap
                /\ Grown(r, n) = EndAtBegin(a)
<1> DEFINE s == Size(r)
           a == IF s + n > r.cap THEN AdjustCapacity(r, 2 * (s + n)) ELSE r
<1>1. Good(r) /\ r.cap \in Nat \ {0} /\ s \in 0 .. r.cap
  BY RingFacts
<1>2. Grown(r, n) = EndAtBegin(a)
  BY DEF Grown
<1>3. CASE s + n > r.cap
  <2>1. 2 * (s + n) \in Nat /\ 2 * (s + n) > s /\ s + n <= 2 * (s + n)
    BY <1>1
  <2>2. Ring(a) /\ Content(a) = Content(r)
    BY <1>3, <2>1, AdjustContent
  <2>3. Size(a) = s /\ a.cap = 2 * (s + n)
    BY <1>1, <1>3, <2>1, AdjustGood
  <2> QED
    BY <1>2, <2>1, <2>2, <2>3
<1>4. CASE ~(s + n > r.cap)
  <2>1. a = r /\ s + n <= r.cap
    BY <1>1, <1>4
  <2> QED
    BY <1>2, <2>1
<1> QED
  BY <1>3, <1>4

LEMMA PushBackContent ==
  ASSUME NEW r, Ring(r), NEW e \in Cells
  PROVE  Ring(PushBack(r, e)) /\ Content(PushBack(r, e)) = Content(r) \o <<e>>
<1> DEFINE w == WithRoom(r)
           x == EndAtBegin(w)
           s == <<e>>
<1>1. Ring(w) /\ Content(w) = Content(r) /\ Size(w) < w.cap
  BY WithRoomContent
<1>2. PushBack(r, e) = Pointers(x.cap, x.begin, Wrap(x, x.end + 1), Written(x, x.end, s))
  BY DEF PushBack
<1> HIDE DEF w
<1>3. /\ x.cap = w.cap /\ x.begin = w.begin /\ x.mem = w.mem
      /\ x.end = Around(w, w.begin, Size(w))
  BY <1>1, EndAtBeginRing
<1>4. w.cap \in Nat \ {0} /\ w.begin \in 0 .. w.cap - 1 /\ Size(w) \in 0 .. w.cap
  BY <1>1, RingFacts
<1>5. s \in Seq(Cells) /\ Len(s) = 1 /\ Size(w) + 1 <= w.cap
  BY <1>1, <1>4
<1> HIDE DEF x, s
<1>6. Wrap(x, x.end + 1) = Around(w, w.begin, Size(w) + 1)
  <2> DEFINE b == w.begin
             k == Size(w)
             c == w.cap
  <2>1. c \in Nat \ {0} /\ b \in 0 .. c - 1 /\ k \in 0 .. c - 1
    BY <1>1, <1>4
  <2>2. /\ Around(w, b, k) = IF b + k < c THEN b + k ELSE b + k - c
        /\ Around(w, b, k + 1) = IF b + (k + 1) < c THEN b + (k + 1) ELSE b + (k + 1) - c
    BY DEF Around
  <2>3. Wrap(x, x.end + 1) = IF Around(w, b, k) + 1 = c THEN 0 ELSE Around(w, b, k) + 1
    BY <1>3 DEF Wrap
  <2> HIDE DEF b, k, c
  <2>4. Wrap(x, x.end + 1) = Around(w, b, k + 1)
    BY <2>1, <2>2, <2>3
  <2> QED
    BY <2>4 DEF b, k
<1>7. PushBack(r, e) = Pointers(w.cap, w.begin, Around(w, w.begin, Size(w) + Len(s)),
                                Written(x, Around(w, w.begin, Size(w)), s))
  BY <1>2, <1>3, <1>5, <1>6
<1>8. Ring(PushBack(r, e)) /\ Content(PushBack(r, e)) = Content(w) \o s
  <2>1. Len(s) > 0 /\ Size(w) + Len(s) <= w.cap
    BY <1>5
  <2> QED
    BY <1>1, <1>3, <1>5, <1>7, <2>1, AppendContent
<1> QED
  BY <1>1, <1>8 DEF s

(* What PushBack(buf, n) and AcceptBack(n) do to a queue with room.        *)
LEMMA AppendedContent ==
  ASSUME NEW w, Ring(w), NEW s \in Seq(Cells), Len(s) > 0, Size(w) + Len(s) <= w.cap
  PROVE  LET g == EndAtBegin(w)
             x == Pointers(g.cap, g.begin,
                           SecondPart(g, Len(s)) + (Len(s) - FirstPart(g, Len(s))),
                           Written(g, g.end, s))
         IN  Ring(x) /\ Content(x) = Content(w) \o s
<1> DEFINE g == EndAtBegin(w)
           n == Len(s)
<1>1. w.cap \in Nat \ {0} /\ w.begin \in 0 .. w.cap - 1 /\ Size(w) \in 0 .. w.cap
      /\ n \in Nat \ {0} /\ Size(w) < w.cap
  BY RingFacts
<1>2. /\ g.cap = w.cap /\ g.begin = w.begin /\ g.mem = w.mem
      /\ g.end = Around(w, w.begin, Size(w))
  BY <1>1, EndAtBeginRing
<1> HIDE DEF g
<1>3. SecondPart(g, n) + (n - FirstPart(g, n)) = Around(g, g.begin, Size(w) + n)
  <2>1. /\ g.end \in 0 .. g.cap - 1 /\ Size(w) \in Nat /\ Size(w) + n <= g.cap
        /\ g.cap \in Nat \ {0} /\ g.begin \in 0 .. g.cap - 1
        /\ g.end = IF g.begin + Size(w) < g.cap THEN g.begin + Size(w)
                   ELSE g.begin + Size(w) - g.cap
    BY <1>1, <1>2 DEF Around
  <2> HIDE DEF n
  <2> QED
    BY <1>1, <2>1, AppendFacts
<1>4. Around(g, g.begin, Size(w) + n) = Around(w, w.begin, Size(w) + n)
  BY <1>2 DEF Around
<1> QED
  BY <1>2, <1>3, <1>4, AppendContent DEF g

LEMMA PushBackNContent ==
  ASSUME NEW r, Ring(r), NEW s \in Seq(Cells), Len(s) > 0
  PROVE  Ring(PushBackN(r, s)) /\ Content(PushBackN(r, s)) = Content(r) \o s
<1>1. Len(s) \in Nat \ {0}
  OBVIOUS
<1>2. PICK a : /\ Ring(a) /\ Content(a) = Content(r) /\ Size(a) + Len(s) <= a.cap
               /\ Grown(r, Len(s)) = EndAtBegin(a)
  BY <1>1, GrownContent
<1> QED
  BY <1>2, AppendedContent DEF PushBackN

LEMMA AcceptBackContent ==
  ASSUME NEW r, Ring(r), NEW s \in Seq(Cells), Len(s) > 0, Len(s) <= Available(r)
  PROVE  Ring(AcceptBack(r, s)) /\ Content(AcceptBack(r, s)) = Content(r) \o s
<1>1. Size(r) + Len(s) <= r.cap
  BY RingFacts DEF Available
<1> QED
  BY <1>1, AppendedContent DEF AcceptBack

(* The element is written before the others. *)
LEMMA PushFrontContent ==
  ASSUME NEW r, Ring(r), NEW e \in Cells
  PROVE  Ring(PushFront(r, e)) /\ Content(PushFront(r, e)) = <<e>> \o Content(r)
<1> DEFINE w == WithRoom(r)
           y == EndAtBegin(w)
           b == IF y.begin = 0 THEN y.cap - 1 ELSE y.begin - 1
           s == <<e>>
           m == Written(y, b, s)
           x == PushFront(r, e)
           c == s \o Content(w)
<1>1. Ring(w) /\ Content(w) = Content(r) /\ Size(w) < w.cap
  BY WithRoomContent
<1>2. x = Pointers(y.cap, b, y.end, m)
  BY DEF PushFront
<1>3. Good(x)
  BY RingFacts, PushFrontGood
<1> HIDE DEF w, x
<1>4. /\ y.cap = w.cap /\ y.begin = w.begin /\ y.mem = w.mem
      /\ y.end = Around(w, w.begin, Size(w))
  BY <1>1, EndAtBeginRing
<1>5. /\ w.cap \in Nat \ {0} /\ w.begin \in 0 .. w.cap - 1 /\ Size(w) \in 0 .. w.cap - 1
      /\ w.mem \in [0 .. w.cap - 1 -> Cells]
  BY <1>1, RingFacts
<1> HIDE DEF y
<1>6. b \in 0 .. w.cap - 1 /\ w.begin = Around(w, b, 1)
  BY <1>4, <1>5 DEF Around
<1>7. s \in Seq(Cells) /\ Len(s) = 1 /\ s[1] = e
  OBVIOUS
<1> HIDE DEF b, s
<1>8. /\ m \in [0 .. w.cap - 1 -> Cells]
      /\ \A j \in 0 .. w.cap - 1 :
           m[Around(w, b, j)] = IF j < 1 THEN s[j + 1] ELSE w.mem[Around(w, b, j)]
  <2>1. \A j \in 0 .. w.cap - 1 : Around(y, b, j) = Around(w, b, j)
    BY <1>4 DEF Around
  <2>2. Len(s) <= y.cap
    BY <1>4, <1>5, <1>7
  <2>3. y.cap \in Nat \ {0} /\ y.mem \in [0 .. y.cap - 1 -> Cells] /\ b \in 0 .. y.cap - 1
    BY <1>4, <1>5, <1>6
  <2> HIDE DEF m
  <2>4. m = Written(y, b, s)
    BY DEF m
  <2>5. /\ Written(y, b, s) \in [0 .. y.cap - 1 -> Cells]
        /\ \A j \in 0 .. y.cap - 1 :
             Written(y, b, s)[Around(y, b, j)] = IF j < Len(s) THEN s[j + 1] ELSE y.mem[Around(y, b, j)]
    BY <1>7, <2>2, <2>3, WrittenFacts
  <2> QED
    BY <1>4, <1>7, <2>1, <2>4, <2>5
<1> HIDE DEF m
<1>9. Ring(x)
  BY <1>2, <1>3, <1>4, <1>8, PointersRing
<1>10. x.cap = w.cap /\ x.begin = b /\ x.end = y.end /\ x.mem = m
  BY <1>2, <1>4 DEF Pointers
<1>11. Size(x) = 1 + Size(w)
  <2>1. y.end \in 0 .. w.cap - 1
    <3>1. Size(w) \in 0 .. w.cap
      BY <1>5
    <3> QED
      BY <1>4, <1>5, <3>1, AroundIn
  <2>2. Size(x) = IF b < y.end THEN y.end - b ELSE (w.cap - b) + y.end
    BY <1>10, <2>1 DEF Size, Empty, NoEnd
  <2> DEFINE k == Size(w)
             z == y.end
  <2>3. k \in 0 .. w.cap - 1
    BY <1>5
  <2>4. /\ w.begin = IF b + 1 < w.cap THEN b + 1 ELSE b + 1 - w.cap
        /\ z = IF w.begin + k < w.cap THEN w.begin + k ELSE w.begin + k - w.cap
    BY <1>4, <1>6 DEF Around
  <2>5. Size(x) = IF b < z THEN z - b ELSE (w.cap - b) + z
    BY <2>2
  <2> DEFINE C == w.cap
             B == w.begin
             X == Size(x)
  <2>6. /\ C \in Nat /\ B \in 0 .. C - 1 /\ b \in 0 .. C - 1 /\ k \in 0 .. C - 1
        /\ B = IF b + 1 < C THEN b + 1 ELSE b + 1 - C
        /\ z = IF B + k < C THEN B + k ELSE B + k - C
        /\ X = IF b < z THEN z - b ELSE (C - b) + z
    BY <1>5, <1>6, <2>3, <2>4, <2>5
  <2> HIDE DEF k, z, C, B, X
  <2>7. X = 1 + k
    <3>1. CASE b + 1 < C
      BY <2>6, <3>1
    <3>2. CASE ~(b + 1 < C)
      BY <2>6, <3>2
    <3> QED
      BY <3>1, <3>2
  <2> QED
    BY <2>7 DEF k, X
<1>12. Content(w) \in Seq(Cells) /\ Len(Content(w)) = Size(w)
       /\ \A k \in 1 .. Size(w) : Content(w)[k] = w.mem[Around(w, w.begin, k - 1)]
  BY <1>1, ContentFacts
<1>13. /\ c \in Seq(Cells) /\ Len(c) = 1 + Size(w)
       /\ \A k \in 1 .. 1 + Size(w) : c[k] = IF k <= 1 THEN s[k] ELSE Content(w)[k - 1]
  <2> DEFINE a == Content(w)
  <2> HIDE DEF a
  <2>1. a \in Seq(Cells) /\ Len(a) = Size(w)
    BY <1>12 DEF a
  <2>2. /\ s \o a \in Seq(Cells) /\ Len(s \o a) = Len(s) + Len(a)
        /\ \A k \in 1 .. Len(s) + Len(a) :
             (s \o a)[k] = IF k <= Len(s) THEN s[k] ELSE a[k - Len(s)]
    BY <1>7, <2>1, ConcatProperties
  <2> QED
    BY <1>7, <2>1, <2>2 DEF a
<1> HIDE DEF c
<1>14. ASSUME NEW k \in 1 .. Size(x) PROVE c[k] = x.mem[Around(x, x.begin, k - 1)]
  <2>1. /\ k \in 1 .. 1 + Size(w) /\ k - 1 \in 0 .. w.cap - 1
        /\ Around(x, x.begin, k - 1) = Around(w, b, k - 1)
    BY <1>5, <1>10, <1>11 DEF Around
  <2>2. CASE k = 1
    <3>1. 0 \in 0 .. w.cap - 1 /\ 0 < 1 /\ 0 + 1 = 1 /\ 1 - 1 = 0 /\ 1 <= 1
      BY <1>5
    <3>2. m[Around(w, b, 0)] = s[1] /\ c[1] = s[1]
      BY <1>8, <1>13, <2>1, <2>2, <3>1
    <3> QED
      BY <1>10, <2>1, <2>2, <3>1, <3>2
  <2>3. CASE k # 1
    <3> DEFINE j == k - 2
    <3>1. /\ j \in 0 .. w.cap - 1 /\ k - 1 = 1 + j /\ ~(k - 1 < 1) /\ ~(k <= 1)
          /\ (k - 1) - 1 = j /\ k - 1 \in 1 .. Size(w) /\ 1 \in 0 .. w.cap
      BY <1>5, <2>1, <2>3
    <3>2. Around(w, Around(w, b, 1), j) = Around(w, b, 1 + j)
      BY <1>5, <1>6, <3>1, AroundTwice
    <3>3. m[Around(w, b, k - 1)] = w.mem[Around(w, b, k - 1)]
      BY <1>8, <2>1, <3>1
    <3>4. c[k] = w.mem[Around(w, w.begin, (k - 1) - 1)]
      BY <1>12, <1>13, <2>1, <3>1
    <3> QED
      BY <1>6, <1>10, <2>1, <3>1, <3>2, <3>3, <3>4
  <2> QED
    BY <2>2, <2>3
<1>15. Content(x) = c
  BY <1>9, <1>11, <1>13, <1>14, SameContent
<1> QED
  BY <1>1, <1>9, <1>15 DEF c, s, x

LEMMA DropFrontContent ==
  ASSUME NEW r, Ring(r), NEW n \in 1 .. Size(r)
  PROVE  /\ Ring(DropFront(r, n))
         /\ Content(DropFront(r, n)) = SubSeq(Content(r), n + 1, Size(r))
<1> DEFINE h == DropHead(r, n)
           first == Wrap(r, r.begin + h)
<1>1. DropFront(r, n) = Popped(r.cap, first + (n - h), r.end, Vacated(r, r.begin, n))
  BY DEF DropFront
<1>2. /\ r.cap \in Nat \ {0} /\ r.begin \in 0 .. r.cap - 1 /\ r.end \in 0 .. r.cap - 1
      /\ Size(r) = IF r.begin < r.end THEN r.end - r.begin ELSE (r.cap - r.begin) + r.end
      /\ n \in Nat \ {0} /\ n <= Size(r)
  BY RingFacts, SizeBounds DEF Good, Placed, Size, Empty
<1>3. first + (n - h) = Around(r, r.begin, n)
  <2>1. CASE r.begin < r.end
    <3>1. h = 0 /\ first = r.begin
      BY <1>2, <2>1 DEF DropHead, Wrap
    <3> QED
      BY <1>2, <2>1, <3>1 DEF Around
  <2>2. CASE ~(r.begin < r.end) /\ n < r.cap - r.begin
    <3>1. h = n /\ first = r.begin + n
      BY <1>2, <2>2 DEF DropHead, Wrap, Lesser
    <3> QED
      BY <1>2, <2>2, <3>1 DEF Around
  <2>3. CASE ~(r.begin < r.end) /\ ~(n < r.cap - r.begin)
    <3>1. h = r.cap - r.begin /\ first = 0
      BY <1>2, <2>3 DEF DropHead, Wrap, Lesser
    <3> QED
      BY <1>2, <2>3, <3>1 DEF Around
  <2> QED
    BY <2>1, <2>2, <2>3
<1> QED
  BY <1>1, <1>3, DropContent

LEMMA PopFrontContent ==
  ASSUME NEW r, Ring(r), ~Empty(r)
  PROVE  /\ Ring(PopFront(r)) /\ 1 \in 1 .. Size(r)
         /\ Content(PopFront(r)) = SubSeq(Content(r), 1 + 1, Size(r))
<1>1. 1 \in 1 .. Size(r) /\ r.cap \in Nat \ {0} /\ r.begin \in 0 .. r.cap - 1
  BY RingFacts, SizeBounds
<1>2. Wrap(r, r.begin + 1) = Around(r, r.begin, 1)
  BY <1>1 DEF Wrap, Around
<1> QED
  BY <1>1, <1>2, DropContent DEF PopFront

(* The last element leaves. *)
LEMMA PopBackContent ==
  ASSUME NEW r, Ring(r), ~Empty(r)
  PROVE  /\ Ring(PopBack(r)) /\ Content(r) # << >>
         /\ Content(PopBack(r)) = SubSeq(Content(r), 1, Size(r) - 1)
<1> DEFINE e == IF r.end = 0 THEN r.cap - 1 ELSE r.end - 1
           m == Vacated(r, e, 1)
           x == PopBack(r)
           n == Size(r) - 1
           c == SubSeq(Content(r), 1, n)
<1>1. /\ r.cap \in Nat \ {0} /\ r.begin \in 0 .. r.cap - 1 /\ r.end \in 0 .. r.cap - 1
      /\ r.mem \in [0 .. r.cap - 1 -> Cells] /\ Good(r)
      /\ Size(r) \in 1 .. r.cap /\ n \in 0 .. r.cap - 1
      /\ Size(r) = IF r.begin < r.end THEN r.end - r.begin ELSE (r.cap - r.begin) + r.end
  BY RingFacts, SizeBounds DEF Good, Placed, Size, Empty
<1>2. e \in 0 .. r.cap - 1 /\ e = Around(r, r.begin, n)
  <2> DEFINE C == r.cap
             B == r.begin
             E == r.end
             S == Size(r)
  <2>1. /\ C \in Nat \ {0} /\ B \in 0 .. C - 1 /\ E \in 0 .. C - 1 /\ S \in 1 .. C
        /\ S = IF B < E THEN E - B ELSE (C - B) + E
    BY <1>1
  <2>2. /\ e = IF E = 0 THEN C - 1 ELSE E - 1
        /\ Around(r, r.begin, n) = IF B + (S - 1) < C THEN B + (S - 1) ELSE B + (S - 1) - C
    BY DEF Around
  <2>3. e \in 0 .. C - 1
    <3> HIDE DEF C, B, E, S, e
    <3> QED
      BY <2>1, <2>2
  <2>4. e = IF B + (S - 1) < C THEN B + (S - 1) ELSE B + (S - 1) - C
    <3> HIDE DEF C, B, E, S, e
    <3>1. CASE B < E
      BY <2>1, <2>2, <3>1
    <3>2. CASE ~(B < E) /\ E = 0
      BY <2>1, <2>2, <3>2
    <3>3. CASE ~(B < E) /\ E # 0
      BY <2>1, <2>2, <3>3
    <3> QED
      BY <3>1, <3>2, <3>3
  <2> QED
    BY <2>2, <2>3, <2>4
<1>3. x = IF r.begin = e THEN Pointers(r.cap, 0, NoEnd, m) ELSE Pointers(r.cap, r.begin, e, m)
  BY DEF PopBack, Popped
<1>4. Good(x)
  BY <1>1, PopGood
<1>5. /\ m \in [0 .. r.cap - 1 -> Cells]
      /\ \A i \in 0 .. r.cap - 1 : i # e => m[i] = r.mem[i]
  <2> DEFINE s == [k \in 1 .. 1 |-> Junk]
  <2>1. s \in Seq(Cells) /\ Len(s) = 1 /\ Len(s) <= r.cap
    BY <1>1 DEF Cells
  <2>2. m = Written(r, e, s)
    BY DEF Vacated
  <2> HIDE DEF s, e, m
  <2>3. m \in [0 .. r.cap - 1 -> Cells]
    BY <1>1, <1>2, <2>1, <2>2, WrittenFacts
  <2>4. ASSUME NEW i \in 0 .. r.cap - 1, i # e PROVE m[i] = r.mem[i]
    <3> DEFINE k == IF i >= e THEN i - e ELSE i + r.cap - e
    <3>1. m[i] = IF k < Len(s) THEN s[k + 1] ELSE r.mem[i]
      BY <2>2 DEF Written
    <3>2. ~(k < 1)
      BY <1>1, <1>2, <2>4
    <3> QED
      BY <2>1, <3>1, <3>2
  <2> QED
    BY <2>3, <2>4
<1> HIDE DEF m, x
<1>6. Ring(x)
  BY <1>3, <1>4, <1>5, PointersRing
<1>7. /\ Content(r) \in Seq(Cells) /\ Len(Content(r)) = Size(r)
      /\ \A k \in 1 .. Size(r) : Content(r)[k] = r.mem[Around(r, r.begin, k - 1)]
  BY ContentFacts
<1>8. c \in Seq(Cells) /\ Len(c) = n /\ \A i \in 1 .. n : c[i] = Content(r)[i]
  <2>1. n \in 0 .. Len(Content(r))
    BY <1>1, <1>7
  <2> HIDE DEF n
  <2> QED
    BY <1>7, <2>1, Parts
<1> HIDE DEF c
<1>9. Size(x) = n
  <2>1. CASE r.begin = e
    <3>1. Size(x) = 0
      BY <1>3, <2>1, PointersFields DEF Size, Empty
    <3>2. CASE r.begin < r.end
      BY <1>1, <2>1, <3>1, <3>2
    <3>3. CASE ~(r.begin < r.end)
      BY <1>1, <2>1, <3>1, <3>3
    <3> QED
      BY <3>2, <3>3
  <2>2. CASE r.begin # e
    <3>1. x.cap = r.cap /\ x.begin = r.begin /\ x.end = e
      BY <1>3, <2>2, PointersFields
    <3>2. Size(x) = IF r.begin < e THEN e - r.begin ELSE (r.cap - r.begin) + e
      <4>1. e # NoEnd
        BY <1>2 DEF NoEnd
      <4> QED
        BY <3>1, <4>1 DEF Size, Empty
    <3> DEFINE C == r.cap
               B == r.begin
               E == r.end
               S == Size(r)
               X == Size(x)
    <3>3. /\ C \in Nat \ {0} /\ B \in 0 .. C - 1 /\ E \in 0 .. C - 1
          /\ S = (IF B < E THEN E - B ELSE (C - B) + E) /\ S \in Nat
          /\ e = (IF E = 0 THEN C - 1 ELSE E - 1) /\ B # e
          /\ X = (IF B < e THEN e - B ELSE (C - B) + e) /\ n = S - 1
      BY <1>1, <2>2, <3>2
    <3> HIDE DEF C, B, E, S, X, e, n
    <3>4. X = n
      <4>1. CASE B < E
        BY <3>3, <4>1
      <4>2. CASE ~(B < E) /\ E = 0
        BY <3>3, <4>2
      <4>3. CASE ~(B < E) /\ E # 0
        BY <3>3, <4>3
      <4> QED
        BY <4>1, <4>2, <4>3
    <3> QED
      BY <3>4 DEF X
  <2> QED
    BY <2>1, <2>2
<1>10. ASSUME NEW k \in 1 .. Size(x) PROVE c[k] = x.mem[Around(x, x.begin, k - 1)]
  <2>1. k \in 1 .. n /\ k \in 1 .. Size(r) /\ k - 1 \in 0 .. r.cap - 1 /\ k - 1 # n
    BY <1>1, <1>9
  <2>2. n # 0
    BY <1>1, <2>1
  <2>3. r.begin # e
    <3>1. n # 0 /\ 0 \in 0 .. r.cap - 1
      BY <1>1, <2>2
    <3>2. Around(r, r.begin, n) # Around(r, r.begin, 0) /\ Around(r, r.begin, 0) = r.begin
      <4> HIDE DEF n
      <4>1. Around(r, r.begin, n) # Around(r, r.begin, 0)
        BY <1>1, <3>1, AroundApart
      <4>2. Around(r, r.begin, 0) = r.begin
        BY <1>1 DEF Around
      <4> QED
        BY <4>1, <4>2
    <3> QED
      BY <1>2, <3>2
  <2>4. x.cap = r.cap /\ x.begin = r.begin /\ x.mem = m
    BY <1>3, <2>3 DEF Pointers
  <2> DEFINE i == Around(r, r.begin, k - 1)
  <2>5. i \in 0 .. r.cap - 1 /\ i # e
    <3> HIDE DEF n, e
    <3>1. k - 1 \in 0 .. r.cap
      BY <1>1, <2>1
    <3> QED
      BY <1>1, <1>2, <2>1, <3>1, AroundIn, AroundApart
  <2>6. Around(x, x.begin, k - 1) = i
    BY <2>4 DEF Around
  <2> HIDE DEF i, n, e
  <2> QED
    BY <1>5, <1>7, <1>8, <2>1, <2>4, <2>5, <2>6 DEF i
<1>11. Content(x) = c
  <2> HIDE DEF n
  <2> QED
    BY <1>6, <1>8, <1>9, <1>10, SameContent
<1>12. Content(r) # << >>
  BY <1>1, <1>7
<1> QED
  BY <1>6, <1>11, <1>12 DEF x, c

LEMMA ClearContent ==
  ASSUME NEW r, Ring(r)
  PROVE  Ring(Clear(r)) /\ Content(Clear(r)) = << >>
<1> DEFINE m == Vacated(r, r.begin, Size(r))
           s == [k \in 1 .. Size(r) |-> Junk]
<1>1. /\ r.cap \in Nat \ {0} /\ r.begin \in 0 .. r.cap - 1 /\ Size(r) \in 0 .. r.cap
      /\ r.mem \in [0 .. r.cap - 1 -> Cells]
  BY RingFacts
<1>2. s \in Seq(Cells) /\ Len(s) = Size(r)
  BY <1>1 DEF Cells
<1>3. m = Written(r, r.begin, s)
  BY DEF Vacated
<1> HIDE DEF s
<1>4. m \in [0 .. r.cap - 1 -> Cells]
  BY <1>1, <1>2, <1>3, WrittenFacts
<1>5. Clear(r) = Pointers(r.cap, 0, NoEnd, m)
  BY DEF Clear
<1> HIDE DEF m
<1>6. Good(Clear(r))
  BY RingFacts, ClearGood
<1>7. Ring(Clear(r))
  BY <1>4, <1>5, <1>6, PointersRing
<1>8. Size(Clear(r)) = 0
  BY <1>5, PointersFields DEF Size, Empty
<1>9. Content(Clear(r)) \in Seq(Cells) /\ Len(Content(Clear(r))) = 0
  BY <1>7, <1>8, ContentFacts
<1> QED
  BY <1>7, <1>9, EmptySeq

LEMMA NewContent == Ring(NewQueue) /\ Content(NewQueue) = << >>
<1> DEFINE m == [i \in 0 .. DefaultCapacity - 1 |-> Junk]
<1>1. NewQueue = Pointers(DefaultCapacity, 0, NoEnd, m)
  BY DEF NewQueue, Stored
<1>2. m \in [0 .. DefaultCapacity - 1 -> Cells]
  BY DEF Cells
<1> HIDE DEF m
<1>3. Good(NewQueue)
  BY <1>1, PointersFields DEF Good, Placed, NoEnd, DefaultCapacity
<1>4. Ring(NewQueue)
  BY <1>1, <1>2, <1>3, PointersRing
<1>5. Size(NewQueue) = 0
  BY <1>1, PointersFields DEF Size, Empty
<1>6. Content(NewQueue) \in Seq(Cells) /\ Len(Content(NewQueue)) = 0
  BY <1>4, <1>5, ContentFacts
<1> QED
  BY <1>4, <1>6, EmptySeq

-----------------------------------------------------------------------------

(* The inductive invariant, for callers that leave room. *)
QueueIInv ==
  /\ Good(q)
  /\ fault \in {"none", "PushBack"}

LEMMA QueueInitInv == QueueInit => QueueIInv
BY PointersFields DEF QueueInit, QueueIInv, NewQueue, Stored, DefaultCapacity, Good, Placed, NoEnd

(* The batches of a call. *)
LEMMA BatchLength ==
  ASSUME NEW n \in 1 .. MaxBatch, NEW s \in [1 .. n -> Values]
  PROVE  n \in Nat \ {0} /\ Len(s) = n
BY QueueClientAssumption

LEMMA QueueStepInv ==
  ASSUME LeaveRoom
  PROVE  QueueIInv /\ [QueueNext]_queueVars => QueueIInv'
<1> SUFFICES ASSUME QueueIInv, [QueueNext]_queueVars PROVE QueueIInv'
  OBVIOUS
<1>0. Good(q) /\ fault \in {"none", "PushBack"}
  BY DEF QueueIInv
<1>1. CASE DoPushFront
  BY <1>0, <1>1, PushFrontGood DEF DoPushFront, QueueIInv
<1>2. CASE DoPopFront
  BY <1>0, <1>2, PopGood DEF DoPopFront, QueueIInv
<1>3. CASE DoPushBack
  BY <1>0, <1>3, PushBackGood DEF DoPushBack, QueueIInv
<1>4. CASE DoPopBack
  BY <1>0, <1>4, PopGood DEF DoPopBack, QueueIInv
<1>5. CASE DoPushBackN
  <2>1. PICK n \in 1 .. MaxBatch : \E s \in [1 .. n -> Values] :
          \/ q' = PushBackN(q, s) /\ UNCHANGED fault
          \/ fault' = "PushBack" /\ UNCHANGED q
    BY <1>5 DEF DoPushBackN, PushBackOf
  <2>2. PICK s \in [1 .. n -> Values] :
          \/ q' = PushBackN(q, s) /\ UNCHANGED fault
          \/ fault' = "PushBack" /\ UNCHANGED q
    BY <2>1
  <2>3. Good(PushBackN(q, s))
    BY <1>0, BatchLength, PushBackNGood
  <2> QED
    BY <1>0, <2>2, <2>3 DEF QueueIInv
<1>6. CASE DoAcceptBack
  <2>1. PICK n \in 1 .. MaxBatch : \E s \in [1 .. n -> Values] :
          /\ n <= Available(q)
          /\ IF AcceptBackAsserts(q, n)
               THEN q' = AcceptBack(q, s) /\ UNCHANGED fault
               ELSE fault' = "AcceptBack" /\ UNCHANGED q
    BY <1>6 DEF DoAcceptBack
  <2>2. PICK s \in [1 .. n -> Values] :
          /\ n <= Available(q)
          /\ IF AcceptBackAsserts(q, n)
               THEN q' = AcceptBack(q, s) /\ UNCHANGED fault
               ELSE fault' = "AcceptBack" /\ UNCHANGED q
    BY <2>1
  <2>3. Len(s) = n /\ n \in Nat \ {0}
    BY BatchLength
  <2>4. Good(AcceptBack(q, s)) /\ AcceptBackAsserts(q, n)
    BY <1>0, <2>2, <2>3, AcceptBackGood
  <2> QED
    BY <1>0, <2>2, <2>4 DEF QueueIInv
<1>7. CASE DoDropFront
  BY <1>0, <1>7, DropFrontGood DEF DoDropFront, QueueIInv
<1>8. CASE DoAdjustCapacity
  <2>1. PICK c \in Capacities :
          /\ c > Size(q) \/ (c < Size(q) /\ ~Full(q))
          /\ q' = AdjustCapacity(q, c)
          /\ UNCHANGED fault
    BY <1>8 DEF DoAdjustCapacity
  <2>2. c \in Nat
    BY QueueClientAssumption
  <2>3. Good(AdjustCapacity(q, c))
    BY <1>0, <2>1, <2>2, AdjustGood
  <2> QED
    BY <1>0, <2>1, <2>3 DEF QueueIInv
<1>9. CASE DoRearrange
  BY <1>0, <1>9, RearrangeGood DEF DoRearrange, QueueIInv
<1>10. CASE DoClear
  BY <1>0, <1>10, ClearGood DEF DoClear, QueueIInv
<1>11. CASE UNCHANGED queueVars
  BY <1>0, <1>11 DEF queueVars, QueueIInv
<1> QED
  BY <1>1, <1>2, <1>3, <1>4, <1>5, <1>6, <1>7, <1>8, <1>9, <1>10, <1>11 DEF QueueNext

THEOREM QueueInvariance ==
  ASSUME LeaveRoom
  PROVE  QueueSpec => []QueueIInv
BY QueueInitInv, QueueStepInv, PTL DEF QueueSpec

(* RecordMem's promise for every capacity and size: as long as no caller   *)
(* rearranges a queue to exactly its elements, mEnd never stands on the    *)
(* end of the storage.                                                     *)
THEOREM PointersAlwaysPlaced ==
  ASSUME LeaveRoom
  PROVE  QueueSpec => []PointersPlaced
<1>1. QueueIInv => PointersPlaced
  BY DEF QueueIInv, Good, PointersPlaced
<1> QED
  BY <1>1, QueueInvariance, PTL

(* Size, Available, FreeHead, FreeTail and the folded parts always agree. *)
THEOREM SizesAlwaysAddUp ==
  ASSUME LeaveRoom
  PROVE  QueueSpec => []SizesAddUp
<1>1. QueueIInv => SizesAddUp
  BY GoodSizes DEF QueueIInv, SizesAddUp
<1> QED
  BY <1>1, QueueInvariance, PTL

(* No store past the storage, and the assertions of AcceptBack and         *)
(* DropFront hold, whatever the capacities, batches and positions.         *)
THEOREM OnlyPushBackEverFails ==
  ASSUME LeaveRoom
  PROVE  QueueSpec => []OnlyPushBackFails
<1>1. QueueIInv => OnlyPushBackFails
  BY DEF QueueIInv, OnlyPushBackFails
<1> QED
  BY <1>1, QueueInvariance, PTL

(* Pointers, sizes and assertions together.                                *)
THEOREM QueueAlwaysSound ==
  ASSUME LeaveRoom
  PROVE  QueueSpec => []QueueInv
BY PointersAlwaysPlaced, SizesAlwaysAddUp, OnlyPushBackEverFails, PTL DEF QueueInv

(* A call PushBack(buf, n) fails its assertion exactly when its n elements *)
(* take every free cell and the elements do not begin at the storage, for  *)
(* every n, whatever calls came before.                                    *)
THEOREM FailsJustOnExactFills ==
  ASSUME LeaveRoom
  PROVE  QueueSpec => FailsJustOnExactFill
<1> DEFINE A == \A n \in 1 .. MaxBatch :
                  PushBackOf(n) => (fault' = "PushBack" <=> n = Available(q) /\ q.begin > 0)
<1>1. QueueIInv /\ [QueueNext]_queueVars => [A]_queueVars
  <2> SUFFICES ASSUME QueueIInv, NEW n \in 1 .. MaxBatch, PushBackOf(n)
               PROVE  fault' = "PushBack" <=> n = Available(q) /\ q.begin > 0
    OBVIOUS
  <2>1. Good(q) /\ n \in Nat \ {0}
    BY QueueClientAssumption DEF QueueIInv
  <2>2. /\ fault = "none"
        /\ IF PushBackAsserts(q, n) THEN fault' = fault ELSE fault' = "PushBack"
    BY DEF PushBackOf, Room
  <2>3. fault' = "PushBack" <=> ~PushBackAsserts(q, n)
    BY <2>2
  <2> QED
    BY <2>1, <2>3, PushBackAssertFacts, ExactFillFails
<1> QED
  BY <1>1, QueueInvariance, PTL DEF QueueSpec, FailsJustOnExactFill

-----------------------------------------------------------------------------

(* The deque.  What its refinement needs of a state: the queue is typed as *)
(* well as placed, so that its elements can be followed.                   *)
QueueRing ==
  /\ Ring(q)
  /\ fault \in {"none", "PushBack"}

LEMMA BatchTyped ==
  ASSUME NEW n \in 1 .. MaxBatch, NEW s \in [1 .. n -> Values]
  PROVE  s \in Seq(Cells) /\ Len(s) = n /\ n \in Nat \ {0}
<1>1. n \in Nat \ {0}
  BY QueueClientAssumption
<1>2. s \in [1 .. n -> Cells]
  BY DEF Cells
<1> QED
  BY <1>1, <1>2

(* Each operation is the deque's operation, or leaves it as it is. *)
LEMMA DequeStep ==
  ASSUME LeaveRoom
  PROVE  QueueRing /\ [QueueNext]_queueVars => QueueRing' /\ [D!Next]_(Content(q))
<1> SUFFICES ASSUME QueueRing, [QueueNext]_queueVars
             PROVE  QueueRing' /\ (D!Next \/ Content(q)' = Content(q))
  OBVIOUS
<1>0. Ring(q) /\ Good(q) /\ fault \in {"none", "PushBack"}
  BY RingFacts DEF QueueRing
<1>a. Content(q) \in Seq(Cells) /\ Len(Content(q)) = Size(q) /\ Size(q) \in Nat
  BY <1>0, ContentFacts, RingFacts
<1>b. 1 \in 1 .. MaxBatch
  BY QueueClientAssumption
<1>1. CASE DoPushFront
  <2>1. PICK e \in Values : q' = PushFront(q, e) /\ UNCHANGED fault
    BY <1>1 DEF DoPushFront
  <2>2. Ring(q') /\ Content(q') = <<e>> \o Content(q)
    BY <1>0, <2>1, PushFrontContent DEF Cells
  <2>3. D!PushFront(e)
    BY <2>2 DEF D!PushFront
  <2> QED
    BY <1>0, <2>1, <2>2, <2>3 DEF QueueRing, D!Next
<1>2. CASE DoPopFront
  <2>1. /\ Ring(q') /\ 1 \in 1 .. Size(q) /\ UNCHANGED fault
        /\ Content(q') = SubSeq(Content(q), 1 + 1, Size(q))
    BY <1>0, <1>2, PopFrontContent DEF DoPopFront
  <2>2. D!PopFront(1)
    BY <1>a, <2>1 DEF D!PopFront
  <2> QED
    BY <1>0, <1>a, <2>1, <2>2 DEF QueueRing, D!Next
<1>3. CASE DoPushBack
  <2>1. PICK e \in Values : q' = PushBack(q, e) /\ UNCHANGED fault
    BY <1>0, <1>3, PushBackGood DEF DoPushBack
  <2>2. Ring(q') /\ Content(q') = Content(q) \o <<e>>
    BY <1>0, <2>1, PushBackContent DEF Cells
  <2>3. <<e>> \in [1 .. 1 -> Values]
    OBVIOUS
  <2>4. D!PushBack(<<e>>)
    BY <2>2 DEF D!PushBack
  <2> QED
    BY <1>0, <1>b, <2>1, <2>2, <2>3, <2>4 DEF QueueRing, D!Next
<1>4. CASE DoPopBack
  <2>1. /\ Ring(q') /\ Content(q) # << >> /\ UNCHANGED fault
        /\ Content(q') = SubSeq(Content(q), 1, Size(q) - 1)
    BY <1>0, <1>4, PopBackContent DEF DoPopBack
  <2>2. D!PopBack
    BY <1>a, <2>1 DEF D!PopBack
  <2> QED
    BY <1>0, <2>1, <2>2 DEF QueueRing, D!Next
<1>5. CASE DoPushBackN
  <2>1. PICK n \in 1 .. MaxBatch : \E s \in [1 .. n -> Values] :
          \/ q' = PushBackN(q, s) /\ UNCHANGED fault
          \/ fault' = "PushBack" /\ UNCHANGED q
    BY <1>5 DEF DoPushBackN, PushBackOf
  <2>2. PICK s \in [1 .. n -> Values] :
          \/ q' = PushBackN(q, s) /\ UNCHANGED fault
          \/ fault' = "PushBack" /\ UNCHANGED q
    BY <2>1
  <2>3. Ring(PushBackN(q, s)) /\ Content(PushBackN(q, s)) = Content(q) \o s
    <3>1. s \in Seq(Cells) /\ Len(s) > 0
      BY BatchTyped
    <3> QED
      BY <1>0, <3>1, PushBackNContent
  <2>4. CASE q' = PushBackN(q, s) /\ UNCHANGED fault
    <3>1. D!PushBack(s)
      BY <2>3, <2>4 DEF D!PushBack
    <3> QED
      BY <1>0, <2>3, <2>4, <3>1 DEF QueueRing, D!Next
  <2>5. CASE fault' = "PushBack" /\ UNCHANGED q
    BY <1>0, <2>5 DEF QueueRing
  <2> QED
    BY <2>2, <2>4, <2>5
<1>6. CASE DoAcceptBack
  <2>1. PICK n \in 1 .. MaxBatch : \E s \in [1 .. n -> Values] :
          /\ n <= Available(q)
          /\ IF AcceptBackAsserts(q, n)
               THEN q' = AcceptBack(q, s) /\ UNCHANGED fault
               ELSE fault' = "AcceptBack" /\ UNCHANGED q
    BY <1>6 DEF DoAcceptBack
  <2>2. PICK s \in [1 .. n -> Values] :
          /\ n <= Available(q)
          /\ IF AcceptBackAsserts(q, n)
               THEN q' = AcceptBack(q, s) /\ UNCHANGED fault
               ELSE fault' = "AcceptBack" /\ UNCHANGED q
    BY <2>1
  <2>3. s \in Seq(Cells) /\ Len(s) = n /\ n \in Nat \ {0}
    BY BatchTyped
  <2>4. q' = AcceptBack(q, s) /\ UNCHANGED fault
    BY <1>0, <2>2, <2>3, AcceptBackGood
  <2>5. Ring(AcceptBack(q, s)) /\ Content(AcceptBack(q, s)) = Content(q) \o s
    <3>1. Len(s) > 0 /\ Len(s) <= Available(q)
      BY <2>2, <2>3
    <3> QED
      BY <1>0, <2>3, <3>1, AcceptBackContent
  <2>6. D!PushBack(s)
    BY <2>4, <2>5 DEF D!PushBack
  <2> QED
    BY <1>0, <2>4, <2>5, <2>6 DEF QueueRing, D!Next
<1>7. CASE DoDropFront
  <2>1. PICK n \in 1 .. Size(q) : q' = DropFront(q, n) /\ UNCHANGED fault
    BY <1>0, <1>7, DropFrontGood DEF DoDropFront
  <2>2. Ring(q') /\ Content(q') = SubSeq(Content(q), n + 1, Size(q))
    BY <1>0, <2>1, DropFrontContent
  <2>3. D!PopFront(n)
    BY <1>a, <2>2 DEF D!PopFront
  <2> QED
    BY <1>0, <1>a, <2>1, <2>2, <2>3 DEF QueueRing, D!Next
<1>8. CASE DoAdjustCapacity
  <2>1. PICK c \in Capacities :
          /\ c > Size(q) \/ (c < Size(q) /\ ~Full(q))
          /\ q' = AdjustCapacity(q, c)
          /\ UNCHANGED fault
    BY <1>8 DEF DoAdjustCapacity
  <2>2. c \in Nat
    BY QueueClientAssumption
  <2>3. Ring(q') /\ Content(q') = Content(q)
    BY <1>0, <2>1, <2>2, AdjustContent
  <2> QED
    BY <1>0, <2>1, <2>3 DEF QueueRing
<1>9. CASE DoRearrange
  <2>1. Ring(q') /\ Content(q') = Content(q) /\ UNCHANGED fault
    BY <1>0, <1>9, RearrangeContent DEF DoRearrange
  <2> QED
    BY <1>0, <2>1 DEF QueueRing
<1>10. CASE DoClear
  <2>1. Ring(q') /\ Content(q') = << >> /\ UNCHANGED fault
    BY <1>0, <1>10, ClearContent DEF DoClear
  <2> DEFINE k == Len(Content(q))
  <2>2. k \in 1 .. Len(Content(q)) /\ k <= Len(Content(q))
    <3>1. Size(q) >= 1
      BY <1>0, <1>10, SizeBounds DEF DoClear
    <3> QED
      BY <1>a, <3>1
  <2>3. SubSeq(Content(q), k + 1, Len(Content(q))) = << >>
    <3>1. k \in Int
      BY <1>a
    <3> HIDE DEF k
    <3> QED
      BY <1>a, <3>1 DEF k
  <2>4. D!PopFront(k)
    BY <2>1, <2>2, <2>3 DEF D!PopFront
  <2> HIDE DEF k
  <2> QED
    BY <1>0, <2>1, <2>2, <2>4 DEF QueueRing, D!Next
<1>11. CASE UNCHANGED queueVars
  BY <1>0, <1>11 DEF queueVars, QueueRing
<1> QED
  BY <1>1, <1>2, <1>3, <1>4, <1>5, <1>6, <1>7, <1>8, <1>9, <1>10, <1>11 DEF QueueNext

(* DataQueue implements the deque its callers see, for any elements,       *)
(* batches, sizes and capacities, as long as callers leave room when they  *)
(* rearrange: through every wrap, fold, growth and rearrangement an        *)
(* operation moves the elements as the deque does, and none it leaves in   *)
(* or takes from a cell outside the queue is ever shown.                   *)
THEOREM QueueIsDeque ==
  ASSUME LeaveRoom
  PROVE  QueueSpec => ImplementsDeque
<1>1. QueueInit => QueueRing /\ D!Init
  BY NewContent DEF QueueInit, QueueRing, D!Init
<1>2. QueueRing /\ [QueueNext]_queueVars => QueueRing' /\ [D!Next]_(Content(q))
  BY DequeStep
<1> QED
  BY <1>1, <1>2, PTL DEF QueueSpec, ImplementsDeque, D!Spec

-----------------------------------------------------------------------------

(* A connection.  Bytes as sequences. *)
LEMMA BytesFacts ==
  ASSUME NEW a \in Nat \ {0}, NEW b \in 0 .. MaxBytes, a <= b + 1
  PROVE  /\ Bytes(a, b) \in Seq(Cells) /\ Len(Bytes(a, b)) = b - a + 1
         /\ \A i \in 1 .. b - a + 1 : Bytes(a, b)[i] = a + i - 1
<1>1. b - a + 1 \in Nat /\ MaxBytes \in Nat
  BY ConnectionAssumption
<1>2. \A i \in 1 .. b - a + 1 : a + i - 1 \in Cells
  <2>1. \A i \in 1 .. b - a + 1 : a + i - 1 \in 1 .. MaxBytes
    BY <1>1
  <2> QED
    BY <2>1, ConnectionAssumption DEF Cells
<1> DEFINE n == b - a + 1
           s == [i \in 1 .. n |-> a + i - 1]
<1>3. Bytes(a, b) = s
  BY DEF Bytes
<1>4. n \in Nat /\ \A i \in 1 .. n : s[i] \in Cells /\ s[i] = a + i - 1
  BY <1>1, <1>2
<1>5. s \in [1 .. n -> Cells]
  BY <1>2
<1>6. s \in Seq(Cells) /\ Len(s) = n
  <2> HIDE DEF n, s
  <2> QED
    BY <1>4, <1>5
<1> QED
  BY <1>3, <1>4, <1>6

LEMMA BytesJoined ==
  ASSUME NEW a \in Nat \ {0}, NEW m \in 0 .. MaxBytes, NEW b \in 0 .. MaxBytes,
         a <= m + 1, m <= b
  PROVE  Bytes(a, m) \o Bytes(m + 1, b) = Bytes(a, b)
<1> DEFINE s == Bytes(a, m)
           t == Bytes(m + 1, b)
           u == Bytes(a, b)
           x == s \o t
<1>0. m \in Nat /\ b \in Nat
  BY ConnectionAssumption
<1>1. /\ s \in Seq(Cells) /\ Len(s) = m - a + 1
      /\ \A i \in 1 .. m - a + 1 : s[i] = a + i - 1
  BY BytesFacts
<1>2. /\ t \in Seq(Cells) /\ Len(t) = b - m
      /\ \A i \in 1 .. b - m : t[i] = m + i
  <2>1. m + 1 \in Nat \ {0} /\ m + 1 <= b + 1 /\ b - (m + 1) + 1 = b - m
    BY <1>0
  <2>2. \A i \in 1 .. b - m : (m + 1) + i - 1 = m + i
    BY <1>0
  <2>3. /\ t \in Seq(Cells) /\ Len(t) = b - (m + 1) + 1
        /\ \A i \in 1 .. b - (m + 1) + 1 : t[i] = (m + 1) + i - 1
    BY <2>1, BytesFacts
  <2> HIDE DEF t
  <2> QED
    BY <2>1, <2>2, <2>3
<1>3. /\ u \in Seq(Cells) /\ Len(u) = b - a + 1
      /\ \A i \in 1 .. b - a + 1 : u[i] = a + i - 1
  <2>1. a <= b + 1
    BY <1>0
  <2> QED
    BY <2>1, BytesFacts
<1> HIDE DEF s, t, u
<1>4. /\ x \in Seq(Cells) /\ Len(x) = Len(s) + Len(t)
      /\ \A i \in 1 .. Len(s) + Len(t) : x[i] = IF i <= Len(s) THEN s[i] ELSE t[i - Len(s)]
  BY <1>1, <1>2, ConcatProperties
<1> HIDE DEF x
<1>5. Len(x) = Len(u)
  BY <1>0, <1>1, <1>2, <1>3, <1>4
<1>6. ASSUME NEW i \in 1 .. Len(u) PROVE x[i] = u[i]
  <2>0. i \in 1 .. b - a + 1 /\ i \in 1 .. Len(s) + Len(t)
    BY <1>3, <1>4, <1>5
  <2>1. CASE i <= m - a + 1
    BY <1>0, <1>1, <1>3, <1>4, <2>0, <2>1
  <2>2. CASE ~(i <= m - a + 1)
    <3>1. i - (m - a + 1) \in 1 .. b - m /\ m + (i - (m - a + 1)) = a + i - 1
      BY <1>0, <2>0, <2>2
    <3> QED
      BY <1>1, <1>2, <1>3, <1>4, <2>0, <2>2, <3>1
  <2> QED
    BY <2>1, <2>2
<1>7. x = u
  BY <1>3, <1>4, <1>5, <1>6, SeqEqual
<1> QED
  BY <1>7 DEF x, s, t, u

LEMMA BytesDropped ==
  ASSUME NEW a \in Nat \ {0}, NEW b \in 0 .. MaxBytes, a <= b + 1, NEW k \in 0 .. b - a + 1
  PROVE  SubSeq(Bytes(a, b), k + 1, b - a + 1) = Bytes(a + k, b)
<1> DEFINE s == Bytes(a, b)
           t == Bytes(a + k, b)
           x == SubSeq(s, k + 1, b - a + 1)
<1>0. b \in Nat /\ k \in Nat /\ a + k \in Nat \ {0} /\ a + k <= b + 1
  BY ConnectionAssumption
<1>1. /\ s \in Seq(Cells) /\ Len(s) = b - a + 1
      /\ \A i \in 1 .. b - a + 1 : s[i] = a + i - 1
  BY BytesFacts
<1>2. /\ t \in Seq(Cells) /\ Len(t) = b - (a + k) + 1
      /\ \A i \in 1 .. b - (a + k) + 1 : t[i] = a + k + i - 1
  BY <1>0, BytesFacts
<1> HIDE DEF s, t
<1>3. /\ x \in Seq(Cells) /\ Len(x) = Len(s) - k
      /\ \A i \in 1 .. Len(s) - k : x[i] = s[k + i]
  BY <1>1, Parts
<1> HIDE DEF x
<1>4. Len(x) = Len(t)
  BY <1>0, <1>1, <1>2, <1>3
<1>5. ASSUME NEW i \in 1 .. Len(t) PROVE x[i] = t[i]
  <2>1. /\ i \in 1 .. b - (a + k) + 1 /\ i \in 1 .. Len(s) - k
        /\ k + i \in 1 .. b - a + 1 /\ a + (k + i) - 1 = a + k + i - 1
    BY <1>0, <1>1, <1>2
  <2> QED
    BY <1>1, <1>2, <1>3, <2>1
<1>6. x = t
  BY <1>2, <1>3, <1>4, <1>5, SeqEqual
<1> QED
  BY <1>6 DEF x, s, t

(* The bytes up to f have been sent, those up to g wait in r, and those up *)
(* to m follow them into it.                                               *)
LEMMA BytesPushed ==
  ASSUME NEW r, Ring(r), NEW f \in Nat, NEW g \in Nat, NEW m \in 0 .. MaxBytes,
         f <= g, g < m, Content(r) = Bytes(f + 1, g)
  PROVE  LET s == Bytes(g + 1, m)
         IN  /\ s # << >> /\ Len(s) = m - g
             /\ Ring(PushBackN(r, s)) /\ ~Empty(PushBackN(r, s))
             /\ Content(PushBackN(r, s)) = Bytes(f + 1, m)
<1> DEFINE s == Bytes(g + 1, m)
           x == PushBackN(r, s)
<1>0. /\ m \in Nat /\ g \in 0 .. MaxBytes /\ f + 1 \in Nat \ {0} /\ g + 1 \in Nat \ {0}
      /\ f + 1 <= g + 1 /\ g <= m /\ g + 1 <= m + 1 /\ f + 1 <= m + 1
  BY ConnectionAssumption
<1>1. s \in Seq(Cells) /\ Len(s) = m - (g + 1) + 1
  BY <1>0, BytesFacts
<1>2. Len(s) = m - g /\ Len(s) > 0
  BY <1>0, <1>1
<1> HIDE DEF s
<1>3. Ring(x) /\ Content(x) = Bytes(f + 1, g) \o s
  BY <1>1, <1>2, PushBackNContent
<1>4. Content(x) = Bytes(f + 1, m)
  BY <1>0, <1>3, BytesJoined DEF s
<1> HIDE DEF x
<1>5. ~Empty(x)
  <2>1. Len(Content(x)) = m - (f + 1) + 1
    BY <1>0, <1>4, BytesFacts
  <2>2. Len(Content(x)) = Size(x) /\ (Empty(x) => Size(x) = 0)
    BY <1>3, ContentFacts DEF Size
  <2> QED
    BY <1>0, <2>1, <2>2
<1> QED
  BY <1>1, <1>2, <1>3, <1>4, <1>5 DEF s, x

(* The inductive invariant.  The bytes in the ring are those between the   *)
(* counters, so these bound each other; and as long as the loop thread is  *)
(* alone, what it has seen of the ring before a step is still so in it.    *)
Alone == ~shared => \A w \in Workers : worker[w] = "idle"

LoopKnows ==
  ~shared /\ failed = "none" =>
    /\ loop \in {"write", "arm"} => ~Empty(buf)
    /\ loop = "disarm" => Empty(buf)

IInv ==
  /\ TypeOK
  /\ Placed(buf) /\ wire <= given
  /\ StreamInOrder
  /\ PollOutIffPending
  /\ OnlyOtherThreadsFail
  /\ Alone
  /\ LoopKnows

LEMMA IInvFacts ==
  ASSUME IInv, failed = "none"
  PROVE  /\ Ring(buf) /\ Content(buf) = Bytes(wire + 1, given)
         /\ wire \in 0 .. MaxBytes /\ given \in 0 .. MaxBytes /\ wire <= given
         /\ wire \in Nat /\ given \in Nat /\ MaxBytes \in Nat /\ MaxSend \in Nat
         /\ Size(buf) = given - wire /\ (Empty(buf) <=> given = wire)
<1>1. /\ Ring(buf) /\ Content(buf) = Bytes(wire + 1, given)
      /\ wire \in 0 .. MaxBytes /\ given \in 0 .. MaxBytes /\ wire <= given
  BY DEF IInv, TypeOK, Ring, StreamInOrder
<1>2. wire \in Nat /\ given \in Nat /\ MaxBytes \in Nat /\ MaxSend \in Nat
  BY <1>1, ConnectionAssumption
<1>3. Len(Content(buf)) = given - wire
  <2>1. /\ wire + 1 \in Nat \ {0} /\ wire + 1 <= given + 1
        /\ given - (wire + 1) + 1 = given - wire
    BY <1>1, <1>2
  <2> QED
    BY <1>1, <2>1, BytesFacts
<1>4. Size(buf) = given - wire
  BY <1>1, <1>3, ContentFacts
<1>5. Empty(buf) <=> Size(buf) = 0
  BY <1>1, RingFacts, SizeBounds
<1> QED
  BY <1>1, <1>2, <1>4, <1>5

LEMMA InitInv == Init => IInv
<1> SUFFICES ASSUME Init PROVE IInv
  OBVIOUS
<1>1. Ring(buf) /\ Content(buf) = << >>
  BY NewContent DEF Init
<1>2. Empty(buf)
  BY PointersFields DEF Init, NewQueue, Stored, Empty, NoEnd
<1>3. TypeOK
  <2>1. IsQueue(buf) /\ 0 \in 0 .. MaxBytes
    BY <1>1, ConnectionAssumption DEF Ring
  <2>2. worker \in [Workers -> {"idle", "push", "enable", "wake"}]
    BY DEF Init
  <2> QED
    BY <2>1, <2>2 DEF Init, TypeOK
<1>4. Bytes(0 + 1, 0) = << >>
  <2>1. 0 + 1 \in Nat \ {0} /\ 0 \in 0 .. MaxBytes /\ 0 + 1 <= 0 + 1 /\ 0 - (0 + 1) + 1 = 0
    BY ConnectionAssumption
  <2>2. Bytes(0 + 1, 0) \in Seq(Cells) /\ Len(Bytes(0 + 1, 0)) = 0
    BY <2>1, BytesFacts
  <2> QED
    BY <2>2, EmptySeq
<1>5. StreamInOrder
  BY <1>1, <1>4 DEF Init, StreamInOrder
<1> QED
  BY <1>1, <1>2, <1>3, <1>5
  DEF Init, IInv, Ring, PollOutIffPending, OnlyOtherThreadsFail, Alone, LoopKnows

(* A step that changes neither the ring nor the counters keeps what is     *)
(* said of them.                                                           *)
LEMMA StreamKept ==
  ASSUME IInv, failed = "none", UNCHANGED <<given, wire, buf>>
  PROVE  StreamInOrder' /\ Placed(buf') /\ wire' <= given' /\ IsQueue(buf')
BY IInvFacts DEF StreamInOrder, Ring

(* The sends of the loop thread, which take n bytes and pass k of them on. *)
LEMMA SendBytesStep ==
  ASSUME IInv, NEW n \in 1 .. MaxSend, NEW k \in 0 .. n, SendBytes(n, k), asked' \in BOOLEAN
  PROVE  IInv'
<1>1. /\ failed = "none" /\ loop = "idle" /\ given + n <= MaxBytes /\ k \in SentAtOnce(n)
      /\ given' = given + n /\ wire' = wire + k
      /\ PushAndEnable(Bytes(given + k + 1, given + n))
      /\ UNCHANGED <<loop, worker, shared, cleared>>
  BY DEF SendBytes
<1>2. /\ Ring(buf) /\ Content(buf) = Bytes(wire + 1, given) /\ wire <= given
      /\ wire \in Nat /\ given \in Nat /\ MaxBytes \in Nat /\ MaxSend \in Nat
      /\ Size(buf) = given - wire /\ (Empty(buf) <=> given = wire)
  BY <1>1, IInvFacts
<1>3. n \in Nat \ {0} /\ k \in 0 .. n /\ (~Empty(buf) => k = 0)
  BY <1>1, <1>2 DEF SentAtOnce
<1> DEFINE f == wire + k
           g == given + k
           m == given + n
           s == Bytes(g + 1, m)
<1>4. /\ f \in Nat /\ g \in Nat /\ m \in 0 .. MaxBytes /\ f <= g /\ g <= m
      /\ wire' = f /\ given' = m /\ f \in 0 .. MaxBytes /\ g \in 0 .. MaxBytes
      /\ (k # 0 => given = wire) /\ g + 1 <= m + 1 /\ g + 1 \in Nat \ {0}
      /\ m - (g + 1) + 1 = n - k
  BY <1>1, <1>2, <1>3
<1>5. Content(buf) = Bytes(f + 1, g)
  <2>1. CASE k = 0
    BY <1>2, <2>1
  <2>2. CASE k # 0
    <3>1. wire = given /\ f + 1 \in Nat \ {0} /\ f + 1 <= g + 1 /\ g - (f + 1) + 1 = 0
      BY <1>2, <1>4, <2>2
    <3>2. wire + 1 \in Nat \ {0} /\ wire + 1 <= given + 1 /\ given - (wire + 1) + 1 = 0
          /\ given \in 0 .. MaxBytes
      BY <1>1, <1>2, <1>3, <3>1
    <3>3. Content(buf) \in Seq(Cells) /\ Len(Content(buf)) = 0
      BY <1>2, <3>2, BytesFacts
    <3> HIDE DEF f, g
    <3>4. Bytes(f + 1, g) \in Seq(Cells) /\ Len(Bytes(f + 1, g)) = 0
      BY <1>4, <3>1, BytesFacts
    <3> QED
      BY <3>3, <3>4, EmptySeq
  <2> QED
    BY <2>1, <2>2
<1> HIDE DEF f, g, m
<1>6. s \in Seq(Cells) /\ Len(s) = n - k
  BY <1>4, BytesFacts
<1>7. PushAndEnable(s)
  BY <1>1 DEF f, g, m
<1>8. (s = << >>) <=> g = m
  <2>1. n - k = 0 <=> g = m
    BY <1>2, <1>3 DEF g, m
  <2> QED
    BY <1>6, <2>1, EmptySeq
<1> DEFINE x == PushBackN(buf, s)
<1>9. g # m => /\ Ring(x) /\ ~Empty(x) /\ Content(x) = Bytes(f + 1, m)
  <2> SUFFICES ASSUME g # m PROVE Ring(x) /\ ~Empty(x) /\ Content(x) = Bytes(f + 1, m)
    OBVIOUS
  <2>1. g < m
    BY <1>4
  <2> QED
    BY <1>2, <1>4, <1>5, <2>1, BytesPushed
<1> HIDE DEF x, s
(* Nothing is pushed, the bytes are, or PushBack stops the process. *)
<1>10. \/ g = m /\ UNCHANGED <<buf, events, failed>>
       \/ g # m /\ buf' = x /\ events' = events \cup {POLLOUT} /\ UNCHANGED failed
       \/ failed' = "PushBack" /\ UNCHANGED <<buf, events>>
  BY <1>7, <1>8 DEF PushAndEnable, x
<1>11. Ring(buf') /\ (failed' = "none" => Content(buf') = Bytes(f + 1, m))
  BY <1>1, <1>2, <1>5, <1>9, <1>10
<1>12. StreamInOrder'
  BY <1>4, <1>11 DEF StreamInOrder
<1>13. TypeOK'
  <2>1. /\ given' \in 0 .. MaxBytes /\ wire' \in 0 .. MaxBytes /\ IsQueue(buf')
        /\ events' \subseteq {POLLOUT}
        /\ failed' \in {"none", "PushBack", "OnWriteEvent", "WakeUpLoop", "race"}
    BY <1>1, <1>4, <1>10, <1>11 DEF IInv, TypeOK, Ring
  <2> QED
    BY <1>1, <2>1 DEF IInv, TypeOK
<1>14. PollOutIffPending'
  BY <1>1, <1>9, <1>10 DEF IInv, PollOutIffPending
<1>15. OnlyOtherThreadsFail' /\ Alone' /\ LoopKnows'
  BY <1>1, <1>10 DEF IInv, OnlyOtherThreadsFail, Alone, LoopKnows
<1>16. Placed(buf') /\ wire' <= given'
  BY <1>4, <1>11 DEF Ring
<1> QED
  BY <1>12, <1>13, <1>14, <1>15, <1>16 DEF IInv

LEMMA WorkerPushedStep ==
  ASSUME IInv, NEW w \in Workers, NEW n \in 1 .. MaxSend, WorkerPushed(w, n)
  PROVE  IInv'
<1>1. /\ failed = "none" /\ worker[w] = "push" /\ given + n <= MaxBytes
      /\ given' = given + n
      /\ \/ /\ buf' = PushBackN(buf, Bytes(given + 1, given + n))
            /\ worker' = [worker EXCEPT ![w] = "enable"]
            /\ UNCHANGED failed
         \/ failed' = "PushBack" /\ UNCHANGED <<buf, worker>>
      /\ UNCHANGED <<wire, events, loop, asked, shared, cleared>>
  BY DEF WorkerPushed
<1>2. /\ Ring(buf) /\ Content(buf) = Bytes(wire + 1, given) /\ wire <= given
      /\ wire \in Nat /\ given \in Nat /\ MaxBytes \in Nat /\ MaxSend \in Nat
  BY <1>1, IInvFacts
<1>3. shared /\ shared'
  BY <1>1 DEF IInv, Alone
<1> DEFINE m == given + n
           x == PushBackN(buf, Bytes(given + 1, m))
<1>4. m \in 0 .. MaxBytes /\ given < m /\ wire <= m
  BY <1>1, <1>2
<1>5. given' = m
  BY <1>1
<1>6. \/ /\ buf' = x /\ worker' = [worker EXCEPT ![w] = "enable"]
         /\ UNCHANGED failed
      \/ failed' = "PushBack" /\ UNCHANGED <<buf, worker>>
  BY <1>1
<1> HIDE DEF m
<1>7. Ring(x) /\ Content(x) = Bytes(wire + 1, m)
  BY <1>2, <1>4, BytesPushed
<1> HIDE DEF x
<1>8. /\ IsQueue(buf') /\ Placed(buf')
      /\ failed' = "none" => Content(buf') = Bytes(wire + 1, m)
  BY <1>2, <1>6, <1>7 DEF Ring
<1>9. StreamInOrder'
  BY <1>1, <1>5, <1>8 DEF StreamInOrder
<1>10. worker' \in [Workers -> {"idle", "push", "enable", "wake"}]
       /\ failed' \in {"none", "PushBack"}
       /\ (failed' = "none" => worker'[w] = "enable")
  BY <1>1, <1>6 DEF IInv, TypeOK
<1>11. TypeOK'
  BY <1>1, <1>4, <1>5, <1>8, <1>10 DEF IInv, TypeOK
<1>12. PollOutIffPending'
  BY <1>3, <1>10 DEF PollOutIffPending
<1>13. OnlyOtherThreadsFail' /\ Alone' /\ LoopKnows' /\ wire' <= given'
  BY <1>1, <1>3, <1>4, <1>5 DEF OnlyOtherThreadsFail, Alone, LoopKnows
<1> QED
  BY <1>8, <1>9, <1>11, <1>12, <1>13 DEF IInv

LEMMA OnWriteEventStep ==
  ASSUME IInv, NEW k \in 0 .. MaxBytes, OnWriteEvent(k)
  PROVE  IInv'
<1>1. /\ failed = "none" /\ loop = "write"
      /\ UNCHANGED <<given, events, asked, worker, shared, cleared>>
  BY DEF OnWriteEvent
<1>2. /\ Ring(buf) /\ Content(buf) = Bytes(wire + 1, given) /\ wire <= given
      /\ wire \in Nat /\ given \in Nat /\ given \in 0 .. MaxBytes /\ MaxBytes \in Nat
      /\ Size(buf) = given - wire /\ (Empty(buf) <=> given = wire)
  BY <1>1, IInvFacts
<1>3. CASE Empty(buf)
  <2>1. failed' = "OnWriteEvent" /\ UNCHANGED <<wire, buf, loop>>
    BY <1>3 DEF OnWriteEvent
  <2>2. shared
    BY <1>1, <1>3 DEF IInv, LoopKnows
  <2>3. /\ TypeOK' /\ Placed(buf') /\ wire' <= given' /\ StreamInOrder' /\ PollOutIffPending'
        /\ OnlyOtherThreadsFail' /\ Alone' /\ LoopKnows'
    BY <1>1, <2>1, <2>2
    DEF IInv, TypeOK, StreamInOrder, PollOutIffPending, OnlyOtherThreadsFail, Alone, LoopKnows
  <2> QED
    BY <2>3 DEF IInv
<1>4. CASE ~Empty(buf)
  <2>1. /\ k \in 0 .. (IF Folded(buf) THEN FoldedHead(buf) ELSE Size(buf))
        /\ wire' = wire + k /\ buf' = (IF k = 0 THEN buf ELSE DropFront(buf, k))
        /\ loop' = "drained" /\ UNCHANGED failed
    BY <1>4 DEF OnWriteEvent
  <2>2. k \in 0 .. given - wire
    <3>1. PartsAddUp(buf)
      BY <1>2, RingFacts, GoodSizes
    <3>2. Folded(buf) => FoldedHead(buf) \in Int /\ FoldedHead(buf) <= Size(buf)
      <4>1. Folded(buf) => /\ FoldedHead(buf) > 0 /\ FoldedHead(buf) + FoldedTail(buf) = Size(buf)
                           /\ FoldedHead(buf) = buf.cap - buf.begin /\ FoldedTail(buf) = buf.end
        BY <3>1 DEF PartsAddUp, FoldedHead, FoldedTail
      <4>2. ~Empty(buf) => buf.end \in Nat
        BY <1>2 DEF Ring, IsQueue, Empty
      <4>3. buf.cap - buf.begin \in Int
        BY <1>2, RingFacts
      <4> QED
        BY <1>2, <1>4, <4>1, <4>2, <4>3
    <3>3. CASE Folded(buf)
      BY <1>2, <2>1, <3>2, <3>3
    <3>4. CASE ~Folded(buf)
      BY <1>2, <2>1, <3>4
    <3> QED
      BY <3>3, <3>4
  <2>3. Ring(buf') /\ Content(buf') = Bytes(wire + k + 1, given)
    <3>1. CASE k = 0
      BY <1>2, <2>1, <3>1
    <3>2. CASE k # 0
      <4>1. k \in 1 .. Size(buf) /\ k \in 0 .. given - (wire + 1) + 1
            /\ given - (wire + 1) + 1 = Size(buf) /\ wire + 1 \in Nat \ {0}
            /\ wire + 1 <= given + 1 /\ (wire + 1) + k = wire + k + 1
        BY <1>2, <2>2, <3>2
      <4>2. Ring(DropFront(buf, k))
            /\ Content(DropFront(buf, k)) = SubSeq(Content(buf), k + 1, Size(buf))
        BY <1>2, <4>1, DropFrontContent
      <4>3. SubSeq(Bytes(wire + 1, given), k + 1, given - (wire + 1) + 1)
              = Bytes((wire + 1) + k, given)
        BY <1>2, <4>1, BytesDropped
      <4> QED
        BY <1>2, <2>1, <3>2, <4>1, <4>2, <4>3
    <3> QED
      BY <3>1, <3>2
  <2>4. wire' \in 0 .. MaxBytes /\ wire' <= given'
    BY <1>1, <1>2, <2>1, <2>2
  <2>5. StreamInOrder' /\ Placed(buf')
    BY <1>1, <2>1, <2>3 DEF StreamInOrder, Ring
  <2>6. TypeOK'
    BY <1>1, <2>1, <2>3, <2>4 DEF IInv, TypeOK, Ring
  <2>7. PollOutIffPending' /\ OnlyOtherThreadsFail' /\ Alone' /\ LoopKnows'
    BY <1>1, <2>1 DEF IInv, PollOutIffPending, OnlyOtherThreadsFail, Alone, LoopKnows
  <2> QED
    BY <2>4, <2>5, <2>6, <2>7 DEF IInv
<1> QED
  BY <1>3, <1>4

(* The steps that leave the ring and the counters alone. *)
LEMMA OtherStep ==
  ASSUME IInv, failed = "none", UNCHANGED <<given, wire, buf>>,
         \/ \E w \in Workers : WorkerPush(w) \/ WorkerEnable(w) \/ WorkerWake(w)
         \/ DataRace \/ Close \/ HandleEvents \/ CheckEmpty \/ ReArm \/ ActOnClosing
  PROVE  IInv'
<1>0. StreamInOrder' /\ Placed(buf') /\ wire' <= given' /\ IsQueue(buf')
  BY StreamKept
<1>i. /\ TypeOK /\ PollOutIffPending /\ OnlyOtherThreadsFail /\ Alone /\ LoopKnows
      /\ (Empty(buf) <=> Empty(buf'))
  BY DEF IInv
<1>1. ASSUME NEW w \in Workers, WorkerPush(w) PROVE IInv'
  <2>1. worker[w] = "idle" /\ worker' = [worker EXCEPT ![w] = "push"] /\ shared'
    BY <1>1 DEF WorkerPush
  <2>2. TypeOK'
    BY <1>0, <1>1, <1>i, <2>1 DEF WorkerPush, TypeOK
  <2>3. \A u \in Workers : worker[u] = "enable" => worker'[u] = "enable"
    BY <1>i, <2>1 DEF TypeOK
  <2>4. PollOutIffPending'
    BY <1>1, <1>i, <2>1, <2>3 DEF WorkerPush, PollOutIffPending
  <2> QED
    BY <1>0, <2>1, <2>2, <2>4 DEF IInv, OnlyOtherThreadsFail, Alone, LoopKnows
<1>2. ASSUME NEW w \in Workers, WorkerEnable(w) PROVE IInv'
  <2>1. /\ worker[w] = "enable" /\ worker' = [worker EXCEPT ![w] = "wake"]
        /\ events' = events \cup {POLLOUT} /\ UNCHANGED <<loop, asked, failed, shared, cleared>>
    BY <1>2 DEF WorkerEnable
  <2>2. shared
    BY <1>i, <2>1 DEF Alone
  <2>3. TypeOK'
    BY <1>0, <1>i, <2>1 DEF TypeOK
  <2> QED
    BY <1>0, <1>i, <2>1, <2>2, <2>3
    DEF IInv, PollOutIffPending, OnlyOtherThreadsFail, Alone, LoopKnows
<1>3. ASSUME NEW w \in Workers, WorkerWake(w) PROVE IInv'
  <2>1. /\ worker[w] = "wake" /\ worker' = [worker EXCEPT ![w] = "idle"]
        /\ failed' \in {"WakeUpLoop", "none"} /\ UNCHANGED <<events, loop, asked, shared, cleared>>
    BY <1>3 DEF WorkerWake
  <2>2. shared
    BY <1>i, <2>1 DEF Alone
  <2>3. TypeOK'
    BY <1>0, <1>i, <2>1 DEF TypeOK
  <2>4. \A u \in Workers : worker[u] = "enable" => worker'[u] = "enable"
    BY <1>i, <2>1 DEF TypeOK
  <2>5. PollOutIffPending'
    BY <1>i, <2>1, <2>2, <2>4 DEF PollOutIffPending
  <2> QED
    BY <1>0, <2>1, <2>2, <2>3, <2>5 DEF IInv, OnlyOtherThreadsFail, Alone, LoopKnows
<1>4. CASE DataRace
  <2>1. failed' = "race" /\ UNCHANGED <<events, loop, asked, worker, shared, cleared>> /\ shared
    BY <1>4, <1>i DEF DataRace, Pushing, Alone
  <2> QED
    BY <1>0, <1>i, <2>1
    DEF IInv, TypeOK, PollOutIffPending, OnlyOtherThreadsFail, Alone, LoopKnows
<1>5. CASE Close
  BY <1>0, <1>5, <1>i
  DEF Close, IInv, TypeOK, PollOutIffPending, OnlyOtherThreadsFail, Alone, LoopKnows
<1>6. CASE HandleEvents
  <2>1. /\ loop = "idle" /\ loop' \in {"write", "closing"}
        /\ (loop' = "write" => POLLOUT \in events)
        /\ UNCHANGED <<events, asked, worker, failed, shared, cleared>>
    BY <1>6 DEF HandleEvents
  <2>2. loop' = "write" /\ ~shared => ~Empty(buf)
    BY <1>i, <2>1 DEF PollOutIffPending
  <2>3. TypeOK'
    BY <1>0, <1>i, <2>1 DEF TypeOK
  <2> QED
    BY <1>0, <1>i, <2>1, <2>2, <2>3
    DEF IInv, PollOutIffPending, OnlyOtherThreadsFail, Alone, LoopKnows
<1>7. CASE CheckEmpty
  <2>1. /\ loop = "drained" /\ loop' = (IF Empty(buf) THEN "disarm" ELSE "arm")
        /\ UNCHANGED <<events, asked, worker, failed, shared, cleared>>
    BY <1>7 DEF CheckEmpty
  <2>2. TypeOK'
    BY <1>0, <1>i, <2>1 DEF TypeOK
  <2> QED
    BY <1>0, <1>i, <2>1, <2>2
    DEF IInv, PollOutIffPending, OnlyOtherThreadsFail, Alone, LoopKnows
<1>8. CASE ReArm
  <2>1. /\ loop \in {"arm", "disarm"} /\ loop' = "closing"
        /\ events' = (IF loop = "arm" THEN events \cup {POLLOUT} ELSE events \ {POLLOUT})
        /\ cleared' = (cleared \/ (loop = "disarm" /\ ~Empty(buf)))
        /\ UNCHANGED <<asked, worker, failed, shared>>
    BY <1>8 DEF ReArm
  <2>2. TypeOK'
    BY <1>0, <1>i, <2>1 DEF TypeOK
  <2>3. OnlyOtherThreadsFail'
    BY <1>i, <2>1 DEF OnlyOtherThreadsFail, LoopKnows
  <2>4. PollOutIffPending'
    BY <1>i, <2>1 DEF PollOutIffPending, LoopKnows
  <2> QED
    BY <1>0, <1>i, <2>1, <2>2, <2>3, <2>4 DEF IInv, Alone, LoopKnows
<1>9. CASE ActOnClosing
  <2>1. /\ loop = "closing" /\ loop' \in {"closed", "idle"}
        /\ UNCHANGED <<events, asked, worker, failed, shared, cleared>>
    BY <1>9 DEF ActOnClosing
  <2>2. TypeOK'
    BY <1>0, <1>i, <2>1 DEF TypeOK
  <2> QED
    BY <1>0, <1>i, <2>1, <2>2
    DEF IInv, PollOutIffPending, OnlyOtherThreadsFail, Alone, LoopKnows
<1> QED
  BY <1>1, <1>2, <1>3, <1>4, <1>5, <1>6, <1>7, <1>8, <1>9

LEMMA StepInv == IInv /\ [Next]_vars => IInv'
<1> SUFFICES ASSUME IInv, [Next]_vars PROVE IInv'
  OBVIOUS
<1>1. ASSUME NEW n \in 1 .. MaxSend, NEW k \in 0 .. n, Send(n, k) \/ Respond(n, k) PROVE IInv'
  <2>1. SendBytes(n, k) /\ asked' \in BOOLEAN
    BY <1>1 DEF Send, Respond, IInv, TypeOK
  <2> QED
    BY <2>1, SendBytesStep
<1>2. ASSUME NEW w \in Workers, NEW n \in 1 .. MaxSend, WorkerPushed(w, n) PROVE IInv'
  BY <1>2, WorkerPushedStep
<1>3. ASSUME NEW k \in 0 .. MaxBytes, OnWriteEvent(k) PROVE IInv'
  BY <1>3, OnWriteEventStep
<1>4. ASSUME NEW w \in Workers, WorkerPush(w) \/ WorkerEnable(w) \/ WorkerWake(w) PROVE IInv'
  <2>1. failed = "none" /\ UNCHANGED <<given, wire, buf>>
    BY <1>4 DEF WorkerPush, WorkerEnable, WorkerWake
  <2> QED
    BY <1>4, <2>1, OtherStep
<1>5. CASE DataRace \/ Close \/ HandleEvents \/ CheckEmpty \/ ReArm \/ ActOnClosing
  <2>1. failed = "none" /\ UNCHANGED <<given, wire, buf>>
    BY <1>5 DEF DataRace, Close, HandleEvents, CheckEmpty, ReArm, ActOnClosing
  <2> QED
    BY <1>5, <2>1, OtherStep
<1>6. CASE UNCHANGED vars
  BY <1>6 DEF vars, IInv, TypeOK, StreamInOrder, PollOutIffPending, OnlyOtherThreadsFail, Alone,
              LoopKnows
<1> QED
  BY <1>1, <1>2, <1>3, <1>4, <1>5, <1>6 DEF Next

THEOREM Invariance == Spec => []IInv
BY InitInv, StepInv, PTL DEF Spec

(* What send(2) has taken and what waits in mWriteBuf is what SendBytes    *)
(* was given, in order, for any number of bytes, calls and threads: through*)
(* direct and partial writes, through the folds, the growth and the drops  *)
(* of the ring, as long as no two threads are at it at once.               *)
THEOREM StreamAlwaysInOrder == Spec => []StreamInOrder
<1>1. IInv => StreamInOrder
  BY DEF IInv
<1> QED
  BY <1>1, Invariance, PTL

(* POLLOUT is on, or about to be, while bytes wait, and on only then when  *)
(* the loop thread alone sends; no assertion of OnWriteEvent or WakeUpLoop *)
(* fails, and no POLLOUT is taken from bytes that wait, before another     *)
(* thread has sent.                                                        *)
THEOREM ConnectionIsSound == Spec => []Inv
<1>1. IInv => Inv
  BY DEF IInv, Inv
<1> QED
  BY <1>1, Invariance, PTL
=============================================================================
