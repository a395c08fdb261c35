------------------------------ MODULE DataArray ------------------------------
(***************************************************************************)
(* The growable array DataArray<T>.  An array is one record; an operation  *)
(* maps the array before the call to the array after it.  mStorBegin is 0, *)
(* mStorEnd is cap and mEnd is size; a cell nothing was stored in holds    *)
(* Junk.                                                                   *)
(*                                                                         *)
(* Insert and Remove move cells one at a time: XStores is what their       *)
(* loops store, a function on offsets, and XLoads the offsets they read.   *)
(***************************************************************************)
EXTENDS Integers, Sequences

CONSTANT Junk

Array(c, n) == [cap |-> c, size |-> n, mem |-> [k \in 0 .. c - 1 |-> Junk]]

Cells(a) == DOMAIN a.mem
Cell(a, k) == IF k \in Cells(a) THEN a.mem[k] ELSE Junk

(* What is left of the stores f in the storage. *)
Store(a, f) == [a EXCEPT !.mem = [k \in Cells(a) |-> IF k \in DOMAIN f THEN f[k] ELSE @[k]]]

(* A copy of the first n cells of b in new storage of c cells. *)
Moved(b, n, c) == Store(Array(c, n), [k \in 0 .. n - 1 |-> b.mem[k]])

Content(a) == [k \in 1 .. a.size |-> a.mem[k - 1]]

(* `while (c < n) c *= 2;`: the first of c, 2c, 4c... that is at least n. *)
Doubled(c, n) ==
  LET d[k \in 0 .. n] == IF k = 0 THEN c ELSE 2 * d[k - 1]
  IN  d[CHOOSE k \in 0 .. n : d[k] >= n /\ (k = 0 \/ d[k - 1] < n)]

(* DataArray(size), DataArray(size, v), DataArray(buf, len) and the copies. *)
OfSize(n) == Array(Doubled(4, n), n)
OfCopies(n, v) == Store(OfSize(n), [k \in 0 .. n - 1 |-> v])
OfSequence(s) == Store(Array(Doubled(1, Len(s)), Len(s)), [k \in 0 .. Len(s) - 1 |-> s[k + 1]])
Copy(b) == Moved(b, b.size, b.cap)
Assign(a, b) ==
  IF a.cap < b.size THEN Copy(b)
  ELSE [Store(a, [k \in 0 .. b.size - 1 |-> b.mem[k]]) EXCEPT !.size = b.size]

(* A capacity below the size is refused. *)
AdjustCapacity(a, c) ==
  IF c < a.size \/ c = a.cap THEN a ELSE Moved(a, a.size, IF c > 0 THEN c ELSE 1)

Resize(a, n) ==
  [AdjustCapacity(a, Doubled(IF a.cap = 0 THEN 1 ELSE a.cap, n)) EXCEPT !.size = n]

Clear(a) == [a EXCEPT !.size = 0]

FindIdx(a, e) ==
  LET found == {k \in 0 .. a.size - 1 : a.mem[k] = e}
  IN  IF found = {} THEN -1 ELSE CHOOSE k \in found : \A j \in found : k <= j

(* Insert(i, e): its loop starts from the new size, one cell too far.      *)
InsertStores(a, i, e) ==
  LET b == Resize(a, a.size + 1)
  IN  [k \in i .. b.size |-> IF k = i THEN e ELSE Cell(b, k - 1)]
InsertLoads(a, i) == i - 1 .. a.size

Insert(a, i, e) ==
  IF i > a.size THEN a ELSE Store(Resize(a, a.size + 1), InsertStores(a, i, e))

(* Mutant: the elements that make room move one cell less. *)
InsertAllStoresShort(a, i, s) ==
  [k \in i .. a.size + Len(s) - 1 |->
     IF k < i + Len(s) THEN s[k - i + 1] ELSE Cell(Resize(a, a.size + Len(s)), k - Len(s) + 1)]

(* Insert(i, buf, len), of at least one element. *)
InsertAllStores(a, i, s) ==
  [k \in i .. a.size + Len(s) - 1 |->
     IF k < i + Len(s) THEN s[k - i + 1] ELSE Cell(Resize(a, a.size + Len(s)), k - Len(s))]
InsertAllLoads(a, i) == IF i < a.size THEN i - 1 .. a.size - 1 ELSE {}

InsertAll(a, i, s) ==
  IF i > a.size THEN a ELSE Store(Resize(a, a.size + Len(s)), InsertAllStores(a, i, s))

(* Remove(from, to), whose loop also moves the cell past the last element. *)
RemoveStores(a, from, to) ==
  [k \in from .. from + a.size - to |-> Cell(a, k - from + to)]
RemoveLoads(a, to) == to .. a.size

Remove(a, from, to) ==
  IF to < from \/ to > a.size THEN a
  ELSE [Store(a, RemoveStores(a, from, to)) EXCEPT !.size = @ - (to - from)]

Swap(a, i, j) ==
  IF i >= a.size \/ j >= a.size THEN a
  ELSE Store(a, [k \in {i, j} |-> IF k = i THEN a.mem[j] ELSE a.mem[i]])

(* Push(e) and Push(buf, n). *)
Push(a, e) ==
  LET b == IF a.size < a.cap THEN a
           ELSE AdjustCapacity(a, IF a.cap = 0 THEN 1 ELSE 2 * a.cap)
  IN  [Store(b, [k \in {b.size} |-> e]) EXCEPT !.size = @ + 1]

PushAll(a, s) ==
  LET b == IF a.size + Len(s) <= a.cap THEN a ELSE AdjustCapacity(a, 2 * (a.size + Len(s)))
  IN  [Store(b, [k \in b.size .. b.size + Len(s) - 1 |-> s[k - b.size + 1]])
         EXCEPT !.size = @ + Len(s)]

Pop(a) == IF a.size = 0 THEN a ELSE [a EXCEPT !.size = @ - 1]

-----------------------------------------------------------------------------

Seqs == INSTANCE SequencesExt

(* Each operation does to the elements what its name says of a sequence.   *)
EditsAgree(a, s) ==
  LET c == Content(a)
      n == a.size
  IN  /\ Content(Copy(a)) = c /\ Content(Assign(OfSequence(s), a)) = c
      /\ Content(OfCopies(n, s[1])) = [k \in 1 .. n |-> s[1]]
      /\ Content(PushAll(Clear(a), s)) = s
      /\ \A m \in 0 .. a.cap + 1 :
           /\ Content(AdjustCapacity(a, m)) = c
           /\ \A k \in 1 .. n : k <= m => Content(Resize(a, m))[k] = c[k]
      /\ \A i \in 0 .. n :
           /\ Content(Insert(a, i, s[1])) = Seqs!InsertAt(c, i + 1, s[1])
           /\ Content(InsertAll(a, i, s)) = SubSeq(c, 1, i) \o s \o SubSeq(c, i + 1, n)
           /\ \A j \in i .. n : Content(Remove(a, i, j)) = SubSeq(c, 1, i) \o SubSeq(c, j + 1, n)
      /\ \A i, j \in 0 .. n - 1 :
           LET d == Content(Swap(a, i, j))
           IN  d[i + 1] = c[j + 1] /\ d[j + 1] = c[i + 1] /\ \A k \in 1 .. n : k \in {i + 1, j + 1} \/ d[k] = c[k]
      /\ Content(Push(a, s[1])) = Append(c, s[1])
      /\ Content(PushAll(a, s)) = c \o s
      /\ n > 0 => Content(Pop(a)) = Seqs!Front(c)
      /\ LET k == FindIdx(a, s[1])
         IN  IF k = -1 THEN ~Seqs!Contains(c, s[1])
             ELSE c[k + 1] = s[1] /\ ~Seqs!Contains(SubSeq(c, 1, k), s[1])

Outside(a, offsets) == {k \in offsets : k \notin Cells(a)}

(* A loop stores outside the storage only in the cell behind it, and only  *)
(* when Insert fills the array or Remove removes nothing from a full one;  *)
(* it reads one cell more at either end.                                   *)
StraysAreKnown(a, s) ==
  LET n == a.size
      one == Resize(a, n + 1)
      more == Resize(a, n + Len(s))
      full == n = a.cap
  IN  \A i \in 0 .. n :
        /\ Outside(one, DOMAIN InsertStores(a, i, s[1])) = IF one.size = one.cap THEN {one.cap} ELSE {}
        /\ Outside(one, InsertLoads(a, i)) \subseteq {-1}
        /\ Outside(more, DOMAIN InsertAllStores(a, i, s)) = {}
        /\ Outside(more, InsertAllLoads(a, i)) \subseteq {-1}
        /\ \A j \in i .. n :
             /\ Outside(a, DOMAIN RemoveStores(a, i, j)) = IF full /\ i = j THEN {a.cap} ELSE {}
             /\ Outside(a, RemoveLoads(a, j)) = IF full THEN {a.cap} ELSE {}

=============================================================================
