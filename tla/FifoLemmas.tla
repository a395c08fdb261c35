----------------------------- MODULE FifoLemmas -----------------------------
(***************************************************************************)
(* What a push and a pop do to a queue q whose elements are numbered in    *)
(* the order they are pushed, and to the sequence r of those that have     *)
(* left it: r \o q is the sequence of the numbers.  What popping the free  *)
(* stack of an event loop does.  And the functions that an iteration, or a *)
(* recursion that goes upwards, defines.                                   *)
(***************************************************************************)
EXTENDS Integers, Sequences, SequenceTheorems, WellFoundedInduction, FiniteSetTheorems, TLAPS

(* An element moved from the front of the queue is still there, once. *)
LEMMA PopKeepsOrder ==
  ASSUME NEW S, NEW r \in Seq(S), NEW q \in Seq(S), q # << >>
  PROVE  /\ Append(r, Head(q)) \o Tail(q) = r \o q
         /\ Append(r, Head(q)) \in Seq(S)
         /\ Tail(q) \in Seq(S)
<1>1. Head(q) \in S /\ Tail(q) \in Seq(S) /\ Len(Tail(q)) = Len(q) - 1
      /\ \A i \in 1 .. Len(Tail(q)) : Tail(q)[i] = q[i + 1]
  BY HeadTailProperties
<1>2. Head(q) = q[1] /\ Len(q) \in Nat \ {0} /\ Len(r) \in Nat
  BY EmptySeq, LenProperties
<1> DEFINE a == Append(r, Head(q))
<1>3. /\ a \in Seq(S) /\ Len(a) = Len(r) + 1
      /\ \A i \in 1 .. Len(r) : a[i] = r[i]
      /\ a[Len(r) + 1] = Head(q)
  BY <1>1, <1>2
<1>4. /\ a \o Tail(q) \in Seq(S) /\ Len(a \o Tail(q)) = Len(r) + Len(q)
      /\ \A i \in 1 .. Len(r) + Len(q) :
           (a \o Tail(q))[i] = IF i <= Len(r) + 1 THEN a[i] ELSE Tail(q)[i - (Len(r) + 1)]
  <2> HIDE DEF a
  <2>1. Len(a) + Len(Tail(q)) = Len(r) + Len(q)
    BY <1>1, <1>2, <1>3
  <2>2. /\ a \o Tail(q) \in Seq(S)
        /\ Len(a \o Tail(q)) = Len(a) + Len(Tail(q))
        /\ \A i \in 1 .. Len(a) + Len(Tail(q)) :
             (a \o Tail(q))[i] = IF i <= Len(a) THEN a[i] ELSE Tail(q)[i - Len(a)]
    BY <1>1, <1>3, ConcatProperties
  <2> QED
    BY <1>3, <2>1, <2>2
<1>5. /\ r \o q \in Seq(S) /\ Len(r \o q) = Len(r) + Len(q)
      /\ \A i \in 1 .. Len(r) + Len(q) :
           (r \o q)[i] = IF i <= Len(r) THEN r[i] ELSE q[i - Len(r)]
  BY ConcatProperties
<1>6. ASSUME NEW i \in 1 .. Len(r) + Len(q) PROVE (a \o Tail(q))[i] = (r \o q)[i]
  <2> HIDE DEF a
  <2>1. CASE i <= Len(r)
    BY <2>1, <1>2, <1>3, <1>4, <1>5
  <2>2. CASE i = Len(r) + 1
    <3>1. i - Len(r) = 1
      BY <2>2, <1>2
    <3> QED
      BY <2>2, <3>1, <1>2, <1>3, <1>4, <1>5
  <2>3. CASE i > Len(r) + 1
    <3> DEFINE j == i - (Len(r) + 1)
    <3>1. j \in 1 .. Len(Tail(q)) /\ j + 1 = i - Len(r)
      BY <2>3, <1>1, <1>2
    <3>2. Tail(q)[j] = q[i - Len(r)]
      BY <3>1, <1>1
    <3> QED
      BY <2>3, <3>2, <1>2, <1>4, <1>5
  <2> QED
    BY <2>1, <2>2, <2>3, <1>2, <1>4, <1>5
<1>7. a \o Tail(q) = r \o q
  <2> HIDE DEF a
  <2> QED
    BY <1>4, <1>5, <1>6, SeqEqual
<1> QED
  BY <1>1, <1>3, <1>7

(* An element pushed comes after all that were pushed before it. *)
LEMMA PushKeepsOrder ==
  ASSUME NEW S, NEW r \in Seq(S), NEW q \in Seq(S), NEW e \in S
  PROVE  r \o Append(q, e) = Append(r \o q, e)
<1> DEFINE a == Append(q, e)
           b == Append(r \o q, e)
<1>1. /\ a \in Seq(S) /\ Len(a) = Len(q) + 1
      /\ \A i \in 1 .. Len(q) : a[i] = q[i]
      /\ a[Len(q) + 1] = e
  OBVIOUS
<1>2. Len(r) \in Nat /\ Len(q) \in Nat
  BY LenProperties
<1>3. /\ r \o q \in Seq(S) /\ Len(r \o q) = Len(r) + Len(q)
      /\ \A i \in 1 .. Len(r) + Len(q) :
           (r \o q)[i] = IF i <= Len(r) THEN r[i] ELSE q[i - Len(r)]
  BY ConcatProperties
<1>4. /\ b \in Seq(S) /\ Len(b) = Len(r \o q) + 1
      /\ \A i \in 1 .. Len(r \o q) : b[i] = (r \o q)[i]
      /\ b[Len(r \o q) + 1] = e
  <2> DEFINE c == r \o q
  <2>1. c \in Seq(S)
    BY <1>3
  <2> HIDE DEF c
  <2>2. /\ Append(c, e) \in Seq(S) /\ Len(Append(c, e)) = Len(c) + 1
        /\ \A i \in 1 .. Len(c) : Append(c, e)[i] = c[i]
        /\ Append(c, e)[Len(c) + 1] = e
    BY <2>1
  <2> QED
    BY <2>2 DEF c
<1>5. /\ r \o a \in Seq(S) /\ Len(r \o a) = Len(r) + Len(q) + 1
      /\ \A i \in 1 .. Len(r) + Len(q) + 1 :
           (r \o a)[i] = IF i <= Len(r) THEN r[i] ELSE a[i - Len(r)]
  <2> HIDE DEF a
  <2>1. /\ r \o a \in Seq(S)
        /\ Len(r \o a) = Len(r) + Len(a)
        /\ \A i \in 1 .. Len(r) + Len(a) :
             (r \o a)[i] = IF i <= Len(r) THEN r[i] ELSE a[i - Len(r)]
    BY <1>1, ConcatProperties
  <2>2. Len(r) + Len(a) = Len(r) + Len(q) + 1
    BY <1>1, <1>2
  <2> QED
    BY <2>1, <2>2
<1>6. ASSUME NEW i \in 1 .. Len(r) + Len(q) + 1 PROVE (r \o a)[i] = b[i]
  <2> HIDE DEF a, b
  <2>1. CASE i <= Len(r)
    <3>1. i \in 1 .. Len(r) + Len(q)
      BY <2>1, <1>2
    <3>2. (r \o a)[i] = r[i]
      BY <2>1, <1>5
    <3>3. b[i] = r[i]
      BY <2>1, <3>1, <1>3, <1>4
    <3> QED
      BY <3>2, <3>3
  <2>2. CASE i > Len(r) /\ i <= Len(r) + Len(q)
    <3>1. i - Len(r) \in 1 .. Len(q) /\ i \in 1 .. Len(r) + Len(q) /\ ~(i <= Len(r))
      BY <2>2, <1>2
    <3>2. (r \o a)[i] = q[i - Len(r)]
      BY <3>1, <1>1, <1>5
    <3>3. b[i] = q[i - Len(r)]
      BY <3>1, <1>3, <1>4
    <3> QED
      BY <3>2, <3>3
  <2>3. CASE i = Len(r) + Len(q) + 1
    <3>1. i - Len(r) = Len(q) + 1 /\ ~(i <= Len(r))
      BY <2>3, <1>2
    <3>2. (r \o a)[i] = e
      BY <3>1, <1>1, <1>5
    <3>3. b[i] = e
      BY <2>3, <1>3, <1>4
    <3> QED
      BY <3>2, <3>3
  <2>4. i <= Len(r) \/ (i > Len(r) /\ i <= Len(r) + Len(q)) \/ i = Len(r) + Len(q) + 1
    BY <1>2
  <2> QED
    BY <2>1, <2>2, <2>3, <2>4
<1> QED
  <2>1. r \o a = b
    <3> HIDE DEF a, b
    <3> QED
      BY <1>3, <1>4, <1>5, <1>6, SeqEqual
  <2> QED
    BY <2>1

(* The numbers from 1 - k on, with one more. *)
LEMMA NextNumber ==
  ASSUME NEW k \in {0, 1}, NEW n \in Nat
  PROVE  Append([i \in 1 .. n |-> i - k], n + 1 - k) = [i \in 1 .. n + 1 |-> i - k]
<1> DEFINE s == [i \in 1 .. n |-> i - k]
           f == [i \in 1 .. n + 1 |-> i - k]
           e == n + 1 - k
<1>1. s \in Seq(Int) /\ Len(s) = n /\ e \in Int /\ \A i \in 1 .. n : s[i] = i - k
  OBVIOUS
<1>2. f \in Seq(Int) /\ Len(f) = n + 1 /\ \A i \in 1 .. n + 1 : f[i] = i - k
  OBVIOUS
<1>3. /\ Append(s, e) \in Seq(Int) /\ Len(Append(s, e)) = n + 1
      /\ \A i \in 1 .. n : Append(s, e)[i] = s[i]
      /\ Append(s, e)[n + 1] = e
  <2> HIDE DEF s, e
  <2> QED
    BY <1>1
<1>4. ASSUME NEW i \in 1 .. n + 1 PROVE Append(s, e)[i] = f[i]
  <2> HIDE DEF s, f
  <2>1. i \in 1 .. n \/ i = n + 1
    OBVIOUS
  <2>2. CASE i \in 1 .. n
    BY <2>2, <1>1, <1>2, <1>3
  <2>3. CASE i = n + 1
    BY <2>3, <1>2, <1>3
  <2> QED
    BY <2>1, <2>2, <2>3
<1> QED
  <2>1. Append(s, e) = f
    <3> HIDE DEF s, f, e
    <3> QED
      BY <1>2, <1>3, <1>4, SeqEqual
  <2> QED
    BY <2>1

(* Popping a stack of indices leaves its other entries where they were. *)
LEMMA PopFacts ==
  ASSUME NEW s \in Seq(Nat), s # << >>
  PROVE  /\ Len(s) \in Nat \ {0}
         /\ SubSeq(s, 1, Len(s) - 1) \in Seq(Nat)
         /\ Len(SubSeq(s, 1, Len(s) - 1)) = Len(s) - 1
         /\ \A j \in 1 .. Len(s) - 1 : SubSeq(s, 1, Len(s) - 1)[j] = s[j]
<1>1. Len(s) \in Nat \ {0}
  BY EmptySeq
<1> DEFINE k == Len(s) - 1
<1>2. k \in Int /\ 1 \in Int /\ \A i \in 1 .. k : s[i] \in Nat
  BY <1>1
<1>3. /\ SubSeq(s, 1, k) \in Seq(Nat)
      /\ Len(SubSeq(s, 1, k)) = IF 1 <= k THEN k - 1 + 1 ELSE 0
      /\ \A j \in 1 .. k - 1 + 1 : SubSeq(s, 1, k)[j] = s[1 + j - 1]
  <2> HIDE DEF k
  <2> QED
    BY <1>2, SubSeqProperties
<1> DEFINE r == SubSeq(s, 1, k)
<1>4. /\ r \in Seq(Nat)
      /\ Len(r) = Len(s) - 1
      /\ \A j \in 1 .. Len(s) - 1 : r[j] = s[j]
  <2>1. /\ r \in Seq(Nat)
        /\ Len(r) = IF 1 <= k THEN k - 1 + 1 ELSE 0
        /\ \A j \in 1 .. k - 1 + 1 : r[j] = s[1 + j - 1]
    BY <1>3
  <2> HIDE DEF r
  <2>2. Len(r) = Len(s) - 1
    <3>1. k \in Nat
      BY <1>1
    <3>2. Len(r) = IF 1 <= k THEN k - 1 + 1 ELSE 0
      BY <2>1
    <3>3. Len(r) = k
      <4> HIDE DEF k
      <4> QED
        BY <3>1, <3>2
    <3> QED
      BY <3>3
  <2>3. ASSUME NEW j \in 1 .. Len(s) - 1 PROVE r[j] = s[j]
    <3>1. j \in 1 .. k - 1 + 1 /\ 1 + j - 1 = j
      BY <1>1
    <3> QED
      BY <3>1, <2>1
  <2> QED
    BY <2>1, <2>2, <2>3
<1> QED
  BY <1>1, <1>4

(* A set of natural numbers has a least one: a statement about all of them *)
(* can be proved from its least counterexample.                             *)
LEMMA HasLeast ==
  ASSUME NEW T \in SUBSET Nat, T # {}
  PROVE  \E x \in T : \A y \in T : x <= y
<1>1. PICK t \in T : TRUE
  OBVIOUS
<1> DEFINE S == 1 .. t
           F == {1 .. k : k \in {j \in T : j <= t}}
           R == StrictSubsetOrdering(S)
<1>2. IsWellFoundedOn(R, SUBSET S)
  <2>1. IsFiniteSet(S)
    BY FS_Interval
  <2> HIDE DEF S
  <2>2. IsWellFoundedOn(StrictSubsetOrdering(S), FiniteSubsetsOf(S))
    BY FS_StrictSubsetOrderingWellFounded
  <2>3. FiniteSubsetsOf(S) = SUBSET S
    BY <2>1, FS_FiniteSubsetsOfFinite
  <2> QED
    BY <2>2, <2>3
<1>3. F \subseteq SUBSET S /\ F # {}
  <2>1. 1 .. t \in F
    OBVIOUS
  <2>2. \A k \in {j \in T : j <= t} : 1 .. k \subseteq S
    OBVIOUS
  <2> QED
    BY <2>1, <2>2
<1>4. PICK X \in F : \A Y \in F : ~ (<<Y, X>> \in R)
  <2> HIDE DEF S, F, R
  <2> QED
    BY <1>2, <1>3, WFMin
<1>5. PICK k \in T : k <= t /\ X = 1 .. k
  OBVIOUS
<1>6. ASSUME NEW y \in T, ~(k <= y)
      PROVE  FALSE
  <2>1. 1 .. y \in F
    BY <1>5, <1>6
  <2>2. 1 .. y \subseteq 1 .. k /\ k \in 1 .. k /\ k \notin 1 .. y
    BY <1>6
  <2>3. <<1 .. y, X>> \in R
    BY <1>3, <1>5, <2>1, <2>2 DEF StrictSubsetOrdering
  <2> QED
    BY <1>4, <2>1, <2>3
<1> QED
  BY <1>6

(* The first k elements of a sequence, and those that follow them. *)
LEMMA Parts ==
  ASSUME NEW S, NEW c \in Seq(S), NEW k \in 0 .. Len(c)
  PROVE  /\ SubSeq(c, 1, k) \in Seq(S) /\ Len(SubSeq(c, 1, k)) = k
         /\ \A i \in 1 .. k : SubSeq(c, 1, k)[i] = c[i]
         /\ SubSeq(c, k + 1, Len(c)) \in Seq(S)
         /\ Len(SubSeq(c, k + 1, Len(c))) = Len(c) - k
         /\ \A i \in 1 .. Len(c) - k : SubSeq(c, k + 1, Len(c))[i] = c[k + i]
         /\ SubSeq(c, 1, k) \o SubSeq(c, k + 1, Len(c)) = c
<1>0. Len(c) \in Nat /\ k \in Int /\ 1 \in Int /\ k + 1 \in Int
  OBVIOUS
<1>1. /\ SubSeq(c, 1, k) \in Seq(S) /\ Len(SubSeq(c, 1, k)) = k
      /\ \A i \in 1 .. k : SubSeq(c, 1, k)[i] = c[i]
  <2>1. \A i \in 1 .. k : c[i] \in S
    OBVIOUS
  <2> DEFINE s == SubSeq(c, 1, k)
  <2>2. /\ s \in Seq(S)
        /\ Len(s) = IF 1 <= k THEN k - 1 + 1 ELSE 0
        /\ \A i \in 1 .. k - 1 + 1 : s[i] = c[1 + i - 1]
    BY <1>0, <2>1, SubSeqProperties
  <2> HIDE DEF s
  <2>3. Len(s) = k
    BY <1>0, <2>2
  <2>4. \A i \in 1 .. k : i \in 1 .. k - 1 + 1 /\ 1 + i - 1 = i
    BY <1>0
  <2>5. \A i \in 1 .. k : s[i] = c[i]
    BY <2>2, <2>4
  <2> QED
    BY <2>2, <2>3, <2>5 DEF s
<1>2. /\ SubSeq(c, k + 1, Len(c)) \in Seq(S)
      /\ Len(SubSeq(c, k + 1, Len(c))) = Len(c) - k
      /\ \A i \in 1 .. Len(c) - k : SubSeq(c, k + 1, Len(c))[i] = c[k + i]
  <2>1. \A i \in k + 1 .. Len(c) : c[i] \in S
    OBVIOUS
  <2> DEFINE s == SubSeq(c, k + 1, Len(c))
  <2>2. /\ s \in Seq(S)
        /\ Len(s) = IF k + 1 <= Len(c) THEN Len(c) - (k + 1) + 1 ELSE 0
        /\ \A i \in 1 .. Len(c) - (k + 1) + 1 : s[i] = c[(k + 1) + i - 1]
    BY <1>0, <2>1, SubSeqProperties
  <2> HIDE DEF s
  <2>3. Len(s) = Len(c) - k
    BY <1>0, <2>2
  <2>4. \A i \in 1 .. Len(c) - k : i \in 1 .. Len(c) - (k + 1) + 1 /\ (k + 1) + i - 1 = k + i
    BY <1>0
  <2>5. \A i \in 1 .. Len(c) - k : s[i] = c[k + i]
    BY <2>2, <2>4
  <2> QED
    BY <2>2, <2>3, <2>5 DEF s
<1>3. SubSeq(c, 1, k) \o SubSeq(c, k + 1, Len(c)) = c
  <2> DEFINE p == SubSeq(c, 1, k)
             q == SubSeq(c, k + 1, Len(c))
  <2>1. p \in Seq(S) /\ Len(p) = k /\ \A i \in 1 .. k : p[i] = c[i]
    BY <1>1
  <2>2. q \in Seq(S) /\ Len(q) = Len(c) - k /\ \A i \in 1 .. Len(c) - k : q[i] = c[k + i]
    BY <1>2
  <2> HIDE DEF p, q
  <2>3. /\ p \o q \in Seq(S) /\ Len(p \o q) = Len(p) + Len(q)
        /\ \A i \in 1 .. Len(p) + Len(q) :
             (p \o q)[i] = IF i <= Len(p) THEN p[i] ELSE q[i - Len(p)]
    BY <2>1, <2>2, ConcatProperties
  <2>4. Len(p) + Len(q) = Len(c)
    BY <1>0, <2>1, <2>2
  <2>5. ASSUME NEW i \in 1 .. Len(c) PROVE (p \o q)[i] = c[i]
    <3>1. CASE i <= k
      BY <1>0, <2>1, <2>3, <2>4, <3>1
    <3>2. CASE ~(i <= k)
      <4>1. i - k \in 1 .. Len(c) - k /\ k + (i - k) = i
        BY <1>0, <3>2
      <4>2. (p \o q)[i] = q[i - k]
        BY <2>1, <2>3, <2>4, <3>2
      <4> QED
        BY <2>2, <4>1, <4>2
    <3> QED
      BY <3>1, <3>2
  <2>6. p \o q = c
    BY <2>3, <2>4, <2>5, SeqEqual
  <2> QED
    BY <2>6 DEF p, q
<1> QED
  BY <1>1, <1>2, <1>3

(* A multiple of a positive number is still one when that is added. *)
LEMMA NextMultiple ==
  ASSUME NEW d \in Nat \ {0}, NEW x \in Nat, x % d = 0
  PROVE  (x + d) % d = 0
<1>1. \A k \in Nat : (k * d) % d = 0
  OBVIOUS
<1> DEFINE k == x \div d
<1>2. k \in Nat /\ x = (k * d) + (x % d)
  OBVIOUS
<1> HIDE DEF k
<1>3. k + 1 \in Nat /\ x + d = (k + 1) * d
  BY <1>2
<1>4. ((k + 1) * d) % d = 0
  BY <1>1, <1>3
<1> QED
  BY <1>3, <1>4

(* What n steps from init go through. *)
IsChain(f, S, init, step, n) ==
  /\ f \in [0 .. n -> S] /\ f[0] = init
  /\ \A k \in 1 .. n : f[k] = step[f[k - 1]]

(* A step can be taken any number of times: what a function defined by     *)
(* recursion on a natural number needs to exist.                           *)
LEMMA Iterates ==
  ASSUME NEW S, NEW init \in S, NEW step, step \in [S -> S], NEW n \in Nat
  PROVE  \E f : IsChain(f, S, init, step, n)
<1> DEFINE Chain(m, f) == /\ f \in [0 .. m -> S] /\ f[0] = init
                          /\ \A k \in 1 .. m : f[k] = step[f[k - 1]]
           T == {m \in Nat : ~ \E f : Chain(m, f)}
<1>1. ASSUME T # {} PROVE FALSE
  <2>1. PICK m \in T : \A j \in T : m <= j
    <3>1. T \in SUBSET Nat
      OBVIOUS
    <3> HIDE DEF T
    <3> QED
      BY <1>1, <3>1, HasLeast
  <2>2. CASE m = 0
    <3> DEFINE f == [k \in 0 .. 0 |-> init]
    <3>1. Chain(0, f)
      OBVIOUS
    <3> QED
      BY <2>1, <2>2, <3>1
  <2>3. CASE m # 0
    <3>1. m - 1 \in Nat /\ m - 1 \notin T
      <4>1. m \in Nat
        BY <2>1
      <4> HIDE DEF T
      <4> QED
        BY <2>1, <2>3, <4>1
    <3>2. PICK g : Chain(m - 1, g)
      BY <3>1
    <3> DEFINE f == [k \in 0 .. m |-> IF k = m THEN step[g[m - 1]] ELSE g[k]]
    <3>3. m \in Nat \ {0}
      BY <2>1, <2>3
    <3>4. /\ g \in [0 .. m - 1 -> S] /\ g[0] = init
          /\ \A k \in 1 .. m - 1 : g[k] = step[g[k - 1]]
      BY <3>2
    <3>5. f \in [0 .. m -> S]
      <4>1. step[g[m - 1]] \in S
        BY <3>3, <3>4
      <4> QED
        BY <3>3, <3>4, <4>1
    <3>6. \A k \in 1 .. m : f[k] = step[f[k - 1]]
      BY <3>3, <3>4
    <3>7. f[0] = init
      BY <3>3, <3>4
    <3>8. Chain(m, f)
      BY <3>5, <3>6, <3>7
    <3> QED
      BY <2>1, <3>8
  <2> QED
    BY <2>2, <2>3
<1>2. \E f : Chain(n, f)
  BY <1>1
<1> QED
  BY <1>2 DEF IsChain


(* The function on 0 .. n that follows next upwards until it ends, and has *)
(* the value there.                                                        *)
GoesUp(g, n, S, value, next) ==
  /\ g \in [0 .. n -> S]
  /\ \A a \in 0 .. n :
       g[a] = IF a < next[a] /\ next[a] <= n THEN g[next[a]] ELSE value[a]

(* There is one: a recursion that goes upwards in a bounded interval       *)
(* defines a function.                                                     *)
LEMMA GoesUpExists ==
  ASSUME NEW n \in Nat, NEW S, NEW value, value \in [0 .. n -> S],
         NEW next, next \in [0 .. n -> Nat]
  PROVE  \E g : GoesUp(g, n, S, value, next)
<1> DEFINE Right(g, a) == g[a] = IF a < next[a] /\ next[a] <= n THEN g[next[a]] ELSE value[a]
           From(m) == \E g \in [0 .. n -> S] : \A a \in 0 .. n : a >= m => Right(g, a)
           Ms == {k \in 0 .. n + 1 : ~From(n + 1 - k)}
<1>1. From(n + 1)
  <2>1. \A a \in 0 .. n : ~(a >= n + 1)
    OBVIOUS
  <2> HIDE DEF Right
  <2> QED
    BY <2>1, Zenon
<1>2. ASSUME NEW m \in 0 .. n, From(m + 1) PROVE From(m)
  <2>1. PICK g \in [0 .. n -> S] : \A a \in 0 .. n : a >= m + 1 => Right(g, a)
    BY <1>2
  <2> DEFINE v == IF m < next[m] /\ next[m] <= n THEN g[next[m]] ELSE value[m]
             h == [g EXCEPT ![m] = v]
  <2>2. v \in S
    OBVIOUS
  <2>3. /\ h \in [0 .. n -> S] /\ h[m] = v
        /\ \A a \in 0 .. n : a # m => h[a] = g[a]
    <3> HIDE DEF v
    <3> QED
      BY <2>2
  <2> HIDE DEF h
  <2>4. Right(h, m)
    <3>1. ASSUME m < next[m], next[m] <= n PROVE h[next[m]] = g[next[m]]
      <4>1. next[m] \in 0 .. n /\ next[m] # m
        BY <3>1
      <4> QED
        BY <2>3, <4>1
    <3> QED
      BY <2>3, <3>1
  <2>5. ASSUME NEW a \in 0 .. n, a > m PROVE Right(h, a)
    <3>1. g[a] = IF a < next[a] /\ next[a] <= n THEN g[next[a]] ELSE value[a]
      BY <2>1, <2>5
    <3>2. h[a] = g[a]
      BY <2>3, <2>5
    <3>3. ASSUME a < next[a], next[a] <= n PROVE h[next[a]] = g[next[a]]
      <4>1. next[a] \in 0 .. n /\ next[a] # m
        BY <2>5, <3>3
      <4> QED
        BY <2>3, <4>1
    <3> QED
      BY <3>1, <3>2, <3>3
  <2>6. \A a \in 0 .. n : a >= m => a = m \/ a > m
    OBVIOUS
  <2> HIDE DEF Right
  <2> QED
    BY <2>3, <2>4, <2>5, <2>6
<1> HIDE DEF From
<1>3. ASSUME Ms # {} PROVE FALSE
  <2>1. Ms \in SUBSET Nat
    OBVIOUS
  <2>2. PICK k \in Ms : \A j \in Ms : k <= j
    <3> HIDE DEF Ms
    <3> QED
      BY <1>3, <2>1, HasLeast
  <2>3. k \in 0 .. n + 1 /\ ~From(n + 1 - k)
    OBVIOUS
  <2>4. k # 0
    BY <1>1
  <2>5. PICK j : j = k - 1
    OBVIOUS
  <2>6. j \in 0 .. n + 1 /\ ~(k <= j)
    BY <2>3, <2>4, <2>5
  <2>7. From(n + 1 - j)
    BY <2>2, <2>6
  <2>8. PICK m : m = n + 1 - k
    OBVIOUS
  <2>9. m \in 0 .. n /\ n + 1 - j = m + 1
    BY <2>3, <2>4, <2>5, <2>8
  <2> QED
    BY <1>2, <2>3, <2>7, <2>8, <2>9
<1>4. From(0)
  <2>1. n + 1 \in 0 .. n + 1 /\ n + 1 - (n + 1) = 0
    OBVIOUS
  <2> QED
    BY <1>3, <2>1
<1>5. PICK g \in [0 .. n -> S] : \A a \in 0 .. n : a >= 0 => Right(g, a)
  BY <1>4 DEF From
<1>6. \A a \in 0 .. n : a >= 0
  OBVIOUS
<1> QED
  BY <1>5, <1>6 DEF GoesUp

=============================================================================
