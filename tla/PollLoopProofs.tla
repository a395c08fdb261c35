---------------------------- MODULE PollLoopProofs ----------------------------
(***************************************************************************)
(* What the operations of the slot table preserve, and the safety of the   *)
(* poll loop that rests on it, for every set of handlers, every            *)
(* assignment of descriptors and every behaviour of the callbacks.         *)
(*                                                                         *)
(* TableConsistent is inductive by itself; the properties of the scan are  *)
(* not, since they rest on a slot having one owner, so the inductive       *)
(* invariant is the conjunction of them all.                               *)
(***************************************************************************)
EXTENDS PollLoop, FifoLemmas


(* Overwriting or appending keeps a sequence a sequence, and changes one entry. *)
LEMMA PutFacts ==
  ASSUME NEW S, NEW s \in Seq(S), NEW v \in S, NEW i \in 1 .. Len(s) + 1
  PROVE  /\ Put(s, i, v) \in Seq(S)
         /\ Len(Put(s, i, v)) = IF i = Len(s) + 1 THEN Len(s) + 1 ELSE Len(s)
         /\ \A j \in 1 .. Len(Put(s, i, v)) : Put(s, i, v)[j] = IF j = i THEN v ELSE s[j]
  BY DEF Put

(* Add and Register give the handler a slot nobody has, and change no other. *)
LEMMA ApplyFacts ==
  ASSUME NEW t \in Table, NEW fdOf \in [Handlers -> Int], Consistent(t, fdOf),
         NEW h \in Handlers, NEW fd \in Int, ~Applied(t, h)
  PROVE  LET i == NextSlot(t)
             u == Apply(t, h, fd)
         IN  /\ u \in Table
             /\ i \in 1 .. Len(t.handlers) + 1
             /\ Slots(u) = Slots(t) \cup {i}
             /\ SameLength(u)
             /\ \A j \in Slots(u) : u.handlers[j] = IF j = i THEN h ELSE t.handlers[j]
             /\ \A j \in Slots(u) :
                  u.polls[j] = IF j = i THEN [fd |-> fd, revents |-> {}] ELSE t.polls[j]
             /\ u.loopIdx = [t.loopIdx EXCEPT ![h] = i]
             /\ \A k \in Handlers : t.loopIdx[k] # i
             /\ IdleDistinct(u)
             /\ \A j \in Slots(u) : IsIdle(u, j) <=> IsIdle(t, j) /\ j # i
<1> DEFINE i == NextSlot(t)
           u == Apply(t, h, fd)
<1>0. /\ t.handlers \in Seq(Handlers \cup {NoHandler})
      /\ t.idle \in Seq(Nat)
      /\ t.polls \in Seq([fd : Int, revents : SUBSET {POLLIN}])
      /\ t.loopIdx \in [Handlers -> Nat]
      /\ Len(t.handlers) \in Nat /\ Len(t.idle) \in Nat
      /\ Len(t.polls) = Len(t.handlers)
  BY LenProperties DEF Table, Consistent, SameLength
<1>1. /\ u.handlers = Put(t.handlers, i, h)
      /\ u.polls = Put(t.polls, i, [fd |-> fd, revents |-> {}])
      /\ u.loopIdx = [t.loopIdx EXCEPT ![h] = i]
      /\ u.idle = IF t.idle = << >> THEN << >> ELSE SubSeq(t.idle, 1, Len(t.idle) - 1)
      /\ u = [handlers |-> u.handlers, idle |-> u.idle, polls |-> u.polls, loopIdx |-> u.loopIdx]
  BY DEF Apply
<1>2. /\ i \in 1 .. Len(t.handlers) + 1
      /\ \A k \in Handlers : t.loopIdx[k] # i
      /\ u.idle \in Seq(Nat)
      /\ IdleDistinct(u)
      /\ \A j \in Slots(u) : IsIdle(u, j) <=> IsIdle(t, j) /\ j # i
  <2>1. CASE t.idle = << >>
    <3>1. i = Len(t.handlers) + 1 /\ u.idle = << >> /\ Len(u.idle) = 0
      BY <2>1, <1>1 DEF NextSlot
    <3>2. \A k \in Handlers : t.loopIdx[k] # i
      <4> SUFFICES ASSUME NEW k \in Handlers, t.loopIdx[k] = i PROVE FALSE
        OBVIOUS
      <4>1. t.loopIdx[k] # 0
        BY <3>1, <1>0
      <4>2. t.loopIdx[k] \in Slots(t)
        BY <4>1 DEF Consistent, SlotOfHandler, Applied
      <4> QED
        BY <4>2, <3>1, <1>0 DEF Slots
    <3>3. \A j : ~IsIdle(u, j) /\ ~IsIdle(t, j)
      BY <3>1, <2>1 DEF IsIdle
    <3> QED
      BY <3>1, <3>2, <3>3, <1>0 DEF IdleDistinct
  <2>2. CASE t.idle # << >>
    <3> DEFINE n == Len(t.idle)
    <3>1. /\ n \in Nat \ {0}
          /\ i = t.idle[n]
          /\ u.idle \in Seq(Nat)
          /\ Len(u.idle) = n - 1
          /\ \A j \in 1 .. n - 1 : u.idle[j] = t.idle[j]
      BY <2>2, <1>0, <1>1, PopFacts DEF NextSlot
    <3>2. /\ \A j \in 1 .. n : t.idle[j] \in Slots(t)
          /\ \A j, m \in 1 .. n : t.idle[j] = t.idle[m] => j = m
      BY DEF Consistent, IdleDistinct
    <3>3. i \in Slots(t) /\ IsIdle(t, i)
      BY <3>1, <3>2 DEF IsIdle
    <3>4. \A k \in Handlers : t.loopIdx[k] # i
      BY <3>3 DEF Consistent, IdleIsFree
    <3>5. Slots(t) \subseteq Slots(u)
      <4>1. u.handlers = [t.handlers EXCEPT ![i] = h]
        BY <3>3, <1>0, <1>1 DEF Put, Slots
      <4>2. Len(u.handlers) = Len(t.handlers)
        BY <4>1, <1>0
      <4> QED
        BY <4>2 DEF Slots
    <3> HIDE DEF i, u, n
    <3>6. IdleDistinct(u)
      <4>1. \A j \in 1 .. Len(u.idle) : u.idle[j] \in Slots(u)
        BY <3>1, <3>2, <3>5
      <4>2. \A j, m \in 1 .. Len(u.idle) : u.idle[j] = u.idle[m] => j = m
        BY <3>1, <3>2
      <4> QED
        BY <4>1, <4>2 DEF IdleDistinct
    <3>7. ASSUME NEW j \in Slots(u) PROVE IsIdle(u, j) <=> IsIdle(t, j) /\ j # i
      <4>1. ASSUME IsIdle(u, j) PROVE IsIdle(t, j) /\ j # i
        <5> PICK m \in 1 .. n - 1 : u.idle[m] = j
          BY <4>1, <3>1 DEF IsIdle
        <5>1. m \in 1 .. n /\ t.idle[m] = j /\ t.idle[m] # t.idle[n]
          BY <3>1, <3>2
        <5> QED
          BY <5>1, <3>1 DEF IsIdle, n
      <4>2. ASSUME IsIdle(t, j), j # i PROVE IsIdle(u, j)
        <5> PICK m \in 1 .. n : t.idle[m] = j
          BY <4>2 DEF IsIdle, n
        <5>1. m \in 1 .. n - 1
          BY <3>1, <4>2
        <5>2. m \in 1 .. Len(u.idle) /\ u.idle[m] = j
          BY <5>1, <3>1
        <5> QED
          BY <5>2 DEF IsIdle
      <4> QED
        BY <4>1, <4>2
    <3> QED
      BY <3>1, <3>3, <3>4, <3>6, <3>7, <1>0 DEF Slots
  <2> QED
    BY <2>1, <2>2
<1>3. /\ u.handlers \in Seq(Handlers \cup {NoHandler})
      /\ Len(u.handlers) = IF i = Len(t.handlers) + 1 THEN Len(t.handlers) + 1 ELSE Len(t.handlers)
      /\ Slots(u) = Slots(t) \cup {i}
      /\ \A j \in Slots(u) : u.handlers[j] = IF j = i THEN h ELSE t.handlers[j]
  <2> DEFINE S == Handlers \cup {NoHandler}
             s == t.handlers
  <2>1. s \in Seq(S) /\ h \in S /\ i \in 1 .. Len(s) + 1 /\ u.handlers = Put(s, i, h)
    BY <1>0, <1>1, <1>2
  <2> HIDE DEF S, s, u, i
  <2>2. /\ u.handlers \in Seq(S)
        /\ Len(u.handlers) = IF i = Len(s) + 1 THEN Len(s) + 1 ELSE Len(s)
        /\ \A j \in 1 .. Len(u.handlers) : u.handlers[j] = IF j = i THEN h ELSE s[j]
    BY <2>1, PutFacts
  <2>3. Slots(u) = Slots(t) \cup {i}
    <3>1. CASE i = Len(t.handlers) + 1
      BY <3>1, <2>2, <1>0 DEF Slots, s
    <3>2. CASE i # Len(t.handlers) + 1
      <4>1. i \in Slots(t)
        BY <3>2, <1>0, <1>2 DEF Slots
      <4>2. Len(u.handlers) = Len(t.handlers)
        BY <3>2, <2>2 DEF s
      <4> QED
        BY <4>1, <4>2 DEF Slots
    <3> QED
      BY <3>1, <3>2
  <2> QED
    BY <2>2, <2>3 DEF S, s, Slots
<1>4. /\ u.polls \in Seq([fd : Int, revents : SUBSET {POLLIN}])
      /\ Len(u.polls) = Len(u.handlers)
      /\ \A j \in Slots(u) :
           u.polls[j] = IF j = i THEN [fd |-> fd, revents |-> {}] ELSE t.polls[j]
  <2> DEFINE S == [fd : Int, revents : SUBSET {POLLIN}]
             s == t.polls
             v == [fd |-> fd, revents |-> {}]
  <2>1. s \in Seq(S) /\ v \in S /\ i \in 1 .. Len(s) + 1 /\ u.polls = Put(s, i, v)
    BY <1>0, <1>1, <1>2
  <2> HIDE DEF S, s, v, u, i
  <2>2. /\ u.polls \in Seq(S)
        /\ Len(u.polls) = IF i = Len(s) + 1 THEN Len(s) + 1 ELSE Len(s)
        /\ \A j \in 1 .. Len(u.polls) : u.polls[j] = IF j = i THEN v ELSE s[j]
    BY <2>1, PutFacts
  <2>3. Len(u.polls) = Len(u.handlers)
    BY <2>2, <1>0, <1>3 DEF s
  <2> QED
    BY <2>2, <2>3 DEF S, s, v, Slots
<1>5. u \in Table
  <2> HIDE DEF u, i
  <2>1. u.loopIdx \in [Handlers -> Nat]
    BY <1>0, <1>1, <1>2
  <2> QED
    BY <2>1, <1>1, <1>2, <1>3, <1>4 DEF Table
<1> QED
  BY <1>1, <1>2, <1>3, <1>4, <1>5 DEF SameLength

(* A handler applied to the loop gets a slot of its own, whatever its descriptor. *)
LEMMA ApplyConsistent ==
  ASSUME NEW t \in Table, NEW fdOf \in [Handlers -> Int], Consistent(t, fdOf),
         NEW h \in Handlers, ~Applied(t, h)
  PROVE  /\ Apply(t, h, fdOf[h]) \in Table
         /\ Consistent(Apply(t, h, fdOf[h]), fdOf)
<1> DEFINE i == NextSlot(t)
           u == Apply(t, h, fdOf[h])
<1>1. /\ u \in Table
      /\ i \in 1 .. Len(t.handlers) + 1
      /\ Slots(u) = Slots(t) \cup {i}
      /\ SameLength(u)
      /\ \A j \in Slots(u) : u.handlers[j] = IF j = i THEN h ELSE t.handlers[j]
      /\ \A j \in Slots(u) :
           u.polls[j] = IF j = i THEN [fd |-> fdOf[h], revents |-> {}] ELSE t.polls[j]
      /\ u.loopIdx = [t.loopIdx EXCEPT ![h] = i]
      /\ \A k \in Handlers : t.loopIdx[k] # i
      /\ IdleDistinct(u)
      /\ \A j \in Slots(u) : IsIdle(u, j) <=> IsIdle(t, j) /\ j # i
  BY ApplyFacts
<1>2. /\ t.loopIdx \in [Handlers -> Nat]
      /\ SlotOfHandler(t, fdOf) /\ SlotsUnshared(t) /\ IdleIsFree(t) /\ NoSlotLost(t)
  BY DEF Table, Consistent
<1> HIDE DEF i, u
<1>3. \A k \in Handlers : u.loopIdx[k] = IF k = h THEN i ELSE t.loopIdx[k]
  BY <1>1, <1>2
<1>4. SlotOfHandler(u, fdOf)
  <2> SUFFICES ASSUME NEW k \in Handlers, Applied(u, k)
               PROVE  /\ u.loopIdx[k] \in Slots(u)
                      /\ u.polls[u.loopIdx[k]].fd = fdOf[k]
                      /\ \/ u.handlers[u.loopIdx[k]] = k
                         \/ u.handlers[u.loopIdx[k]] = NoHandler /\ fdOf[k] < 0
    BY DEF SlotOfHandler
  <2>1. CASE k = h
    BY <2>1, <1>1, <1>3
  <2>2. CASE k # h
    <3>1. u.loopIdx[k] = t.loopIdx[k] /\ t.loopIdx[k] # i /\ t.loopIdx[k] # 0
      BY <2>2, <1>1, <1>3 DEF Applied
    <3>2. /\ t.loopIdx[k] \in Slots(t)
          /\ t.polls[t.loopIdx[k]].fd = fdOf[k]
          /\ \/ t.handlers[t.loopIdx[k]] = k
             \/ t.handlers[t.loopIdx[k]] = NoHandler /\ fdOf[k] < 0
      BY <3>1, <1>2 DEF SlotOfHandler, Applied
    <3> QED
      BY <3>1, <3>2, <1>1
  <2> QED
    BY <2>1, <2>2
<1>5. SlotsUnshared(u)
  BY <1>1, <1>2, <1>3 DEF SlotsUnshared, Applied
<1>6. IdleIsFree(u)
  <2> SUFFICES ASSUME NEW j \in Slots(u), IsIdle(u, j)
               PROVE  /\ \A k \in Handlers : u.loopIdx[k] # j
                      /\ u.handlers[j] = NoHandler
                      /\ u.polls[j] = [fd |-> NoFd, revents |-> {}]
    BY DEF IdleIsFree
  <2>1. j # i /\ j \in Slots(t) /\ IsIdle(t, j)
    BY <1>1
  <2> QED
    BY <2>1, <1>1, <1>2, <1>3 DEF IdleIsFree
<1>7. NoSlotLost(u)
  <2> SUFFICES ASSUME NEW j \in Slots(u)
               PROVE  IsIdle(u, j) \/ \E k \in Handlers : u.loopIdx[k] = j
    BY DEF NoSlotLost
  <2>1. CASE j = i
    BY <2>1, <1>3
  <2>2. CASE j # i
    <3>1. j \in Slots(t) /\ j # 0
      BY <2>2, <1>1 DEF Slots
    <3>2. t.loopIdx[h] # j
      BY <3>1 DEF Applied
    <3> QED
      BY ZenonT(30), <3>1, <3>2, <2>2, <1>1, <1>2, <1>3 DEF NoSlotLost
  <2> QED
    BY <2>1, <2>2
<1> QED
  BY <1>1, <1>4, <1>5, <1>6, <1>7 DEF Consistent, u

(* Components of a table, used wherever one is taken apart. *)
LEMMA TableParts ==
  ASSUME NEW t \in Table
  PROVE  /\ t.handlers \in Seq(Handlers \cup {NoHandler})
         /\ t.idle \in Seq(Nat)
         /\ t.polls \in Seq([fd : Int, revents : SUBSET {POLLIN}])
         /\ t.loopIdx \in [Handlers -> Nat]
         /\ Len(t.handlers) \in Nat /\ Len(t.idle) \in Nat
         /\ DOMAIN t.polls = 1 .. Len(t.polls)
  BY LenProperties DEF Table

(* UnRegister and Remove put one slot on the free stack and change no other. *)
LEMMA UnApplyFacts ==
  ASSUME NEW t \in Table, NEW fdOf \in [Handlers -> Int], Consistent(t, fdOf),
         NEW h \in Handlers, Applied(t, h)
  PROVE  LET i == t.loopIdx[h]
             u == UnApply(t, h)
         IN  /\ u \in Table
             /\ i \in Slots(t)
             /\ Slots(u) = Slots(t)
             /\ SameLength(u)
             /\ \A j \in Slots(t) : u.handlers[j] = IF j = i THEN NoHandler ELSE t.handlers[j]
             /\ \A j \in Slots(t) :
                  u.polls[j] = IF j = i THEN [fd |-> NoFd, revents |-> {}] ELSE t.polls[j]
             /\ u.loopIdx = [t.loopIdx EXCEPT ![h] = 0]
             /\ IdleDistinct(u)
             /\ \A j \in Slots(t) : IsIdle(u, j) <=> IsIdle(t, j) \/ j = i
<1> DEFINE i == t.loopIdx[h]
           u == UnApply(t, h)
           v == [fd |-> NoFd, revents |-> {}]
<1>0. /\ t.handlers \in Seq(Handlers \cup {NoHandler})
      /\ t.idle \in Seq(Nat)
      /\ t.polls \in Seq([fd : Int, revents : SUBSET {POLLIN}])
      /\ t.loopIdx \in [Handlers -> Nat]
      /\ Len(t.handlers) \in Nat /\ Len(t.idle) \in Nat
      /\ Len(t.polls) = Len(t.handlers)
  BY TableParts DEF Consistent, SameLength
<1>1. i \in Slots(t) /\ i \in Nat /\ v \in [fd : Int, revents : SUBSET {POLLIN}]
  BY <1>0 DEF Consistent, SlotOfHandler, NoFd
<1>2. /\ u.handlers = [t.handlers EXCEPT ![i] = NoHandler]
      /\ u.idle = Append(t.idle, i)
      /\ u.polls = [t.polls EXCEPT ![i] = v]
      /\ u.loopIdx = [t.loopIdx EXCEPT ![h] = 0]
      /\ u = [handlers |-> u.handlers, idle |-> u.idle, polls |-> u.polls, loopIdx |-> u.loopIdx]
  BY DEF UnApply
<1>a. /\ \A n \in 1 .. Len(t.idle) : t.idle[n] \in Slots(t)
      /\ \A n, m \in 1 .. Len(t.idle) : t.idle[n] = t.idle[m] => n = m
      /\ \A n \in 1 .. Len(t.idle) : t.idle[n] # i
  <2>1. ~IsIdle(t, i)
    BY <1>1 DEF Consistent, IdleIsFree
  <2> QED
    BY <2>1 DEF Consistent, IdleDistinct, IsIdle
<1> HIDE DEF i, u, v
<1>3. /\ u.handlers \in Seq(Handlers \cup {NoHandler})
      /\ Len(u.handlers) = Len(t.handlers)
      /\ \A j \in Slots(t) : u.handlers[j] = IF j = i THEN NoHandler ELSE t.handlers[j]
  BY <1>0, <1>1, <1>2 DEF Slots
<1>4. /\ u.polls \in Seq([fd : Int, revents : SUBSET {POLLIN}])
      /\ Len(u.polls) = Len(t.handlers)
      /\ \A j \in Slots(t) : u.polls[j] = IF j = i THEN v ELSE t.polls[j]
  <2> DEFINE S == [fd : Int, revents : SUBSET {POLLIN}]
             s == t.polls
  <2>1. s \in Seq(S) /\ v \in S /\ i \in 1 .. Len(s) /\ u.polls = [s EXCEPT ![i] = v]
    BY <1>0, <1>1, <1>2 DEF Slots
  <2> HIDE DEF S, s
  <2>2. /\ u.polls \in Seq(S)
        /\ Len(u.polls) = Len(s)
        /\ \A j \in 1 .. Len(s) : u.polls[j] = IF j = i THEN v ELSE s[j]
    BY <2>1, ExceptSeq
  <2> QED
    BY <2>2, <1>0 DEF S, s, Slots
<1>5. /\ u.idle \in Seq(Nat)
      /\ Len(u.idle) = Len(t.idle) + 1
      /\ \A n \in 1 .. Len(u.idle) : u.idle[n] = IF n = Len(t.idle) + 1 THEN i ELSE t.idle[n]
  BY <1>0, <1>1, <1>2
<1>b. /\ \A n \in 1 .. Len(u.idle) :
           \/ n \in 1 .. Len(t.idle) /\ u.idle[n] = t.idle[n]
           \/ n = Len(t.idle) + 1 /\ u.idle[n] = i
      /\ \A n \in 1 .. Len(t.idle) : n \in 1 .. Len(u.idle) /\ u.idle[n] = t.idle[n]
      /\ Len(t.idle) + 1 \in 1 .. Len(u.idle) /\ u.idle[Len(t.idle) + 1] = i
  <2> DEFINE L == Len(t.idle)
             q == u.idle
             p == t.idle
  <2>1. L \in Nat /\ Len(q) = L + 1
    BY <1>0, <1>5
  <2>2. \A n \in 1 .. L + 1 : q[n] = IF n = L + 1 THEN i ELSE p[n]
    BY <1>5
  <2> HIDE DEF L, q, p
  <2>3. /\ \A n \in 1 .. Len(q) :
             \/ n \in 1 .. L /\ q[n] = p[n]
             \/ n = L + 1 /\ q[n] = i
        /\ \A n \in 1 .. L : n \in 1 .. Len(q) /\ q[n] = p[n]
        /\ L + 1 \in 1 .. Len(q) /\ q[L + 1] = i
    BY <2>1, <2>2
  <2> QED
    BY <2>3 DEF L, q, p
<1>6. IdleDistinct(u)
  <2>1. Slots(u) = Slots(t)
    BY <1>3 DEF Slots
  <2>2. ASSUME NEW n \in 1 .. Len(u.idle) PROVE u.idle[n] \in Slots(u)
    BY <2>1, <1>1, <1>b, <1>a
  <2>3. ASSUME NEW n \in 1 .. Len(u.idle), NEW m \in 1 .. Len(u.idle), u.idle[n] = u.idle[m]
        PROVE  n = m
    BY <2>3, <1>b, <1>a
  <2> QED
    BY <2>2, <2>3 DEF IdleDistinct
<1>7. ASSUME NEW j \in Slots(t) PROVE IsIdle(u, j) <=> IsIdle(t, j) \/ j = i
  <2>1. ASSUME IsIdle(u, j), j # i PROVE IsIdle(t, j)
    <3> PICK n \in 1 .. Len(u.idle) : u.idle[n] = j
      BY <2>1 DEF IsIdle
    <3>1. n \in 1 .. Len(t.idle) /\ t.idle[n] = j
      BY <2>1, <1>b
    <3> QED
      BY <3>1 DEF IsIdle
  <2>2. ASSUME IsIdle(t, j) PROVE IsIdle(u, j)
    <3> PICK n \in 1 .. Len(t.idle) : t.idle[n] = j
      BY <2>2 DEF IsIdle
    <3>1. n \in 1 .. Len(u.idle) /\ u.idle[n] = j
      BY <1>b
    <3> QED
      BY <3>1 DEF IsIdle
  <2>3. ASSUME j = i PROVE IsIdle(u, j)
    BY <2>3, <1>b DEF IsIdle
  <2> QED
    BY <2>1, <2>2, <2>3
<1>8. u.loopIdx \in [Handlers -> Nat]
  BY <1>0, <1>2
<1>9. u \in Table
  BY <1>2, <1>3, <1>4, <1>5, <1>8 DEF Table
<1> QED
  BY <1>1, <1>2, <1>3, <1>4, <1>6, <1>7, <1>9, <1>0 DEF SameLength, Slots, i, u, v

(* A handler taken off the loop leaves its slot free, and every other handler its own. *)
LEMMA UnApplyConsistent ==
  ASSUME NEW t \in Table, NEW fdOf \in [Handlers -> Int], Consistent(t, fdOf),
         NEW h \in Handlers, Applied(t, h)
  PROVE  /\ UnApply(t, h) \in Table
         /\ Consistent(UnApply(t, h), fdOf)
<1> DEFINE i == t.loopIdx[h]
           u == UnApply(t, h)
<1>1. /\ u \in Table
      /\ i \in Slots(t)
      /\ Slots(u) = Slots(t)
      /\ SameLength(u)
      /\ \A j \in Slots(t) : u.handlers[j] = IF j = i THEN NoHandler ELSE t.handlers[j]
      /\ \A j \in Slots(t) :
           u.polls[j] = IF j = i THEN [fd |-> NoFd, revents |-> {}] ELSE t.polls[j]
      /\ u.loopIdx = [t.loopIdx EXCEPT ![h] = 0]
      /\ IdleDistinct(u)
      /\ \A j \in Slots(t) : IsIdle(u, j) <=> IsIdle(t, j) \/ j = i
  BY UnApplyFacts
<1>2. /\ t.loopIdx \in [Handlers -> Nat]
      /\ SlotOfHandler(t, fdOf) /\ SlotsUnshared(t) /\ IdleIsFree(t) /\ NoSlotLost(t)
      /\ i = t.loopIdx[h] /\ i # 0
  BY DEF Table, Consistent, Applied
<1> HIDE DEF i, u
<1>3. \A k \in Handlers : u.loopIdx[k] = IF k = h THEN 0 ELSE t.loopIdx[k]
  BY <1>1, <1>2
<1>4. \A k \in Handlers : Applied(u, k) =>
        k # h /\ Applied(t, k) /\ u.loopIdx[k] = t.loopIdx[k] /\ t.loopIdx[k] # i
  BY <1>2, <1>3 DEF Applied, SlotsUnshared
<1>5. SlotOfHandler(u, fdOf)
  <2> SUFFICES ASSUME NEW k \in Handlers, Applied(u, k)
               PROVE  /\ u.loopIdx[k] \in Slots(u)
                      /\ u.polls[u.loopIdx[k]].fd = fdOf[k]
                      /\ \/ u.handlers[u.loopIdx[k]] = k
                         \/ u.handlers[u.loopIdx[k]] = NoHandler /\ fdOf[k] < 0
    BY DEF SlotOfHandler
  <2>1. Applied(t, k) /\ u.loopIdx[k] = t.loopIdx[k] /\ t.loopIdx[k] # i
    BY <1>4
  <2>2. /\ t.loopIdx[k] \in Slots(t)
        /\ t.polls[t.loopIdx[k]].fd = fdOf[k]
        /\ \/ t.handlers[t.loopIdx[k]] = k
           \/ t.handlers[t.loopIdx[k]] = NoHandler /\ fdOf[k] < 0
    BY <2>1, <1>2 DEF SlotOfHandler
  <2> QED
    BY <2>1, <2>2, <1>1
<1>6. SlotsUnshared(u)
  <2> SUFFICES ASSUME NEW k \in Handlers, NEW m \in Handlers,
                      Applied(u, k), u.loopIdx[k] = u.loopIdx[m]
               PROVE  k = m
    BY DEF SlotsUnshared
  <2>1. Applied(u, m)
    BY DEF Applied
  <2> QED
    BY <2>1, <1>2, <1>4 DEF SlotsUnshared
<1>7. IdleIsFree(u)
  <2> SUFFICES ASSUME NEW j \in Slots(t), IsIdle(u, j)
               PROVE  /\ \A k \in Handlers : u.loopIdx[k] # j
                      /\ u.handlers[j] = NoHandler
                      /\ u.polls[j] = [fd |-> NoFd, revents |-> {}]
    BY <1>1 DEF IdleIsFree
  <2>1. j # 0
    BY DEF Slots
  <2>2. CASE j = i
    BY <2>1, <2>2, <1>1, <1>3, <1>4 DEF Applied
  <2>3. CASE j # i
    <3>1. IsIdle(t, j)
      BY <2>3, <1>1
    <3> QED
      BY SMTT(30), <3>1, <2>1, <2>3, <1>1, <1>2, <1>3 DEF IdleIsFree
  <2> QED
    BY <2>2, <2>3
<1>8. NoSlotLost(u)
  <2> SUFFICES ASSUME NEW j \in Slots(t), ~IsIdle(u, j)
               PROVE  \E k \in Handlers : u.loopIdx[k] = j
    BY <1>1 DEF NoSlotLost
  <2>1. ~IsIdle(t, j) /\ j # i
    BY <1>1
  <2>2. PICK k \in Handlers : t.loopIdx[k] = j
    BY <2>1, <1>2 DEF NoSlotLost
  <2> QED
    BY <2>1, <2>2, <1>2, <1>3
<1> QED
  BY <1>1, <1>5, <1>6, <1>7, <1>8 DEF Consistent, u

(* Clearing an unwatched slot only forgets a handler whose descriptor is bad. *)
LEMMA ClearConsistent ==
  ASSUME NEW t \in Table, NEW fdOf \in [Handlers -> Int], Consistent(t, fdOf),
         NEW i \in Slots(t), t.polls[i].fd < 0
  PROVE  /\ ClearSlot(t, i) \in Table
         /\ Consistent(ClearSlot(t, i), fdOf)
<1> DEFINE u == ClearSlot(t, i)
<1>0. /\ t.handlers \in Seq(Handlers \cup {NoHandler})
      /\ t.idle \in Seq(Nat)
      /\ t.polls \in Seq([fd : Int, revents : SUBSET {POLLIN}])
      /\ t.loopIdx \in [Handlers -> Nat]
      /\ t = [handlers |-> t.handlers, idle |-> t.idle, polls |-> t.polls, loopIdx |-> t.loopIdx]
  BY TableParts DEF Table
<1>1. /\ u.handlers = [t.handlers EXCEPT ![i] = NoHandler]
      /\ u.idle = t.idle /\ u.polls = t.polls /\ u.loopIdx = t.loopIdx
      /\ u = [handlers |-> u.handlers, idle |-> u.idle, polls |-> u.polls, loopIdx |-> u.loopIdx]
  BY <1>0 DEF ClearSlot
<1> HIDE DEF u
<1>2. /\ u.handlers \in Seq(Handlers \cup {NoHandler})
      /\ Slots(u) = Slots(t) /\ Len(u.handlers) = Len(t.handlers)
      /\ \A j \in Slots(t) : u.handlers[j] = IF j = i THEN NoHandler ELSE t.handlers[j]
  BY <1>0, <1>1 DEF Slots
<1>3. u \in Table
  BY <1>0, <1>1, <1>2 DEF Table
<1>4. SlotOfHandler(u, fdOf)
  <2> SUFFICES ASSUME NEW h \in Handlers, Applied(t, h)
               PROVE  /\ t.loopIdx[h] \in Slots(t)
                      /\ t.polls[t.loopIdx[h]].fd = fdOf[h]
                      /\ \/ u.handlers[t.loopIdx[h]] = h
                         \/ u.handlers[t.loopIdx[h]] = NoHandler /\ fdOf[h] < 0
    BY <1>1, <1>2 DEF SlotOfHandler, Applied
  <2>1. /\ t.loopIdx[h] \in Slots(t)
        /\ t.polls[t.loopIdx[h]].fd = fdOf[h]
        /\ \/ t.handlers[t.loopIdx[h]] = h
           \/ t.handlers[t.loopIdx[h]] = NoHandler /\ fdOf[h] < 0
    BY DEF Consistent, SlotOfHandler
  <2> QED
    BY <2>1, <1>2
<1>5. IdleDistinct(u)
  BY <1>1, <1>2 DEF Consistent, IdleDistinct
<1>6. IdleIsFree(u)
  <2> SUFFICES ASSUME NEW j \in Slots(t), IsIdle(t, j)
               PROVE  /\ \A h \in Handlers : t.loopIdx[h] # j
                      /\ u.handlers[j] = NoHandler
                      /\ t.polls[j] = [fd |-> NoFd, revents |-> {}]
    BY ZenonT(30), <1>1, <1>2 DEF IdleIsFree, IsIdle
  <2>1. /\ \A h \in Handlers : t.loopIdx[h] # j
        /\ t.handlers[j] = NoHandler
        /\ t.polls[j] = [fd |-> NoFd, revents |-> {}]
    BY DEF Consistent, IdleIsFree
  <2> QED
    BY <2>1, <1>2
<1>7. NoSlotLost(u) /\ SlotsUnshared(u)
  BY <1>1, <1>2 DEF Consistent, NoSlotLost, SlotsUnshared, Applied, IsIdle
<1> QED
  BY <1>1, <1>2, <1>3, <1>4, <1>5, <1>6, <1>7 DEF Consistent, SameLength, u

(* poll(2) changes the revents of watched entries and nothing else. *)
LEMMA PolledConsistent ==
  ASSUME NEW t \in Table, NEW fdOf \in [Handlers -> Int], Consistent(t, fdOf), NEW R
  PROVE  /\ Polled(t, R) \in Table
         /\ Consistent(Polled(t, R), fdOf)
         /\ Polled(t, R).handlers = t.handlers
         /\ Polled(t, R).loopIdx = t.loopIdx
         /\ \A i \in Slots(t) : Polled(t, R).polls[i].revents # {} =>
              Polled(t, R).polls[i].fd >= 0 /\ t.handlers[i] \in R
<1> DEFINE u == Polled(t, R)
           p == [i \in 1 .. Len(t.polls) |-> PolledEntry(t, i, R)]
<1>0. /\ t.polls \in Seq([fd : Int, revents : SUBSET {POLLIN}])
      /\ Len(t.polls) \in Nat /\ DOMAIN t.polls = 1 .. Len(t.polls)
      /\ Len(t.polls) = Len(t.handlers)
      /\ t = [handlers |-> t.handlers, idle |-> t.idle, polls |-> t.polls, loopIdx |-> t.loopIdx]
  BY LenProperties DEF Table, Consistent, SameLength
<1>1. /\ u.handlers = t.handlers /\ u.idle = t.idle /\ u.loopIdx = t.loopIdx
      /\ u.polls = p
      /\ u = [handlers |-> u.handlers, idle |-> u.idle, polls |-> u.polls, loopIdx |-> u.loopIdx]
  BY <1>0 DEF Polled
<1>2. ASSUME NEW i \in 1 .. Len(t.polls)
      PROVE  /\ p[i].fd = t.polls[i].fd
             /\ p[i].revents # {} => t.polls[i].fd >= 0 /\ t.handlers[i] \in R
             /\ p[i] \in [fd : Int, revents : SUBSET {POLLIN}]
             /\ p[i] = [fd |-> p[i].fd, revents |-> p[i].revents]
  <2>1. p[i] = PolledEntry(t, i, R)
    OBVIOUS
  <2>2. t.polls[i].fd \in Int
    <3>1. t.polls[i] \in [fd : Int, revents : SUBSET {POLLIN}]
      BY <1>0, ElementOfSeq
    <3> QED
      BY <3>1
  <2> HIDE DEF p
  <2> QED
    BY <2>1, <2>2 DEF PolledEntry
<1>3. p \in Seq([fd : Int, revents : SUBSET {POLLIN}]) /\ Len(p) = Len(t.polls)
  <2> DEFINE n == Len(t.polls)
             S == [fd : Int, revents : SUBSET {POLLIN}]
  <2>1. DOMAIN p = 1 .. n /\ n \in Nat /\ \A i \in 1 .. n : p[i] \in S
    BY <1>0, <1>2
  <2>2. p = [i \in 1 .. n |-> p[i]]
    BY <1>0
  <2> HIDE DEF p, n, S
  <2>3. p \in [1 .. n -> S]
    BY <2>1, <2>2
  <2>4. p \in Seq(S) /\ Len(p) = n
    BY <2>1, <2>3
  <2> QED
    BY <2>4 DEF n, S
<1> HIDE DEF u, p
<1>4. u \in Table
  BY <1>1, <1>3 DEF Table
<1>5. SlotOfHandler(u, fdOf)
  <2> SUFFICES ASSUME NEW h \in Handlers, Applied(t, h)
               PROVE  /\ t.loopIdx[h] \in Slots(t)
                      /\ p[t.loopIdx[h]].fd = fdOf[h]
                      /\ \/ t.handlers[t.loopIdx[h]] = h
                         \/ t.handlers[t.loopIdx[h]] = NoHandler /\ fdOf[h] < 0
    BY <1>1 DEF SlotOfHandler, Applied, Slots
  <2>1. /\ t.loopIdx[h] \in Slots(t)
        /\ t.polls[t.loopIdx[h]].fd = fdOf[h]
        /\ \/ t.handlers[t.loopIdx[h]] = h
           \/ t.handlers[t.loopIdx[h]] = NoHandler /\ fdOf[h] < 0
    BY DEF Consistent, SlotOfHandler
  <2> QED
    BY <2>1, <1>0, <1>2 DEF Slots
<1>6. IdleIsFree(u)
  <2> SUFFICES ASSUME NEW j \in Slots(t), IsIdle(t, j)
               PROVE  /\ \A k \in Handlers : t.loopIdx[k] # j
                      /\ t.handlers[j] = NoHandler
                      /\ p[j] = [fd |-> NoFd, revents |-> {}]
    BY ZenonT(30), <1>1 DEF IdleIsFree, Slots, IsIdle
  <2>1. /\ \A k \in Handlers : t.loopIdx[k] # j
        /\ t.handlers[j] = NoHandler
        /\ t.polls[j] = [fd |-> NoFd, revents |-> {}]
    BY DEF Consistent, IdleIsFree
  <2>2. t.polls[j].fd = -1 /\ j \in 1 .. Len(t.polls)
    BY <2>1, <1>0 DEF NoFd, Slots
  <2>3. p[j].fd = -1
    BY <2>2, <1>2
  <2>4. p[j].revents = {}
    <3>1. ~(t.polls[j].fd >= 0)
      BY <2>2
    <3> QED
      BY <3>1, <2>2, <1>2
  <2>5. p[j] = [fd |-> p[j].fd, revents |-> p[j].revents]
    BY <2>2, <1>2
  <2> QED
    BY <2>1, <2>3, <2>4, <2>5 DEF NoFd
<1>7. IdleDistinct(u) /\ SlotsUnshared(u) /\ NoSlotLost(u)
  BY <1>1 DEF Consistent, IdleDistinct, SlotsUnshared, NoSlotLost, Slots, IsIdle, Applied
<1>8. SameLength(u)
  BY <1>0, <1>1, <1>3 DEF SameLength
<1>9. \A i \in Slots(t) : u.polls[i].revents # {} => u.polls[i].fd >= 0 /\ t.handlers[i] \in R
  BY <1>0, <1>1, <1>2 DEF Slots
<1> QED
  BY <1>1, <1>4, <1>5, <1>6, <1>7, <1>8, <1>9 DEF Consistent, u

(* The table a loop starts with. *)
LEMMA EmptyConsistent ==
  ASSUME NEW fdOf \in [Handlers -> Int]
  PROVE  EmptyTable \in Table /\ Consistent(EmptyTable, fdOf)
<1>1. EmptyTable \in Table
  BY DEF EmptyTable, Table
<1>2. /\ EmptyTable.handlers = << >> /\ EmptyTable.polls = << >> /\ EmptyTable.idle = << >>
      /\ \A h \in Handlers : EmptyTable.loopIdx[h] = 0
      /\ Slots(EmptyTable) = {}
  BY DEF EmptyTable, Slots
<1> QED
  BY <1>1, <1>2 DEF Consistent, SameLength, IdleDistinct, SlotOfHandler, SlotsUnshared,
                    IdleIsFree, NoSlotLost, Applied

(* On a consistent table the assertions of UnRegister and Remove hold for  *)
(* every handler with a good descriptor (PollLoop.cpp:41-42,               *)
(* EventLoop.cpp:50-51).                                                   *)
LEMMA AssertsHold ==
  ASSUME NEW t \in Table, NEW fdOf \in [Handlers -> Int], Consistent(t, fdOf),
         NEW h \in Handlers, Applied(t, h), fdOf[h] >= 0
  PROVE  UnApplyAsserts(t, h, fdOf[h])
  BY DEF Consistent, SlotOfHandler, SameLength, UnApplyAsserts, Slots

(* A slot that is watched, or that holds a handler, has that handler for owner. *)
LEMMA SlotOwner ==
  ASSUME NEW t \in Table, NEW fdOf \in [Handlers -> Int], Consistent(t, fdOf),
         NEW i \in Slots(t)
  PROVE  /\ t.polls[i].fd >= 0 =>
              /\ t.handlers[i] \in Handlers
              /\ t.loopIdx[t.handlers[i]] = i
              /\ fdOf[t.handlers[i]] = t.polls[i].fd
         /\ \A h \in Handlers : t.handlers[i] = h => t.loopIdx[h] = i
<1>0. i # 0
  BY DEF Slots
<1>1. CASE IsIdle(t, i)
  <2>1. t.handlers[i] = NoHandler /\ t.polls[i].fd = -1
    BY <1>1 DEF Consistent, IdleIsFree, NoFd
  <2> QED
    BY <2>1, NoHandlerAssumption
<1>2. CASE ~IsIdle(t, i)
  <2>1. PICK k \in Handlers : t.loopIdx[k] = i
    BY <1>2 DEF Consistent, NoSlotLost
  <2>2. /\ t.polls[i].fd = fdOf[k]
        /\ \/ t.handlers[i] = k
           \/ t.handlers[i] = NoHandler /\ fdOf[k] < 0
    BY <1>0, <2>1 DEF Consistent, SlotOfHandler, Applied
  <2>3. fdOf[k] \in Int
    OBVIOUS
  <2> QED
    BY <2>1, <2>2, <2>3, NoHandlerAssumption
<1> QED
  BY <1>1, <1>2

-----------------------------------------------------------------------------


IInv ==
  /\ TypeOK
  /\ TableConsistent
  /\ ReadinessIsOwn
  /\ ScanCoversDue
  /\ AbortOnlyOnBadFd

LEMMA InitInv == Init => IInv
<1> SUFFICES ASSUME Init PROVE IInv
  OBVIOUS
<1>1. loop \in Table /\ Consistent(loop, FdOf)
  BY EmptyConsistent, FdAssumption DEF Init
<1>2. Slots(loop) = {}
  BY DEF Init, EmptyTable, Slots
<1> QED
  BY <1>1, <1>2 DEF Init, IInv, TypeOK, TableConsistent, ReadinessIsOwn, ScanCoversDue, AbortOnlyOnBadFd

LEMMA ApplyInv ==
  ASSUME IInv, NEW h \in Handlers, ApplyHandler(h)
  PROVE  IInv'
<1> DEFINE i == NextSlot(loop)
<1>0. /\ loop \in Table /\ Consistent(loop, FdOf) /\ ~Applied(loop, h)
      /\ FdOf \in [Handlers -> Int] /\ FdOf[h] \in Int
      /\ loop' = Apply(loop, h, FdOf[h])
      /\ UNCHANGED <<phase, cursor, aborted, due, fired, served>>
  BY FdAssumption DEF IInv, TypeOK, TableConsistent, ApplyHandler
<1>1. loop' \in Table /\ Consistent(loop', FdOf)
  BY <1>0, ApplyConsistent
<1>2. /\ Slots(loop') = Slots(loop) \cup {i}
      /\ \A j \in Slots(loop') : loop'.handlers[j] = IF j = i THEN h ELSE loop.handlers[j]
      /\ \A j \in Slots(loop') :
           loop'.polls[j] = IF j = i THEN [fd |-> FdOf[h], revents |-> {}] ELSE loop.polls[j]
      /\ loop'.loopIdx = [loop.loopIdx EXCEPT ![h] = i]
  <2> DEFINE u == Apply(loop, h, FdOf[h])
  <2>1. /\ u \in Table
        /\ i \in 1 .. Len(loop.handlers) + 1
        /\ Slots(u) = Slots(loop) \cup {i}
        /\ SameLength(u)
        /\ \A j \in Slots(u) : u.handlers[j] = IF j = i THEN h ELSE loop.handlers[j]
        /\ \A j \in Slots(u) :
             u.polls[j] = IF j = i THEN [fd |-> FdOf[h], revents |-> {}] ELSE loop.polls[j]
        /\ u.loopIdx = [loop.loopIdx EXCEPT ![h] = i]
        /\ \A k \in Handlers : loop.loopIdx[k] # i
        /\ IdleDistinct(u)
        /\ \A j \in Slots(u) : IsIdle(u, j) <=> IsIdle(loop, j) /\ j # i
    BY <1>0, ApplyFacts
  <2>2. loop' = u
    BY <1>0
  <2> HIDE DEF u, i
  <2> QED
    BY <2>1, <2>2
<1> HIDE DEF i
<1>3. TypeOK'
  BY <1>0, <1>1 DEF IInv, TypeOK
<1>4. ReadinessIsOwn'
  <2> SUFFICES ASSUME NEW j \in Slots(loop'), loop'.polls[j].revents # {}
               PROVE  loop'.polls[j].fd >= 0 /\ loop'.handlers[j] \in fired
    BY <1>0 DEF ReadinessIsOwn
  <2>1. j # i
    BY <1>2
  <2>2. j \in Slots(loop) /\ loop.polls[j].revents # {}
    BY <2>1, <1>2
  <2> QED
    BY <2>1, <2>2, <1>2 DEF IInv, ReadinessIsOwn
<1>5. ScanCoversDue'
  <2>1. h \notin due
    BY <1>0 DEF IInv, ScanCoversDue, Live
  <2>2. \A k \in due : k \in Handlers /\ loop'.loopIdx[k] = loop.loopIdx[k]
    BY <2>1, <1>0, <1>2 DEF IInv, TypeOK, Table
  <2> QED
    BY <2>2, <1>0 DEF IInv, ScanCoversDue, Live, Applied, Reached
<1> QED
  BY <1>0, <1>1, <1>3, <1>4, <1>5 DEF IInv, TableConsistent, AbortOnlyOnBadFd

LEMMA UnApplyInv ==
  ASSUME IInv, NEW h \in Handlers, UnApplyHandler(h)
  PROVE  IInv'
<1>0. /\ loop \in Table /\ Consistent(loop, FdOf) /\ Applied(loop, h)
      /\ FdOf \in [Handlers -> Int] /\ FdOf[h] \in Int
      /\ UNCHANGED <<phase, cursor>>
  BY FdAssumption DEF IInv, TypeOK, TableConsistent, UnApplyHandler
<1>1. CASE ~UnApplyAsserts(loop, h, FdOf[h])
  <2>1. aborted' = h /\ UNCHANGED <<loop, due, fired, served>>
    BY <1>1 DEF UnApplyHandler
  <2>2. ~(FdOf[h] >= 0)
    BY <1>0, <1>1, AssertsHold
  <2>3. FdOf[h] < 0
    BY <1>0, <2>2
  <2> QED
    BY <1>0, <2>1, <2>3 DEF IInv, TypeOK, TableConsistent, ReadinessIsOwn, ScanCoversDue,
                            AbortOnlyOnBadFd, Live, Applied, Reached
<1>2. CASE UnApplyAsserts(loop, h, FdOf[h])
  <2> DEFINE i == loop.loopIdx[h]
  <2>1. /\ loop' = UnApply(loop, h) /\ due' = due \ {h} /\ fired' = fired \ {h}
        /\ served' = served \ {h} /\ aborted' = aborted
    BY <1>2 DEF UnApplyHandler
  <2>2. loop' \in Table /\ Consistent(loop', FdOf)
    BY <1>0, <2>1, UnApplyConsistent
  <2>3. /\ i \in Slots(loop)
        /\ Slots(loop') = Slots(loop)
        /\ \A j \in Slots(loop) : loop'.handlers[j] = IF j = i THEN NoHandler ELSE loop.handlers[j]
        /\ \A j \in Slots(loop) :
             loop'.polls[j] = IF j = i THEN [fd |-> NoFd, revents |-> {}] ELSE loop.polls[j]
        /\ loop'.loopIdx = [loop.loopIdx EXCEPT ![h] = 0]
    <3> DEFINE u == UnApply(loop, h)
    <3>1. /\ u \in Table
          /\ i \in Slots(loop)
          /\ Slots(u) = Slots(loop)
          /\ SameLength(u)
          /\ \A j \in Slots(loop) : u.handlers[j] = IF j = i THEN NoHandler ELSE loop.handlers[j]
          /\ \A j \in Slots(loop) :
               u.polls[j] = IF j = i THEN [fd |-> NoFd, revents |-> {}] ELSE loop.polls[j]
          /\ u.loopIdx = [loop.loopIdx EXCEPT ![h] = 0]
          /\ IdleDistinct(u)
          /\ \A j \in Slots(loop) : IsIdle(u, j) <=> IsIdle(loop, j) \/ j = i
      BY ZenonT(30), <1>0, UnApplyFacts
    <3>2. loop' = u
      BY <2>1
    <3> HIDE DEF u, i
    <3> QED
      BY <3>1, <3>2
  <2>4. \A j \in Slots(loop) : loop.handlers[j] = h => j = i
    BY SlotOwner, FdAssumption DEF IInv, TypeOK, TableConsistent
  <2> HIDE DEF i
  <2>5. TypeOK'
    BY <1>0, <2>1, <2>2 DEF IInv, TypeOK
  <2>6. ReadinessIsOwn'
    <3> SUFFICES ASSUME NEW j \in Slots(loop), loop'.polls[j].revents # {}
                 PROVE  loop'.polls[j].fd >= 0 /\ loop'.handlers[j] \in fired'
      BY <2>3 DEF ReadinessIsOwn
    <3>1. j # i /\ loop'.polls[j] = loop.polls[j] /\ loop'.handlers[j] = loop.handlers[j]
      BY <2>3
    <3>2. loop.polls[j].fd >= 0 /\ loop.handlers[j] \in fired
      BY <3>1 DEF IInv, ReadinessIsOwn
    <3> QED
      BY <3>1, <3>2, <2>1, <2>4
  <2>7. ScanCoversDue'
    <3>1. \A k \in due' : k \in due /\ k \in Handlers /\ loop'.loopIdx[k] = loop.loopIdx[k]
      BY <2>1, <2>3 DEF IInv, TypeOK, Table
    <3> QED
      BY <3>1, <1>0, <2>1 DEF IInv, ScanCoversDue, Live, Applied, Reached
  <2> QED
    BY <2>1, <2>2, <2>5, <2>6, <2>7 DEF IInv, TableConsistent, AbortOnlyOnBadFd
<1> QED
  BY <1>1, <1>2

LEMMA PollReturnsInv ==
  ASSUME IInv, NEW ready \in SUBSET Live, PollReturns(ready)
  PROVE  IInv'
<1>0. /\ loop \in Table /\ Consistent(loop, FdOf) /\ FdOf \in [Handlers -> Int]
      /\ loop' = Polled(loop, ready)
      /\ phase' = "scan" /\ cursor' = 1 /\ due' = Live /\ fired' = ready /\ served' = {}
      /\ aborted' = aborted
  BY FdAssumption DEF IInv, TypeOK, TableConsistent, PollReturns
<1>1. /\ loop' \in Table /\ Consistent(loop', FdOf)
      /\ loop'.handlers = loop.handlers /\ loop'.loopIdx = loop.loopIdx
      /\ \A i \in Slots(loop) : loop'.polls[i].revents # {} =>
           loop'.polls[i].fd >= 0 /\ loop.handlers[i] \in ready
  BY <1>0, PolledConsistent
<1>2. TypeOK'
  BY <1>0, <1>1 DEF IInv, TypeOK, Live
<1>3. ReadinessIsOwn'
  BY <1>0, <1>1 DEF ReadinessIsOwn, Slots
<1>4. ScanCoversDue'
  <2>1. due' = Live'
    BY <1>0, <1>1 DEF Live, Applied
  <2>2. \A k \in due' : k \notin served' /\ ~Reached(k)'
    BY <1>0, <1>1 DEF Reached, Live, Applied, IInv, TypeOK, Table
  <2> QED
    BY <2>1, <2>2, <1>0 DEF ScanCoversDue
<1> QED
  BY <1>0, <1>1, <1>2, <1>3, <1>4 DEF IInv, TableConsistent, AbortOnlyOnBadFd

LEMMA SkipSlotInv ==
  ASSUME IInv, SkipSlot
  PROVE  IInv'
<1>0. /\ loop \in Table /\ Consistent(loop, FdOf) /\ FdOf \in [Handlers -> Int]
      /\ cursor \in Slots(loop) /\ loop.polls[cursor].fd < 0
      /\ loop' = ClearSlot(loop, cursor) /\ cursor' = cursor + 1
      /\ phase = "scan" /\ UNCHANGED <<phase, aborted, due, fired, served>>
  BY FdAssumption DEF IInv, TypeOK, TableConsistent, SkipSlot
<1>1. loop' \in Table /\ Consistent(loop', FdOf)
  BY <1>0, ClearConsistent
<1>2. /\ loop'.handlers = [loop.handlers EXCEPT ![cursor] = NoHandler]
      /\ loop'.polls = loop.polls /\ loop'.loopIdx = loop.loopIdx
  BY <1>0 DEF ClearSlot
<1>3. /\ Slots(loop') = Slots(loop)
      /\ \A j \in Slots(loop) : j # cursor => loop'.handlers[j] = loop.handlers[j]
  BY <1>0, <1>2, TableParts DEF Slots
<1>4. cursor \in Nat \ {0} /\ cursor' \in Nat \ {0}
  BY <1>0 DEF IInv, TypeOK
<1>5. TypeOK'
  BY <1>0, <1>1, <1>4 DEF IInv, TypeOK
<1>6. ReadinessIsOwn'
  <2> SUFFICES ASSUME NEW j \in Slots(loop), loop.polls[j].revents # {}
               PROVE  loop.polls[j].fd >= 0 /\ loop'.handlers[j] \in fired
    BY <1>0, <1>2, <1>3 DEF ReadinessIsOwn
  <2>1. loop.polls[j].fd >= 0 /\ loop.handlers[j] \in fired
    BY DEF IInv, ReadinessIsOwn
  <2>2. j # cursor
    <3>1. loop.polls[cursor].fd \in Int
      <4>1. loop.polls[cursor] \in [fd : Int, revents : SUBSET {POLLIN}]
        BY <1>0, TableParts, ElementOfSeq DEF Slots, Consistent, SameLength
      <4> QED
        BY <4>1
    <3> QED
      BY <3>1, <2>1, <1>0
  <2> QED
    BY <2>1, <2>2, <1>3
<1>7. ScanCoversDue'
  <2>1. ASSUME NEW k \in due PROVE loop.loopIdx[k] # cursor /\ loop.loopIdx[k] \in Nat
    <3>1. k \in Handlers /\ Applied(loop, k) /\ FdOf[k] >= 0 /\ FdOf[k] \in Int
      BY <2>1, <1>0 DEF IInv, ScanCoversDue, Live
    <3>2. loop.polls[loop.loopIdx[k]].fd = FdOf[k]
      BY <3>1, <1>0 DEF Consistent, SlotOfHandler
    <3>3. loop.loopIdx[k] \in Nat
      BY <3>1, <1>0 DEF Table
    <3> QED
      BY <1>0, <3>1, <3>2, <3>3
  <2>2. ASSUME NEW k \in due PROVE Reached(k) <=> Reached(k)'
    BY <2>1, <1>0, <1>2, <1>4 DEF Reached
  <2> QED
    BY <2>2, <1>0, <1>2 DEF IInv, ScanCoversDue, Live, Applied
<1> QED
  BY <1>0, <1>1, <1>5, <1>6, <1>7 DEF IInv, TableConsistent, AbortOnlyOnBadFd

LEMMA DispatchInv ==
  ASSUME IInv, Dispatch
  PROVE  IInv'
<1> DEFINE d == loop.handlers[cursor]
<1>0. /\ cursor \in Slots(loop) /\ loop.polls[cursor].fd >= 0
      /\ phase = "scan" /\ phase' = "run" /\ served' = served \cup {d}
      /\ UNCHANGED <<loop, cursor, aborted, due, fired>>
  BY DEF Dispatch
<1>1. d \in Handlers /\ loop.loopIdx[d] = cursor
  BY <1>0, SlotOwner, FdAssumption DEF IInv, TypeOK, TableConsistent
<1>2. \A k \in Handlers : Applied(loop, k) /\ loop.loopIdx[k] = cursor => k = d
  BY <1>1, <1>0 DEF IInv, TableConsistent, Consistent, SlotsUnshared
<1> HIDE DEF d
<1>3. ScanCoversDue'
  <2>1. ASSUME NEW k \in due PROVE k \in served' <=> Reached(k)'
    <3>1. k \in Handlers /\ Applied(loop, k) /\ loop.loopIdx[k] \in Nat
      BY <2>1 DEF IInv, ScanCoversDue, Live, TypeOK, Table
    <3>2. k \in served <=> loop.loopIdx[k] < cursor
      BY <2>1, <1>0 DEF IInv, ScanCoversDue, Reached
    <3>3. Reached(k)' <=> loop.loopIdx[k] <= cursor
      BY <1>0 DEF Reached
    <3>4. cursor \in Nat
      BY DEF IInv, TypeOK
    <3>5. k = d <=> loop.loopIdx[k] = cursor
      BY <3>1, <1>1, <1>2
    <3> QED
      BY <3>1, <3>2, <3>3, <3>4, <3>5, <1>0
  <2> QED
    BY <2>1, <1>0 DEF IInv, ScanCoversDue, Live
<1> QED
  BY <1>0, <1>1, <1>3 DEF IInv, TypeOK, TableConsistent, ReadinessIsOwn, AbortOnlyOnBadFd

LEMMA ReturnInv ==
  ASSUME IInv, Return
  PROVE  IInv'
<1>0. /\ phase = "run" /\ phase' = "scan" /\ cursor' = cursor + 1 /\ cursor \in Nat \ {0}
      /\ UNCHANGED <<loop, aborted, due, fired, served>>
  BY DEF Return, IInv, TypeOK
<1>1. ASSUME NEW k \in due PROVE Reached(k) <=> Reached(k)'
  <2>1. loop.loopIdx[k] \in Nat
    BY <1>1 DEF IInv, ScanCoversDue, Live, TypeOK, Table
  <2> QED
    BY <2>1, <1>0 DEF Reached
<1> QED
  BY <1>0, <1>1 DEF IInv, TypeOK, TableConsistent, ReadinessIsOwn, ScanCoversDue, Live, AbortOnlyOnBadFd

LEMMA StepInv == IInv /\ [Next]_vars => IInv'
<1> SUFFICES ASSUME IInv, [Next]_vars PROVE IInv'
  OBVIOUS
<1>1. ASSUME NEW h \in Handlers, ApplyHandler(h) PROVE IInv'
  BY <1>1, ApplyInv
<1>2. ASSUME NEW h \in Handlers, UnApplyHandler(h) PROVE IInv'
  BY <1>2, UnApplyInv
<1>3. CASE StartLoop
  BY <1>3 DEF StartLoop, IInv, TypeOK, TableConsistent, ReadinessIsOwn, ScanCoversDue,
              Live, AbortOnlyOnBadFd
<1>4. ASSUME NEW ready \in SUBSET Live, PollReturns(ready) PROVE IInv'
  BY <1>4, PollReturnsInv
<1>5. CASE SkipSlot
  BY <1>5, SkipSlotInv
<1>6. CASE Dispatch
  BY <1>6, DispatchInv
<1>7. CASE Return
  BY <1>7, ReturnInv
<1>8. CASE EndPass
  BY <1>8 DEF EndPass, IInv, TypeOK, TableConsistent, ReadinessIsOwn, ScanCoversDue,
              Live, AbortOnlyOnBadFd
<1>9. CASE UNCHANGED vars
  BY <1>9 DEF vars, IInv, TypeOK, TableConsistent, ReadinessIsOwn, ScanCoversDue,
              Live, Reached, AbortOnlyOnBadFd
<1> QED
  BY <1>1, <1>2, <1>3, <1>4, <1>5, <1>6, <1>7, <1>8, <1>9 DEF Next

(* The invariant holds in every reachable state. *)
THEOREM Invariance == Spec => []IInv
  BY InitInv, StepInv, PTL DEF Spec

(* At every point of a scan, whatever the callbacks do to the table, the   *)
(* vectors of the loop and the indices of the handlers agree.              *)
THEOREM TableAlwaysConsistent == Spec => []TableConsistent
<1>1. IInv => TableConsistent
  BY DEF IInv
<1> QED
  BY <1>1, Invariance, PTL

(* No readiness crosses over to a handler that took a freed slot. *)
THEOREM ReadinessAlwaysOwn == Spec => []ReadinessIsOwn
<1>1. IInv => ReadinessIsOwn
  BY DEF IInv
<1> QED
  BY <1>1, Invariance, PTL

(* No handler is skipped by a pass, and none is served twice. *)
THEOREM ScanAlwaysCovers == Spec => []ScanCoversDue
<1>1. IInv => ScanCoversDue
  BY DEF IInv
<1> QED
  BY <1>1, Invariance, PTL

(* LoopOnce never calls HandleEvents on a null handler or with another's pollfd. *)
THEOREM DispatchAlwaysSafe == Spec => []DispatchIsSafe
<1>1. IInv => DispatchIsSafe
  BY SlotOwner, FdAssumption, NoHandlerAssumption DEF IInv, TypeOK, TableConsistent, DispatchIsSafe
<1> QED
  BY <1>1, Invariance, PTL

(* An assertion of UnRegister or Remove can only fail for a bad descriptor. *)
THEOREM AbortsOnlyOnBadFd == Spec => []AbortOnlyOnBadFd
<1>1. IInv => AbortOnlyOnBadFd
  BY DEF IInv
<1> QED
  BY <1>1, Invariance, PTL

(* The loop is typed and its table consistent, it dispatches safely, and   *)
(* its assertions fail for bad descriptors only.                           *)
THEOREM LoopAlwaysSound == Spec => []Inv
<1>1. IInv => TypeOK
  BY DEF IInv
<1> QED
  BY <1>1, Invariance, TableAlwaysConsistent, DispatchAlwaysSafe, AbortsOnlyOnBadFd, PTL DEF Inv

=============================================================================
