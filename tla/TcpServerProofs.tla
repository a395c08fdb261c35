--------------------------- MODULE TcpServerProofs ---------------------------
(***************************************************************************)
(* The server keeps its slot table, its descriptors, its wheel and its     *)
(* sessions in agreement, for any connections, any limit on their number   *)
(* and any number of slots of the wheel, as long as the process may open   *)
(* the descriptors that many connections need.                             *)
(***************************************************************************)
EXTENDS TcpServer, FifoLemmas

(* Lemmas about the slot table alone are those of PollLoopProofs: they say *)
(* nothing of the state of a loop, for which any values do.                *)
Loop == INSTANCE PollLoopProofs WITH
  FdOf <- [h \in Handlers |-> NoFd], loop <- tbl, phase <- "scan", aborted <- NoHandler,
  due <- {}, fired <- {}, served <- {}

LEMMA LoopAssumptions ==
  /\ NoHandler \notin Handlers
  /\ [h \in Handlers |-> NoFd] \in [Handlers -> Int]
  /\ \A h \in Handlers : [k \in Handlers |-> NoFd][h] >= -1
  /\ \A h, k \in Handlers :
       [g \in Handlers |-> NoFd][h] = [g \in Handlers |-> NoFd][k]
         /\ [g \in Handlers |-> NoFd][h] >= 0 => h = k
  BY TcpServerAssumption DEF NoFd

LEMMA SameTable ==
  /\ Loop!Table = Table
  /\ Loop!EmptyTable = EmptyTable
  /\ \A t : Loop!Slots(t) = Slots(t)
  /\ \A t, h : Loop!Applied(t, h) <=> Applied(t, h)
  /\ \A t, h, f : Loop!Apply(t, h, f) = Apply(t, h, f)
  /\ \A t, h : Loop!UnApply(t, h) = UnApply(t, h)
  /\ \A t, i : Loop!ClearSlot(t, i) = ClearSlot(t, i)
  /\ \A t, ready : Loop!Polled(t, ready) = Polled(t, ready)
<1>1. Loop!Table = Table
  BY DEF Table, Loop!Table, POLLIN, Loop!POLLIN
<1>2. Loop!EmptyTable = EmptyTable
  BY DEF EmptyTable, Loop!EmptyTable
<1>3. \A t : Loop!Slots(t) = Slots(t)
  BY DEF Slots, Loop!Slots
<1>4. \A t, h : Loop!Applied(t, h) <=> Applied(t, h)
  BY DEF Applied, Loop!Applied
<1>5. \A t, h, f : Loop!Apply(t, h, f) = Apply(t, h, f)
  BY DEF Apply, Loop!Apply, Put, Loop!Put, NextSlot, Loop!NextSlot
<1>6. \A t, h : Loop!UnApply(t, h) = UnApply(t, h)
  BY DEF UnApply, Loop!UnApply, NoFd, Loop!NoFd
<1>7. \A t, i : Loop!ClearSlot(t, i) = ClearSlot(t, i)
  BY DEF ClearSlot, Loop!ClearSlot
<1>8. \A t, ready : Loop!Polled(t, ready) = Polled(t, ready)
  BY DEF Polled, Loop!Polled, PolledEntry, Loop!PolledEntry, POLLIN, Loop!POLLIN
<1> QED
  BY <1>1, <1>2, <1>3, <1>4, <1>5, <1>6, <1>7, <1>8

LEMMA SameConsistency ==
  /\ \A t, f : Loop!Consistent(t, f) <=> Consistent(t, f)
  /\ \A t, h, f : Loop!UnApplyAsserts(t, h, f) <=> UnApplyAsserts(t, h, f)
<1>1. ASSUME NEW t, NEW f
      PROVE  Loop!Consistent(t, f) <=> Consistent(t, f)
  <2>1. Loop!SameLength(t) <=> SameLength(t)
    BY DEF SameLength, Loop!SameLength
  <2>2. Loop!IdleDistinct(t) <=> IdleDistinct(t)
    BY DEF IdleDistinct, Loop!IdleDistinct, Slots, Loop!Slots
  <2>3. Loop!SlotOfHandler(t, f) <=> SlotOfHandler(t, f)
    BY DEF SlotOfHandler, Loop!SlotOfHandler, Applied, Loop!Applied, Slots, Loop!Slots
  <2>4. Loop!SlotsUnshared(t) <=> SlotsUnshared(t)
    BY DEF SlotsUnshared, Loop!SlotsUnshared, Applied, Loop!Applied
  <2>5. Loop!IdleIsFree(t) <=> IdleIsFree(t)
    BY DEF IdleIsFree, Loop!IdleIsFree, IsIdle, Loop!IsIdle, Slots, Loop!Slots, NoFd, Loop!NoFd
  <2>6. Loop!NoSlotLost(t) <=> NoSlotLost(t)
    BY DEF NoSlotLost, Loop!NoSlotLost, IsIdle, Loop!IsIdle, Slots, Loop!Slots
  <2> QED
    BY <2>1, <2>2, <2>3, <2>4, <2>5, <2>6 DEF Consistent, Loop!Consistent
<1>2. \A t, h, f : Loop!UnApplyAsserts(t, h, f) <=> UnApplyAsserts(t, h, f)
  BY DEF UnApplyAsserts, Loop!UnApplyAsserts, Slots, Loop!Slots
<1> QED
  BY <1>1, <1>2

(* A handler that comes onto the loop is on it, and no other comes or goes. *)
LEMMA ApplyKeeps ==
  ASSUME NEW t \in Table, NEW fdOf \in [Handlers -> Int], Consistent(t, fdOf),
         NEW h \in Handlers, ~Applied(t, h)
  PROVE  /\ Apply(t, h, fdOf[h]) \in Table
         /\ Consistent(Apply(t, h, fdOf[h]), fdOf)
         /\ \A k \in Handlers : Applied(Apply(t, h, fdOf[h]), k) <=> Applied(t, k) \/ k = h
<1> DEFINE u == Apply(t, h, fdOf[h])
<1>1. u \in Table /\ Consistent(u, fdOf)
  BY Loop!ApplyConsistent, LoopAssumptions, SameTable, SameConsistency
<1>2. t.loopIdx \in [Handlers -> Nat] /\ u.loopIdx = [t.loopIdx EXCEPT ![h] = NextSlot(t)]
  BY DEF Apply, Table
<1>3. NextSlot(t) # 0
  <2>1. /\ t.idle \in Seq(Nat) /\ t.handlers \in Seq(Handlers \cup {NoHandler})
        /\ \A n \in 1 .. Len(t.idle) : t.idle[n] \in Slots(t)
    BY DEF Table, Consistent, IdleDistinct
  <2> QED
    BY <2>1, EmptySeq DEF NextSlot, Slots
<1>4. \A k \in Handlers : Applied(u, k) <=> Applied(t, k) \/ k = h
  <2> HIDE DEF u
  <2> QED
    BY <1>2, <1>3 DEF Applied
<1> QED
  BY <1>1, <1>4

(* A handler that is taken off the loop is off it, and no other comes or goes. *)
LEMMA UnApplyKeeps ==
  ASSUME NEW t \in Table, NEW fdOf \in [Handlers -> Int], Consistent(t, fdOf),
         NEW h \in Handlers, Applied(t, h)
  PROVE  /\ UnApply(t, h) \in Table
         /\ Consistent(UnApply(t, h), fdOf)
         /\ \A k \in Handlers : Applied(UnApply(t, h), k) <=> Applied(t, k) /\ k # h
<1>1. UnApply(t, h) \in Table /\ Consistent(UnApply(t, h), fdOf)
  BY Loop!UnApplyConsistent, LoopAssumptions, SameTable, SameConsistency
<1>2. t.loopIdx \in [Handlers -> Nat] /\ UnApply(t, h).loopIdx = [t.loopIdx EXCEPT ![h] = 0]
  BY DEF UnApply, Table
<1>3. \A k \in Handlers : Applied(UnApply(t, h), k) <=> Applied(t, k) /\ k # h
  BY <1>2 DEF Applied
<1> QED
  BY <1>1, <1>3

LEMMA AssertsHold ==
  ASSUME NEW t \in Table, NEW fdOf \in [Handlers -> Int], Consistent(t, fdOf),
         NEW h \in Handlers, Applied(t, h), fdOf[h] >= 0
  PROVE  UnApplyAsserts(t, h, fdOf[h])
  BY Loop!AssertsHold, LoopAssumptions, SameTable, SameConsistency

LEMMA ClearKeeps ==
  ASSUME NEW t \in Table, NEW fdOf \in [Handlers -> Int], Consistent(t, fdOf),
         NEW i \in Slots(t), t.polls[i].fd < 0
  PROVE  /\ ClearSlot(t, i) \in Table
         /\ Consistent(ClearSlot(t, i), fdOf)
         /\ \A k \in Handlers : Applied(ClearSlot(t, i), k) <=> Applied(t, k)
<1>1. ClearSlot(t, i) \in Table /\ Consistent(ClearSlot(t, i), fdOf)
  BY Loop!ClearConsistent, LoopAssumptions, SameTable, SameConsistency
<1>2. \A k \in Handlers : Applied(ClearSlot(t, i), k) <=> Applied(t, k)
  BY DEF ClearSlot, Applied
<1> QED
  BY <1>1, <1>2

LEMMA PolledKeeps ==
  ASSUME NEW t \in Table, NEW fdOf \in [Handlers -> Int], Consistent(t, fdOf), NEW ready
  PROVE  /\ Polled(t, ready) \in Table
         /\ Consistent(Polled(t, ready), fdOf)
         /\ \A k \in Handlers : Applied(Polled(t, ready), k) <=> Applied(t, k)
<1>1. Polled(t, ready) \in Table /\ Consistent(Polled(t, ready), fdOf)
  BY Loop!PolledConsistent, LoopAssumptions, SameTable, SameConsistency
<1>2. \A k \in Handlers : Applied(Polled(t, ready), k) <=> Applied(t, k)
  BY DEF Polled, Applied
<1> QED
  BY <1>1, <1>2

LEMMA EmptyKeeps ==
  ASSUME NEW fdOf \in [Handlers -> Int]
  PROVE  /\ EmptyTable \in Table /\ Consistent(EmptyTable, fdOf)
         /\ \A k \in Handlers : ~Applied(EmptyTable, k)
<1>1. EmptyTable \in Table /\ Consistent(EmptyTable, fdOf)
  BY Loop!EmptyConsistent, LoopAssumptions, SameTable, SameConsistency
<1>2. \A k \in Handlers : ~Applied(EmptyTable, k)
  BY DEF EmptyTable, Applied
<1> QED
  BY <1>1, <1>2

(* The handler the scan dispatches is on the loop. *)
LEMMA OwnerIsOn ==
  ASSUME NEW t \in Table, NEW fdOf \in [Handlers -> Int], Consistent(t, fdOf),
         NEW i \in Slots(t), NEW h \in Handlers, t.handlers[i] = h
  PROVE  Applied(t, h)
<1>1. t.loopIdx[h] = i
  BY Loop!SlotOwner, LoopAssumptions, SameTable, SameConsistency
<1> QED
  BY <1>1 DEF Applied, Slots

(* The table says nothing of the descriptors of handlers that are not on the loop. *)
LEMMA OtherDescriptors ==
  ASSUME NEW t \in Table, NEW f \in [Handlers -> Int], NEW g \in [Handlers -> Int],
         Consistent(t, f), \A h \in Handlers : Applied(t, h) => g[h] = f[h]
  PROVE  Consistent(t, g)
  BY DEF Consistent, SlotOfHandler

-----------------------------------------------------------------------------
(* The wheel *)

Members(w) == UNION {w[i] : i \in 1 .. NSlots}

(* A connection is in one slot. *)
Apart(w) == \A i, j \in 1 .. NSlots : w[i] \cap w[j] # {} => i = j

Wheels == [1 .. NSlots -> SUBSET Conns]

LEMMA LinkedIsMembers == Linked = Members(wheel) /\ Linked' = Members(wheel')
  BY DEF Linked, Members

LEMMA MembersFacts ==
  ASSUME NEW w
  PROVE  \A c : c \in Members(w) <=> \E i \in 1 .. NSlots : c \in w[i]
  BY DEF Members

(* The wheel turns without losing a connection. *)
LEMMA RotatedKeeps ==
  ASSUME wheel \in Wheels, Apart(wheel)
  PROVE  /\ Rotated \in Wheels /\ Apart(Rotated)
         /\ Members(Rotated) = Members(wheel)
<1> DEFINE after(i) == IF i < NSlots THEN i + 1 ELSE 1
<1>1. NSlots \in Nat /\ NSlots > 1
  BY TcpServerAssumption
<1>2. \A i \in 1 .. NSlots : after(i) \in 1 .. NSlots /\ Rotated[i] = wheel[after(i)]
  BY <1>1 DEF Rotated
<1>3. \A i, j \in 1 .. NSlots : after(i) = after(j) => i = j
  BY <1>1
<1>4. \A i \in 1 .. NSlots : \E j \in 1 .. NSlots : after(j) = i
  <2> SUFFICES ASSUME NEW i \in 1 .. NSlots PROVE \E j \in 1 .. NSlots : after(j) = i
    OBVIOUS
  <2>1. CASE i = 1
    BY <1>1, <2>1
  <2>2. CASE i # 1
    <3>1. i - 1 \in 1 .. NSlots /\ after(i - 1) = i
      BY <1>1, <2>2
    <3> QED
      BY <3>1
  <2> QED
    BY <2>1, <2>2
<1>5. Rotated \in Wheels
  BY <1>1 DEF Wheels, Rotated
<1> HIDE DEF after
<1>6. Apart(Rotated)
  BY <1>2, <1>3 DEF Apart
<1>7. Members(Rotated) = Members(wheel)
  <2>1. /\ \A x : x \in Members(Rotated) <=> \E i \in 1 .. NSlots : x \in Rotated[i]
        /\ \A x : x \in Members(wheel) <=> \E i \in 1 .. NSlots : x \in wheel[i]
    BY MembersFacts
  <2>2. \A x : x \in Members(Rotated) <=> x \in Members(wheel)
    BY <1>2, <1>4, <2>1
  <2> QED
    BY <2>2
<1> QED
  BY <1>5, <1>6, <1>7

(* A connection that is heard goes to the back. *)
LEMMA RelinkedKeeps ==
  ASSUME wheel \in Wheels, Apart(wheel), NEW c \in Members(wheel)
  PROVE  /\ Relinked(c) \in Wheels /\ Apart(Relinked(c))
         /\ Members(Relinked(c)) = Members(wheel)
<1>1. NSlots \in 1 .. NSlots /\ c \in Conns
  BY TcpServerAssumption, MembersFacts DEF Wheels
<1>2. \A i \in 1 .. NSlots :
        Relinked(c)[i] = IF i = NSlots THEN wheel[i] \cup {c} ELSE wheel[i] \ {c}
  BY DEF Relinked
<1>3. Relinked(c) \in Wheels
  BY <1>1 DEF Wheels, Relinked
<1>4. Apart(Relinked(c))
  BY <1>2 DEF Apart
<1>5. Members(Relinked(c)) = Members(wheel)
  <2>1. /\ \A x : x \in Members(Relinked(c)) <=> \E i \in 1 .. NSlots : x \in Relinked(c)[i]
        /\ \A x : x \in Members(wheel) <=> \E i \in 1 .. NSlots : x \in wheel[i]
    BY MembersFacts
  <2>2. ASSUME NEW x
        PROVE  x \in Members(Relinked(c)) <=> x \in Members(wheel)
    <3>1. CASE x = c
      BY <1>1, <1>2, <2>1, <3>1
    <3>2. CASE x # c
      <4>1. \A i \in 1 .. NSlots : x \in Relinked(c)[i] <=> x \in wheel[i]
        BY <1>2, <3>2
      <4> QED
        BY <2>1, <3>2, <4>1
    <3> QED
      BY <3>1, <3>2
  <2> QED
    BY <2>2
<1> QED
  BY <1>3, <1>4, <1>5

(* A connection that is closed leaves. *)
LEMMA UnlinkedKeeps ==
  ASSUME wheel \in Wheels, Apart(wheel), NEW c
  PROVE  /\ Unlinked(c) \in Wheels /\ Apart(Unlinked(c))
         /\ Members(Unlinked(c)) = Members(wheel) \ {c}
<1>1. \A i \in 1 .. NSlots : Unlinked(c)[i] = wheel[i] \ {c}
  BY DEF Unlinked
<1>2. Unlinked(c) \in Wheels
  BY DEF Wheels, Unlinked
<1>3. Apart(Unlinked(c))
  BY <1>1 DEF Apart
<1>4. Members(Unlinked(c)) = Members(wheel) \ {c}
  BY <1>1, MembersFacts
<1> QED
  BY <1>2, <1>3, <1>4

(* A new connection joins at the back. *)
LEMMA JoinedKeeps ==
  ASSUME wheel \in Wheels, Apart(wheel), NEW c \in Conns, c \notin Members(wheel),
         NEW w, w = [wheel EXCEPT ![NSlots] = @ \cup {c}]
  PROVE  /\ w \in Wheels /\ Apart(w)
         /\ Members(w) = Members(wheel) \cup {c}
<1>1. NSlots \in 1 .. NSlots
  BY TcpServerAssumption
<1>2. \A i \in 1 .. NSlots : w[i] = IF i = NSlots THEN wheel[i] \cup {c} ELSE wheel[i]
  BY DEF Wheels
<1>3. w \in Wheels
  BY <1>1 DEF Wheels
<1>4. Apart(w)
  BY <1>2, MembersFacts DEF Apart
<1>5. Members(w) = Members(wheel) \cup {c}
  <2>1. /\ \A x : x \in Members(w) <=> \E i \in 1 .. NSlots : x \in w[i]
        /\ \A x : x \in Members(wheel) <=> \E i \in 1 .. NSlots : x \in wheel[i]
    BY MembersFacts
  <2>2. ASSUME NEW x
        PROVE  x \in Members(w) <=> x \in Members(wheel) \/ x = c
    <3>1. CASE x = c
      <4>1. c \in w[NSlots]
        BY <1>1, <1>2
      <4>2. c \in Members(w)
        BY <1>1, <2>1, <4>1
      <4> QED
        BY <3>1, <4>2
    <3>2. CASE x # c
      <4>1. \A i \in 1 .. NSlots : x \in w[i] <=> x \in wheel[i]
        BY <1>2, <3>2
      <4>2. x \in Members(w) <=> \E i \in 1 .. NSlots : x \in w[i]
        BY <2>1
      <4>3. x \in Members(wheel) <=> \E i \in 1 .. NSlots : x \in wheel[i]
        BY <2>1
      <4>4. x \in Members(w) <=> x \in Members(wheel)
        BY <4>1, <4>2, <4>3
      <4> QED
        BY <3>2, <4>4
    <3> QED
      BY <3>1, <3>2
  <2> QED
    BY <2>2
<1> QED
  BY <1>3, <1>4, <1>5

-----------------------------------------------------------------------------
(* The descriptors *)

(* The process may open what the loop, the acceptor, the timer and MaxConn *)
(* connections with their WakeUppers need.                                 *)
EnoughFds == MaxFd >= FirstFd + 2 + 2 * MaxConn

(* The kernel gives out a free descriptor, where there is one. *)
LEMMA LowestFdFacts ==
  ASSUME NEW used, \E f \in FirstFd .. MaxFd : f \notin used
  PROVE  LowestFd(used) \in FirstFd .. MaxFd /\ LowestFd(used) \notin used
<1> DEFINE free == (FirstFd .. MaxFd) \ used
<1>1. free # {} /\ free \in SUBSET Nat
  BY TcpServerAssumption DEF FirstFd
<1>2. \E f \in free : \A g \in free : f <= g
  <2> HIDE DEF free
  <2> QED
    BY <1>1, HasLeast
<1>3. LowestFd(used) = CHOOSE f \in free : \A g \in free : f <= g
  BY <1>1 DEF LowestFd
<1>4. LowestFd(used) \in free
  <2> HIDE DEF free
  <2> QED
    BY <1>2, <1>3
<1> QED
  BY <1>4

(* A set smaller than the range of descriptors does not hold all of them. *)
LEMMA OneIsFree ==
  ASSUME NEW S, IsFiniteSet(S), Cardinality(S) < MaxFd - 2
  PROVE  \E f \in FirstFd .. MaxFd : f \notin S
<1> SUFFICES ASSUME FirstFd .. MaxFd \subseteq S PROVE FALSE
  OBVIOUS
<1>1. Cardinality(FirstFd .. MaxFd) = MaxFd - 2
  BY FS_Interval, TcpServerAssumption DEF FirstFd
<1>2. Cardinality(FirstFd .. MaxFd) <= Cardinality(S)
  BY FS_Subset
<1>3. Cardinality(S) \in Nat
  BY FS_CardinalityType
<1> QED
  BY <1>1, <1>2, <1>3, TcpServerAssumption

-----------------------------------------------------------------------------
(* The invariant *)

(* An entry of mHoles is one of mHandlers; what is on the wheel can be counted. *)
HolesAreEntries == \A n \in 1 .. Len(holes) : holes[n] \in 1 .. Len(sessions)

(* The fixed handlers have one descriptor each, every connection two. *)
FdsAreCounted == Cardinality(open) = 3 + 2 * nconn

IInv ==
  /\ Inv
  /\ FdsAreOwned
  /\ HolesAreEntries
  /\ FdsAreCounted
  /\ IsFiniteSet(Linked)

LEMMA HandlerFacts ==
  /\ LoopWk \in Handlers /\ Acc \in Handlers /\ Tim \in Handlers
  /\ \A c \in Conns : Conn(c) \in Handlers /\ Wk(c) \in Handlers
  /\ \A c, d : Conn(c) = Conn(d) => c = d
  /\ \A c, d : Wk(c) = Wk(d) => c = d
  /\ \A c, d : Conn(c) # Wk(d)
  /\ \A c : Conn(c) \notin {LoopWk, Acc, Tim} /\ Wk(c) \notin {LoopWk, Acc, Tim}
  /\ \A h \in Handlers : \/ h \in {LoopWk, Acc, Tim}
                         \/ \E c \in Conns : h = Conn(c) \/ h = Wk(c)
  /\ LoopWk # Acc /\ LoopWk # Tim /\ Acc # Tim
  BY DEF Handlers, LoopWk, Acc, Tim, Conn, Wk

LEMMA InitInv == Init => IInv
<1> SUFFICES ASSUME Init PROVE IInv
  OBVIOUS
<1> DEFINE t1 == Apply(EmptyTable, LoopWk, FirstFd)
           t2 == Apply(t1, Acc, FirstFd + 1)
           t3 == Apply(t2, Tim, FirstFd + 2)
<1>1. /\ fd \in [Handlers -> Int]
      /\ fd[LoopWk] = FirstFd /\ fd[Acc] = FirstFd + 1 /\ fd[Tim] = FirstFd + 2
  BY HandlerFacts DEF Init, FirstFd, NoFd
<1>2. /\ EmptyTable \in Table /\ Consistent(EmptyTable, fd)
      /\ \A k \in Handlers : ~Applied(EmptyTable, k)
  BY <1>1, EmptyKeeps
<1>3. /\ t1 \in Table /\ Consistent(t1, fd)
      /\ \A k \in Handlers : Applied(t1, k) <=> k = LoopWk
  BY <1>1, <1>2, HandlerFacts, ApplyKeeps
<1>4. /\ t2 \in Table /\ Consistent(t2, fd)
      /\ \A k \in Handlers : Applied(t2, k) <=> k \in {LoopWk, Acc}
  <2> HIDE DEF t1
  <2> QED
    BY <1>1, <1>3, HandlerFacts, ApplyKeeps
<1>5. /\ t3 \in Table /\ Consistent(t3, fd)
      /\ \A k \in Handlers : Applied(t3, k) <=> k \in {LoopWk, Acc, Tim}
  <2> HIDE DEF t2
  <2> QED
    BY <1>1, <1>4, HandlerFacts, ApplyKeeps
<1>6. /\ tbl \in Table /\ Consistent(tbl, fd)
      /\ \A k \in Handlers : Applied(tbl, k) <=> k \in {LoopWk, Acc, Tim}
  <2>1. tbl = t3
    BY DEF Init
  <2> HIDE DEF t3
  <2> QED
    BY <1>5, <2>1
<1>7. Linked = {} /\ wheel \in Wheels /\ Apart(wheel)
  BY DEF Init, Linked, Wheels, Apart
<1>8. IsFiniteSet(Linked) /\ Cardinality(Linked) = 0
  BY <1>7, FS_EmptySet
<1>9. TypeOK
  BY <1>1, <1>6, <1>7, TcpServerAssumption DEF Init, TypeOK, FixedFds, FirstFd, Wheels
<1>10. ConnCount
  <2>1. \A c \in Conns : ~Applied(tbl, Conn(c)) /\ ~Applied(tbl, Wk(c))
    BY <1>6, HandlerFacts
  <2> QED
    BY <1>7, <1>8, <2>1, TcpServerAssumption DEF Init, ConnCount, Apart
<1>11. SessionsConsistent /\ HolesAreEntries
  BY <1>7 DEF Init, SessionsConsistent, HolesAreEntries
<1>12. WheelCounts
  BY <1>7 DEF WheelCounts
<1>13. FdsAreOwned
  <2>1. AppliedHandlers(tbl) = {LoopWk, Acc, Tim}
    BY <1>6, HandlerFacts DEF AppliedHandlers
  <2>2. open = {FirstFd, FirstFd + 1, FirstFd + 2}
    BY DEF Init, FixedFds, FirstFd
  <2>3. {fd[h] : h \in AppliedHandlers(tbl)} = {FirstFd, FirstFd + 1, FirstFd + 2}
    BY <1>1, <2>1
  <2>4. \A h, k \in AppliedHandlers(tbl) : fd[h] = fd[k] => h = k
    BY <1>1, <2>1 DEF FirstFd
  <2> QED
    BY <2>2, <2>3, <2>4 DEF FdsAreOwned
<1>14. FdsAreCounted
  <2>1. FirstFd \in Int /\ FirstFd + 2 \in Int
    BY DEF FirstFd
  <2>2. Cardinality(FirstFd .. FirstFd + 2) = 3
    BY <2>1, FS_Interval
  <2> QED
    BY <2>2 DEF Init, FdsAreCounted, FixedFds
<1> QED
  BY <1>6, <1>8, <1>9, <1>10, <1>11, <1>12, <1>13, <1>14
     DEF IInv, Inv, TableConsistent, NoAssertionFails, Init

(* Steps of the scan that neither open nor close a connection. *)
LEMMA ScanStepInv ==
  ASSUME IInv, tbl' \in Table, Consistent(tbl', fd), cursor' \in Nat,
         \A k \in Handlers : Applied(tbl', k) <=> Applied(tbl, k),
         UNCHANGED <<fd, open, wheel, nconn, closing, appVars, failed, silent>>
  PROVE  IInv'
<1>1. Linked' = Linked /\ UNCHANGED <<sessions, holes, idx>>
  BY DEF Linked, appVars
<1>2. AppliedHandlers(tbl') = AppliedHandlers(tbl)
  BY DEF AppliedHandlers
<1>3. TypeOK' /\ TableConsistent' /\ NoAssertionFails'
  BY <1>1 DEF IInv, Inv, TypeOK, TableConsistent, NoAssertionFails
<1>4. ConnCount'
  <2>1. \A c \in Conns : /\ Applied(tbl', Conn(c)) <=> Applied(tbl, Conn(c))
                         /\ Applied(tbl', Wk(c)) <=> Applied(tbl, Wk(c))
    BY HandlerFacts
  <2> QED
    BY <1>1, <2>1 DEF IInv, Inv, ConnCount
<1>5. SessionsConsistent' /\ WheelCounts' /\ HolesAreEntries' /\ FdsAreCounted'
  BY <1>1 DEF IInv, Inv, SessionsConsistent, WheelCounts, HolesAreEntries, FdsAreCounted
<1>6. FdsAreOwned'
  BY <1>2 DEF IInv, FdsAreOwned
<1> QED
  BY <1>1, <1>3, <1>4, <1>5, <1>6 DEF IInv, Inv

LEMMA TableFacts ==
  ASSUME IInv
  PROVE  /\ tbl \in Table /\ fd \in [Handlers -> Int] /\ Consistent(tbl, fd)
         /\ cursor \in Nat
         /\ wheel \in Wheels /\ Apart(wheel) /\ Linked = Members(wheel)
         /\ Linked \subseteq Conns
         /\ NSlots \in Nat /\ NSlots > 1
<1>1. wheel \in Wheels /\ Apart(wheel)
  BY DEF IInv, Inv, TypeOK, ConnCount, Wheels, Apart
<1>2. Linked \subseteq Conns
  BY <1>1 DEF Linked, Wheels
<1> QED
  BY <1>1, <1>2, LinkedIsMembers, TcpServerAssumption DEF IInv, Inv, TypeOK, TableConsistent

LEMMA PollReturnsInv == ASSUME IInv, PollReturns PROVE IInv'
  BY TableFacts, PolledKeeps, ScanStepInv DEF PollReturns

LEMMA SkipSlotInv == ASSUME IInv, SkipSlot PROVE IInv'
  BY TableFacts, ClearKeeps, ScanStepInv DEF SkipSlot

LEMMA CursorInv ==
  ASSUME IInv, EndPass \/ Quiet \/ Reject
  PROVE  IInv'
<1>1. cursor' \in Nat /\ UNCHANGED <<tbl, fd, open, wheel, nconn, closing, appVars, failed, silent>>
  BY TableFacts DEF EndPass, Quiet, Reject
<1> QED
  BY <1>1, TableFacts, ScanStepInv

(* The scan dispatches only handlers that are on the loop. *)
LEMMA DispatchedIsOn ==
  ASSUME IInv, NEW h \in Handlers, Dispatching(h)
  PROVE  Applied(tbl, h)
  BY TableFacts, OwnerIsOn DEF Dispatching

(* What closing and the wheel are after a step that takes no connection on or off. *)
LEMMA WheelStepInv ==
  ASSUME IInv, wheel' \in Wheels, Apart(wheel'), Members(wheel') = Members(wheel),
         closing' \subseteq Linked, silent' \in [Conns -> Nat], cursor' \in Nat, WheelCounts',
         UNCHANGED <<tbl, fd, open, nconn, appVars, failed>>
  PROVE  IInv'
<1>1. Linked' = Linked /\ UNCHANGED <<sessions, holes, idx>>
  BY LinkedIsMembers DEF appVars
<1>2. closing' \subseteq Conns
  BY TableFacts
<1>3. TypeOK' /\ TableConsistent' /\ NoAssertionFails'
  BY <1>1, <1>2 DEF IInv, Inv, TypeOK, TableConsistent, NoAssertionFails, Wheels
<1>4. ConnCount'
  BY <1>1 DEF IInv, Inv, ConnCount, Apart
<1>5. SessionsConsistent' /\ HolesAreEntries' /\ FdsAreCounted' /\ FdsAreOwned'
  BY <1>1 DEF IInv, Inv, SessionsConsistent, HolesAreEntries, FdsAreCounted, FdsAreOwned
<1> QED
  BY <1>1, <1>3, <1>4, <1>5 DEF IInv, Inv

(* What a tick does to a connection on the wheel that nobody has asked to close. *)
LEMMA TickFacts ==
  ASSUME IInv, Tick, NEW c \in Linked \ closing
  PROVE  /\ silent[c] \in Nat /\ silent[c] < NSlots /\ c \in wheel[NSlots - silent[c]]
         /\ silent'[c] = silent[c] + 1
         /\ c \in wheel[1] <=> silent'[c] = NSlots
<1>0. c \in Conns /\ NSlots \in Nat /\ NSlots > 1
  BY TableFacts
<1>1. silent[c] \in Nat /\ silent[c] < NSlots /\ c \in wheel[NSlots - silent[c]]
  BY <1>0 DEF IInv, Inv, TypeOK, WheelCounts
<1>2. silent'[c] = silent[c] + 1
  BY <1>0, <1>1 DEF Tick
<1>3. ASSUME c \in wheel[1] PROVE silent'[c] = NSlots
  <2>1. NSlots - silent[c] \in 1 .. NSlots /\ 1 \in 1 .. NSlots
    BY <1>0, <1>1
  <2>2. wheel[1] \cap wheel[NSlots - silent[c]] # {}
    BY <1>1, <1>3
  <2>3. NSlots - silent[c] = 1
    BY <2>1, <2>2, TableFacts DEF Apart
  <2> QED
    BY <1>0, <1>1, <1>2, <2>3
<1>4. ASSUME silent'[c] = NSlots PROVE c \in wheel[1]
  <2>1. NSlots - silent[c] = 1
    BY <1>0, <1>1, <1>2, <1>4
  <2> QED
    BY <1>1, <2>1
<1> QED
  BY <1>1, <1>2, <1>3, <1>4

LEMMA TickInv == ASSUME IInv, Tick PROVE IInv'
<1>0. /\ closing' = closing \cup wheel[1] /\ wheel' = Rotated /\ cursor' = cursor + 1
      /\ UNCHANGED <<tbl, fd, open, nconn, appVars, failed>>
  BY DEF Tick, TimedOut
<1>1. /\ wheel' \in Wheels /\ Apart(wheel') /\ Members(wheel') = Members(wheel)
      /\ Linked' = Linked
  BY <1>0, TableFacts, RotatedKeeps, LinkedIsMembers
<1>2. silent' \in [Conns -> Nat]
  <2>1. silent \in [Conns -> Nat]
    BY DEF IInv, Inv, TypeOK
  <2>2. \A c \in Conns : (IF c \notin Linked THEN 0
                         ELSE IF silent[c] > NSlots THEN silent[c] ELSE silent[c] + 1) \in Nat
    BY <2>1
  <2> QED
    BY <2>2 DEF Tick
<1>3. closing' \subseteq Linked
  <2>1. 1 \in 1 .. NSlots
    BY TableFacts
  <2>2. wheel[1] \subseteq Linked
    BY <2>1 DEF Linked
  <2> QED
    BY <1>0, <2>2 DEF IInv, Inv, ConnCount
<1>4. WheelCounts'
  <2> SUFFICES ASSUME NEW c \in Linked' \ closing'
               PROVE  silent'[c] < NSlots /\ c \in wheel'[NSlots - silent'[c]]
    BY DEF WheelCounts
  <2>1. c \in Linked \ closing /\ c \notin wheel[1]
    BY <1>0, <1>1
  <2>2. /\ silent[c] \in Nat /\ silent[c] < NSlots /\ c \in wheel[NSlots - silent[c]]
        /\ silent'[c] = silent[c] + 1
        /\ silent'[c] # NSlots
    BY <2>1, TickFacts
  <2>3. /\ silent'[c] < NSlots
        /\ NSlots - silent'[c] \in 1 .. NSlots
        /\ NSlots - silent'[c] < NSlots
        /\ (NSlots - silent'[c]) + 1 = NSlots - silent[c]
    BY <2>2, TableFacts
  <2>4. wheel'[NSlots - silent'[c]] = wheel[(NSlots - silent'[c]) + 1]
    BY <1>0, <2>3 DEF Rotated
  <2> QED
    BY <2>2, <2>3, <2>4
<1>5. cursor' \in Nat
  BY <1>0, TableFacts
<1> QED
  BY <1>0, <1>1, <1>2, <1>3, <1>4, <1>5, WheelStepInv

(* A WakeUpper on the loop is that of a connection. *)
LEMMA WakeAndCloseInv == ASSUME IInv, NEW c \in Conns, WakeAndClose(c) PROVE IInv'
<1>0. /\ closing' = closing \cup {c} /\ cursor' = cursor + 1
      /\ UNCHANGED <<tbl, fd, open, wheel, nconn, appVars, failed, silent>>
  BY DEF WakeAndClose
<1>1. Applied(tbl, Wk(c))
  BY DispatchedIsOn, HandlerFacts DEF WakeAndClose
<1>2. c \in Linked /\ closing \subseteq Linked
  BY <1>1 DEF IInv, Inv, ConnCount
<1>3. WheelCounts'
  BY <1>0, LinkedIsMembers DEF IInv, Inv, WheelCounts
<1>4. wheel' \in Wheels /\ Apart(wheel') /\ Members(wheel') = Members(wheel) /\ cursor' \in Nat
  BY <1>0, TableFacts
<1>5. silent' \in [Conns -> Nat]
  BY <1>0 DEF IInv, Inv, TypeOK
<1> QED
  BY <1>0, <1>2, <1>3, <1>4, <1>5, WheelStepInv

LEMMA MessageInv == ASSUME IInv, NEW c \in Conns, Message(c) PROVE IInv'
<1>0. /\ wheel' = Relinked(c) /\ silent' = [silent EXCEPT ![c] = 0] /\ cursor' = cursor + 1
      /\ UNCHANGED <<tbl, fd, open, nconn, closing, appVars, failed>>
  BY DEF Message
<1>1. Applied(tbl, Conn(c))
  BY DispatchedIsOn, HandlerFacts DEF Message
<1>2. c \in Linked /\ closing \subseteq Linked
  BY <1>1 DEF IInv, Inv, ConnCount
<1>3. /\ wheel' \in Wheels /\ Apart(wheel') /\ Members(wheel') = Members(wheel)
      /\ Linked' = Linked
  BY <1>0, <1>2, TableFacts, RelinkedKeeps, LinkedIsMembers
<1>4. silent \in [Conns -> Nat] /\ silent' \in [Conns -> Nat]
  BY <1>0 DEF IInv, Inv, TypeOK
<1>5. WheelCounts'
  <2> SUFFICES ASSUME NEW d \in Linked \ closing
               PROVE  silent'[d] < NSlots /\ d \in wheel'[NSlots - silent'[d]]
    BY <1>0, <1>3 DEF WheelCounts
  <2>0. /\ silent[d] \in Nat /\ silent[d] < NSlots /\ d \in wheel[NSlots - silent[d]]
        /\ d \in Conns /\ NSlots \in Nat /\ NSlots > 1
    BY <1>4, TableFacts DEF IInv, Inv, WheelCounts
  <2>1. \A i \in 1 .. NSlots :
          wheel'[i] = IF i = NSlots THEN wheel[i] \cup {c} ELSE wheel[i] \ {c}
    BY <1>0 DEF Relinked
  <2>2. CASE d = c
    <3>1. silent'[d] = 0 /\ NSlots - 0 = NSlots /\ NSlots \in 1 .. NSlots
      BY <1>0, <1>4, <2>0, <2>2
    <3>2. d \in wheel'[NSlots]
      BY <2>1, <2>2, <3>1
    <3> QED
      BY <2>0, <3>1, <3>2
  <2>3. CASE d # c
    <3>1. silent'[d] = silent[d] /\ NSlots - silent[d] \in 1 .. NSlots
      BY <1>0, <1>4, <2>0, <2>3
    <3> QED
      BY <2>0, <2>1, <2>3, <3>1
  <2> QED
    BY <2>2, <2>3
<1>6. cursor' \in Nat
  BY <1>0, TableFacts
<1> QED
  BY <1>0, <1>2, <1>3, <1>4, <1>5, <1>6, WheelStepInv

-----------------------------------------------------------------------------
(* The session table *)

Entries == Seq(Conns \cup {NoConn})

LEMMA SessionFacts ==
  ASSUME IInv
  PROVE  /\ sessions \in Entries /\ holes \in Seq(Nat \ {0}) /\ idx \in [Conns -> Nat]
         /\ Len(sessions) \in Nat /\ Len(holes) \in Nat /\ nconn \in Nat
         /\ Linked \subseteq Conns /\ NoConn \notin Conns
<1>1. sessions \in Entries /\ holes \in Seq(Nat \ {0}) /\ idx \in [Conns -> Nat] /\ nconn \in Nat
  BY DEF IInv, Inv, TypeOK, Entries
<1>2. Len(sessions) \in Nat /\ Len(holes) \in Nat
  BY <1>1, LenProperties DEF Entries
<1> QED
  BY <1>1, <1>2, TableFacts, TcpServerAssumption

(* A session whose index is taken from mHoles, or is a new one. *)
LEMMA SessionAdded ==
  ASSUME IInv, NEW c \in Conns, c \notin Linked,
         sessions' = Put(sessions, FreeIdx, c),
         holes' = IF holes = << >> THEN << >> ELSE SubSeq(holes, 1, Len(holes) - 1),
         idx' = [idx EXCEPT ![c] = FreeIdx],
         Linked' = Linked \cup {c}, nconn' = nconn + 1
  PROVE  /\ sessions' \in Entries /\ holes' \in Seq(Nat \ {0}) /\ idx' \in [Conns -> Nat]
         /\ SessionsConsistent' /\ HolesAreEntries'
<1> DEFINE k == FreeIdx
<1>0. /\ sessions \in Entries /\ holes \in Seq(Nat \ {0}) /\ idx \in [Conns -> Nat]
      /\ Len(sessions) \in Nat /\ Len(holes) \in Nat /\ nconn \in Nat
      /\ Linked \subseteq Conns /\ NoConn \notin Conns
  BY SessionFacts
<1>1. /\ \A d \in Linked : idx[d] \in 1 .. Len(sessions) /\ sessions[idx[d]] = d
      /\ \A i \in 1 .. Len(sessions) :
           sessions[i] = NoConn <=> \E n \in 1 .. Len(holes) : holes[n] = i
      /\ \A n, m \in 1 .. Len(holes) : holes[n] = holes[m] => n = m
      /\ Len(sessions) = Len(holes) + nconn
      /\ \A n \in 1 .. Len(holes) : holes[n] \in 1 .. Len(sessions)
  BY DEF IInv, Inv, SessionsConsistent, HolesAreEntries
<1>2. CASE holes = << >>
  <2>1. k = Len(sessions) + 1 /\ sessions' = Append(sessions, c) /\ holes' = << >>
        /\ Len(holes) = 0
    BY <1>2 DEF Put, FreeIdx
  <2>2. /\ sessions' \in Entries /\ Len(sessions') = Len(sessions) + 1
        /\ \A i \in 1 .. Len(sessions) : sessions'[i] = sessions[i]
        /\ sessions'[k] = c
    <3>1. sessions \in Seq(Conns \cup {NoConn}) /\ c \in Conns \cup {NoConn}
      BY <1>0 DEF Entries
    <3>2. /\ Append(sessions, c) \in Seq(Conns \cup {NoConn})
          /\ Len(Append(sessions, c)) = Len(sessions) + 1
          /\ \A i \in 1 .. Len(sessions) : Append(sessions, c)[i] = sessions[i]
          /\ Append(sessions, c)[Len(sessions) + 1] = c
      BY <3>1, AppendProperties
    <3> HIDE DEF k
    <3> QED
      BY <2>1, <3>2 DEF Entries
  <2> HIDE DEF k
  <2>3. idx' = [idx EXCEPT ![c] = k] /\ idx' \in [Conns -> Nat]
    BY <1>0, <2>1 DEF k
  <2>4. \A d \in Linked' : idx'[d] \in 1 .. Len(sessions') /\ sessions'[idx'[d]] = d
    <3> SUFFICES ASSUME NEW d \in Linked'
                 PROVE  idx'[d] \in 1 .. Len(sessions') /\ sessions'[idx'[d]] = d
      OBVIOUS
    <3>1. CASE d = c
      BY <1>0, <2>1, <2>2, <2>3, <3>1
    <3>2. CASE d # c
      <4>1. idx'[d] = idx[d] /\ d \in Linked
        BY <1>0, <2>3, <3>2
      <4> QED
        BY <1>0, <1>1, <2>2, <4>1
    <3> QED
      BY <3>1, <3>2
  <2>5. \A i \in 1 .. Len(sessions') : sessions'[i] # NoConn
    <3> SUFFICES ASSUME NEW i \in 1 .. Len(sessions') PROVE sessions'[i] # NoConn
      OBVIOUS
    <3>1. CASE i = k
      BY <1>0, <2>2, <3>1
    <3>2. CASE i # k
      <4>1. i \in 1 .. Len(sessions)
        BY <1>0, <2>1, <2>2, <3>2
      <4> QED
        BY <1>1, <2>1, <2>2, <4>1
    <3> QED
      BY <3>1, <3>2
  <2>6. Len(holes') = 0 /\ holes' \in Seq(Nat \ {0})
    BY <2>1
  <2> QED
    BY <1>0, <1>1, <2>1, <2>2, <2>3, <2>4, <2>5, <2>6 DEF SessionsConsistent, HolesAreEntries
<1>3. CASE holes # << >>
  <2>1. holes \in Seq(Nat)
    BY <1>0
  <2>2. /\ Len(holes) \in Nat \ {0} /\ Len(holes') = Len(holes) - 1
        /\ \A j \in 1 .. Len(holes) - 1 : holes'[j] = holes[j]
    BY <1>3, <2>1, PopFacts
  <2>3. holes' \in Seq(Nat \ {0})
    <3>1. holes' \in Seq(Nat)
      BY <1>3, <2>1, PopFacts
    <3>2. \A j \in 1 .. Len(holes') : holes'[j] \in Nat \ {0}
      BY <1>0, <2>2
    <3> QED
      BY <3>1, <3>2
  <2>4. k = holes[Len(holes)] /\ k \in 1 .. Len(sessions) /\ sessions[k] = NoConn
    BY <1>1, <1>3, <2>2 DEF FreeIdx
  <2>5. sessions' = [sessions EXCEPT ![k] = c]
    BY <1>0, <2>4 DEF Put
  <2> HIDE DEF k
  <2>6. /\ sessions' \in Entries /\ Len(sessions') = Len(sessions)
        /\ \A i \in 1 .. Len(sessions) : sessions'[i] = IF i = k THEN c ELSE sessions[i]
    BY <1>0, <2>4, <2>5 DEF Entries
  <2>7. idx' = [idx EXCEPT ![c] = k] /\ idx' \in [Conns -> Nat]
    BY <1>0, <2>4 DEF k
  <2>8. \A d \in Linked' : idx'[d] \in 1 .. Len(sessions') /\ sessions'[idx'[d]] = d
    <3> SUFFICES ASSUME NEW d \in Linked'
                 PROVE  idx'[d] \in 1 .. Len(sessions') /\ sessions'[idx'[d]] = d
      OBVIOUS
    <3>1. CASE d = c
      BY <1>0, <2>4, <2>6, <2>7, <3>1
    <3>2. CASE d # c
      <4>1. idx'[d] = idx[d] /\ d \in Linked /\ d # NoConn
        BY <1>0, <2>7, <3>2
      <4>2. idx[d] # k
        BY <1>1, <2>4, <4>1
      <4> QED
        BY <1>1, <2>6, <4>1, <4>2
    <3> QED
      BY <3>1, <3>2
  <2>9. ASSUME NEW i \in 1 .. Len(sessions')
        PROVE  sessions'[i] = NoConn <=> \E n \in 1 .. Len(holes') : holes'[n] = i
    <3>1. CASE i = k
      <4>1. ASSUME NEW n \in 1 .. Len(holes') PROVE holes'[n] # k
        BY <1>1, <2>2, <2>4, <4>1
      <4> QED
        BY <1>0, <2>6, <3>1, <4>1
    <3>2. CASE i # k
      <4>1. sessions'[i] = sessions[i] /\ i \in 1 .. Len(sessions)
        BY <2>6, <3>2
      <4>2. \A n \in 1 .. Len(holes') : n \in 1 .. Len(holes) /\ holes'[n] = holes[n]
        BY <2>2
      <4>3. \A n \in 1 .. Len(holes) : holes[n] = i => n \in 1 .. Len(holes')
        BY <2>2, <2>4, <3>2
      <4> QED
        BY <1>1, <4>1, <4>2, <4>3
    <3> QED
      BY <3>1, <3>2
  <2>10. /\ \A n, m \in 1 .. Len(holes') : holes'[n] = holes'[m] => n = m
         /\ \A n \in 1 .. Len(holes') : holes'[n] \in 1 .. Len(sessions')
    <3>1. \A n \in 1 .. Len(holes') : n \in 1 .. Len(holes) /\ holes'[n] = holes[n]
      BY <2>2
    <3>2. Len(sessions') = Len(sessions)
      BY <2>6
    <3>3. \A n, m \in 1 .. Len(holes') : holes'[n] = holes'[m] => n = m
      BY <1>1, <3>1
    <3>4. \A n \in 1 .. Len(holes') : holes'[n] \in 1 .. Len(sessions)
      BY <1>1, <3>1
    <3> QED
      BY ONLY <3>2, <3>3, <3>4
  <2>11. Len(sessions') = Len(holes') + nconn'
    <3> DEFINE S == Len(sessions)
               H == Len(holes)
               S1 == Len(sessions')
               H1 == Len(holes')
    <3>1. S = H + nconn /\ nconn' = nconn + 1
      BY <1>1
    <3>2. S1 = S /\ H1 = H - 1
      BY <2>2, <2>6
    <3>3. S \in Nat /\ H \in Nat /\ nconn \in Nat
      BY <1>0
    <3> HIDE DEF S, H, S1, H1
    <3>4. S1 = H1 + nconn'
      BY ONLY <3>1, <3>2, <3>3
    <3> QED
      BY <3>4 DEF S1, H1
  <2> QED
    BY <2>3, <2>6, <2>7, <2>8, <2>9, <2>10, <2>11 DEF SessionsConsistent, HolesAreEntries
<1> QED
  BY <1>2, <1>3

(* A session that is released leaves its entry empty, on mHoles. *)
LEMMA SessionReleased ==
  ASSUME IInv, NEW c \in Linked,
         sessions' = [sessions EXCEPT ![idx[c]] = NoConn],
         holes' = Append(holes, idx[c]),
         idx' = [idx EXCEPT ![c] = 0],
         Linked' = Linked \ {c}, nconn' = nconn - 1
  PROVE  /\ sessions' \in Entries /\ holes' \in Seq(Nat \ {0}) /\ idx' \in [Conns -> Nat]
         /\ SessionsConsistent' /\ HolesAreEntries'
<1> DEFINE k == idx[c]
<1>0. /\ sessions \in Entries /\ holes \in Seq(Nat \ {0}) /\ idx \in [Conns -> Nat]
      /\ Len(sessions) \in Nat /\ Len(holes) \in Nat /\ nconn \in Nat
      /\ Linked \subseteq Conns /\ NoConn \notin Conns /\ c \in Conns
  BY SessionFacts
<1>1. /\ \A d \in Linked : idx[d] \in 1 .. Len(sessions) /\ sessions[idx[d]] = d
      /\ \A i \in 1 .. Len(sessions) :
           sessions[i] = NoConn <=> \E n \in 1 .. Len(holes) : holes[n] = i
      /\ \A n, m \in 1 .. Len(holes) : holes[n] = holes[m] => n = m
      /\ Len(sessions) = Len(holes) + nconn
      /\ \A n \in 1 .. Len(holes) : holes[n] \in 1 .. Len(sessions)
  BY DEF IInv, Inv, SessionsConsistent, HolesAreEntries
<1>2. k \in 1 .. Len(sessions) /\ k \in Nat \ {0} /\ sessions[k] = c
  BY <1>0, <1>1
<1>3. \A n \in 1 .. Len(holes) : holes[n] # k
  BY <1>0, <1>1, <1>2
<1> HIDE DEF k
<1>4. /\ sessions' \in Entries /\ Len(sessions') = Len(sessions)
      /\ \A i \in 1 .. Len(sessions) : sessions'[i] = IF i = k THEN NoConn ELSE sessions[i]
  BY <1>0, <1>2 DEF Entries, k
<1>5. /\ holes' \in Seq(Nat \ {0}) /\ Len(holes') = Len(holes) + 1
      /\ \A n \in 1 .. Len(holes) : holes'[n] = holes[n]
      /\ holes'[Len(holes) + 1] = k
  BY <1>0, <1>2 DEF k
<1>6. idx' \in [Conns -> Nat] /\ \A d \in Conns : d # c => idx'[d] = idx[d]
  BY <1>0
<1>7. \A d \in Linked' : idx'[d] \in 1 .. Len(sessions') /\ sessions'[idx'[d]] = d
  <2> SUFFICES ASSUME NEW d \in Linked'
               PROVE  idx'[d] \in 1 .. Len(sessions') /\ sessions'[idx'[d]] = d
    OBVIOUS
  <2>1. d \in Linked /\ d # c /\ idx'[d] = idx[d]
    BY <1>0, <1>6
  <2>2. idx[d] # k
    BY <1>1, <1>2, <2>1
  <2> QED
    BY <1>1, <1>4, <2>1, <2>2
<1>8. ASSUME NEW i \in 1 .. Len(sessions')
      PROVE  sessions'[i] = NoConn <=> \E n \in 1 .. Len(holes') : holes'[n] = i
  <2>1. CASE i = k
    <3>1. Len(holes) + 1 \in 1 .. Len(holes')
      BY <1>0, <1>5
    <3> QED
      BY <1>2, <1>4, <1>5, <2>1, <3>1
  <2>2. CASE i # k
    <3>1. sessions'[i] = sessions[i] /\ i \in 1 .. Len(sessions)
      BY <1>4, <2>2
    <3>2. \A n \in 1 .. Len(holes) : n \in 1 .. Len(holes') /\ holes'[n] = holes[n]
      BY <1>0, <1>5
    <3>3. \A n \in 1 .. Len(holes') : holes'[n] = i => n \in 1 .. Len(holes)
      BY <1>0, <1>5, <2>2
    <3> QED
      BY <1>1, <3>1, <3>2, <3>3
  <2> QED
    BY <2>1, <2>2
<1>9. \A n, m \in 1 .. Len(holes') : holes'[n] = holes'[m] => n = m
  <2>1. \A n \in 1 .. Len(holes') : n \in 1 .. Len(holes) \/ n = Len(holes) + 1
    BY <1>0, <1>5
  <2> QED
    BY <1>1, <1>3, <1>5, <2>1
<1>10. \A n \in 1 .. Len(holes') : holes'[n] \in 1 .. Len(sessions')
  <2>1. \A n \in 1 .. Len(holes') : n \in 1 .. Len(holes) \/ n = Len(holes) + 1
    BY <1>0, <1>5
  <2> QED
    BY <1>1, <1>2, <1>4, <1>5, <2>1
<1>11. Len(sessions') = Len(holes') + nconn'
  <2> DEFINE S == Len(sessions)
             H == Len(holes)
             S1 == Len(sessions')
             H1 == Len(holes')
  <2>1. S = H + nconn /\ nconn' = nconn - 1
    BY <1>1
  <2>2. S1 = S /\ H1 = H + 1
    BY <1>4, <1>5
  <2>3. S \in Nat /\ H \in Nat /\ nconn \in Nat
    BY <1>0
  <2> HIDE DEF S, H, S1, H1
  <2>4. S1 = H1 + nconn'
    BY <2>1, <2>2, <2>3
  <2> QED
    BY <2>4 DEF S1, H1
<1> QED
  BY <1>4, <1>5, <1>6, <1>7, <1>8, <1>9, <1>10, <1>11 DEF SessionsConsistent, HolesAreEntries

-----------------------------------------------------------------------------
(* Accepting and closing *)

(* The two descriptors a connection is given are free and differ. *)
LEMMA FdsAreFree ==
  ASSUME IInv, EnoughFds, nconn < MaxConn,
         NEW f, f = LowestFd(open), NEW w, w = LowestFd(Opened(open, f))
  PROVE  /\ f \in FirstFd .. MaxFd /\ w \in FirstFd .. MaxFd
         /\ f \notin open /\ w \notin open /\ f # w
         /\ Opened(Opened(open, f), w) = (open \cup {f}) \cup {w}
         /\ Cardinality((open \cup {f}) \cup {w}) = Cardinality(open) + 2
<1>0. /\ open \subseteq FirstFd .. MaxFd /\ nconn \in Nat /\ MaxConn \in Nat
      /\ MaxFd \in Nat /\ Cardinality(open) = 3 + 2 * nconn
      /\ MaxFd >= 5 + 2 * MaxConn
  <2>1. open \subseteq FirstFd .. MaxFd /\ nconn \in Nat /\ Cardinality(open) = 3 + 2 * nconn
    BY DEF IInv, Inv, TypeOK, FdsAreCounted
  <2> QED
    BY <2>1, TcpServerAssumption DEF EnoughFds, FirstFd
<1>1. FirstFd \in Int /\ MaxFd \in Int /\ NoFd \notin FirstFd .. MaxFd
  BY <1>0 DEF FirstFd, NoFd
<1>2. IsFiniteSet(open)
  BY <1>0, <1>1, FS_Interval, FS_Subset
<1>3. f \in FirstFd .. MaxFd /\ f \notin open
  <2>1. Cardinality(open) < MaxFd - 2
    BY <1>0
  <2> QED
    BY <1>2, <2>1, OneIsFree, LowestFdFacts
<1>4. Opened(open, f) = open \cup {f}
  BY <1>1, <1>3 DEF Opened
<1>5. IsFiniteSet(open \cup {f}) /\ Cardinality(open \cup {f}) = Cardinality(open) + 1
  BY <1>2, <1>3, FS_AddElement
<1>6. w \in FirstFd .. MaxFd /\ w \notin open \cup {f}
  <2> DEFINE S == open \cup {f}
  <2>1. Cardinality(S) < MaxFd - 2
    BY <1>0, <1>5
  <2>2. w = LowestFd(S) /\ IsFiniteSet(S)
    BY <1>4, <1>5
  <2> HIDE DEF S
  <2>3. w \in FirstFd .. MaxFd /\ w \notin S
    BY <2>1, <2>2, OneIsFree, LowestFdFacts
  <2> QED
    BY <2>3 DEF S
<1>7. Cardinality((open \cup {f}) \cup {w}) = Cardinality(open) + 2
  <2> DEFINE S == open \cup {f}
  <2>1. IsFiniteSet(S) /\ Cardinality(S) = Cardinality(open) + 1 /\ w \notin S
    BY <1>5, <1>6
  <2> HIDE DEF S
  <2>2. Cardinality(S \cup {w}) = Cardinality(S) + 1
    BY <2>1, FS_AddElement
  <2>3. Cardinality(S \cup {w}) = Cardinality(open) + 2
    BY <1>0, <2>1, <2>2
  <2> QED
    BY <2>3 DEF S
<1>8. Opened(Opened(open, f), w) = (open \cup {f}) \cup {w}
  BY <1>1, <1>4, <1>6 DEF Opened
<1> QED
  BY <1>3, <1>6, <1>7, <1>8

LEMMA AcceptInv ==
  ASSUME IInv, EnoughFds, NEW c \in Conns, Accept(c)
  PROVE  IInv'
<1> DEFINE f == LowestFd(open)
           w == LowestFd(Opened(open, f))
           t == Apply(tbl, Conn(c), f)
<1>0. /\ nconn < MaxConn /\ c \notin Linked
      /\ tbl' = Apply(t, Wk(c), w)
      /\ fd' = [fd EXCEPT ![Conn(c)] = f, ![Wk(c)] = w]
      /\ open' = Opened(Opened(open, f), w)
      /\ wheel' = [wheel EXCEPT ![NSlots] = @ \cup {c}]
      /\ nconn' = nconn + 1
      /\ sessions' = Put(sessions, FreeIdx, c)
      /\ holes' = IF holes = << >> THEN << >> ELSE SubSeq(holes, 1, Len(holes) - 1)
      /\ idx' = [idx EXCEPT ![c] = FreeIdx]
      /\ silent' = [silent EXCEPT ![c] = 0]
      /\ cursor' = cursor + 1
      /\ UNCHANGED <<closing, failed>>
  BY DEF Accept
<1>1. /\ f \in FirstFd .. MaxFd /\ w \in FirstFd .. MaxFd
      /\ f \notin open /\ w \notin open /\ f # w
      /\ open' = (open \cup {f}) \cup {w}
      /\ Cardinality(open') = Cardinality(open) + 2
  <2>1. \A x, y : x = LowestFd(open) /\ y = LowestFd(Opened(open, x)) =>
          /\ x \in FirstFd .. MaxFd /\ y \in FirstFd .. MaxFd
          /\ x \notin open /\ y \notin open /\ x # y
          /\ Opened(Opened(open, x), y) = (open \cup {x}) \cup {y}
          /\ Cardinality((open \cup {x}) \cup {y}) = Cardinality(open) + 2
    BY <1>0, FdsAreFree
  <2> QED
    BY <1>0, <2>1
<1> HIDE DEF f, w
<1>2. f \in Int /\ w \in Int
  BY <1>1 DEF FirstFd
<1>3. Conn(c) \in Handlers /\ Wk(c) \in Handlers /\ Conn(c) # Wk(c)
  BY HandlerFacts
<1>4. /\ fd' \in [Handlers -> Int] /\ fd'[Conn(c)] = f /\ fd'[Wk(c)] = w
      /\ \A h \in Handlers : h # Conn(c) /\ h # Wk(c) => fd'[h] = fd[h]
  BY <1>0, <1>2, <1>3, TableFacts
<1>5. ~Applied(tbl, Conn(c)) /\ ~Applied(tbl, Wk(c))
  BY <1>0 DEF IInv, Inv, ConnCount
<1>6. tbl \in Table /\ Consistent(tbl, fd')
  BY <1>4, <1>5, TableFacts, OtherDescriptors
<1>7. /\ t \in Table /\ Consistent(t, fd')
      /\ \A k \in Handlers : Applied(t, k) <=> Applied(tbl, k) \/ k = Conn(c)
  BY <1>3, <1>4, <1>5, <1>6, ApplyKeeps
<1> HIDE DEF t
<1>8. /\ tbl' \in Table /\ Consistent(tbl', fd')
      /\ \A k \in Handlers : Applied(tbl', k) <=> Applied(tbl, k) \/ k \in {Conn(c), Wk(c)}
  <2>1. ~Applied(t, Wk(c))
    BY <1>3, <1>5, <1>7
  <2>2. /\ Apply(t, Wk(c), fd'[Wk(c)]) \in Table
        /\ Consistent(Apply(t, Wk(c), fd'[Wk(c)]), fd')
        /\ \A k \in Handlers : Applied(Apply(t, Wk(c), fd'[Wk(c)]), k) <=> Applied(t, k) \/ k = Wk(c)
    BY <1>3, <1>4, <1>7, <2>1, ApplyKeeps
  <2>3. tbl' = Apply(t, Wk(c), fd'[Wk(c)])
    BY <1>0, <1>4
  <2> QED
    BY <1>7, <2>2, <2>3
<1>9. /\ wheel' \in Wheels /\ Apart(wheel') /\ Linked' = Linked \cup {c}
  <2>1. wheel \in Wheels /\ Apart(wheel) /\ c \notin Members(wheel)
    BY <1>0, TableFacts
  <2>2. \A x : x = [wheel EXCEPT ![NSlots] = @ \cup {c}] =>
          x \in Wheels /\ Apart(x) /\ Members(x) = Members(wheel) \cup {c}
    BY <2>1, JoinedKeeps
  <2> QED
    BY <1>0, <2>2, LinkedIsMembers
<1>10. /\ IsFiniteSet(Linked') /\ nconn' = Cardinality(Linked') /\ nconn' <= MaxConn
       /\ nconn' \in Nat /\ nconn \in Nat
  <2>1. IsFiniteSet(Linked) /\ nconn = Cardinality(Linked) /\ nconn \in Nat
    BY DEF IInv, Inv, ConnCount, TypeOK
  <2>2. IsFiniteSet(Linked \cup {c}) /\ Cardinality(Linked \cup {c}) = Cardinality(Linked) + 1
    BY <1>0, <2>1, FS_AddElement
  <2>3. nconn + 1 <= MaxConn
    BY <1>0, <2>1, TcpServerAssumption
  <2> QED
    BY <1>0, <1>9, <2>1, <2>2, <2>3
<1>11. /\ sessions' \in Entries /\ holes' \in Seq(Nat \ {0}) /\ idx' \in [Conns -> Nat]
       /\ SessionsConsistent' /\ HolesAreEntries'
  BY <1>0, <1>9, SessionAdded
<1>12. TypeOK'
  <2>1. silent' \in [Conns -> Nat] /\ closing' \subseteq Conns /\ cursor' \in Nat
        /\ open' \subseteq FirstFd .. MaxFd
    <3>1. silent \in [Conns -> Nat] /\ closing \subseteq Conns /\ cursor \in Nat
          /\ open \subseteq FirstFd .. MaxFd
      BY DEF IInv, Inv, TypeOK
    <3>2. silent' \in [Conns -> Nat]
      BY <1>0, <3>1
    <3> QED
      BY <1>0, <1>1, <3>1, <3>2
  <2>2. failed' = "none"
    BY <1>0 DEF IInv, Inv, NoAssertionFails
  <2> QED
    BY <1>4, <1>8, <1>9, <1>10, <1>11, <2>1, <2>2 DEF TypeOK, Wheels, Entries
<1>13. ConnCount'
  <2>1. closing' \subseteq Linked'
    BY <1>0, <1>9 DEF IInv, Inv, ConnCount
  <2>2. ASSUME NEW d \in Conns
        PROVE  /\ d \in Linked' <=> Applied(tbl', Conn(d))
               /\ d \in Linked' <=> Applied(tbl', Wk(d))
    <3>1. /\ d \in Linked <=> Applied(tbl, Conn(d))
          /\ d \in Linked <=> Applied(tbl, Wk(d))
      BY DEF IInv, Inv, ConnCount
    <3>2. /\ Conn(d) \in Handlers /\ Wk(d) \in Handlers
          /\ Conn(d) \in {Conn(c), Wk(c)} <=> d = c
          /\ Wk(d) \in {Conn(c), Wk(c)} <=> d = c
      BY HandlerFacts
    <3> QED
      BY <1>8, <1>9, <3>1, <3>2
  <2> QED
    BY <1>9, <1>10, <2>1, <2>2 DEF ConnCount, Apart
<1>14. WheelCounts'
  <2> SUFFICES ASSUME NEW d \in Linked' \ closing'
               PROVE  silent'[d] < NSlots /\ d \in wheel'[NSlots - silent'[d]]
    BY DEF WheelCounts
  <2>0. /\ silent \in [Conns -> Nat] /\ wheel \in Wheels /\ NSlots \in Nat /\ NSlots > 1
        /\ NSlots \in 1 .. NSlots
    <3>1. silent \in [Conns -> Nat]
      BY DEF IInv, Inv, TypeOK
    <3> QED
      BY <3>1, TableFacts
  <2>1. /\ wheel'[NSlots] = wheel[NSlots] \cup {c}
        /\ \A i \in 1 .. NSlots : wheel[i] \subseteq wheel'[i]
    BY <1>0, <2>0 DEF Wheels
  <2>2. CASE d = c
    <3>1. silent'[d] = 0 /\ NSlots - 0 = NSlots
      BY <1>0, <2>0, <2>2
    <3> QED
      BY <2>0, <2>1, <2>2, <3>1
  <2>3. CASE d # c
    <3>1. d \in Linked \ closing /\ d \in Conns
      BY <1>0, <1>9, <2>3, TableFacts
    <3>2. silent[d] < NSlots /\ d \in wheel[NSlots - silent[d]]
      BY <3>1 DEF IInv, Inv, WheelCounts
    <3>3. silent'[d] = silent[d] /\ NSlots - silent[d] \in 1 .. NSlots
      BY <1>0, <2>0, <2>3, <3>1, <3>2
    <3> QED
      BY <2>1, <3>2, <3>3
  <2> QED
    BY <2>2, <2>3
<1>15. FdsAreOwned'
  <2>0. /\ open = {fd[h] : h \in AppliedHandlers(tbl)}
        /\ \A h, k \in AppliedHandlers(tbl) : fd[h] = fd[k] => h = k
    BY DEF IInv, FdsAreOwned
  <2>1. \A h \in Handlers : h \in AppliedHandlers(tbl) <=> Applied(tbl, h)
    BY DEF AppliedHandlers
  <2>2. AppliedHandlers(tbl') = (AppliedHandlers(tbl) \cup {Conn(c)}) \cup {Wk(c)}
    BY <1>3, <1>8 DEF AppliedHandlers
  <2>3. \A h \in AppliedHandlers(tbl) : h \in Handlers /\ fd'[h] = fd[h] /\ fd[h] \in open
    <3>1. \A h \in AppliedHandlers(tbl) : h \in Handlers /\ h # Conn(c) /\ h # Wk(c)
      BY <1>5 DEF AppliedHandlers
    <3> QED
      BY <1>4, <2>0, <3>1
  <2>4. {fd'[h] : h \in AppliedHandlers(tbl')} = open'
    BY <1>1, <1>4, <2>0, <2>2, <2>3
  <2>5. \A h, k \in AppliedHandlers(tbl') : fd'[h] = fd'[k] => h = k
    BY <1>1, <1>4, <2>0, <2>2, <2>3
  <2> QED
    BY <2>4, <2>5 DEF FdsAreOwned
<1>16. FdsAreCounted'
  BY <1>0, <1>1, <1>10 DEF IInv, FdsAreCounted
<1> QED
  BY <1>0, <1>8, <1>10, <1>11, <1>12, <1>13, <1>14, <1>15, <1>16
     DEF IInv, Inv, TableConsistent, NoAssertionFails

(* The assertions on the way through OnCloseConnection hold. *)
LEMMA NothingFails ==
  ASSUME IInv, NEW c \in Linked
  PROVE  CloseFailure(c) = "none"
<1>0. c \in Conns /\ Conn(c) \in Handlers /\ Wk(c) \in Handlers /\ Conn(c) # Wk(c)
  BY TableFacts, HandlerFacts
<1>1. Applied(tbl, Conn(c)) /\ Applied(tbl, Wk(c))
  BY <1>0 DEF IInv, Inv, ConnCount
<1>2. fd[Conn(c)] >= 0 /\ fd[Wk(c)] >= 0
  <2>1. fd[Conn(c)] \in open /\ fd[Wk(c)] \in open
    BY <1>0, <1>1 DEF IInv, FdsAreOwned, AppliedHandlers
  <2>2. open \subseteq FirstFd .. MaxFd
    BY DEF IInv, Inv, TypeOK
  <2>3. \A f \in FirstFd .. MaxFd : f >= 0
    BY TcpServerAssumption DEF FirstFd
  <2> QED
    BY <2>1, <2>2, <2>3
<1>3. idx[c] \in 1 .. Len(sessions) /\ sessions[idx[c]] = c
  BY DEF IInv, Inv, SessionsConsistent
<1>4. UnApplyAsserts(tbl, Wk(c), fd[Wk(c)])
  BY <1>0, <1>1, <1>2, TableFacts, AssertsHold
<1>5. UnApplyAsserts(UnApply(tbl, Wk(c)), Conn(c), fd[Conn(c)])
  <2> DEFINE t == UnApply(tbl, Wk(c))
  <2>1. t \in Table /\ Consistent(t, fd) /\ Applied(t, Conn(c))
    BY <1>0, <1>1, TableFacts, UnApplyKeeps
  <2> HIDE DEF t
  <2>2. UnApplyAsserts(t, Conn(c), fd[Conn(c)])
    BY <1>0, <1>2, <2>1, TableFacts, AssertsHold
  <2> QED
    BY <2>2 DEF t
<1> QED
  BY <1>3, <1>4, <1>5 DEF CloseFailure

LEMMA CloseConnInv ==
  ASSUME IInv, NEW c \in Conns, CloseConn(c)
  PROVE  IInv'
<1> DEFINE t == UnApply(tbl, Wk(c))
<1>1. Applied(tbl, Conn(c)) /\ Applied(tbl, Wk(c)) /\ c \in Linked
  <2>1. Applied(tbl, Conn(c))
    BY DispatchedIsOn, HandlerFacts DEF CloseConn
  <2> QED
    BY <2>1 DEF IInv, Inv, ConnCount
<1>0. /\ failed' = "none"
      /\ tbl' = UnApply(t, Conn(c))
      /\ sessions' = [sessions EXCEPT ![idx[c]] = NoConn]
      /\ holes' = Append(holes, idx[c])
      /\ idx' = [idx EXCEPT ![c] = 0]
      /\ wheel' = Unlinked(c)
      /\ nconn' = nconn - 1
      /\ open' = open \ ClosedFds(c)
      /\ fd' = [fd EXCEPT ![Conn(c)] = NoFd, ![Wk(c)] = NoFd]
      /\ closing' = closing \ {c}
      /\ silent' = [silent EXCEPT ![c] = 0]
      /\ cursor' = cursor + 1
  BY <1>1, NothingFails DEF CloseConn
<1>2. Conn(c) \in Handlers /\ Wk(c) \in Handlers /\ Conn(c) # Wk(c)
  BY HandlerFacts
<1>3. /\ fd' \in [Handlers -> Int]
      /\ \A h \in Handlers : h # Conn(c) /\ h # Wk(c) => fd'[h] = fd[h]
  BY <1>0, <1>2, TableFacts DEF NoFd
<1>4. /\ t \in Table /\ Consistent(t, fd)
      /\ \A k \in Handlers : Applied(t, k) <=> Applied(tbl, k) /\ k # Wk(c)
  BY <1>1, <1>2, TableFacts, UnApplyKeeps
<1> HIDE DEF t
<1>5. /\ tbl' \in Table /\ Consistent(tbl', fd)
      /\ \A k \in Handlers : Applied(tbl', k) <=> Applied(tbl, k) /\ k # Wk(c) /\ k # Conn(c)
  <2>1. Applied(t, Conn(c))
    BY <1>1, <1>2, <1>4
  <2>2. /\ tbl' \in Table /\ Consistent(tbl', fd)
        /\ \A k \in Handlers : Applied(tbl', k) <=> Applied(t, k) /\ k # Conn(c)
    BY <1>0, <1>2, <1>4, <2>1, TableFacts, UnApplyKeeps
  <2> QED
    BY <1>4, <2>2
<1>6. Consistent(tbl', fd')
  BY <1>3, <1>5, TableFacts, OtherDescriptors
<1>7. /\ wheel' \in Wheels /\ Apart(wheel') /\ Linked' = Linked \ {c}
  BY <1>0, TableFacts, UnlinkedKeeps, LinkedIsMembers
<1>8. /\ IsFiniteSet(Linked') /\ nconn' = Cardinality(Linked') /\ nconn' <= MaxConn
      /\ nconn' \in Nat /\ nconn \in Nat
  <2>1. IsFiniteSet(Linked) /\ nconn = Cardinality(Linked) /\ nconn \in Nat /\ nconn <= MaxConn
    BY DEF IInv, Inv, ConnCount, TypeOK
  <2>2. IsFiniteSet(Linked \ {c}) /\ Cardinality(Linked \ {c}) = Cardinality(Linked) - 1
    BY <1>1, <2>1, FS_RemoveElement
  <2>3. Cardinality(Linked \ {c}) \in Nat
    BY <2>2, FS_CardinalityType
  <2> QED
    BY <1>0, <1>7, <2>1, <2>2, <2>3, TcpServerAssumption
<1>9. /\ sessions' \in Entries /\ holes' \in Seq(Nat \ {0}) /\ idx' \in [Conns -> Nat]
      /\ SessionsConsistent' /\ HolesAreEntries'
  BY <1>0, <1>1, <1>7, SessionReleased
<1>10. TypeOK'
  <2>1. silent' \in [Conns -> Nat] /\ closing' \subseteq Conns /\ cursor' \in Nat
        /\ open' \subseteq FirstFd .. MaxFd
    <3>1. silent \in [Conns -> Nat] /\ closing \subseteq Conns /\ cursor \in Nat
          /\ open \subseteq FirstFd .. MaxFd
      BY DEF IInv, Inv, TypeOK
    <3>2. silent' \in [Conns -> Nat]
      BY <1>0, <3>1
    <3>3. open' \subseteq open /\ closing' \subseteq closing /\ cursor' = cursor + 1
      BY <1>0
    <3> QED
      BY <3>1, <3>2, <3>3
  <2> QED
    BY <1>0, <1>3, <1>5, <1>7, <1>8, <1>9, <2>1 DEF TypeOK, Wheels, Entries
<1>11. ConnCount'
  <2>1. closing' \subseteq Linked'
    BY <1>0, <1>7 DEF IInv, Inv, ConnCount
  <2>2. ASSUME NEW d \in Conns
        PROVE  /\ d \in Linked' <=> Applied(tbl', Conn(d))
               /\ d \in Linked' <=> Applied(tbl', Wk(d))
    <3>1. /\ d \in Linked <=> Applied(tbl, Conn(d))
          /\ d \in Linked <=> Applied(tbl, Wk(d))
      BY DEF IInv, Inv, ConnCount
    <3>2. /\ Conn(d) \in Handlers /\ Wk(d) \in Handlers
          /\ Conn(d) # Wk(c) /\ (Conn(d) = Conn(c) <=> d = c)
          /\ Wk(d) # Conn(c) /\ (Wk(d) = Wk(c) <=> d = c)
      BY HandlerFacts
    <3> QED
      BY <1>5, <1>7, <3>1, <3>2
  <2> QED
    BY <1>7, <1>8, <2>1, <2>2 DEF ConnCount, Apart
<1>12. WheelCounts'
  <2> SUFFICES ASSUME NEW d \in Linked' \ closing'
               PROVE  silent'[d] < NSlots /\ d \in wheel'[NSlots - silent'[d]]
    BY DEF WheelCounts
  <2>0. silent \in [Conns -> Nat] /\ NSlots \in Nat /\ NSlots > 1
    <3>1. silent \in [Conns -> Nat]
      BY DEF IInv, Inv, TypeOK
    <3> QED
      BY <3>1, TableFacts
  <2>1. d \in Linked \ closing /\ d \in Conns /\ d # c
    BY <1>0, <1>7, TableFacts
  <2>2. silent[d] < NSlots /\ d \in wheel[NSlots - silent[d]]
    BY <2>1 DEF IInv, Inv, WheelCounts
  <2>3. silent'[d] = silent[d] /\ NSlots - silent[d] \in 1 .. NSlots
    BY <1>0, <2>0, <2>1, <2>2
  <2>4. \A i \in 1 .. NSlots : wheel'[i] = wheel[i] \ {c}
    BY <1>0 DEF Unlinked
  <2> QED
    BY <2>1, <2>2, <2>3, <2>4
<1>13. /\ open = {fd[h] : h \in AppliedHandlers(tbl)}
       /\ \A h, k \in AppliedHandlers(tbl) : fd[h] = fd[k] => h = k
       /\ Conn(c) \in AppliedHandlers(tbl) /\ Wk(c) \in AppliedHandlers(tbl)
  BY <1>1, <1>2 DEF IInv, FdsAreOwned, AppliedHandlers
<1>14. FdsAreOwned'
  <2>1. AppliedHandlers(tbl') = (AppliedHandlers(tbl) \ {Conn(c)}) \ {Wk(c)}
    BY <1>5 DEF AppliedHandlers
  <2>2. \A h \in AppliedHandlers(tbl') : h \in AppliedHandlers(tbl) /\ fd'[h] = fd[h]
    BY <1>3, <2>1 DEF AppliedHandlers
  <2>3. ASSUME NEW x
        PROVE  x \in open' <=> x \in {fd'[h] : h \in AppliedHandlers(tbl')}
    <3>1. ASSUME x \in open'
          PROVE  \E h \in AppliedHandlers(tbl') : x = fd'[h]
      <4>1. x \in open /\ x # fd[Conn(c)] /\ x # fd[Wk(c)]
        BY <1>0, <3>1 DEF ClosedFds
      <4>2. PICK h \in AppliedHandlers(tbl) : x = fd[h]
        BY <1>13, <4>1
      <4>3. h \in AppliedHandlers(tbl')
        BY <2>1, <4>1, <4>2
      <4> QED
        BY <2>2, <4>2, <4>3
    <3>2. ASSUME NEW h \in AppliedHandlers(tbl'), x = fd'[h]
          PROVE  x \in open'
      <4>1. h \in AppliedHandlers(tbl) /\ x = fd[h] /\ h # Conn(c) /\ h # Wk(c)
        BY <2>1, <2>2, <3>2
      <4>2. x # fd[Conn(c)] /\ x # fd[Wk(c)] /\ x \in open
        BY <1>13, <4>1
      <4> QED
        BY <1>0, <4>2 DEF ClosedFds
    <3> QED
      BY <3>1, <3>2
  <2>4. open' = {fd'[h] : h \in AppliedHandlers(tbl')}
    BY <2>3
  <2>5. \A h, k \in AppliedHandlers(tbl') : fd'[h] = fd'[k] => h = k
    BY <1>13, <2>2
  <2> QED
    BY <2>4, <2>5 DEF FdsAreOwned
<1>15. FdsAreCounted'
  <2> DEFINE a == fd[Conn(c)]
             b == fd[Wk(c)]
  <2>1. a \in open /\ b \in open /\ a # b
    BY <1>2, <1>13
  <2>2. IsFiniteSet(open) /\ Cardinality(open) = 3 + 2 * nconn
    <3>1. open \subseteq FirstFd .. MaxFd
      BY DEF IInv, Inv, TypeOK
    <3>2. FirstFd \in Int /\ MaxFd \in Int
      BY TcpServerAssumption DEF FirstFd
    <3> QED
      BY <3>1, <3>2, FS_Interval, FS_Subset DEF IInv, FdsAreCounted
  <2>3. open' = (open \ {a}) \ {b}
    BY <1>0 DEF ClosedFds
  <2> HIDE DEF a, b
  <2>4. IsFiniteSet(open \ {a}) /\ Cardinality(open \ {a}) = Cardinality(open) - 1
    BY <2>1, <2>2, FS_RemoveElement
  <2>5. b \in open \ {a}
    BY <2>1
  <2>6. Cardinality((open \ {a}) \ {b}) = Cardinality(open \ {a}) - 1
    BY <2>4, <2>5, FS_RemoveElement
  <2>7. Cardinality(open') = Cardinality(open) - 2
    BY <1>8, <2>2, <2>3, <2>4, <2>6
  <2> QED
    BY <1>0, <1>8, <2>2, <2>7 DEF FdsAreCounted
<1> QED
  BY <1>0, <1>6, <1>8, <1>9, <1>10, <1>11, <1>12, <1>14, <1>15
     DEF IInv, Inv, TableConsistent, NoAssertionFails

LEMMA StepInv == EnoughFds /\ IInv /\ [Next]_vars => IInv'
<1> SUFFICES ASSUME EnoughFds, IInv, [Next]_vars PROVE IInv'
  OBVIOUS
<1>1. CASE PollReturns
  BY <1>1, PollReturnsInv
<1>2. CASE SkipSlot
  BY <1>2, SkipSlotInv
<1>3. CASE EndPass \/ Quiet \/ Reject
  BY <1>3, CursorInv
<1>4. ASSUME NEW c \in Conns, Accept(c) PROVE IInv'
  BY <1>4, AcceptInv
<1>5. CASE Tick
  BY <1>5, TickInv
<1>6. ASSUME NEW c \in Conns, WakeAndClose(c) PROVE IInv'
  BY <1>6, WakeAndCloseInv
<1>7. ASSUME NEW c \in Conns, Message(c) PROVE IInv'
  BY <1>7, MessageInv
<1>8. ASSUME NEW c \in Conns, CloseConn(c) PROVE IInv'
  BY <1>8, CloseConnInv
<1>9. CASE UNCHANGED vars
  BY <1>9, TableFacts, ScanStepInv DEF vars, appVars
<1> QED
  BY <1>1, <1>2, <1>3, <1>4, <1>5, <1>6, <1>7, <1>8, <1>9 DEF Next

(* The invariant holds in every reachable state. *)
THEOREM Invariance ==
  ASSUME EnoughFds
  PROVE  Spec => []IInv
<1>1. IInv /\ [Next]_vars => IInv'
  BY StepInv
<1> QED
  BY <1>1, InitInv, PTL DEF Spec

(* Slots, wheel, sessions, closing marks and the count agree at every      *)
(* point of a scan, and no assertion on the way through OnCloseConnection  *)
(* fails (TcpServer.cpp:46-92, TcpAppServer.cpp:21-54), for any limit on   *)
(* the connections and any number of slots of the wheel, as long as the    *)
(* process may open the descriptors MaxConn connections need.              *)
THEOREM ServerIsSound ==
  ASSUME EnoughFds
  PROVE  Spec => []Inv
<1>1. IInv => Inv
  BY DEF IInv
<1> QED
  BY <1>1, Invariance, PTL

(* No descriptor leaks and none is closed under a handler, although the    *)
(* kernel hands the numbers out again in the middle of a scan              *)
(* (PollEventHandler.cpp:58-63, WakeUpper.cpp:13-29).                      *)
THEOREM FdsAlwaysOwned ==
  ASSUME EnoughFds
  PROVE  Spec => []FdsAreOwned
<1>1. IInv => FdsAreOwned
  BY DEF IInv
<1> QED
  BY <1>1, Invariance, PTL

(* A tick asks to close the connections that have been silent for NSlots   *)
(* ticks, and no other (TcpServer.cpp:36-44).                              *)
THEOREM TimeoutAlwaysExact ==
  ASSUME EnoughFds
  PROVE  Spec => TimeoutIsExact
<1> DEFINE Exact == Tick => \A c \in Linked \ closing : c \in closing' <=> silent'[c] = NSlots
<1>1. IInv /\ [Next]_vars => [Exact]_vars
  <2> SUFFICES ASSUME IInv, Tick, NEW c \in Linked \ closing
               PROVE  c \in closing' <=> silent'[c] = NSlots
    OBVIOUS
  <2>1. c \in closing' <=> c \in wheel[1]
    BY DEF Tick, TimedOut
  <2> QED
    BY <2>1, TickFacts
<1> QED
  BY <1>1, Invariance, PTL DEF Spec, TimeoutIsExact

-----------------------------------------------------------------------------
(* The abstract wheel *)

(* Every step of the server is a step of the wheel, or none. *)
LEMMA StepIsWheelStep ==
  ASSUME IInv, [Next]_vars
  PROVE  [Wheel!Next]_(Wheel!vars)
<1>0. /\ Linked = Wheel!Members /\ Linked \subseteq Conns
      /\ \A c \in Conns : /\ c \in Linked <=> Applied(tbl, Conn(c))
                          /\ c \in Linked <=> Applied(tbl, Wk(c))
  BY TableFacts DEF Linked, Wheel!Members, IInv, Inv, ConnCount
<1>1. CASE UNCHANGED <<wheel, closing>>
  BY <1>1 DEF Wheel!vars
<1>2. CASE PollReturns \/ SkipSlot \/ EndPass \/ Quiet \/ Reject \/ UNCHANGED vars
  BY <1>1, <1>2 DEF PollReturns, SkipSlot, EndPass, Quiet, Reject, vars
<1>3. ASSUME NEW c \in Conns, Accept(c) PROVE Wheel!Next
  <2>1. Wheel!Join(c)
    BY <1>0, <1>3 DEF Accept, Wheel!Join
  <2> QED
    BY <2>1 DEF Wheel!Next
<1>4. CASE Tick
  <2>1. Wheel!Tick
    BY <1>4 DEF Tick, TimedOut, Rotated, Wheel!Tick
  <2> QED
    BY <2>1 DEF Wheel!Next
<1>5. ASSUME NEW c \in Conns, WakeAndClose(c) PROVE Wheel!Next
  <2>1. c \in Linked
    BY <1>0, <1>5, DispatchedIsOn, HandlerFacts DEF WakeAndClose
  <2>2. Wheel!Ask(c)
    BY <1>0, <1>5, <2>1 DEF WakeAndClose, Wheel!Ask
  <2> QED
    BY <2>2 DEF Wheel!Next
<1>6. ASSUME NEW c \in Conns, Message(c) PROVE Wheel!Next
  <2>1. c \in Linked
    BY <1>0, <1>6, DispatchedIsOn, HandlerFacts DEF Message
  <2>2. Wheel!Hear(c)
    BY <1>0, <1>6, <2>1 DEF Message, Relinked, Wheel!Hear
  <2> QED
    BY <2>2 DEF Wheel!Next
<1>7. ASSUME NEW c \in Conns, CloseConn(c) PROVE Wheel!Next
  <2>1. c \in Linked
    BY <1>0, <1>7, DispatchedIsOn, HandlerFacts DEF CloseConn
  <2>2. wheel' = Unlinked(c) /\ closing' = closing \ {c}
    BY <1>7, <2>1, NothingFails DEF CloseConn
  <2>3. Wheel!Leave(c)
    BY <1>0, <2>1, <2>2 DEF Unlinked, Wheel!Leave
  <2> QED
    BY <2>3 DEF Wheel!Next
<1> QED
  BY <1>2, <1>3, <1>4, <1>5, <1>6, <1>7 DEF Next

(* The safety part of ImplementsWheel: what the server does to its wheel   *)
(* is what TimeWheelSpec allows, the scan, the table, the sessions and the *)
(* descriptors hidden.                                                     *)
THEOREM ServerTurnsTheWheel ==
  ASSUME EnoughFds
  PROVE  Spec => Wheel!Spec
<1>1. Init => Wheel!Init
  BY DEF Init, Wheel!Init
<1>2. IInv /\ [Next]_vars => [Wheel!Next]_(Wheel!vars)
  BY StepIsWheelStep
<1> QED
  BY <1>1, <1>2, Invariance, PTL DEF Spec, Wheel!Spec

=============================================================================
