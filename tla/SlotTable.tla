------------------------------ MODULE SlotTable ------------------------------
(***************************************************************************)
(* The handler table of an event loop that waits with poll(2): the vectors *)
(* mHandlerList and mIdleIdx of EventLoop, the vector mPollFdList of       *)
(* PollLoop, and the index mLoopIdx every EventHandler keeps.  A table is  *)
(* one record, and an operation maps the table before the call to the      *)
(* table after it, so that a callback that makes several calls is the      *)
(* composition of their operators.                                         *)
(*                                                                         *)
(* Slots are numbered from 1; slot i stands for index i - 1 of the code,   *)
(* and loopIdx 0 for its index -1.                                         *)
(***************************************************************************)
EXTENDS Integers, Sequences

CONSTANTS
  Handlers,   (* The EventHandler objects.                      *)
  NoHandler   (* The null pointer an empty slot holds.          *)

ASSUME NoHandlerAssumption == NoHandler \notin Handlers

(* The fd of a pollfd entry that poll(2) ignores. *)
NoFd == -1

(* The one event handlers ask poll(2) for: Register copies their pollfd    *)
(* before any of them enables POLLOUT, and the copy is never refreshed.    *)
POLLIN == "POLLIN"

EmptyTable ==
  [ handlers |-> << >>,                    \* mHandlerList
    idle     |-> << >>,                    \* mIdleIdx, used as a stack
    polls    |-> << >>,                    \* mPollFdList
    loopIdx  |-> [h \in Handlers |-> 0] ]  \* mLoopIdx of each handler

Slots(t) == 1 .. Len(t.handlers)

Applied(t, h) == t.loopIdx[h] # 0

AppliedHandlers(t) == {h \in Handlers : Applied(t, h)}

(* The slot EventLoop::Add returns: the most recently freed one, or one past the end. *)
NextSlot(t) ==
  IF t.idle = << >> THEN Len(t.handlers) + 1 ELSE t.idle[Len(t.idle)]

(* A vector entry that is overwritten, or appended when it is one past the end. *)
Put(s, i, v) == IF i = Len(s) + 1 THEN Append(s, v) ELSE [s EXCEPT ![i] = v]

(* ApplyHandlerOnLoop: Add, then PollLoop::Register with a copy of the pollfd. *)
Apply(t, h, fd) ==
  LET i == NextSlot(t) IN
  [ handlers |-> Put(t.handlers, i, h),
    idle     |-> IF t.idle = << >> THEN << >> ELSE SubSeq(t.idle, 1, Len(t.idle) - 1),
    polls    |-> Put(t.polls, i, [fd |-> fd, revents |-> {}]),
    loopIdx  |-> [t.loopIdx EXCEPT ![h] = i] ]

(* The assertions of PollLoop::UnRegister and EventLoop::Remove. *)
UnApplyAsserts(t, h, fd) ==
  LET i == t.loopIdx[h] IN
  /\ i \in 1 .. Len(t.polls) /\ t.polls[i].fd = fd
  /\ i \in Slots(t) /\ t.handlers[i] = h

(* Mutant: Remove does not put the slot on the free stack. *)
UnApplyLosingSlot(t, h) ==
  LET i == t.loopIdx[h] IN
  [ handlers |-> [t.handlers EXCEPT ![i] = NoHandler],
    idle     |-> t.idle,
    polls    |-> [t.polls EXCEPT ![i] = [fd |-> NoFd, revents |-> {}]],
    loopIdx  |-> [t.loopIdx EXCEPT ![h] = 0] ]

(* Mutant: UnRegister sets the fd and leaves the revents of this pass. *)
UnApplyKeepingRevents(t, h) ==
  LET i == t.loopIdx[h] IN
  [ handlers |-> [t.handlers EXCEPT ![i] = NoHandler],
    idle     |-> Append(t.idle, i),
    polls    |-> [t.polls EXCEPT ![i].fd = NoFd],
    loopIdx  |-> [t.loopIdx EXCEPT ![h] = 0] ]

(* Mutant: the slot is erased from the vectors, and the later ones move up. *)
UnApplyErasing(t, h) ==
  LET i == t.loopIdx[h]
      without(s) == SubSeq(s, 1, i - 1) \o SubSeq(s, i + 1, Len(s))
  IN  [ handlers |-> without(t.handlers),
        idle     |-> t.idle,
        polls    |-> without(t.polls),
        loopIdx  |-> [k \in Handlers |->
                        IF k = h THEN 0
                        ELSE IF t.loopIdx[k] > i THEN t.loopIdx[k] - 1
                        ELSE t.loopIdx[k]] ]

(* UnApplyHandlerOnLoop: UnRegister, then Remove. *)
UnApply(t, h) ==
  LET i == t.loopIdx[h] IN
  [ handlers |-> [t.handlers EXCEPT ![i] = NoHandler],
    idle     |-> Append(t.idle, i),
    polls    |-> [t.polls EXCEPT ![i] = [fd |-> NoFd, revents |-> {}]],
    loopIdx  |-> [t.loopIdx EXCEPT ![h] = 0] ]

(* The branch of PollLoop::LoopOnce for a slot whose fd is negative. *)
ClearSlot(t, i) ==
  [ handlers |-> [t.handlers EXCEPT ![i] = NoHandler],
    idle     |-> t.idle,
    polls    |-> t.polls,
    loopIdx  |-> t.loopIdx ]

(* poll(2) overwrites the revents of every entry, of the ones it ignores with zero. *)
PolledEntry(t, i, ready) ==
  [ fd      |-> t.polls[i].fd,
    revents |-> IF t.polls[i].fd >= 0 /\ t.handlers[i] \in ready THEN {POLLIN} ELSE {} ]

Polled(t, ready) ==
  [ handlers |-> t.handlers,
    idle     |-> t.idle,
    polls    |-> [i \in 1 .. Len(t.polls) |-> PolledEntry(t, i, ready)],
    loopIdx  |-> t.loopIdx ]

-----------------------------------------------------------------------------
(* What the operations keep, for a table t whose handlers have the         *)
(* descriptors fdOf.                                                       *)

Table ==
  [ handlers : Seq(Handlers \cup {NoHandler}),
    idle     : Seq(Nat),
    polls    : Seq([fd : Int, revents : SUBSET {POLLIN}]),
    loopIdx  : [Handlers -> Nat] ]

(* The two vectors are indexed together, in EventLoop.cpp and PollLoop.cpp. *)
SameLength(t) == Len(t.polls) = Len(t.handlers)

(* A slot on the free stack is in the table, and there once. *)
IdleDistinct(t) ==
  /\ \A n \in 1 .. Len(t.idle) : t.idle[n] \in Slots(t)
  /\ \A n, m \in 1 .. Len(t.idle) : t.idle[n] = t.idle[m] => n = m

IsIdle(t, i) == \E n \in 1 .. Len(t.idle) : t.idle[n] = i

(* Every handler on the loop has the slot it believes to have: the slot's  *)
(* pollfd carries its fd, and the slot holds the handler itself unless its *)
(* fd is bad and a scan has cleared the slot.                              *)
SlotOfHandler(t, fdOf) ==
  \A h \in Handlers : Applied(t, h) =>
    /\ t.loopIdx[h] \in Slots(t)
    /\ t.polls[t.loopIdx[h]].fd = fdOf[h]
    /\ \/ t.handlers[t.loopIdx[h]] = h
       \/ t.handlers[t.loopIdx[h]] = NoHandler /\ fdOf[h] < 0

(* No two handlers on the loop have the same slot. *)
SlotsUnshared(t) ==
  \A h, k \in Handlers : Applied(t, h) /\ t.loopIdx[h] = t.loopIdx[k] => h = k

(* A slot on the free stack is nobody's: it is empty and unwatched. *)
IdleIsFree(t) ==
  \A i \in Slots(t) : IsIdle(t, i) =>
    /\ \A h \in Handlers : t.loopIdx[h] # i
    /\ t.handlers[i] = NoHandler
    /\ t.polls[i] = [fd |-> NoFd, revents |-> {}]

(* No slot is lost: it is somebody's, or on the free stack. *)
NoSlotLost(t) ==
  \A i \in Slots(t) : IsIdle(t, i) \/ \E h \in Handlers : t.loopIdx[h] = i

Consistent(t, fdOf) ==
  /\ SameLength(t)
  /\ IdleDistinct(t)
  /\ SlotOfHandler(t, fdOf)
  /\ SlotsUnshared(t)
  /\ IdleIsFree(t)
  /\ NoSlotLost(t)

=============================================================================
