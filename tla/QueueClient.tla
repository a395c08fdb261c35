----------------------------- MODULE QueueClient -----------------------------
(***************************************************************************)
(* Any sequence of calls on one DataQueue, by one thread.                  *)
(***************************************************************************)
EXTENDS DataQueue

CONSTANTS
  MaxBatch,    (* The most elements one call appends.                           *)
  MaxSize,     (* Bound: the most elements the callers keep in the queue.       *)
  Capacities,  (* The capacities AdjustCapacity is called with.                 *)
  LeaveRoom    (* Whether callers only rearrange to more cells than elements,   *)
               (* as the tests of the repository do.                            *)

ASSUME QueueClientAssumption ==
  /\ MaxBatch \in Nat \ {0}
  /\ MaxSize \in Nat
  /\ Capacities \subseteq Nat \ {0}
  /\ LeaveRoom \in BOOLEAN

VARIABLES
  q,
  fault    (* "none"; the assertion that failed; or "overflow", a store past mStorEnd. *)

queueVars == <<q, fault>>

QueueInit == q = NewQueue /\ fault = "none"

Room(n) == fault = "none" /\ Size(q) + n <= MaxSize

DoPushFront ==
  \E e \in Values : Room(1) /\ q' = PushFront(q, e) /\ UNCHANGED fault

DoPopFront ==
  /\ fault = "none" /\ ~Empty(q)
  /\ q' = PopFront(q)
  /\ UNCHANGED fault

(* `mEnd[0] = e`, with mEnd on the end of the storage when it has been rearranged full. *)
DoPushBack ==
  \E e \in Values :
    /\ Room(1)
    /\ IF WithRoom(q).end = WithRoom(q).cap
         THEN fault' = "overflow" /\ UNCHANGED q
         ELSE q' = PushBack(q, e) /\ UNCHANGED fault

DoPopBack ==
  /\ fault = "none" /\ ~Empty(q)
  /\ q' = PopBack(q)
  /\ UNCHANGED fault

(* PushBack(buf, n). *)
PushBackOf(n) ==
  \E s \in [1 .. n -> Values] :
    /\ Room(n)
    /\ IF PushBackAsserts(q, n)
         THEN q' = PushBackN(q, s) /\ UNCHANGED fault
         ELSE fault' = "PushBack" /\ UNCHANGED q

DoPushBackN == \E n \in 1 .. MaxBatch : PushBackOf(n)

DoAcceptBack ==
  \E n \in 1 .. MaxBatch : \E s \in [1 .. n -> Values] :
    /\ Room(n) /\ n <= Available(q)
    /\ IF AcceptBackAsserts(q, n)
         THEN q' = AcceptBack(q, s) /\ UNCHANGED fault
         ELSE fault' = "AcceptBack" /\ UNCHANGED q

(* DropFront(n), and PopFront(buf, n), which also copies the elements out. *)
DoDropFront ==
  \E n \in 1 .. Size(q) :
    /\ fault = "none"
    /\ IF DropFrontAsserts(q, n)
         THEN q' = DropFront(q, n) /\ UNCHANGED fault
         ELSE fault' = "DropFront" /\ UNCHANGED q

DoAdjustCapacity ==
  \E c \in Capacities :
    /\ fault = "none"
    /\ LeaveRoom => c > Size(q) \/ (c < Size(q) /\ ~Full(q))
    /\ q' = AdjustCapacity(q, c)
    /\ UNCHANGED fault

DoRearrange ==
  /\ fault = "none"
  /\ LeaveRoom => ~Full(q)
  /\ q' = Rearrange(q)
  /\ UNCHANGED fault

DoClear ==
  /\ fault = "none" /\ ~Empty(q)
  /\ q' = Clear(q)
  /\ UNCHANGED fault

QueueNext ==
  \/ DoPushFront
  \/ DoPopFront
  \/ DoPushBack
  \/ DoPopBack
  \/ DoPushBackN
  \/ DoAcceptBack
  \/ DoDropFront
  \/ DoAdjustCapacity
  \/ DoRearrange
  \/ DoClear

QueueSpec == QueueInit /\ [][QueueNext]_queueVars

-----------------------------------------------------------------------------

(* "mStorBegin == mBegin < mEnd < mStorEnd" is what RecordMem asks of new  *)
(* memory (DataQueue.hpp:506); every operation keeps mEnd off mStorEnd,    *)
(* where Full(), Wrap and the store of PushBack would go wrong.            *)
PointersPlaced == Placed(q)

(* The free parts and the folded parts Connection and the tests look at    *)
(* are the sizes of the whole, in every position the pointers can take.    *)
SizesAddUp == PartsAddUp(q)

(* The calls of callers that leave room never touch a cell outside the     *)
(* storage, and the assertions of AcceptBack and DropFront hold.           *)
OnlyPushBackFails == fault \in {"none", "PushBack"}

(* The pointers and the sizes are right, and of all the assertions and     *)
(* stores only the assertion of PushBack(buf, n) fails.                    *)
QueueInv == PointersPlaced /\ SizesAddUp /\ OnlyPushBackFails

(* A call PushBack(buf, n) fails its assertion (DataQueue.hpp:382) exactly  *)
(* when its n elements take every free cell of the queue and the elements  *)
(* do not begin at the storage: an append of fewer elements never fails,   *)
(* nor does one that makes the queue grow, and such an exact fill always   *)
(* does.                                                                   *)
FailsJustOnExactFill ==
  [][\A n \in 1 .. MaxBatch :
       PushBackOf(n) => (fault' = "PushBack" <=> n = Available(q) /\ q.begin > 0)]_queueVars

(* The queue is the deque its callers see: every operation does what the   *)
(* operation of the deque does, through every wrap, growth and             *)
(* rearrangement, and no call shows an element that is not in the queue.   *)
D == INSTANCE Deque WITH content <- Content(q)
ImplementsDeque == D!Spec

=============================================================================
