----------------------- MODULE ThreadAndBufferProofs -----------------------
(***************************************************************************)
(* Two components that threads other than the loop's share without the     *)
(* help of the loop, and the buffer that no thread shares.                 *)
(*                                                                         *)
(* ThreadWorker: tasks are run once and in order, and the worker misses no *)
(* task, for any threads and any number of tasks.  What AddTask and        *)
(* FinishTasks do is done with the mutex held: the inductive invariant     *)
(* says who holds it where, which is what keeps the number of tasks within *)
(* its bound and what keeps the destructor from returning.                 *)
(*                                                                         *)
(* VideoCapture: the buffers, for every number of them, every driver and   *)
(* every consumer that releases what was lent to it once.  Neither of its  *)
(* invariants is inductive: what is queued depends on the step of          *)
(* OnReadEvent.  Carried adds where the buffer in the hands of OnReadEvent *)
(* is at each of its steps, and Queued what the driver has.                *)
(*                                                                         *)
(* InputBuffer: each observer reads the stream whole and in order, for     *)
(* every stream, number of observers and size of the buffer.  Trimming,    *)
(* growing and spilling move bytes and indices at once, so the inductive   *)
(* invariant does not speak of the moves: it says which byte of the stream *)
(* lies at which index (LastArrived), whence an observer's view is the     *)
(* bytes it is owed wherever they are.  The lemmas on DataArray are about  *)
(* any array.                                                              *)
(***************************************************************************)
EXTENDS ThreadWorker, VideoCapture, InputBuffer, FifoLemmas

-----------------------------------------------------------------------------
(* ThreadWorker *)

Labels ==
  {"idle", "add", "lock", "check", "wait", "relock", "run", "done", "notify", "join", "joined"}

MutexHeld ==
  /\ \A c \in Callers : pc[c] = "add" => mutex = c /\ added < MaxTasks
  /\ pc[Worker] = "check" => mutex = Worker
  /\ pc[Owner] \in {"notify", "join"} => mutex = Owner

Joining ==
  /\ destroying => pc[Owner] = "join"
  /\ pc[Worker] # "done"
  /\ pc[Owner] # "joined"

IInv ==
  /\ TypeOK
  /\ pc \in [Threads -> Labels]
  /\ MutexHeld
  /\ Joining
  /\ NoLostWakeup
  /\ ExactlyOnceInOrder

LEMMA ThreadsDiffer ==
  /\ Worker \in Threads /\ Owner \in Threads /\ Callers \subseteq Threads
  /\ Worker # Owner
  /\ \A c \in Callers : c # Worker /\ c # Owner /\ c # Free
  /\ Free # Worker /\ Free # Owner
BY ThreadWorkerAssumption DEF Threads, Worker, Owner

(* What a thread that goes to l leaves behind it. *)
LEMMA GotoMoves ==
  ASSUME pc \in [Threads -> Labels], NEW t \in Threads, NEW l \in Labels, Goto(t, l)
  PROVE  /\ pc' \in [Threads -> Labels]
         /\ pc'[t] = l
         /\ \A u \in Threads \ {t} : pc'[u] = pc[u]
BY DEF Goto

LEMMA NotifyMoves ==
  ASSUME pc \in [Threads -> Labels], NEW t \in Threads \ {Worker}, NEW l \in Labels,
         NotifyAll(t, l)
  PROVE  /\ pc' \in [Threads -> Labels]
         /\ pc'[t] = l
         /\ pc'[Worker] = IF pc[Worker] = "wait" THEN "relock" ELSE pc[Worker]
         /\ \A u \in Threads \ {t, Worker} : pc'[u] = pc[u]
BY ThreadsDiffer DEF NotifyAll, Labels

LEMMA InitInv == Init => IInv
<1> SUFFICES ASSUME Init PROVE IInv
  OBVIOUS
<1>1. /\ pc \in [Threads -> Labels]
      /\ pc[Worker] = "lock" /\ pc[Owner] = "idle"
      /\ \A c \in Callers : pc[c] = "idle"
  BY ThreadsDiffer DEF Init, Threads, Labels
<1>2. TypeOK
  <2>1. /\ << >> \in Seq(1 .. MaxTasks)
        /\ 0 \in 0 .. MaxTasks
    BY EmptySeq, ThreadWorkerAssumption
  <2>2. /\ \A c \in Callers : pc[c] \in {"idle", "add"}
        /\ pc[Worker] \in {"lock", "check", "wait", "relock", "run", "done"}
        /\ pc[Owner] \in {"idle", "notify", "join", "joined"}
    BY <1>1
  <2> QED
    BY <2>1, <2>2 DEF Init, TypeOK
<1>3. ExactlyOnceInOrder
  <2>1. ran \o fifo = << >> /\ added = 0
    BY ConcatEmptySeq, EmptySeq DEF Init
  <2>2. [i \in 1 .. 0 |-> i] = << >>
    OBVIOUS
  <2> QED
    BY <2>1, <2>2 DEF ExactlyOnceInOrder
<1> QED
  BY <1>1, <1>2, <1>3 DEF Init, IInv, MutexHeld, Joining, NoLostWakeup

LEMMA AddTaskInv ==
  ASSUME IInv, NEW c \in Callers, AddTask(c)
  PROVE  IInv'
<1>1. /\ added < MaxTasks /\ mutex = c /\ added \in Nat /\ added + 1 \in 1 .. MaxTasks
      /\ fifo \in Seq(1 .. MaxTasks) /\ ran \in Seq(1 .. MaxTasks)
  BY ThreadWorkerAssumption DEF IInv, TypeOK, MutexHeld, AddTask
<1>2. /\ pc' \in [Threads -> Labels]
      /\ pc'[c] = "idle"
      /\ pc'[Worker] = IF pc[Worker] = "wait" THEN "relock" ELSE pc[Worker]
      /\ \A t \in Threads \ {c, Worker} : pc'[t] = pc[t]
  <2>1. NotifyAll(c, "idle") /\ c \in Threads \ {Worker} /\ pc \in [Threads -> Labels]
    BY ThreadsDiffer DEF IInv, AddTask
  <2> QED
    BY <2>1, NotifyMoves DEF Labels
<1>3. TypeOK'
  <2>1. fifo' \in Seq(1 .. MaxTasks)
    BY <1>1 DEF AddTask
  <2>2. /\ \A d \in Callers : pc'[d] \in {"idle", "add"}
        /\ pc'[Worker] \in {"lock", "check", "wait", "relock", "run", "done"}
        /\ pc'[Owner] \in {"idle", "notify", "join", "joined"}
    BY <1>2, ThreadsDiffer DEF IInv, TypeOK
  <2> QED
    BY <1>1, <2>1, <2>2 DEF IInv, TypeOK, AddTask
<1>4. MutexHeld'
  BY <1>1, <1>2, ThreadsDiffer DEF IInv, MutexHeld, AddTask
<1>5. Joining' /\ NoLostWakeup'
  BY <1>2, ThreadsDiffer DEF IInv, Joining, NoLostWakeup, AddTask
<1>6. ExactlyOnceInOrder'
  <2>1. ran \o Append(fifo, added + 1) = Append(ran \o fifo, added + 1)
    BY <1>1, PushKeepsOrder
  <2>2. Append([i \in 1 .. added |-> i], added + 1) = [i \in 1 .. added + 1 |-> i]
    <3>1. Append([i \in 1 .. added |-> i - 0], added + 1 - 0) = [i \in 1 .. added + 1 |-> i - 0]
      BY <1>1, NextNumber
    <3> QED
      BY <1>1, <3>1
  <2> QED
    BY <2>1, <2>2 DEF IInv, ExactlyOnceInOrder, AddTask
<1> QED
  BY <1>2, <1>3, <1>4, <1>5, <1>6 DEF IInv

LEMMA WorkerCheckInv ==
  ASSUME IInv, WorkerCheck
  PROVE  IInv'
<1>1. /\ mutex = Worker /\ ~destroying /\ pc[Owner] \notin {"notify", "join"}
      /\ fifo \in Seq(1 .. MaxTasks) /\ ran \in Seq(1 .. MaxTasks)
  BY ThreadsDiffer DEF IInv, TypeOK, MutexHeld, Joining, WorkerCheck
<1>2. /\ pc' \in [Threads -> Labels]
      /\ pc'[Worker] = IF fifo = << >> THEN "wait" ELSE "run"
      /\ \A t \in Threads \ {Worker} : pc'[t] = pc[t]
  <2>1. Goto(Worker, IF fifo = << >> THEN "wait" ELSE "run") /\ pc \in [Threads -> Labels]
    BY <1>1 DEF IInv, WorkerCheck
  <2> QED
    BY <2>1, ThreadsDiffer, GotoMoves DEF Labels
<1>3. /\ ran' \o fifo' = ran \o fifo
      /\ ran' \in Seq(1 .. MaxTasks) /\ fifo' \in Seq(1 .. MaxTasks)
      /\ fifo = << >> => fifo' = << >>
  <2>1. CASE fifo = << >>
    BY <1>1, <2>1 DEF WorkerCheck
  <2>2. CASE fifo # << >>
    <3>1. ran' = Append(ran, Head(fifo)) /\ fifo' = Tail(fifo)
      BY <1>1, <2>2 DEF WorkerCheck
    <3> QED
      BY ZenonT(30), <1>1, <2>2, <3>1, PopKeepsOrder
  <2> QED
    BY <2>1, <2>2
<1>4. TypeOK'
  BY <1>2, <1>3, ThreadsDiffer DEF IInv, TypeOK, WorkerCheck, Threads
<1>5. MutexHeld'
  BY <1>1, <1>2, ThreadsDiffer DEF IInv, MutexHeld, WorkerCheck
<1>6. Joining' /\ NoLostWakeup'
  BY <1>1, <1>2, <1>3, ThreadsDiffer DEF IInv, Joining, NoLostWakeup, WorkerCheck
<1>7. ExactlyOnceInOrder'
  BY <1>3 DEF IInv, ExactlyOnceInOrder, WorkerCheck
<1> QED
  BY <1>2, <1>4, <1>5, <1>6, <1>7 DEF IInv

(* The steps that only move a thread and the mutex. *)
LEMMA MoveInv ==
  ASSUME IInv, UNCHANGED <<fifo, added, ran>>, NEW t \in Threads,
         pc' \in [Threads -> Labels], \A u \in Threads \ {t, Worker} : pc'[u] = pc[u],
         pc'[Worker] = "wait" => pc[Worker] = "wait",
         TypeOK', MutexHeld', Joining'
  PROVE  IInv'
BY DEF IInv, NoLostWakeup, ExactlyOnceInOrder

LEMMA StepInv == IInv /\ [Next]_vars => IInv'
<1> SUFFICES ASSUME IInv, [Next]_vars PROVE IInv'
  OBVIOUS
<1> USE ThreadsDiffer
<1>1. ASSUME NEW c \in Callers, AddLock(c) PROVE IInv'
  <2>1. /\ pc' \in [Threads -> Labels] /\ pc'[c] = "add"
        /\ \A u \in Threads \ {c} : pc'[u] = pc[u]
    BY <1>1, GotoMoves DEF Labels, IInv, AddLock
  <2>2. TypeOK'
    BY <1>1, <2>1 DEF IInv, TypeOK, AddLock, Threads
  <2>3. MutexHeld' /\ Joining'
    BY <1>1, <2>1 DEF IInv, MutexHeld, Joining, AddLock
  <2> QED
    BY <1>1, <2>1, <2>2, <2>3, MoveInv DEF AddLock
<1>2. ASSUME NEW c \in Callers, AddTask(c) PROVE IInv'
  BY <1>2, AddTaskInv
<1>3. CASE WorkerLock
  <2>1. /\ pc' \in [Threads -> Labels] /\ pc'[Worker] = "check"
        /\ \A u \in Threads \ {Worker} : pc'[u] = pc[u]
    BY <1>3, GotoMoves DEF Labels, IInv, WorkerLock
  <2>2. TypeOK'
    BY <1>3, <2>1 DEF IInv, TypeOK, WorkerLock, Threads
  <2>3. MutexHeld' /\ Joining'
    BY <1>3, <2>1 DEF IInv, MutexHeld, Joining, WorkerLock
  <2> QED
    BY <1>3, <2>1, <2>2, <2>3, MoveInv DEF WorkerLock
<1>4. CASE WorkerCheck
  BY <1>4, WorkerCheckInv
<1>5. CASE SpuriousWake \/ WorkerFinish
  <2>1. /\ pc' \in [Threads -> Labels] /\ pc'[Worker] \in {"relock", "lock"}
        /\ \A u \in Threads \ {Worker} : pc'[u] = pc[u]
    BY <1>5, GotoMoves DEF Labels, IInv, SpuriousWake, WorkerFinish
  <2>2. TypeOK'
    BY <1>5, <2>1 DEF IInv, TypeOK, SpuriousWake, WorkerFinish, Threads
  <2>3. MutexHeld' /\ Joining'
    BY <1>5, <2>1 DEF IInv, MutexHeld, Joining, SpuriousWake, WorkerFinish
  <2> QED
    BY <1>5, <2>1, <2>2, <2>3, MoveInv DEF SpuriousWake, WorkerFinish
<1>6. CASE DestroyLock
  <2>1. /\ pc' \in [Threads -> Labels] /\ pc'[Owner] = "notify"
        /\ \A u \in Threads \ {Owner} : pc'[u] = pc[u]
    BY <1>6, GotoMoves DEF Labels, IInv, DestroyLock
  <2>2. TypeOK'
    BY <1>6, <2>1 DEF IInv, TypeOK, DestroyLock, Threads
  <2>3. MutexHeld' /\ Joining'
    BY <1>6, <2>1 DEF IInv, MutexHeld, Joining, DestroyLock
  <2> QED
    BY <1>6, <2>1, <2>2, <2>3, MoveInv DEF DestroyLock
<1>7. CASE DestroyRest
  <2>0. /\ pc[Owner] = "notify"
        /\ destroying' = TRUE /\ UNCHANGED <<mutex, fifo, added, ran>>
        /\ NotifyAll(Owner, "join")
    BY <1>7 DEF IInv, Joining, DestroyRest
  <2>1. /\ pc' \in [Threads -> Labels] /\ pc'[Owner] = "join"
        /\ pc'[Worker] = IF pc[Worker] = "wait" THEN "relock" ELSE pc[Worker]
        /\ \A u \in Threads \ {Owner, Worker} : pc'[u] = pc[u]
    BY <2>0, NotifyMoves DEF Labels, IInv
  <2>2. TypeOK'
    BY <2>0, <2>1 DEF IInv, TypeOK, Threads
  <2>3. MutexHeld' /\ Joining'
    BY <2>0, <2>1 DEF IInv, MutexHeld, Joining
  <2> QED
    BY <2>0, <2>1, <2>2, <2>3, MoveInv
<1>8. CASE UNCHANGED vars
  BY <1>8 DEF vars, IInv, TypeOK, MutexHeld, Joining, NoLostWakeup, ExactlyOnceInOrder
<1> QED
  BY <1>1, <1>2, <1>3, <1>4, <1>5, <1>6, <1>7, <1>8 DEF Next, WorkerNext

THEOREM Invariance == Spec => []IInv
BY InitInv, StepInv, PTL DEF Spec

(* The types of ThreadWorker, and no lost wake-up: the worker never waits  *)
(* on mFifoCV with a task in the FIFO.                                     *)
THEOREM WakeupNeverLost == Spec => []Inv
<1>1. IInv => Inv
  BY DEF IInv, Inv
<1> QED
  BY <1>1, Invariance, PTL

(* AddTask and FinishTasks keep the tasks: each is run once and in the     *)
(* order of the calls, or waits in the FIFO.                               *)
THEOREM TasksRunOnceInOrder == Spec => []ExactlyOnceInOrder
<1>1. IInv => ExactlyOnceInOrder
  BY DEF IInv
<1> QED
  BY <1>1, Invariance, PTL

(* ~ThreadWorker never returns: it holds the mutex while it joins a thread *)
(* that needs it.                                                          *)
THEOREM DestructorNeverReturns == Spec => []JoinNeverReturns
<1>1. IInv => JoinNeverReturns
  BY DEF IInv, Joining, JoinNeverReturns
<1> QED
  BY <1>1, Invariance, PTL

-----------------------------------------------------------------------------
(* VideoCapture *)

WithDriver(b) == \E i \in Indices : slot[i] # "user" /\ userptr[i] = b

(* Everything the driver has is in the list, and not in use. *)
Queued ==
  \A i \in Indices : slot[i] # "user" => userptr[i] \in Buffers /\ userptr[i] # mBufferInUse

Carried ==
  /\ stage = "dequeued" => buf.mem # NoBuffer
  /\ stage \in {"dequeued", "requeue"} /\ buf.mem # NoBuffer =>
       slot[buf.index] = "user" /\ buf.mem # mBufferInUse /\ ~WithDriver(buf.mem)
  /\ stage = "exchange" =>
       /\ ~mUsingBuffer /\ slot[buf.index] = "user"
       /\ mBuffers[found] = buf.mem /\ buf.mem # NoBuffer /\ ~WithDriver(buf.mem)
  /\ stage = "lend" =>
       /\ mUsingBuffer /\ lent = NoBuffer /\ slot[buf.index] = "user"
       /\ buf.mem # NoBuffer /\ ~WithDriver(mBuffers[found])

LentInUse == lent # NoBuffer => mUsingBuffer /\ lent = mBufferInUse

Streaming ==
  phase = "streaming" => Queued /\ Carried /\ LentInUse /\ DriverKeepsItsBuffers

(* Before the start nothing is lent. *)
Quiet ==
  phase \in {"opened", "prepared"} =>
    stage = "idle" /\ lent = NoBuffer /\ ~mUsingBuffer

CaptureIInv == CaptureTypeOK /\ EachOnce /\ Streaming /\ Quiet

USE VideoCaptureAssumption
USE DEF Indices, Buffers, NoBuffer

THEOREM CaptureInitInv == CaptureInit => CaptureIInv
<1> SUFFICES ASSUME CaptureInit
             PROVE  CaptureIInv
  OBVIOUS
<1>1. hasCallback \in BOOLEAN /\ mUsingBuffer \in BOOLEAN
  BY DEF CaptureInit
<1>2. 0 \in Indices
  OBVIOUS
<1>3. buf \in [index : Indices, mem : Buffers \cup {NoBuffer}]
  BY <1>2 DEF CaptureInit, NoBuf
<1>4. CaptureTypeOK
  BY <1>1, <1>2, <1>3 DEF CaptureInit, CaptureTypeOK
<1>5. EachOnce /\ Streaming /\ Quiet
  BY DEF CaptureInit, EachOnce, Streaming, Quiet
<1>6. QED
  BY <1>4, <1>5 DEF CaptureIInv

LEMMA ExitKeeps ==
  ASSUME CaptureIInv, Exit
  PROVE  CaptureIInv'
  BY DEF CaptureIInv, Exit, CaptureTypeOK, EachOnce, Streaming, Quiet, buffers, driver

LEMMA PrepareKeeps ==
  ASSUME CaptureIInv, PrepareBufferOrDie
  PROVE  CaptureIInv'
<1>1. CASE Exit
  BY <1>1, ExitKeeps
<1>2. CASE ~Exit
  <2>1. /\ phase = "opened" /\ phase' = "prepared"
        /\ mBuffers' = [i \in Indices |-> i + 1] /\ mBufferInUse' = 0
        /\ mUsingBuffer' = FALSE
        /\ UNCHANGED <<hasCallback, stage, buf, found, driver, lent>>
    BY <1>2 DEF PrepareBufferOrDie
  <2>2. CaptureTypeOK'
    <3>1. mBuffers' \in [Indices -> Buffers \cup {NoBuffer}] /\ mBufferInUse' \in Buffers
      BY <2>1
    <3>2. UNCHANGED <<hasCallback, stage, buf, found, slot, userptr, lent>>
      BY <2>1 DEF driver
    <3>3. mUsingBuffer' \in BOOLEAN
      BY <2>1
    <3>4. QED
      BY <2>1, <3>1, <3>2, <3>3 DEF CaptureIInv, CaptureTypeOK
  <2>3. EachOnce'
    <3>1. \A b \in Buffers \ {0} : b - 1 \in Indices /\ mBuffers'[b - 1] = b
      BY <2>1
    <3>2. QED
      BY <2>1, <3>1 DEF EachOnce
  <2>4. QED
    BY <2>1, <2>2, <2>3 DEF CaptureIInv, Streaming, Quiet
<1>3. QED
  BY <1>1, <1>2

LEMMA StartKeeps ==
  ASSUME CaptureIInv, StartOrDie
  PROVE  CaptureIInv'
<1>1. CASE Exit
  BY <1>1, ExitKeeps
<1>2. CASE ~Exit
  <2>1. /\ phase = "prepared" /\ phase' = "streaming"
        /\ slot' = [i \in Indices |-> "queued"] /\ userptr' = mBuffers
        /\ UNCHANGED <<hasCallback, mBuffers, mBufferInUse, mUsingBuffer, stage, buf, found, lent>>
    BY <1>2 DEF StartOrDie, buffers
  <2>2. CaptureTypeOK' /\ EachOnce'
    BY <2>1 DEF CaptureIInv, CaptureTypeOK, EachOnce
  <2>3. Queued'
    BY <2>1, <2>2 DEF CaptureIInv, CaptureTypeOK, EachOnce, Queued
  <2>4. Carried' /\ LentInUse'
    BY <2>1 DEF CaptureIInv, Quiet, Carried, LentInUse
  <2>5. DriverKeepsItsBuffers'
    BY <2>1 DEF CaptureIInv, EachOnce, DriverKeepsItsBuffers
  <2>6. QED
    BY <2>1, <2>2, <2>3, <2>4, <2>5 DEF CaptureIInv, Streaming, Quiet
<1>3. QED
  BY <1>1, <1>2

(* Fill and ReleaseBufferInUse move no buffer. *)
LEMMA FillKeeps ==
  ASSUME CaptureIInv, NEW i \in Indices, Fill(i)
  PROVE  CaptureIInv'
<1>1. /\ phase = "streaming" /\ slot[i] = "queued"
      /\ slot' = [slot EXCEPT ![i] = "done"]
      /\ UNCHANGED <<phase, hasCallback, mBuffers, mBufferInUse, mUsingBuffer, stage, buf, found,
                     userptr, lent>>
  BY DEF Fill, buffers
<1>2. CaptureTypeOK' /\ EachOnce' /\ Quiet' /\ LentInUse'
  BY <1>1 DEF CaptureIInv, CaptureTypeOK, EachOnce, Quiet, Streaming, LentInUse
<1>3. \A j \in Indices : (slot'[j] = "user") <=> (slot[j] = "user")
  BY <1>1 DEF CaptureIInv, CaptureTypeOK
<1>4. Queued' /\ DriverKeepsItsBuffers'
  BY <1>1, <1>3 DEF CaptureIInv, Streaming, Queued, DriverKeepsItsBuffers
<1>5. Carried'
  BY <1>1, <1>3 DEF CaptureIInv, CaptureTypeOK, Streaming, Carried, WithDriver
<1>6. QED
  BY <1>1, <1>2, <1>4, <1>5 DEF CaptureIInv, Streaming

LEMMA ReleaseKeeps ==
  ASSUME CaptureIInv, ReleaseBufferInUse
  PROVE  CaptureIInv'
<1>1. /\ phase = "streaming" /\ lent # NoBuffer /\ mUsingBuffer' = FALSE /\ lent' = NoBuffer
      /\ UNCHANGED <<phase, hasCallback, mBuffers, mBufferInUse, stage, buf, found, slot, userptr>>
  BY DEF ReleaseBufferInUse, driver
<1>2. stage # "lend"
  BY <1>1 DEF CaptureIInv, Streaming, Carried
<1>3. CaptureTypeOK' /\ EachOnce' /\ Quiet' /\ LentInUse'
  BY <1>1 DEF CaptureIInv, CaptureTypeOK, EachOnce, Quiet, LentInUse
<1>4. Queued' /\ DriverKeepsItsBuffers'
  BY <1>1 DEF CaptureIInv, Streaming, Queued, DriverKeepsItsBuffers
<1>5. Carried'
  BY <1>1, <1>2 DEF CaptureIInv, Streaming, Carried, WithDriver
<1>6. QED
  BY <1>1, <1>3, <1>4, <1>5 DEF CaptureIInv, Streaming

LEMMA DequeueKeeps ==
  ASSUME CaptureIInv, NEW i \in Indices, Dequeue(i)
  PROVE  CaptureIInv'
<1>1. /\ phase = "streaming" /\ stage = "idle" /\ slot[i] = "done"
      /\ buf' = [index |-> i, mem |-> userptr[i]]
      /\ slot' = [slot EXCEPT ![i] = "user"] /\ stage' = "dequeued"
      /\ UNCHANGED <<phase, hasCallback, mBuffers, mBufferInUse, mUsingBuffer, found,
                     userptr, lent>>
  BY DEF Dequeue, buffers
<1>2. CaptureTypeOK' /\ EachOnce' /\ Quiet' /\ LentInUse'
  BY <1>1 DEF CaptureIInv, CaptureTypeOK, EachOnce, Quiet, Streaming, LentInUse
<1>3. /\ userptr[i] \in Buffers /\ userptr[i] # mBufferInUse
      /\ \A j \in Indices : slot[j] # "user"
      /\ \A j \in Indices : j # i => userptr[j] # userptr[i]
  BY <1>1 DEF CaptureIInv, Streaming, Queued, DriverKeepsItsBuffers
<1>4. \A j \in Indices : slot'[j] = "user" <=> j = i
  BY <1>1, <1>3 DEF CaptureIInv, CaptureTypeOK
<1>5. Queued' /\ DriverKeepsItsBuffers'
  BY <1>1, <1>3, <1>4 DEF CaptureIInv, Streaming, Queued, DriverKeepsItsBuffers
<1>6. Carried'
  BY <1>1, <1>3, <1>4 DEF Carried, WithDriver
<1>7. QED
  BY <1>1, <1>2, <1>5, <1>6 DEF CaptureIInv, Streaming

LEMMA DequeueEIOKeeps ==
  ASSUME CaptureIInv, DequeueEIO
  PROVE  CaptureIInv'
<1>1. /\ phase = "streaming" /\ stage = "idle" /\ buf' = NoBuf /\ stage' = "requeue"
      /\ UNCHANGED <<phase, hasCallback, mBuffers, mBufferInUse, mUsingBuffer, found,
                     slot, userptr, lent>>
  BY DEF DequeueEIO, buffers, driver
<1>2. \A i \in Indices : slot[i] # "user"
  BY <1>1 DEF CaptureIInv, Streaming, DriverKeepsItsBuffers
<1>3. CaptureTypeOK' /\ EachOnce' /\ Quiet' /\ LentInUse'
  BY <1>1 DEF CaptureIInv, CaptureTypeOK, EachOnce, Quiet, Streaming, LentInUse, NoBuf
<1>4. Queued' /\ DriverKeepsItsBuffers' /\ Carried'
  BY <1>1, <1>2 DEF CaptureIInv, Streaming, Queued, DriverKeepsItsBuffers, Carried, NoBuf
<1>5. QED
  BY <1>1, <1>3, <1>4 DEF CaptureIInv, Streaming

LEMMA TestKeeps ==
  ASSUME CaptureIInv, Test
  PROVE  CaptureIInv'
<1>1. /\ phase = "streaming" /\ stage = "dequeued"
      /\ UNCHANGED <<phase, hasCallback, mBuffers, mBufferInUse, mUsingBuffer, buf,
                     slot, userptr, lent>>
  BY DEF Test, buffers, driver
<1>2. \/ /\ stage' = "exchange" /\ found' \in Indices /\ mBuffers[found'] = buf.mem
         /\ ~mUsingBuffer
      \/ stage' = "requeue" /\ found' = found
  BY DEF Test, MayLend, AfterSkip
<1>3. CaptureTypeOK' /\ EachOnce' /\ Quiet' /\ LentInUse'
  BY <1>1, <1>2 DEF CaptureIInv, CaptureTypeOK, EachOnce, Quiet, Streaming, LentInUse
<1>4. Queued' /\ DriverKeepsItsBuffers'
  BY <1>1, <1>2 DEF CaptureIInv, Streaming, Queued, DriverKeepsItsBuffers
<1>5. Carried'
  BY <1>1, <1>2 DEF CaptureIInv, Streaming, Carried, WithDriver
<1>6. QED
  BY <1>1, <1>3, <1>4, <1>5 DEF CaptureIInv, Streaming

(* The exchange: what was in use takes the place of what is. *)
LEMMA ExchangeKeeps ==
  ASSUME CaptureIInv, Exchange
  PROVE  CaptureIInv'
<1>1. /\ phase = "streaming" /\ stage = "exchange" /\ stage' = "lend"
      /\ mUsingBuffer' = TRUE /\ mBufferInUse' = mBuffers[found]
      /\ mBuffers' = [mBuffers EXCEPT ![found] = mBufferInUse]
      /\ UNCHANGED <<phase, hasCallback, buf, found, slot, userptr, lent>>
  BY DEF Exchange, Exchanged, driver
<1>2. /\ found \in Indices /\ mBuffers \in [Indices -> Buffers \cup {NoBuffer}]
      /\ mBufferInUse \in Buffers
      /\ mBuffers[found] = buf.mem /\ buf.mem # NoBuffer /\ ~WithDriver(buf.mem)
      /\ slot[buf.index] = "user" /\ lent = NoBuffer
  BY <1>1 DEF CaptureIInv, CaptureTypeOK, EachOnce, Streaming, Carried, LentInUse
<1>3. mBuffers'[found] = mBufferInUse
      /\ \A j \in Indices : j # found => mBuffers'[j] = mBuffers[j]
  BY <1>1, <1>2
<1>4. CaptureTypeOK' /\ Quiet'
  BY <1>1, <1>2 DEF CaptureIInv, CaptureTypeOK, Quiet
<1>5. EachOnce'
  <2>1. mBufferInUse' \in Buffers
    BY <1>1, <1>2
  <2>2. ASSUME NEW b \in Buffers, b # mBufferInUse'
        PROVE  \E i \in Indices : mBuffers'[i] = b
    <3>1. CASE b = mBufferInUse
      BY <3>1, <1>2, <1>3
    <3>2. CASE b # mBufferInUse
      <4>1. PICK i \in Indices : mBuffers[i] = b
        BY <3>2, <1>1 DEF CaptureIInv, EachOnce
      <4>2. i # found
        BY <4>1, <2>2, <1>1
      <4>3. QED
        BY <4>1, <4>2, <1>3
    <3>3. QED
      BY <3>1, <3>2
  <2>3. /\ \A i \in Indices : mBuffers'[i] \in Buffers \ {mBufferInUse'}
        /\ \A i, j \in Indices : mBuffers'[i] = mBuffers'[j] => i = j
    BY <1>1, <1>2, <1>3 DEF CaptureIInv, EachOnce
  <2>4. QED
    BY <2>1, <2>2, <2>3 DEF EachOnce
<1>6. Queued'
  BY <1>1, <1>2 DEF CaptureIInv, Streaming, Queued, WithDriver
<1>7. DriverKeepsItsBuffers'
  BY <1>1 DEF CaptureIInv, Streaming, DriverKeepsItsBuffers
<1>8. Carried'
  <2>1. ~WithDriver(mBufferInUse)
    BY <1>1 DEF CaptureIInv, Streaming, Queued, WithDriver
  <2>2. QED
    BY <2>1, <1>1, <1>2, <1>3 DEF Carried, WithDriver
<1>9. QED
  BY <1>1, <1>2, <1>4, <1>5, <1>6, <1>7, <1>8 DEF CaptureIInv, Streaming, LentInUse

LEMMA LendKeeps ==
  ASSUME CaptureIInv, Lend
  PROVE  CaptureIInv'
<1>1. /\ phase = "streaming" /\ stage = "lend" /\ stage' = "requeue"
      /\ buf' = [buf EXCEPT !.mem = mBuffers[found]]
      /\ UNCHANGED <<phase, hasCallback, mBuffers, mBufferInUse, found, slot, userptr>>
  BY DEF Lend, Requeued, driver
<1>2. \/ lent' = mBufferInUse /\ mUsingBuffer' = mUsingBuffer
      \/ lent' = lent /\ mUsingBuffer' = FALSE
  BY DEF Lend
<1>3. /\ found \in Indices /\ buf \in [index : Indices, mem : Buffers \cup {NoBuffer}]
      /\ mBuffers \in [Indices -> Buffers \cup {NoBuffer}] /\ mBufferInUse \in Buffers
      /\ mUsingBuffer /\ lent = NoBuffer /\ slot[buf.index] = "user"
      /\ ~WithDriver(mBuffers[found]) /\ mBuffers[found] # mBufferInUse
  BY <1>1 DEF CaptureIInv, CaptureTypeOK, EachOnce, Streaming, Carried
<1>4. buf'.index = buf.index /\ buf'.mem = mBuffers[found]
  BY <1>1, <1>3
<1>5. mBuffers[found] # NoBuffer
  BY <1>1, <1>3 DEF CaptureIInv, EachOnce
<1>6. CaptureTypeOK' /\ EachOnce' /\ Quiet' /\ LentInUse'
  BY <1>1, <1>2, <1>3 DEF CaptureIInv, CaptureTypeOK, EachOnce, Quiet, LentInUse
<1>7. Queued' /\ DriverKeepsItsBuffers'
  BY <1>1, <1>4, <1>5 DEF CaptureIInv, Streaming, Queued, DriverKeepsItsBuffers
<1>8. Carried'
  BY <1>1, <1>3, <1>4 DEF Carried, WithDriver
<1>9. QED
  BY <1>1, <1>6, <1>7, <1>8 DEF CaptureIInv, Streaming

LEMMA RequeueKeeps ==
  ASSUME CaptureIInv, Requeue
  PROVE  CaptureIInv'
<1>1. CASE Exit
  BY <1>1, ExitKeeps
<1>2. CASE ~Exit
  <2>1. /\ phase = "streaming" /\ stage = "requeue" /\ buf.mem # NoBuffer
        /\ slot' = [slot EXCEPT ![buf.index] = "queued"]
        /\ userptr' = [userptr EXCEPT ![buf.index] = buf.mem]
        /\ stage' = "idle" /\ buf' = NoBuf
        /\ UNCHANGED <<phase, hasCallback, mBuffers, mBufferInUse, mUsingBuffer, found, lent>>
    BY <1>2 DEF Requeue, buffers
  <2>2. /\ buf.index \in Indices /\ buf.mem \in Buffers
        /\ buf.mem # mBufferInUse /\ ~WithDriver(buf.mem)
        /\ slot \in [Indices -> {"user", "queued", "done"}]
        /\ userptr \in [Indices -> Buffers \cup {NoBuffer}]
        /\ \A i \in Indices : slot[i] = "user" => i = buf.index
    BY <2>1 DEF CaptureIInv, CaptureTypeOK, Streaming, Carried, DriverKeepsItsBuffers
  <2>3. /\ userptr'[buf.index] = buf.mem /\ slot'[buf.index] # "user"
        /\ \A i \in Indices : i # buf.index => userptr'[i] = userptr[i] /\ slot'[i] = slot[i]
    BY <2>1, <2>2
  <2>4. CaptureTypeOK' /\ EachOnce' /\ Quiet' /\ LentInUse'
    BY <2>1, <2>2 DEF CaptureIInv, CaptureTypeOK, EachOnce, Quiet, Streaming, LentInUse, NoBuf
  <2>5. Queued'
    BY <2>1, <2>2, <2>3 DEF CaptureIInv, Streaming, Queued
  <2>6. DriverKeepsItsBuffers'
    BY <2>1, <2>2, <2>3 DEF CaptureIInv, Streaming, DriverKeepsItsBuffers, WithDriver
  <2>7. Carried'
    BY <2>1 DEF Carried
  <2>8. QED
    BY <2>1, <2>4, <2>5, <2>6, <2>7 DEF CaptureIInv, Streaming
<1>3. QED
  BY <1>1, <1>2

LEMMA CaptureStepInv == CaptureIInv /\ [CaptureNext]_captureVars => CaptureIInv'
<1> SUFFICES ASSUME CaptureIInv, [CaptureNext]_captureVars
             PROVE  CaptureIInv'
  OBVIOUS
<1>1. CASE UNCHANGED captureVars
  BY <1>1 DEF captureVars, CaptureIInv, CaptureTypeOK, EachOnce, Streaming, Quiet, Queued, Carried, LentInUse,
              DriverKeepsItsBuffers, WithDriver
<1>2. CASE \E i \in Indices : Fill(i) \/ Dequeue(i)
  BY <1>2, FillKeeps, DequeueKeeps
<1>3. CASE DequeueFails
  BY <1>3, ExitKeeps DEF DequeueFails
<1>4. QED
  BY <1>1, <1>2, <1>3, PrepareKeeps, StartKeeps, DequeueEIOKeeps, TestKeeps, ExchangeKeeps,
     LendKeeps, RequeueKeeps, ReleaseKeeps DEF CaptureNext, OnReadEvent

THEOREM CaptureInvariance == CaptureSpec => []CaptureIInv
  BY CaptureInitInv, CaptureStepInv, PTL DEF CaptureSpec

(* What is lent to the consumer is never with the driver.                  *)
THEOREM LentAlwaysOwn == CaptureSpec => []LentIsTheConsumersOwn
<1>1. CaptureIInv => LentIsTheConsumersOwn
  BY DEF CaptureIInv, Streaming, Queued, Carried, LentInUse, LentIsTheConsumersOwn
<1>2. QED
  BY CaptureInvariance, <1>1, PTL

(* The driver is never short of more than the buffer in OnReadEvent.       *)
THEOREM DriverNeverShort == CaptureSpec => []DriverKeepsItsBuffers
<1>1. CaptureIInv => DriverKeepsItsBuffers
  BY DEF CaptureIInv, Streaming, DriverKeepsItsBuffers
<1>2. QED
  BY CaptureInvariance, <1>1, PTL

(* No buffer is lost or in two places, at the driver or in the list.       *)
THEOREM BuffersAlwaysOnce == CaptureSpec => []CaptureInv
<1>1. CaptureIInv => CaptureTypeOK /\ EachOnce
  BY DEF CaptureIInv
<1>2. QED
  BY CaptureInvariance, DriverNeverShort, <1>1, PTL DEF CaptureInv

-----------------------------------------------------------------------------
(* DataArray *)

(* An array of elements of V. *)
Sound(a, V) ==
  /\ a \in [cap : Nat, size : Nat, mem : UNION {[0 .. c - 1 -> V] : c \in Nat}]
  /\ a.size <= a.cap
  /\ a.mem \in [0 .. a.cap - 1 -> V]
  /\ Junk \in V

LEMMA SoundFacts ==
  ASSUME NEW V, NEW a, Sound(a, V)
  PROVE  /\ a.cap \in Nat /\ a.size \in Nat /\ a.size <= a.cap /\ Junk \in V
         /\ a.mem \in [0 .. a.cap - 1 -> V] /\ Cells(a) = 0 .. a.cap - 1
         /\ a = [cap |-> a.cap, size |-> a.size, mem |-> a.mem]
BY DEF Sound, Cells

LEMMA MakeSound ==
  ASSUME NEW V, Junk \in V, NEW c \in Nat, NEW n \in Nat, n <= c, NEW m, m \in [0 .. c - 1 -> V]
  PROVE  Sound([cap |-> c, size |-> n, mem |-> m], V)
BY DEF Sound

LEMMA ArrayFacts ==
  ASSUME NEW V, Junk \in V, NEW c \in Nat, NEW n \in Nat, n <= c
  PROVE  /\ Sound(Array(c, n), V) /\ Array(c, n).cap = c /\ Array(c, n).size = n
         /\ \A k \in 0 .. c - 1 : Array(c, n).mem[k] = Junk
<1> DEFINE m == [k \in 0 .. c - 1 |-> Junk]
<1>1. Array(c, n) = [cap |-> c, size |-> n, mem |-> m]
  BY DEF Array
<1>2. m \in [0 .. c - 1 -> V] /\ \A k \in 0 .. c - 1 : m[k] = Junk
  OBVIOUS
<1> HIDE DEF m
<1>3. Sound([cap |-> c, size |-> n, mem |-> m], V)
  BY <1>2, MakeSound
<1> QED
  BY <1>1, <1>2, <1>3

LEMMA StoreFacts ==
  ASSUME NEW V, NEW a, Sound(a, V), NEW f, \A k \in DOMAIN f : k \in 0 .. a.cap - 1 => f[k] \in V
  PROVE  /\ Sound(Store(a, f), V) /\ Store(a, f).cap = a.cap /\ Store(a, f).size = a.size
         /\ \A k \in 0 .. a.cap - 1 : Store(a, f).mem[k] = IF k \in DOMAIN f THEN f[k] ELSE a.mem[k]
<1> DEFINE m == [k \in 0 .. a.cap - 1 |-> IF k \in DOMAIN f THEN f[k] ELSE a.mem[k]]
<1>1. /\ a.cap \in Nat /\ a.size \in Nat /\ a.size <= a.cap /\ Junk \in V
      /\ a.mem \in [0 .. a.cap - 1 -> V] /\ Cells(a) = 0 .. a.cap - 1
      /\ a = [cap |-> a.cap, size |-> a.size, mem |-> a.mem]
  BY SoundFacts
<1>2. Store(a, f) = [cap |-> a.cap, size |-> a.size, mem |-> m]
  <2>1. Store(a, f) = [a EXCEPT !.mem = m]
    BY <1>1 DEF Store
  <2> HIDE DEF m
  <2> QED
    BY <1>1, <2>1
<1>3. m \in [0 .. a.cap - 1 -> V]
  BY <1>1
<1>4. \A k \in 0 .. a.cap - 1 : m[k] = IF k \in DOMAIN f THEN f[k] ELSE a.mem[k]
  OBVIOUS
<1> HIDE DEF m
<1>5. Sound([cap |-> a.cap, size |-> a.size, mem |-> m], V)
  BY <1>1, <1>3, MakeSound
<1> QED
  BY <1>2, <1>4, <1>5

(* Setting mEnd. *)
LEMMA SizeSet ==
  ASSUME NEW V, NEW a, Sound(a, V), NEW n \in Nat, n <= a.cap
  PROVE  /\ Sound([a EXCEPT !.size = n], V)
         /\ [a EXCEPT !.size = n].cap = a.cap /\ [a EXCEPT !.size = n].size = n
         /\ [a EXCEPT !.size = n].mem = a.mem
<1>1. /\ a.cap \in Nat /\ a.size \in Nat /\ Junk \in V /\ a.mem \in [0 .. a.cap - 1 -> V]
      /\ a = [cap |-> a.cap, size |-> a.size, mem |-> a.mem]
  BY SoundFacts
<1>2. [a EXCEPT !.size = n] = [cap |-> a.cap, size |-> n, mem |-> a.mem]
  BY <1>1
<1>3. Sound([cap |-> a.cap, size |-> n, mem |-> a.mem], V)
  BY <1>1, MakeSound
<1> QED
  BY <1>2, <1>3

(* The first n cells of b, in new storage. *)
LEMMA MovedFacts ==
  ASSUME NEW V, NEW b, Sound(b, V), NEW n \in 0 .. b.cap, NEW c \in Nat, n <= c
  PROVE  /\ Sound(Moved(b, n, c), V) /\ Moved(b, n, c).cap = c /\ Moved(b, n, c).size = n
         /\ \A k \in 0 .. n - 1 : Moved(b, n, c).mem[k] = b.mem[k]
<1>1. b.cap \in Nat /\ Junk \in V /\ b.mem \in [0 .. b.cap - 1 -> V]
  BY SoundFacts
<1> DEFINE f == [k \in 0 .. n - 1 |-> b.mem[k]]
           r == Array(c, n)
<1>2. Sound(r, V) /\ r.cap = c /\ r.size = n
  <2>1. n \in Nat
    BY <1>1
  <2> QED
    BY <1>1, <2>1, ArrayFacts
<1>3. /\ DOMAIN f = 0 .. n - 1 /\ \A k \in 0 .. n - 1 : f[k] = b.mem[k] /\ f[k] \in V
  BY <1>1
<1>4. Moved(b, n, c) = Store(r, f)
  BY DEF Moved
<1> HIDE DEF r, f
<1>5. /\ Sound(Store(r, f), V) /\ Store(r, f).cap = c /\ Store(r, f).size = n
      /\ \A k \in 0 .. c - 1 : Store(r, f).mem[k] = IF k \in DOMAIN f THEN f[k] ELSE r.mem[k]
  BY <1>2, <1>3, StoreFacts
<1>6. \A k \in 0 .. n - 1 : k \in 0 .. c - 1
  BY <1>1
<1> QED
  BY <1>3, <1>4, <1>5, <1>6

(* What an array holds. *)
LEMMA ContentFacts ==
  ASSUME NEW V, NEW a, Sound(a, V)
  PROVE  /\ Content(a) \in Seq(V) /\ Len(Content(a)) = a.size
         /\ \A i \in 1 .. a.size : Content(a)[i] = a.mem[i - 1]
<1>1. a.cap \in Nat /\ a.size \in Nat /\ a.size <= a.cap /\ a.mem \in [0 .. a.cap - 1 -> V]
  BY SoundFacts
<1>2. \A i \in 1 .. a.size : i - 1 \in 0 .. a.cap - 1
  BY <1>1
<1>3. Content(a) = [i \in 1 .. a.size |-> a.mem[i - 1]]
  BY DEF Content
<1>4. Content(a) \in [1 .. a.size -> V]
  BY <1>1, <1>2, <1>3
<1>5. Content(a) \in Seq(V)
  BY <1>1, <1>4
<1>6. Len(Content(a)) = a.size
  BY <1>1, <1>3
<1> QED
  BY <1>3, <1>5, <1>6

LEMMA SoundWider ==
  ASSUME NEW V, NEW W, V \subseteq W, NEW a, Sound(a, V)
  PROVE  Sound(a, W)
<1>1. /\ a.cap \in Nat /\ a.size \in Nat /\ a.size <= a.cap /\ Junk \in V
      /\ a.mem \in [0 .. a.cap - 1 -> V]
      /\ a = [cap |-> a.cap, size |-> a.size, mem |-> a.mem]
  BY SoundFacts
<1>2. a.mem \in [0 .. a.cap - 1 -> W] /\ Junk \in W
  BY <1>1
<1>3. Sound([cap |-> a.cap, size |-> a.size, mem |-> a.mem], W)
  BY <1>1, <1>2, MakeSound
<1> QED
  BY <1>1, <1>3

LEMMA DoubledFacts ==
  ASSUME NEW c \in Nat \ {0}, NEW n \in Nat
  PROVE  /\ Doubled(c, n) \in Nat /\ Doubled(c, n) >= n /\ Doubled(c, n) >= c
         /\ c >= n => Doubled(c, n) = c
<1> DEFINE Doubling(d) == d = [k \in 0 .. n |-> IF k = 0 THEN c ELSE 2 * d[k - 1]]
           twice == [x \in Nat |-> 2 * x]
<1>1. \E d : Doubling(d)
  <2>1. c \in Nat /\ twice \in [Nat -> Nat]
    OBVIOUS
  <2>2. \E d \in [0 .. n -> Nat] : d[0] = c /\ \A k \in 1 .. n : d[k] = twice[d[k - 1]]
    <3> HIDE DEF twice
    <3>1. PICK d : IsChain(d, Nat, c, twice, n)
      BY <2>1, Iterates
    <3> QED
      BY <3>1 DEF IsChain
  <2>6. PICK d \in [0 .. n -> Nat] : d[0] = c /\ \A k \in 1 .. n : d[k] = twice[d[k - 1]]
    BY <2>2
  <2>3. \A k \in 0 .. n : d[k] = IF k = 0 THEN c ELSE 2 * d[k - 1]
    <3> SUFFICES ASSUME NEW k \in 0 .. n, k # 0 PROVE d[k] = 2 * d[k - 1]
      BY <2>6
    <3>1. k \in 1 .. n /\ k - 1 \in 0 .. n
      OBVIOUS
    <3>2. d[k - 1] \in Nat
      BY <2>6, <3>1
    <3> QED
      BY <2>6, <3>1, <3>2
  <2>4. d = [k \in 0 .. n |-> d[k]]
    BY <2>6
  <2>5. Doubling(d)
    BY <2>3, <2>4
  <2> QED
    BY <2>5
<1>2. PICK d : d = CHOOSE e : Doubling(e)
  OBVIOUS
<1>3. Doubling(d)
  <2> HIDE DEF Doubling
  <2> QED
    BY <1>1, <1>2
<1>4. d[0] = c /\ \A k \in 1 .. n : d[k] = 2 * d[k - 1]
  <2>1. \A k \in 0 .. n : d[k] = IF k = 0 THEN c ELSE 2 * d[k - 1]
    BY <1>3, Zenon
  <2>2. 0 \in 0 .. n /\ \A k \in 1 .. n : k \in 0 .. n /\ k # 0
    OBVIOUS
  <2> QED
    BY <2>1, <2>2
<1>5. Doubled(c, n) = d[CHOOSE k \in 0 .. n : d[k] >= n /\ (k = 0 \/ d[k - 1] < n)]
  BY <1>2 DEF Doubled
<1> HIDE DEF Doubling
<1>6. \A k \in 0 .. n : d[k] \in Nat /\ d[k] > k /\ d[k] >= c
  <2> DEFINE Bad == {k \in 0 .. n : ~(d[k] \in Nat /\ d[k] > k /\ d[k] >= c)}
  <2>1. ASSUME Bad # {} PROVE FALSE
    <3>1. Bad \in SUBSET Nat
      OBVIOUS
    <3>2. PICK k \in Bad : \A j \in Bad : k <= j
      <4> HIDE DEF Bad
      <4> QED
        BY <2>1, <3>1, HasLeast
    <3>3. k # 0
      BY <1>4
    <3>4. k \in 1 .. n /\ k - 1 \in 0 .. n /\ k - 1 \notin Bad
      <4>1. k \in 0 .. n
        OBVIOUS
      <4> HIDE DEF Bad
      <4> QED
        BY <3>2, <3>3, <4>1
    <3>5. d[k - 1] \in Nat /\ d[k - 1] > k - 1 /\ d[k - 1] >= c /\ d[k] = 2 * d[k - 1]
      BY <1>4, <3>4
    <3>6. d[k] \in Nat /\ d[k] > k /\ d[k] >= c
      BY <3>4, <3>5
    <3> QED
      BY <3>2, <3>6
  <2> QED
    BY <2>1
<1>7. \E k \in 0 .. n : d[k] >= n /\ (k = 0 \/ d[k - 1] < n)
  <2> DEFINE Long == {k \in 0 .. n : d[k] >= n}
  <2>1. Long \in SUBSET Nat /\ n \in Long
    BY <1>6
  <2>2. PICK k \in Long : \A j \in Long : k <= j
    <3> HIDE DEF Long
    <3> QED
      BY <2>1, HasLeast
  <2>3. k \in 0 .. n /\ d[k] >= n
    OBVIOUS
  <2>4. ASSUME k # 0 PROVE d[k - 1] < n
    <3>1. k - 1 \in 0 .. n
      BY <2>3, <2>4
    <3>2. k - 1 \notin Long
      <4> HIDE DEF Long
      <4> QED
        BY <2>2, <2>3, <3>1
    <3>3. d[k - 1] \in Nat
      BY <1>6, <3>1
    <3> QED
      BY <3>1, <3>2, <3>3
  <2> QED
    BY <2>3, <2>4
<1>8. PICK k \in 0 .. n : Doubled(c, n) = d[k] /\ d[k] >= n /\ (k = 0 \/ d[k - 1] < n)
  BY <1>5, <1>7
<1>9. c >= n => k = 0
  <2>1. ASSUME c >= n, k # 0 PROVE FALSE
    <3>1. k - 1 \in 0 .. n
      BY <2>1
    <3>2. d[k - 1] \in Nat /\ d[k - 1] >= c /\ d[k - 1] < n
      BY <1>6, <1>8, <2>1, <3>1
    <3> QED
      BY <2>1, <3>2
  <2> QED
    BY <2>1
<1> QED
  BY <1>4, <1>6, <1>8, <1>9

(* New storage of another capacity, unless that is too small. *)
LEMMA AdjustFacts ==
  ASSUME NEW V, NEW a, Sound(a, V), NEW c \in Nat
  PROVE  /\ Sound(AdjustCapacity(a, c), V) /\ AdjustCapacity(a, c).size = a.size
         /\ c > 0 /\ c >= a.size => AdjustCapacity(a, c).cap = c
         /\ \A k \in 0 .. a.size - 1 : AdjustCapacity(a, c).mem[k] = a.mem[k]
<1>1. a.cap \in Nat /\ a.size \in 0 .. a.cap
  BY SoundFacts
<1>2. CASE c < a.size \/ c = a.cap
  BY <1>1, <1>2 DEF AdjustCapacity
<1>3. CASE ~(c < a.size \/ c = a.cap)
  <2> DEFINE d == IF c > 0 THEN c ELSE 1
  <2>1. d \in Nat /\ a.size <= d /\ (c > 0 => d = c)
    BY <1>1, <1>3
  <2>2. AdjustCapacity(a, c) = Moved(a, a.size, d)
    BY <1>3 DEF AdjustCapacity
  <2> HIDE DEF d
  <2>3. /\ Sound(Moved(a, a.size, d), V) /\ Moved(a, a.size, d).cap = d
        /\ Moved(a, a.size, d).size = a.size
        /\ \A k \in 0 .. a.size - 1 : Moved(a, a.size, d).mem[k] = a.mem[k]
    BY <1>1, <2>1, MovedFacts
  <2> QED
    BY <2>1, <2>2, <2>3
<1> QED
  BY <1>2, <1>3

(* A resized array keeps the cells of its elements, be they elements or not. *)
LEMMA ResizeFacts ==
  ASSUME NEW V, NEW a, Sound(a, V), NEW n \in Nat
  PROVE  /\ Sound(Resize(a, n), V) /\ Resize(a, n).size = n /\ Resize(a, n).cap >= a.cap
         /\ n <= a.cap /\ a.cap # 0 => Resize(a, n).cap = a.cap
         /\ \A k \in 0 .. a.size - 1 : Resize(a, n).mem[k] = a.mem[k]
<1> DEFINE c == IF a.cap = 0 THEN 1 ELSE a.cap
           d == Doubled(c, n)
           b == AdjustCapacity(a, d)
<1>1. a.cap \in Nat /\ a.size \in 0 .. a.cap /\ c \in Nat \ {0} /\ c >= a.cap
  BY SoundFacts
<1>2. d \in Nat /\ d >= n /\ d >= c /\ (c >= n => d = c)
  <2> HIDE DEF c
  <2> QED
    BY <1>1, DoubledFacts
<1>3. Resize(a, n) = [b EXCEPT !.size = n]
  BY DEF Resize
<1>4. (n <= a.cap /\ a.cap # 0) => d = a.cap
  BY <1>1, <1>2
<1> HIDE DEF d
<1>5. d > 0 /\ d >= a.size /\ d >= a.cap
  BY <1>1, <1>2
<1> HIDE DEF c
<1>6. Sound(b, V) /\ b.size = a.size /\ b.cap = d /\ \A k \in 0 .. a.size - 1 : b.mem[k] = a.mem[k]
  BY <1>2, <1>5, AdjustFacts
<1> HIDE DEF b
<1>7. /\ Sound([b EXCEPT !.size = n], V) /\ [b EXCEPT !.size = n].cap = d
      /\ [b EXCEPT !.size = n].size = n /\ [b EXCEPT !.size = n].mem = b.mem
  BY <1>2, <1>6, SizeSet
<1> QED
  BY <1>2, <1>3, <1>4, <1>5, <1>6, <1>7

(* Push(buf, n): the new elements follow the old ones. *)
LEMMA PushAllFacts ==
  ASSUME NEW V, NEW a, Sound(a, V), NEW s \in Seq(V)
  PROVE  /\ Sound(PushAll(a, s), V) /\ PushAll(a, s).size = a.size + Len(s)
         /\ \A k \in 0 .. a.size - 1 : PushAll(a, s).mem[k] = a.mem[k]
         /\ \A k \in 1 .. Len(s) : PushAll(a, s).mem[a.size + k - 1] = s[k]
<1> DEFINE n == Len(s)
           c == 2 * (a.size + n)
           b == IF a.size + n <= a.cap THEN a ELSE AdjustCapacity(a, c)
           f == [k \in b.size .. b.size + n - 1 |-> s[k - b.size + 1]]
           r == Store(b, f)
<1>1. a.cap \in Nat /\ a.size \in Nat /\ a.size <= a.cap /\ n \in Nat
  BY SoundFacts
<1>2. /\ Sound(b, V) /\ b.size = a.size /\ a.size + n <= b.cap /\ b.cap \in Nat
      /\ \A k \in 0 .. a.size - 1 : b.mem[k] = a.mem[k]
  <2>1. CASE a.size + n <= a.cap
    BY <1>1, <2>1
  <2>2. CASE ~(a.size + n <= a.cap)
    <3>1. c \in Nat /\ c > 0 /\ c >= a.size /\ c >= a.size + n
      BY <1>1, <2>2
    <3>2. b = AdjustCapacity(a, c)
      BY <2>2
    <3> HIDE DEF b, c, n
    <3>3. /\ Sound(AdjustCapacity(a, c), V) /\ AdjustCapacity(a, c).size = a.size
          /\ AdjustCapacity(a, c).cap = c
          /\ \A k \in 0 .. a.size - 1 : AdjustCapacity(a, c).mem[k] = a.mem[k]
      BY ONLY SMTT(30), Sound(a, V), <3>1, AdjustFacts
    <3> QED
      BY ONLY <3>1, <3>2, <3>3
  <2> QED
    BY <2>1, <2>2
<1>3. PushAll(a, s) = [r EXCEPT !.size = b.size + n]
  <2>1. PushAll(a, s) = [r EXCEPT !.size = r.size + n]
    BY DEF PushAll
  <2>2. r.size = b.size
    BY <1>2 DEF Store
  <2> QED
    BY <2>1, <2>2
<1>10. r = Store(b, f)
  OBVIOUS
<1> HIDE DEF b, r
<1>4. DOMAIN f = a.size .. a.size + n - 1 /\ \A k \in DOMAIN f : f[k] = s[k - a.size + 1] /\ f[k] \in V
  <2>1. \A k \in a.size .. a.size + n - 1 : k - a.size + 1 \in 1 .. n
    BY <1>1
  <2> QED
    BY <1>2, <2>1
<1> HIDE DEF f, n
<1>5. /\ Sound(r, V) /\ r.cap = b.cap /\ r.size = b.size
      /\ \A k \in 0 .. b.cap - 1 : r.mem[k] = IF k \in DOMAIN f THEN f[k] ELSE b.mem[k]
  <2>1. /\ Sound(Store(b, f), V) /\ Store(b, f).cap = b.cap /\ Store(b, f).size = b.size
        /\ \A k \in 0 .. b.cap - 1 : Store(b, f).mem[k] = IF k \in DOMAIN f THEN f[k] ELSE b.mem[k]
    <3>1. \A k \in DOMAIN f : k \in 0 .. b.cap - 1 => f[k] \in V
      BY <1>4
    <3> QED
      BY ONLY <1>2, <3>1, StoreFacts
  <2> QED
    BY <1>10, <2>1
<1>6. a.size + n \in Nat
  BY <1>1
<1>7. /\ Sound([r EXCEPT !.size = a.size + n], V) /\ [r EXCEPT !.size = a.size + n].size = a.size + n
      /\ [r EXCEPT !.size = a.size + n].mem = r.mem
  BY <1>2, <1>5, <1>6, SizeSet
<1>8. \A k \in 0 .. a.size - 1 : r.mem[k] = a.mem[k]
  <2>1. \A k \in 0 .. a.size - 1 : k \in 0 .. b.cap - 1 /\ k \notin DOMAIN f
    BY <1>1, <1>2, <1>4
  <2> QED
    BY <1>2, <1>5, <2>1
<1>9. \A k \in 1 .. n : r.mem[a.size + k - 1] = s[k]
  <2>1. \A k \in 1 .. n : a.size + k - 1 \in 0 .. b.cap - 1 /\ a.size + k - 1 \in DOMAIN f
                          /\ (a.size + k - 1) - a.size + 1 = k
    BY SMTT(30), <1>1, <1>2, <1>4
  <2> QED
    BY <1>4, <1>5, <2>1
<1> QED
  BY <1>2, <1>3, <1>7, <1>8, <1>9 DEF n

-----------------------------------------------------------------------------
(* The edits of DataArray *)

LEMMA CellFacts ==
  ASSUME NEW V, NEW a, Sound(a, V)
  PROVE  /\ \A k : Cell(a, k) \in V
         /\ \A k \in 0 .. a.cap - 1 : Cell(a, k) = a.mem[k]
         /\ \A k \in 0 .. a.size - 1 : k \in 0 .. a.cap - 1 /\ a.mem[k] \in V
BY SoundFacts DEF Cell

(* What an array holds, told by its cells. *)
LEMMA ContentIs ==
  ASSUME NEW V, NEW a, Sound(a, V), NEW q, q \in Seq(V), Len(q) = a.size,
         \A i \in 1 .. a.size : a.mem[i - 1] = q[i]
  PROVE  Content(a) = q
<1>1. PICK c : c = Content(a)
  OBVIOUS
<1>2. c \in Seq(V) /\ Len(c) = a.size /\ \A i \in 1 .. a.size : c[i] = a.mem[i - 1]
  BY <1>1, ContentFacts
<1>3. Len(c) = Len(q) /\ \A i \in 1 .. Len(c) : c[i] = q[i]
  BY <1>2
<1>4. c = q
  BY <1>2, <1>3, SeqEqual
<1> QED
  BY <1>1, <1>4

(* A sequence with s in place of its elements from i + 1 to j. *)
IsSplice(q, V, c, s, i, j) ==
  /\ q \in Seq(V) /\ Len(q) = i + Len(s) + (Len(c) - j)
  /\ \A k \in 1 .. i : q[k] = c[k]
  /\ \A k \in 1 .. Len(s) : q[i + k] = s[k]
  /\ \A k \in 1 .. Len(c) - j : q[i + Len(s) + k] = c[j + k]

LEMMA Spliced ==
  ASSUME NEW V, NEW c \in Seq(V), NEW s \in Seq(V), NEW j \in 0 .. Len(c), NEW i \in 0 .. j
  PROVE  IsSplice(SubSeq(c, 1, i) \o s \o SubSeq(c, j + 1, Len(c)), V, c, s, i, j)
<1> SUFFICES ASSUME NEW q, q = SubSeq(c, 1, i) \o s \o SubSeq(c, j + 1, Len(c))
             PROVE  IsSplice(q, V, c, s, i, j)
  OBVIOUS
<1>1. PICK n : n = Len(c)
  OBVIOUS
<1>2. PICK m : m = Len(s)
  OBVIOUS
<1>3. n \in Nat /\ m \in Nat /\ i \in 0 .. n
  BY <1>1, <1>2
<1>4. PICK l : l = SubSeq(c, 1, i)
  OBVIOUS
<1>5. PICK r : r = SubSeq(c, j + 1, n)
  OBVIOUS
<1>6. l \in Seq(V) /\ Len(l) = i /\ \A k \in 1 .. i : l[k] = c[k]
  BY <1>1, <1>3, <1>4, Parts
<1>7. r \in Seq(V) /\ Len(r) = n - j /\ \A k \in 1 .. n - j : r[k] = c[j + k]
  BY ZenonT(30), <1>1, <1>5, Parts
<1>8. PICK h : h = l \o s
  OBVIOUS
<1>9. /\ h \in Seq(V) /\ Len(h) = i + m
      /\ \A k \in 1 .. i + m : h[k] = IF k <= i THEN l[k] ELSE s[k - i]
  BY <1>2, <1>6, <1>8, ConcatProperties
<1>10. q = h \o r
  BY <1>1, <1>4, <1>5, <1>8
<1>11. /\ q \in Seq(V) /\ Len(q) = i + m + (n - j)
       /\ \A k \in 1 .. i + m + (n - j) : q[k] = IF k <= i + m THEN h[k] ELSE r[k - (i + m)]
  <2>1. PICK x : x = i + m
    OBVIOUS
  <2>2. h \in Seq(V) /\ Len(h) = x /\ r \in Seq(V) /\ Len(r) = n - j
    BY <1>7, <1>9, <2>1
  <2>3. /\ h \o r \in Seq(V) /\ Len(h \o r) = Len(h) + Len(r)
        /\ \A k \in 1 .. Len(h) + Len(r) :
             (h \o r)[k] = IF k <= Len(h) THEN h[k] ELSE r[k - Len(h)]
    BY ONLY <2>2, ConcatProperties
  <2> QED
    BY ONLY <1>10, <2>1, <2>2, <2>3
<1>12. ASSUME NEW k \in 1 .. i PROVE q[k] = c[k]
  <2>1. k \in 1 .. i + m /\ k \in 1 .. i + m + (n - j) /\ k <= i /\ k <= i + m
    BY <1>1, <1>3
  <2> QED
    BY <1>6, <1>9, <1>11, <2>1
<1>13. ASSUME NEW k \in 1 .. m PROVE q[i + k] = s[k]
  <2>1. PICK p : p = i + k
    OBVIOUS
  <2>2. p \in 1 .. i + m /\ p \in 1 .. i + m + (n - j) /\ ~(p <= i) /\ p <= i + m /\ p - i = k
    BY <1>1, <1>3, <2>1
  <2> QED
    BY <1>9, <1>11, <2>1, <2>2
<1>14. ASSUME NEW k \in 1 .. n - j PROVE q[i + m + k] = c[j + k]
  <2>1. PICK p : p = i + m + k
    OBVIOUS
  <2>2. p \in 1 .. i + m + (n - j) /\ ~(p <= i + m) /\ p - (i + m) = k
    BY <1>1, <1>3, <2>1
  <2> QED
    BY <1>7, <1>11, <2>1, <2>2
<1> QED
  BY <1>1, <1>2, <1>11, <1>12, <1>13, <1>14 DEF IsSplice

(* The cells after an insertion, and after a removal. *)
LEMMA InsertFacts ==
  ASSUME NEW V, NEW a, Sound(a, V), NEW i \in 0 .. a.size, NEW e \in V
  PROVE  /\ Sound(Insert(a, i, e), V) /\ Insert(a, i, e).size = a.size + 1
         /\ \A k \in 0 .. i - 1 : Insert(a, i, e).mem[k] = a.mem[k]
         /\ Insert(a, i, e).mem[i] = e
         /\ \A k \in i .. a.size - 1 : Insert(a, i, e).mem[k + 1] = a.mem[k]
<1>1. PICK n : n = a.size
  OBVIOUS
<1>2. a.cap \in Nat /\ n \in Nat /\ i \in Nat /\ i <= n
  BY <1>1, SoundFacts
<1>3. PICK b : b = Resize(a, n + 1)
  OBVIOUS
<1>4. /\ Sound(b, V) /\ b.size = n + 1 /\ \A k \in 0 .. n - 1 : b.mem[k] = a.mem[k]
  <2>1. PICK m : m = n + 1
    OBVIOUS
  <2>2. m \in Nat
    BY <1>2, <2>1
  <2>3. b = Resize(a, m)
    BY <1>3, <2>1
  <2>4. /\ Sound(Resize(a, m), V) /\ Resize(a, m).size = m
        /\ \A k \in 0 .. a.size - 1 : Resize(a, m).mem[k] = a.mem[k]
    BY ONLY Sound(a, V), m \in Nat, <2>2, ResizeFacts
  <2>5. Sound(b, V) /\ b.size = m /\ \A k \in 0 .. a.size - 1 : b.mem[k] = a.mem[k]
    BY ONLY <2>3, <2>4
  <2> QED
    BY ONLY <1>1, <2>1, <2>5
<1>5. b.cap \in Nat /\ n + 1 <= b.cap
  BY <1>2, <1>4, SoundFacts
<1>6. PICK f : f = InsertStores(a, i, e)
  OBVIOUS
<1>7. DOMAIN f = i .. n + 1 /\ \A k \in i .. n + 1 : f[k] = IF k = i THEN e ELSE Cell(b, k - 1)
  BY <1>1, <1>3, <1>4, <1>6 DEF InsertStores
<1>8. (\A k : Cell(b, k) \in V) /\ \A k \in 0 .. b.cap - 1 : Cell(b, k) = b.mem[k]
  BY <1>4, CellFacts
<1>9. \A k \in DOMAIN f : k \in 0 .. b.cap - 1 => f[k] \in V
  BY <1>7, <1>8
<1>10. PICK r : r = Store(b, f)
  OBVIOUS
<1>11. /\ Sound(r, V) /\ r.size = n + 1
       /\ \A k \in 0 .. b.cap - 1 : r.mem[k] = IF k \in DOMAIN f THEN f[k] ELSE b.mem[k]
  BY <1>4, <1>9, <1>10, StoreFacts
<1>12. Insert(a, i, e) = r
  BY <1>1, <1>2, <1>3, <1>6, <1>10 DEF Insert
<1>13. ASSUME NEW k \in 0 .. i - 1 PROVE r.mem[k] = a.mem[k]
  <2>1. k \in 0 .. b.cap - 1 /\ k \notin i .. n + 1 /\ k \in 0 .. n - 1
    BY <1>2, <1>5
  <2> QED
    BY <1>4, <1>7, <1>11, <2>1
<1>14. r.mem[i] = e
  <2>1. i \in 0 .. b.cap - 1 /\ i \in i .. n + 1
    BY <1>2, <1>5
  <2> QED
    BY <1>7, <1>11, <2>1
<1>15. ASSUME NEW k \in i .. n - 1 PROVE r.mem[k + 1] = a.mem[k]
  <2>1. PICK j : j = k + 1
    OBVIOUS
  <2>2. j \in 0 .. b.cap - 1 /\ j \in i .. n + 1 /\ j # i /\ j - 1 = k /\ k \in 0 .. n - 1 /\ k \in 0 .. b.cap - 1
    BY <1>2, <1>5, <2>1
  <2> QED
    BY <1>4, <1>7, <1>8, <1>11, <2>1, <2>2
<1> QED
  BY <1>1, <1>11, <1>12, <1>13, <1>14, <1>15

LEMMA InsertAllFacts ==
  ASSUME NEW V, NEW a, Sound(a, V), NEW i \in 0 .. a.size, NEW s \in Seq(V)
  PROVE  /\ Sound(InsertAll(a, i, s), V) /\ InsertAll(a, i, s).size = a.size + Len(s)
         /\ \A k \in 0 .. i - 1 : InsertAll(a, i, s).mem[k] = a.mem[k]
         /\ \A k \in 1 .. Len(s) : InsertAll(a, i, s).mem[i + k - 1] = s[k]
         /\ \A k \in i .. a.size - 1 : InsertAll(a, i, s).mem[k + Len(s)] = a.mem[k]
<1>1. PICK n : n = a.size
  OBVIOUS
<1>2. PICK m : m = Len(s)
  OBVIOUS
<1>3. a.cap \in Nat /\ n \in Nat /\ i \in Nat /\ i <= n /\ m \in Nat /\ \A k \in 1 .. m : s[k] \in V
  BY <1>1, <1>2, SoundFacts
<1>4. PICK b : b = Resize(a, n + m)
  OBVIOUS
<1>5. Sound(b, V) /\ b.size = n + m /\ \A k \in 0 .. n - 1 : b.mem[k] = a.mem[k]
  <2>1. PICK l : l = n + m
    OBVIOUS
  <2>2. l \in Nat
    BY <1>3, <2>1
  <2> QED
    <3>1. /\ Sound(Resize(a, l), V) /\ Resize(a, l).size = l
          /\ \A k \in 0 .. a.size - 1 : Resize(a, l).mem[k] = a.mem[k]
      BY <2>2, ResizeFacts
    <3> QED
      BY ONLY <1>1, <1>4, <2>1, <3>1
<1>6. b.cap \in Nat /\ n + m <= b.cap
  BY <1>3, <1>5, SoundFacts
<1>7. PICK f : f = InsertAllStores(a, i, s)
  OBVIOUS
<1>8. /\ DOMAIN f = i .. n + m - 1
      /\ \A k \in i .. n + m - 1 : f[k] = IF k < i + m THEN s[k - i + 1] ELSE Cell(b, k - m)
  BY <1>1, <1>2, <1>4, <1>7 DEF InsertAllStores
<1>9. (\A k : Cell(b, k) \in V) /\ \A k \in 0 .. b.cap - 1 : Cell(b, k) = b.mem[k]
  BY <1>5, CellFacts
<1>10. \A k \in DOMAIN f : k \in 0 .. b.cap - 1 => f[k] \in V
  <2>1. ASSUME NEW k \in i .. n + m - 1 PROVE f[k] \in V
    <3>1. CASE k < i + m
      <4>1. k - i + 1 \in 1 .. m
        BY <1>3, <3>1
      <4> QED
        BY <1>3, <1>8, <3>1, <4>1
    <3>2. CASE ~(k < i + m)
      BY <1>8, <1>9, <3>2
    <3> QED
      BY <3>1, <3>2
  <2> QED
    BY <1>8, <2>1
<1>11. PICK r : r = Store(b, f)
  OBVIOUS
<1>12. /\ Sound(r, V) /\ r.size = n + m
       /\ \A k \in 0 .. b.cap - 1 : r.mem[k] = IF k \in DOMAIN f THEN f[k] ELSE b.mem[k]
  BY <1>5, <1>10, <1>11, StoreFacts
<1>13. InsertAll(a, i, s) = r
  BY <1>1, <1>2, <1>3, <1>4, <1>7, <1>11 DEF InsertAll
<1>14. ASSUME NEW k \in 0 .. i - 1 PROVE r.mem[k] = a.mem[k]
  <2>1. k \in 0 .. b.cap - 1 /\ k \notin i .. n + m - 1 /\ k \in 0 .. n - 1
    BY <1>3, <1>6
  <2> QED
    BY <1>5, <1>8, <1>12, <2>1
<1>15. ASSUME NEW k \in 1 .. m PROVE r.mem[i + k - 1] = s[k]
  <2>1. PICK j : j = i + k - 1
    OBVIOUS
  <2>2. j \in 0 .. b.cap - 1 /\ j \in i .. n + m - 1 /\ j < i + m /\ j - i + 1 = k
    BY <1>3, <1>6, <2>1
  <2> QED
    BY <1>8, <1>12, <2>1, <2>2
<1>16. ASSUME NEW k \in i .. n - 1 PROVE r.mem[k + m] = a.mem[k]
  <2>1. PICK j : j = k + m
    OBVIOUS
  <2>2. /\ j \in 0 .. b.cap - 1 /\ j \in i .. n + m - 1 /\ ~(j < i + m) /\ j - m = k
        /\ k \in 0 .. n - 1 /\ k \in 0 .. b.cap - 1
    BY <1>3, <1>6, <2>1
  <2> QED
    BY <1>5, <1>8, <1>9, <1>12, <2>1, <2>2
<1> QED
  BY <1>1, <1>2, <1>12, <1>13, <1>14, <1>15, <1>16

LEMMA RemoveFacts ==
  ASSUME NEW V, NEW a, Sound(a, V), NEW j \in 0 .. a.size, NEW i \in 0 .. j
  PROVE  /\ Sound(Remove(a, i, j), V) /\ Remove(a, i, j).size = a.size - (j - i)
         /\ \A k \in 0 .. i - 1 : Remove(a, i, j).mem[k] = a.mem[k]
         /\ \A k \in j .. a.size - 1 : Remove(a, i, j).mem[k - j + i] = a.mem[k]
<1>1. PICK n : n = a.size
  OBVIOUS
<1>2. a.cap \in Nat /\ n \in Nat /\ n <= a.cap /\ i \in Nat /\ j \in Nat /\ i <= j /\ j <= n
  BY <1>1, SoundFacts
<1>3. PICK f : f = RemoveStores(a, i, j)
  OBVIOUS
<1>4. DOMAIN f = i .. i + n - j /\ \A k \in i .. i + n - j : f[k] = Cell(a, k - i + j)
  BY <1>1, <1>3 DEF RemoveStores
<1>5. (\A k : Cell(a, k) \in V) /\ \A k \in 0 .. a.cap - 1 : Cell(a, k) = a.mem[k]
  BY CellFacts
<1>6. \A k \in DOMAIN f : k \in 0 .. a.cap - 1 => f[k] \in V
  BY <1>4, <1>5
<1>7. PICK b : b = Store(a, f)
  OBVIOUS
<1>8. /\ Sound(b, V) /\ b.size = n /\ b.cap = a.cap
      /\ \A k \in 0 .. a.cap - 1 : b.mem[k] = IF k \in DOMAIN f THEN f[k] ELSE a.mem[k]
  BY <1>1, <1>6, <1>7, StoreFacts
<1>9. PICK m : m = n - (j - i)
  OBVIOUS
<1>10. m \in Nat /\ m <= b.cap
  BY <1>2, <1>8, <1>9
<1>11. Remove(a, i, j) = [b EXCEPT !.size = m]
  <2>1. Remove(a, i, j) = [b EXCEPT !.size = b.size - (j - i)]
    BY <1>1, <1>2, <1>3, <1>7 DEF Remove
  <2> QED
    BY <1>8, <1>9, <2>1
<1>12. PICK r : r = [b EXCEPT !.size = m]
  OBVIOUS
<1>13. Sound(r, V) /\ r.size = m /\ r.mem = b.mem
  BY <1>8, <1>10, <1>12, SizeSet
<1>14. ASSUME NEW k \in 0 .. i - 1 PROVE r.mem[k] = a.mem[k]
  <2>1. k \in 0 .. a.cap - 1 /\ k \notin i .. i + n - j
    BY <1>2
  <2> QED
    BY <1>4, <1>8, <1>13, <2>1
<1>15. ASSUME NEW k \in j .. n - 1 PROVE r.mem[k - j + i] = a.mem[k]
  <2>1. PICK p : p = k - j + i
    OBVIOUS
  <2>2. p \in 0 .. a.cap - 1 /\ p \in i .. i + n - j /\ p - i + j = k /\ k \in 0 .. a.cap - 1
    BY <1>2, <2>1
  <2> QED
    BY <1>4, <1>5, <1>8, <1>13, <2>1, <2>2
<1> QED
  BY <1>1, <1>9, <1>11, <1>12, <1>13, <1>14, <1>15

LEMMA CopyAgrees ==
  ASSUME NEW V, NEW a, Sound(a, V)
  PROVE  Content(Copy(a)) = Content(a)
<1>1. PICK c : c = Content(a)
  OBVIOUS
<1>2. c \in Seq(V) /\ Len(c) = a.size /\ \A i \in 1 .. a.size : c[i] = a.mem[i - 1]
  BY <1>1, ContentFacts
<1>3. a.cap \in Nat /\ a.size \in 0 .. a.cap /\ a.size <= a.cap
  BY SoundFacts
<1>4. PICK r : r = Copy(a)
  OBVIOUS
<1>5. Sound(r, V) /\ r.size = a.size /\ \A k \in 0 .. a.size - 1 : r.mem[k] = a.mem[k]
  BY <1>3, <1>4, MovedFacts DEF Copy
<1>6. \A i \in 1 .. r.size : r.mem[i - 1] = c[i]
  BY <1>2, <1>3, <1>5
<1>7. Content(r) = c
  BY <1>2, <1>5, <1>6, ContentIs
<1> QED
  BY <1>1, <1>4, <1>7

LEMMA OfSequenceSound ==
  ASSUME NEW V, Junk \in V, NEW s \in Seq(V)
  PROVE  Sound(OfSequence(s), V)
<1>1. PICK n : n = Len(s)
  OBVIOUS
<1>2. n \in Nat /\ \A k \in 1 .. n : s[k] \in V
  BY <1>1
<1>3. PICK c : c = Doubled(1, n)
  OBVIOUS
<1>4. c \in Nat /\ n <= c
  BY <1>2, <1>3, DoubledFacts
<1>5. PICK b : b = Array(c, n)
  OBVIOUS
<1>6. Sound(b, V)
  BY <1>2, <1>4, <1>5, ArrayFacts
<1>7. PICK f : f = [k \in 0 .. n - 1 |-> s[k + 1]]
  OBVIOUS
<1>8. \A k \in DOMAIN f : k \in 0 .. b.cap - 1 => f[k] \in V
  <2>1. \A k \in 0 .. n - 1 : k + 1 \in 1 .. n
    BY <1>2
  <2> QED
    BY <1>2, <1>7, <2>1
<1>9. OfSequence(s) = Store(b, f)
  BY <1>1, <1>3, <1>5, <1>7 DEF OfSequence
<1> QED
  BY <1>6, <1>8, <1>9, StoreFacts

LEMMA AssignAgrees ==
  ASSUME NEW V, NEW x, Sound(x, V), NEW a, Sound(a, V)
  PROVE  Content(Assign(x, a)) = Content(a)
<1>1. CASE x.cap < a.size
  BY <1>1, CopyAgrees DEF Assign
<1>2. CASE ~(x.cap < a.size)
  <2>1. PICK c : c = Content(a)
    OBVIOUS
  <2>2. PICK n : n = a.size
    OBVIOUS
  <2>3. c \in Seq(V) /\ Len(c) = n /\ \A i \in 1 .. n : c[i] = a.mem[i - 1]
    BY <2>1, <2>2, ContentFacts
  <2>4. x.cap \in Nat /\ n \in Nat /\ n <= x.cap /\ \A k \in 0 .. n - 1 : a.mem[k] \in V
    BY <1>2, <2>2, SoundFacts, CellFacts
  <2>5. PICK f : f = [k \in 0 .. n - 1 |-> a.mem[k]]
    OBVIOUS
  <2>6. \A k \in DOMAIN f : k \in 0 .. x.cap - 1 => f[k] \in V
    BY <2>4, <2>5
  <2>7. PICK b : b = Store(x, f)
    OBVIOUS
  <2>8. /\ Sound(b, V) /\ b.cap = x.cap
        /\ \A k \in 0 .. x.cap - 1 : b.mem[k] = IF k \in DOMAIN f THEN f[k] ELSE x.mem[k]
    BY <2>6, <2>7, StoreFacts
  <2>9. PICK r : r = [b EXCEPT !.size = n]
    OBVIOUS
  <2>10. Sound(r, V) /\ r.size = n /\ r.mem = b.mem
    BY <2>4, <2>8, <2>9, SizeSet
  <2>11. Assign(x, a) = r
    BY <1>2, <2>2, <2>5, <2>7, <2>9 DEF Assign
  <2>12. \A k \in 0 .. n - 1 : k \in 0 .. x.cap - 1 /\ r.mem[k] = a.mem[k]
    BY <2>4, <2>5, <2>8, <2>10
  <2>13. \A i \in 1 .. r.size : r.mem[i - 1] = c[i]
    <3>1. \A i \in 1 .. n : i - 1 \in 0 .. n - 1
      BY <2>4
    <3>2. \A i \in 1 .. n : r.mem[i - 1] = a.mem[i - 1]
      BY ONLY <2>12, <3>1
    <3> QED
      BY ONLY <2>3, <2>10, <3>2
  <2>14. Content(r) = c
    BY <2>3, <2>10, <2>13, ContentIs
  <2> QED
    BY <2>1, <2>11, <2>14
<1> QED
  BY <1>1, <1>2

LEMMA OfCopiesAgrees ==
  ASSUME NEW V, Junk \in V, NEW n \in Nat, NEW e \in V, NEW q, q = [k \in 1 .. n |-> e]
  PROVE  Content(OfCopies(n, e)) = q
<1>1. PICK c : c = Doubled(4, n)
  OBVIOUS
<1>2. c \in Nat /\ n <= c
  BY <1>1, DoubledFacts
<1>3. PICK b : b = Array(c, n)
  OBVIOUS
<1>4. Sound(b, V) /\ b.cap = c /\ b.size = n
  BY <1>2, <1>3, ArrayFacts
<1>5. PICK f : f = [k \in 0 .. n - 1 |-> e]
  OBVIOUS
<1>6. \A k \in DOMAIN f : k \in 0 .. b.cap - 1 => f[k] \in V
  BY <1>5
<1>7. PICK r : r = Store(b, f)
  OBVIOUS
<1>8. /\ Sound(r, V) /\ r.size = n
      /\ \A k \in 0 .. c - 1 : r.mem[k] = IF k \in DOMAIN f THEN f[k] ELSE b.mem[k]
  BY <1>4, <1>6, <1>7, StoreFacts
<1>9. OfCopies(n, e) = r
  BY <1>1, <1>3, <1>5, <1>7 DEF OfCopies, OfSize
<1>11. q \in Seq(V) /\ Len(q) = n /\ \A k \in 1 .. n : q[k] = e
  OBVIOUS
<1>12. \A i \in 1 .. r.size : r.mem[i - 1] = q[i]
  <2>1. \A i \in 1 .. n : i - 1 \in 0 .. c - 1 /\ i - 1 \in 0 .. n - 1
    BY <1>2
  <2> QED
    BY <1>5, <1>8, <1>11, <2>1
<1>13. Content(r) = q
  BY <1>8, <1>11, <1>12, ContentIs
<1> QED
  BY <1>9, <1>13

LEMMA RefillAgrees ==
  ASSUME NEW V, NEW a, Sound(a, V), NEW s \in Seq(V)
  PROVE  Content(PushAll(Clear(a), s)) = s
<1>1. PICK b : b = Clear(a)
  OBVIOUS
<1>2. Sound(b, V) /\ b.size = 0
  <2>1. PICK n : n = 0
    OBVIOUS
  <2>2. n \in Nat /\ n <= a.cap
    BY <2>1, SoundFacts
  <2>3. Sound([a EXCEPT !.size = n], V) /\ [a EXCEPT !.size = n].size = n
    BY <2>2, SizeSet
  <2> QED
    BY <1>1, <2>1, <2>3 DEF Clear
<1>3. PICK r : r = PushAll(b, s)
  OBVIOUS
<1>4. /\ Sound(r, V) /\ r.size = 0 + Len(s)
      /\ \A k \in 1 .. Len(s) : r.mem[0 + k - 1] = s[k]
  <2>1. /\ Sound(PushAll(b, s), V) /\ PushAll(b, s).size = b.size + Len(s)
        /\ \A k \in 1 .. Len(s) : PushAll(b, s).mem[b.size + k - 1] = s[k]
    BY <1>2, PushAllFacts
  <2> QED
    BY <1>2, <1>3, <2>1
<1>5. r.size = Len(s) /\ \A k \in 1 .. r.size : r.mem[k - 1] = s[k]
  BY <1>4
<1>6. Content(r) = s
  BY <1>4, <1>5, ContentIs
<1> QED
  BY <1>1, <1>3, <1>6

LEMMA CapacityAgrees ==
  ASSUME NEW V, NEW a, Sound(a, V), NEW m \in Nat
  PROVE  /\ Content(AdjustCapacity(a, m)) = Content(a)
         /\ \A k \in 1 .. a.size : k <= m => Content(Resize(a, m))[k] = Content(a)[k]
<1>1. PICK c : c = Content(a)
  OBVIOUS
<1>2. c \in Seq(V) /\ Len(c) = a.size /\ \A i \in 1 .. a.size : c[i] = a.mem[i - 1]
  BY <1>1, ContentFacts
<1>3. a.size \in Nat
  BY SoundFacts
<1>4. Content(AdjustCapacity(a, m)) = c
  <2>1. PICK r : r = AdjustCapacity(a, m)
    OBVIOUS
  <2>2. Sound(r, V) /\ r.size = a.size /\ \A k \in 0 .. a.size - 1 : r.mem[k] = a.mem[k]
    BY <2>1, AdjustFacts
  <2>3. \A i \in 1 .. r.size : r.mem[i - 1] = c[i]
    BY <1>2, <1>3, <2>2
  <2>4. Content(r) = c
    BY <1>2, <2>2, <2>3, ContentIs
  <2> QED
    BY <2>1, <2>4
<1>5. ASSUME NEW k \in 1 .. a.size, k <= m PROVE Content(Resize(a, m))[k] = c[k]
  <2>1. PICK r : r = Resize(a, m)
    OBVIOUS
  <2>2. Sound(r, V) /\ r.size = m /\ \A i \in 0 .. a.size - 1 : r.mem[i] = a.mem[i]
    <3>1. /\ Sound(Resize(a, m), V) /\ Resize(a, m).size = m
          /\ \A i \in 0 .. a.size - 1 : Resize(a, m).mem[i] = a.mem[i]
      BY ResizeFacts
    <3> QED
      BY ONLY <2>1, <3>1
  <2>3. \A i \in 1 .. m : Content(r)[i] = r.mem[i - 1]
    BY <2>2, ContentFacts
  <2>4. k \in 1 .. m /\ k - 1 \in 0 .. a.size - 1
    BY <1>3, <1>5
  <2> QED
    BY <1>2, <2>1, <2>2, <2>3, <2>4
<1> QED
  BY <1>1, <1>4, <1>5

(* An array whose cells are spliced holds the spliced sequence. *)
SplicedCells(r, a, s, i, j) ==
  /\ r.size = i + Len(s) + (a.size - j)
  /\ \A k \in 0 .. i - 1 : r.mem[k] = a.mem[k]
  /\ \A k \in 1 .. Len(s) : r.mem[i + k - 1] = s[k]
  /\ \A k \in j .. a.size - 1 : r.mem[k - j + i + Len(s)] = a.mem[k]

HoldsSplice(r, a, s, i, j) ==
  Content(r) = SubSeq(Content(a), 1, i) \o s \o SubSeq(Content(a), j + 1, a.size)

LEMMA SpliceAgrees ==
  ASSUME NEW V, NEW a, Sound(a, V), NEW s \in Seq(V), NEW j \in 0 .. a.size, NEW i \in 0 .. j,
         NEW r, Sound(r, V), SplicedCells(r, a, s, i, j)
  PROVE  HoldsSplice(r, a, s, i, j)
<1>1. PICK c : c = Content(a)
  OBVIOUS
<1>2. PICK n : n = a.size
  OBVIOUS
<1>3. PICK m : m = Len(s)
  OBVIOUS
<1>0. /\ r.size = i + m + (n - j)
      /\ \A k \in 0 .. i - 1 : r.mem[k] = a.mem[k]
      /\ \A k \in 1 .. m : r.mem[i + k - 1] = s[k]
      /\ \A k \in j .. n - 1 : r.mem[k - j + i + m] = a.mem[k]
  BY <1>2, <1>3 DEF SplicedCells
<1>4. n \in Nat /\ m \in Nat
  BY <1>2, <1>3, SoundFacts
<1>5. c \in Seq(V) /\ Len(c) = n /\ \A k \in 1 .. n : c[k] = a.mem[k - 1]
  BY <1>1, <1>2, ContentFacts
<1>6. PICK q : q = SubSeq(c, 1, i) \o s \o SubSeq(c, j + 1, Len(c))
  OBVIOUS
<1>7. /\ q \in Seq(V) /\ Len(q) = i + m + (n - j)
      /\ \A k \in 1 .. i : q[k] = c[k]
      /\ \A k \in 1 .. m : q[i + k] = s[k]
      /\ \A k \in 1 .. n - j : q[i + m + k] = c[j + k]
  <2>1. j \in 0 .. Len(c)
    BY <1>2, <1>5
  <2>2. /\ q \in Seq(V) /\ Len(q) = i + Len(s) + (Len(c) - j)
        /\ \A k \in 1 .. i : q[k] = c[k]
        /\ \A k \in 1 .. Len(s) : q[i + k] = s[k]
        /\ \A k \in 1 .. Len(c) - j : q[i + Len(s) + k] = c[j + k]
    <3>1. IsSplice(SubSeq(c, 1, i) \o s \o SubSeq(c, j + 1, Len(c)), V, c, s, i, j)
      BY <1>5, <2>1, Spliced
    <3> QED
      BY <1>6, <3>1 DEF IsSplice
  <2> QED
    BY <1>3, <1>5, <2>2
<1>8. ASSUME NEW k \in 1 .. i + m + (n - j) PROVE r.mem[k - 1] = q[k]
  <2>1. CASE k <= i
    <3>1. k \in 1 .. i /\ k \in 1 .. n /\ k - 1 \in 0 .. i - 1
      BY <1>2, <1>4, <2>1
    <3> QED
      BY <1>0, <1>5, <1>7, <3>1
  <2>2. CASE k > i /\ k <= i + m
    <3>1. PICK p : p = k - i
      OBVIOUS
    <3>2. p \in 1 .. m /\ i + p = k /\ i + p - 1 = k - 1
      BY <1>2, <1>4, <2>2, <3>1
    <3> QED
      BY <1>0, <1>7, <3>2
  <2>3. CASE k > i + m
    <3>1. PICK p : p = k - (i + m)
      OBVIOUS
    <3>2. p \in 1 .. n - j /\ i + m + p = k /\ j + p \in 1 .. n
      BY <1>2, <1>4, <2>3, <3>1
    <3>3. PICK l : l = j + p - 1
      OBVIOUS
    <3>4. l \in j .. n - 1 /\ l - j + i + m = k - 1 /\ (j + p) - 1 = l
      BY <1>2, <1>4, <3>2, <3>3
    <3>5. r.mem[k - 1] = a.mem[l]
      BY <1>0, <3>4
    <3>6. q[k] = c[j + p] /\ c[j + p] = a.mem[l]
      BY <1>5, <1>7, <3>2, <3>4
    <3> QED
      BY <3>5, <3>6
  <2> QED
    BY <1>2, <1>4, <2>1, <2>2, <2>3
<1>9. Len(q) = r.size
  BY <1>0, <1>7
<1>10. \A k \in 1 .. r.size : r.mem[k - 1] = q[k]
  BY <1>0, <1>8
<1>11. Content(r) = q
  BY <1>7, <1>9, <1>10, ContentIs
<1> QED
  BY <1>1, <1>2, <1>5, <1>6, <1>11 DEF HoldsSplice

LEMMA InsertAgrees ==
  ASSUME NEW V, NEW a, Sound(a, V), NEW e \in V, NEW i \in 0 .. a.size
  PROVE  Content(Insert(a, i, e)) = Seqs!InsertAt(Content(a), i + 1, e)
<1>1. PICK r : r = Insert(a, i, e)
  OBVIOUS
<1>2. PICK s : s = <<e>>
  OBVIOUS
<1>3. s \in Seq(V) /\ Len(s) = 1 /\ s[1] = e
  BY <1>2
<1>4. a.size \in Nat
  BY SoundFacts
<1>5. /\ Sound(r, V) /\ r.size = a.size + 1
      /\ \A k \in 0 .. i - 1 : r.mem[k] = a.mem[k]
      /\ r.mem[i] = e
      /\ \A k \in i .. a.size - 1 : r.mem[k + 1] = a.mem[k]
  BY <1>1, InsertFacts
<1>6. r.size = i + Len(s) + (a.size - i)
  BY <1>3, <1>4, <1>5
<1>7. \A k \in 1 .. Len(s) : r.mem[i + k - 1] = s[k]
  <2>1. \A k \in 1 .. Len(s) : k = 1 /\ i + k - 1 = i
    BY <1>3, <1>4
  <2> QED
    BY <1>3, <1>5, <2>1
<1>8. \A k \in i .. a.size - 1 : r.mem[k - i + i + Len(s)] = a.mem[k]
  <2>1. \A k \in i .. a.size - 1 : k - i + i + Len(s) = k + 1
    BY <1>3, <1>4
  <2> QED
    BY <1>5, <2>1
<1>9. i \in 0 .. i
  BY <1>4
<1>10. Content(r) = SubSeq(Content(a), 1, i) \o s \o SubSeq(Content(a), i + 1, a.size)
  <2>1. SplicedCells(r, a, s, i, i)
    BY <1>5, <1>6, <1>7, <1>8 DEF SplicedCells
  <2>2. HoldsSplice(r, a, s, i, i)
    BY <1>3, <1>5, <1>9, <2>1, SpliceAgrees
  <2> QED
    BY <2>2 DEF HoldsSplice
<1>11. Len(Content(a)) = a.size /\ i + 1 - 1 = i
  BY <1>4, ContentFacts
<1> QED
  BY <1>1, <1>2, <1>10, <1>11 DEF Seqs!InsertAt

LEMMA InsertAllAgrees ==
  ASSUME NEW V, NEW a, Sound(a, V), NEW s \in Seq(V), NEW i \in 0 .. a.size
  PROVE  Content(InsertAll(a, i, s))
           = SubSeq(Content(a), 1, i) \o s \o SubSeq(Content(a), i + 1, a.size)
<1>1. PICK r : r = InsertAll(a, i, s)
  OBVIOUS
<1>2. PICK m : m = Len(s)
  OBVIOUS
<1>3. a.size \in Nat /\ m \in Nat
  BY <1>2, SoundFacts
<1>4. /\ Sound(r, V) /\ r.size = a.size + m
      /\ \A k \in 0 .. i - 1 : r.mem[k] = a.mem[k]
      /\ \A k \in 1 .. m : r.mem[i + k - 1] = s[k]
      /\ \A k \in i .. a.size - 1 : r.mem[k + m] = a.mem[k]
  <2>1. /\ Sound(InsertAll(a, i, s), V) /\ InsertAll(a, i, s).size = a.size + Len(s)
        /\ \A k \in 0 .. i - 1 : InsertAll(a, i, s).mem[k] = a.mem[k]
        /\ \A k \in 1 .. Len(s) : InsertAll(a, i, s).mem[i + k - 1] = s[k]
        /\ \A k \in i .. a.size - 1 : InsertAll(a, i, s).mem[k + Len(s)] = a.mem[k]
    BY InsertAllFacts
  <2> QED
    BY ONLY <1>1, <1>2, <2>1
<1>5. r.size = i + Len(s) + (a.size - i)
  BY <1>2, <1>3, <1>4
<1>6. \A k \in i .. a.size - 1 : r.mem[k - i + i + Len(s)] = a.mem[k]
  <2>1. \A k \in i .. a.size - 1 : k - i + i + Len(s) = k + m
    BY <1>2, <1>3
  <2> QED
    BY <1>4, <2>1
<1>7. i \in 0 .. i
  BY <1>3
<1> QED
  <2>1. SplicedCells(r, a, s, i, i)
    BY <1>2, <1>4, <1>5, <1>6 DEF SplicedCells
  <2>2. HoldsSplice(r, a, s, i, i)
    BY <1>4, <1>7, <2>1, SpliceAgrees
  <2> QED
    BY <1>1, <2>2 DEF HoldsSplice

LEMMA RemoveAgrees ==
  ASSUME NEW V, NEW a, Sound(a, V), NEW i \in 0 .. a.size, NEW j \in i .. a.size
  PROVE  Content(Remove(a, i, j)) = SubSeq(Content(a), 1, i) \o SubSeq(Content(a), j + 1, a.size)
<1>1. PICK r : r = Remove(a, i, j)
  OBVIOUS
<1>2. PICK s : s = << >>
  OBVIOUS
<1>3. s \in Seq(V) /\ Len(s) = 0
  BY <1>2
<1>4. a.size \in Nat /\ j \in 0 .. a.size /\ i \in 0 .. j
  <2>1. a.size \in Nat
    BY SoundFacts
  <2> QED
    BY <2>1
<1>5. /\ Sound(r, V) /\ r.size = a.size - (j - i)
      /\ \A k \in 0 .. i - 1 : r.mem[k] = a.mem[k]
      /\ \A k \in j .. a.size - 1 : r.mem[k - j + i] = a.mem[k]
  <2>1. /\ Sound(Remove(a, i, j), V) /\ Remove(a, i, j).size = a.size - (j - i)
        /\ \A k \in 0 .. i - 1 : Remove(a, i, j).mem[k] = a.mem[k]
        /\ \A k \in j .. a.size - 1 : Remove(a, i, j).mem[k - j + i] = a.mem[k]
    BY ONLY Sound(a, V), <1>4, RemoveFacts
  <2> QED
    BY ONLY <1>1, <2>1
<1>6. r.size = i + Len(s) + (a.size - j)
  BY <1>3, <1>4, <1>5
<1>7. \A k \in 1 .. Len(s) : r.mem[i + k - 1] = s[k]
  BY <1>3
<1>8. \A k \in j .. a.size - 1 : r.mem[k - j + i + Len(s)] = a.mem[k]
  <2>1. \A k \in j .. a.size - 1 : k - j + i + Len(s) = k - j + i
    BY <1>3, <1>4
  <2> QED
    BY <1>5, <2>1
<1>9. Content(r) = SubSeq(Content(a), 1, i) \o s \o SubSeq(Content(a), j + 1, a.size)
  <2>1. SplicedCells(r, a, s, i, j)
    BY <1>5, <1>6, <1>7, <1>8 DEF SplicedCells
  <2>2. HoldsSplice(r, a, s, i, j)
    BY <1>3, <1>4, <1>5, <2>1, SpliceAgrees
  <2> QED
    BY <2>2 DEF HoldsSplice
<1>10. SubSeq(Content(a), 1, i) \o s = SubSeq(Content(a), 1, i)
  <2>1. Content(a) \in Seq(V) /\ i \in 0 .. Len(Content(a))
    BY <1>4, ContentFacts
  <2>2. SubSeq(Content(a), 1, i) \in Seq(V)
    BY <2>1, Parts
  <2> QED
    BY <1>2, <2>2, ConcatEmptySeq
<1> QED
  BY <1>1, <1>9, <1>10

LEMMA SwapAgrees ==
  ASSUME NEW V, NEW a, Sound(a, V), NEW i \in 0 .. a.size - 1, NEW j \in 0 .. a.size - 1,
         NEW c, c = Content(a), NEW d, d = Content(Swap(a, i, j))
  PROVE  d[i + 1] = c[j + 1] /\ d[j + 1] = c[i + 1]
         /\ \A k \in 1 .. a.size : k \in {i + 1, j + 1} \/ d[k] = c[k]
<1>1. PICK n : n = a.size
  OBVIOUS
<1>2. a.cap \in Nat /\ n \in Nat /\ n <= a.cap /\ \A k \in 0 .. n - 1 : a.mem[k] \in V
  BY <1>1, SoundFacts, CellFacts
<1>3. PICK f : f = [k \in {i, j} |-> IF k = i THEN a.mem[j] ELSE a.mem[i]]
  OBVIOUS
<1>4. PICK r : r = Store(a, f)
  OBVIOUS
<1>5. \A k \in DOMAIN f : k \in 0 .. a.cap - 1 => f[k] \in V
  BY <1>1, <1>2, <1>3
<1>6. /\ Sound(r, V) /\ r.size = n
      /\ \A k \in 0 .. a.cap - 1 : r.mem[k] = IF k \in DOMAIN f THEN f[k] ELSE a.mem[k]
  BY <1>1, <1>4, <1>5, StoreFacts
<1>7. Swap(a, i, j) = r
  BY <1>1, <1>2, <1>3, <1>4 DEF Swap
<1>8. \A k \in 1 .. n : c[k] = a.mem[k - 1] /\ d[k] = r.mem[k - 1]
  BY <1>1, <1>6, <1>7, ContentFacts
<1>9. /\ i \in 0 .. a.cap - 1 /\ j \in 0 .. a.cap - 1 /\ i + 1 \in 1 .. n /\ j + 1 \in 1 .. n
      /\ (i + 1) - 1 = i /\ (j + 1) - 1 = j
  BY <1>1, <1>2
<1>10. r.mem[i] = a.mem[j] /\ r.mem[j] = a.mem[i]
  <2>1. i \in DOMAIN f /\ j \in DOMAIN f /\ f[i] = a.mem[j] /\ f[j] = a.mem[i]
    BY <1>3
  <2> QED
    BY <1>6, <1>9, <2>1
<1>11. ASSUME NEW k \in 1 .. n, k \notin {i + 1, j + 1} PROVE d[k] = c[k]
  <2>1. PICK p : p = k - 1
    OBVIOUS
  <2>2. p \in 0 .. a.cap - 1 /\ p # i /\ p # j
    BY <1>1, <1>2, <1>11, <2>1
  <2>3. r.mem[p] = a.mem[p]
    BY <1>3, <1>6, <2>2
  <2> QED
    BY <1>8, <2>1, <2>3
<1>12. d[i + 1] = r.mem[i] /\ c[i + 1] = a.mem[i] /\ d[j + 1] = r.mem[j] /\ c[j + 1] = a.mem[j]
  <2>1. PICK p : p = i + 1
    OBVIOUS
  <2>2. PICK q : q = j + 1
    OBVIOUS
  <2>3. p \in 1 .. n /\ q \in 1 .. n /\ p - 1 = i /\ q - 1 = j
    BY <1>9, <2>1, <2>2
  <2>4. d[p] = r.mem[i] /\ c[p] = a.mem[i] /\ d[q] = r.mem[j] /\ c[q] = a.mem[j]
    BY ONLY <1>8, <2>3
  <2> QED
    BY <2>1, <2>2, <2>4
<1> QED
  BY <1>1, <1>10, <1>11, <1>12

LEMMA PushAgrees ==
  ASSUME NEW V, NEW a, Sound(a, V), NEW e \in V
  PROVE  Content(Push(a, e)) = Append(Content(a), e)
<1>1. PICK n : n = a.size
  OBVIOUS
<1>2. a.cap \in Nat /\ n \in Nat /\ n <= a.cap
  BY <1>1, SoundFacts
<1>3. PICK b : b = IF a.size < a.cap THEN a ELSE AdjustCapacity(a, IF a.cap = 0 THEN 1 ELSE 2 * a.cap)
  OBVIOUS
<1>4. Sound(b, V) /\ b.size = n /\ n + 1 <= b.cap /\ \A k \in 0 .. n - 1 : b.mem[k] = a.mem[k]
  <2>1. CASE n < a.cap
    BY <1>1, <1>2, <1>3, <2>1
  <2>2. CASE ~(n < a.cap)
    <3>1. PICK m : m = IF a.cap = 0 THEN 1 ELSE 2 * a.cap
      OBVIOUS
    <3>2. m \in Nat /\ m > 0 /\ m >= n /\ n + 1 <= m
      BY <1>2, <2>2, <3>1
    <3>3. b = AdjustCapacity(a, m)
      BY <1>1, <1>3, <2>2, <3>1
    <3>4. /\ Sound(AdjustCapacity(a, m), V) /\ AdjustCapacity(a, m).size = a.size
          /\ (m > 0 /\ m >= a.size => AdjustCapacity(a, m).cap = m)
          /\ \A k \in 0 .. a.size - 1 : AdjustCapacity(a, m).mem[k] = a.mem[k]
      BY <3>2, AdjustFacts
    <3> QED
      BY <1>1, <3>2, <3>3, <3>4
  <2> QED
    BY <2>1, <2>2
<1>5. b.cap \in Nat
  BY <1>4, SoundFacts
<1>6. PICK f : f = [k \in {b.size} |-> e]
  OBVIOUS
<1>7. PICK d : d = Store(b, f)
  OBVIOUS
<1>8. \A k \in DOMAIN f : k \in 0 .. b.cap - 1 => f[k] \in V
  BY <1>6
<1>9. /\ Sound(d, V) /\ d.cap = b.cap /\ d.size = n
      /\ \A k \in 0 .. b.cap - 1 : d.mem[k] = IF k \in DOMAIN f THEN f[k] ELSE b.mem[k]
  BY <1>4, <1>7, <1>8, StoreFacts
<1>10. PICK m : m = n + 1
  OBVIOUS
<1>11. PICK r : r = [d EXCEPT !.size = m]
  OBVIOUS
<1>12. Sound(r, V) /\ r.size = m /\ r.mem = d.mem
  <2>1. m \in Nat /\ m <= d.cap
    BY <1>2, <1>4, <1>9, <1>10
  <2> QED
    BY <1>9, <1>11, <2>1, SizeSet
<1>13. Push(a, e) = r
  <2>1. Push(a, e) = [d EXCEPT !.size = d.size + 1]
    BY <1>3, <1>6, <1>7 DEF Push
  <2> QED
    BY <1>9, <1>10, <1>11, <2>1
<1>14. PICK c : c = Content(a)
  OBVIOUS
<1>15. c \in Seq(V) /\ Len(c) = n /\ \A k \in 1 .. n : c[k] = a.mem[k - 1]
  BY <1>1, <1>14, ContentFacts
<1>16. PICK q : q = Append(c, e)
  OBVIOUS
<1>17. q \in Seq(V) /\ Len(q) = m /\ (\A k \in 1 .. n : q[k] = c[k]) /\ q[m] = e
  BY <1>10, <1>15, <1>16, AppendProperties
<1>18. ASSUME NEW k \in 1 .. m PROVE r.mem[k - 1] = q[k]
  <2>1. PICK p : p = k - 1
    OBVIOUS
  <2>2. p \in 0 .. b.cap - 1
    BY <1>2, <1>4, <1>5, <1>10, <2>1
  <2>3. CASE k = m
    <3>1. p = b.size
      BY <1>2, <1>4, <1>10, <2>1, <2>3
    <3>2. r.mem[p] = e
      BY <1>6, <1>9, <1>12, <2>2, <3>1
    <3> QED
      BY <1>17, <2>1, <2>3, <3>2
  <2>4. CASE k # m
    <3>1. k \in 1 .. n /\ p \in 0 .. n - 1 /\ p # b.size
      BY <1>2, <1>4, <1>10, <2>1, <2>4
    <3>2. r.mem[p] = a.mem[p]
      BY <1>4, <1>6, <1>9, <1>12, <2>2, <3>1
    <3> QED
      BY <1>15, <1>17, <2>1, <3>1, <3>2
  <2> QED
    BY <2>3, <2>4
<1>19. Content(r) = q
  BY <1>12, <1>17, <1>18, ContentIs
<1> QED
  BY <1>13, <1>14, <1>16, <1>19

LEMMA PushAllAgrees ==
  ASSUME NEW V, NEW a, Sound(a, V), NEW s \in Seq(V)
  PROVE  Content(PushAll(a, s)) = Content(a) \o s
<1>1. PICK c : c = Content(a)
  OBVIOUS
<1>2. PICK n : n = a.size
  OBVIOUS
<1>3. PICK m : m = Len(s)
  OBVIOUS
<1>4. n \in Nat /\ m \in Nat
  BY <1>2, <1>3, SoundFacts
<1>5. c \in Seq(V) /\ Len(c) = n /\ \A k \in 1 .. n : c[k] = a.mem[k - 1]
  BY <1>1, <1>2, ContentFacts
<1>6. PICK q : q = c \o s
  OBVIOUS
<1>7. /\ q \in Seq(V) /\ Len(q) = n + m
      /\ \A k \in 1 .. n + m : q[k] = IF k <= n THEN c[k] ELSE s[k - n]
  BY ONLY ZenonT(30), s \in Seq(V), <1>3, <1>5, <1>6, ConcatProperties
<1>8. PICK r : r = PushAll(a, s)
  OBVIOUS
<1>9. /\ Sound(r, V) /\ r.size = n + m
      /\ \A k \in 0 .. n - 1 : r.mem[k] = a.mem[k]
      /\ \A k \in 1 .. m : r.mem[n + k - 1] = s[k]
  <2>1. /\ Sound(PushAll(a, s), V) /\ PushAll(a, s).size = a.size + Len(s)
        /\ \A k \in 0 .. a.size - 1 : PushAll(a, s).mem[k] = a.mem[k]
        /\ \A k \in 1 .. Len(s) : PushAll(a, s).mem[a.size + k - 1] = s[k]
    BY PushAllFacts
  <2> QED
    BY ONLY <1>2, <1>3, <1>8, <2>1
<1>10. ASSUME NEW k \in 1 .. n + m PROVE r.mem[k - 1] = q[k]
  <2>1. CASE k <= n
    <3>1. k \in 1 .. n /\ k - 1 \in 0 .. n - 1
      BY <1>4, <2>1
    <3> QED
      BY <1>5, <1>7, <1>9, <2>1, <3>1
  <2>2. CASE ~(k <= n)
    <3>1. PICK p : p = k - n
      OBVIOUS
    <3>2. p \in 1 .. m /\ n + p - 1 = k - 1
      BY <1>4, <2>2, <3>1
    <3> QED
      BY <1>7, <1>9, <2>2, <3>1, <3>2
  <2> QED
    BY <2>1, <2>2
<1>11. Len(q) = r.size /\ \A k \in 1 .. r.size : r.mem[k - 1] = q[k]
  BY <1>7, <1>9, <1>10
<1>12. Content(r) = q
  BY <1>7, <1>9, <1>11, ContentIs
<1> QED
  BY <1>1, <1>6, <1>8, <1>12

LEMMA PopAgrees ==
  ASSUME NEW V, NEW a, Sound(a, V), a.size > 0
  PROVE  Content(Pop(a)) = Seqs!Front(Content(a))
<1>1. PICK c : c = Content(a)
  OBVIOUS
<1>2. PICK n : n = a.size - 1
  OBVIOUS
<1>3. a.size \in Nat /\ a.cap \in Nat /\ n \in Nat /\ n <= a.cap /\ a.size = n + 1
  BY <1>2, SoundFacts
<1>4. c \in Seq(V) /\ Len(c) = n + 1 /\ \A k \in 1 .. n + 1 : c[k] = a.mem[k - 1]
  BY <1>1, <1>3, ContentFacts
<1>5. PICK r : r = [a EXCEPT !.size = n]
  OBVIOUS
<1>6. Sound(r, V) /\ r.size = n /\ r.mem = a.mem
  BY <1>3, <1>5, SizeSet
<1>7. Pop(a) = r
  <2>1. Pop(a) = [a EXCEPT !.size = a.size - 1]
    BY <1>3 DEF Pop
  <2> QED
    BY <1>2, <1>5, <2>1
<1>8. PICK q : q = SubSeq(c, 1, n)
  OBVIOUS
<1>9. q \in Seq(V) /\ Len(q) = n /\ \A k \in 1 .. n : q[k] = c[k]
  <2>1. n \in 0 .. Len(c)
    BY <1>3, <1>4
  <2> QED
    BY <1>4, <1>8, <2>1, Parts
<1>10. \A k \in 1 .. r.size : r.mem[k - 1] = q[k]
  BY <1>3, <1>4, <1>6, <1>9
<1>11. Content(r) = q
  BY <1>6, <1>9, <1>10, ContentIs
<1>12. Seqs!Front(c) = q
  <2>1. Len(c) - 1 = n
    BY <1>3, <1>4
  <2> QED
    BY <1>8, <2>1 DEF Seqs!Front
<1> QED
  BY <1>1, <1>7, <1>11, <1>12

LEMMA FindAgrees ==
  ASSUME NEW V, NEW a, Sound(a, V), NEW e, NEW c, c = Content(a)
  PROVE  LET k == FindIdx(a, e)
         IN  IF k = -1 THEN ~Seqs!Contains(c, e)
             ELSE c[k + 1] = e /\ ~Seqs!Contains(SubSeq(c, 1, k), e)
<1>1. PICK n : n = a.size
  OBVIOUS
<1>2. n \in Nat /\ c \in Seq(V) /\ Len(c) = n /\ \A k \in 1 .. n : c[k] = a.mem[k - 1]
  BY <1>1, SoundFacts, ContentFacts
<1> DEFINE hits == {k \in 0 .. n - 1 : a.mem[k] = e}
<1>3. PICK x : x = FindIdx(a, e)
  OBVIOUS
<1>4. x = IF hits = {} THEN -1 ELSE CHOOSE k \in hits : \A j \in hits : k <= j
  BY <1>1, <1>3 DEF FindIdx
<1>5. CASE hits = {}
  <2>1. x = -1
    BY <1>4, <1>5
  <2>2. ASSUME NEW k \in 1 .. Len(c), c[k] = e PROVE FALSE
    <3>1. k - 1 \in 0 .. n - 1 /\ a.mem[k - 1] = e
      BY <1>2, <2>2
    <3> QED
      BY <1>5, <3>1
  <2> QED
    BY <1>3, <2>1, <2>2 DEF Seqs!Contains
<1>6. CASE hits # {}
  <2>1. \E k \in hits : \A j \in hits : k <= j
    <3>1. hits \in SUBSET Nat
      OBVIOUS
    <3> HIDE DEF hits
    <3> QED
      BY <1>6, <3>1, HasLeast
  <2>2. x \in hits /\ \A j \in hits : x <= j
    <3> HIDE DEF hits
    <3> QED
      BY <1>4, <1>6, <2>1
  <2>3. x \in 0 .. n - 1 /\ a.mem[x] = e
    BY <2>2
  <2>4. PICK y : y = x + 1
    OBVIOUS
  <2>5. y \in 1 .. n /\ y - 1 = x /\ x # -1
    BY <1>2, <2>3, <2>4
  <2>6. c[y] = e
    BY <1>2, <2>3, <2>5
  <2>7. PICK s : s = SubSeq(c, 1, x)
    OBVIOUS
  <2>8. Len(s) = x /\ \A i \in 1 .. x : s[i] = c[i]
    <3>1. x \in 0 .. Len(c)
      BY <1>2, <2>3
    <3> QED
      BY <1>2, <2>7, <3>1, Parts
  <2>9. ASSUME NEW k \in 1 .. Len(s), s[k] = e PROVE FALSE
    <3>1. PICK p : p = k - 1
      OBVIOUS
    <3>2. k \in 1 .. n /\ p \in 0 .. n - 1 /\ ~(x <= p)
      BY <1>2, <2>3, <2>8, <3>1
    <3>3. a.mem[p] = e
      BY <1>2, <2>8, <2>9, <3>1, <3>2
    <3>4. p \in hits
      BY <3>2, <3>3
    <3> QED
      BY <2>2, <3>2, <3>4
  <2> QED
    BY <1>3, <2>4, <2>5, <2>6, <2>7, <2>9 DEF Seqs!Contains
<1> QED
  BY <1>5, <1>6

-----------------------------------------------------------------------------
(* InputBuffer *)

Value == Byte \cup {Junk}

(* The bytes between mReadIdx and mWriteIdx are the last that arrived. *)
Places ==
  /\ Sound(mReadBuf, Value)
  /\ mReadIdx \in Nat /\ mWriteIdx \in Nat /\ mWriteIdx <= mReadBuf.size
  /\ stream \in Streams /\ arrived \in 0 .. Len(stream)

LastArrived ==
  /\ ReadableBytes <= arrived
  /\ \A p \in mReadIdx .. mWriteIdx - 1 :
       mReadBuf.mem[p] = stream[arrived - mWriteIdx + p + 1]

(* Which slot an observer has, and which slots nobody has. *)
SlotTypes ==
  /\ mStartIdx \in [Observers -> Nat] /\ mIdx \in [Observers -> Nat]
  /\ held \subseteq Observers /\ IsFiniteSet(held)
  /\ mObservers \in Seq(Observers \cup {NoObserver}) /\ mObsHoles \in Seq(Nat)

SlotsOfObservers ==
  /\ \A o \in held : mIdx[o] < Len(mObservers) /\ mObservers[mIdx[o] + 1] = o
  /\ \A i \in 1 .. Len(mObservers) :
       mObservers[i] # NoObserver => mObservers[i] \in held /\ mIdx[mObservers[i]] = i - 1

SlotsOfHoles ==
  /\ \A i \in 1 .. Len(mObsHoles) :
       mObsHoles[i] < Len(mObservers) /\ mObservers[mObsHoles[i] + 1] = NoObserver
  /\ \A i, j \in 1 .. Len(mObsHoles) : mObsHoles[i] = mObsHoles[j] => i = j
  /\ \A k \in 1 .. Len(mObservers) :
       mObservers[k] = NoObserver => \E i \in 1 .. Len(mObsHoles) : mObsHoles[i] = k - 1
  /\ Len(mObservers) = Cardinality(held) + Len(mObsHoles)

BufferIInv ==
  /\ Places /\ (Lost \/ LastArrived)
  /\ SlotTypes /\ SlotsOfObservers /\ SlotsOfHoles

LEMMA StreamFacts ==
  ASSUME NEW s \in Streams
  PROVE  s \in Seq(Byte) /\ Len(s) \in Nat /\ \A k \in 1 .. Len(s) : s[k] \in Byte
<1>1. s \in Seq(Byte)
  BY InputBufferAssumption
<1> QED
  BY <1>1

(* What readv stores: from mWriteIdx on, whether or not it spills. *)
LEMMA FilledFacts ==
  ASSUME NEW V, NEW b, Sound(b, V), mWriteIdx \in Nat, mWriteIdx <= b.size, NEW s \in Seq(V)
  PROVE  /\ Sound(Filled(b, s), V) /\ Filled(b, s).size >= mWriteIdx + Len(s)
         /\ \A k \in 0 .. mWriteIdx - 1 : Filled(b, s).mem[k] = b.mem[k]
         /\ \A k \in 1 .. Len(s) : Filled(b, s).mem[mWriteIdx + k - 1] = s[k]
<1> DEFINE n == b.size - mWriteIdx
           f == [k \in mWriteIdx .. b.size - 1 |->
                   IF k - mWriteIdx < Len(s) THEN s[k - mWriteIdx + 1] ELSE b.mem[k]]
           r == Store(b, f)
           rest == SubSeq(s, n + 1, Len(s))
<1>1. /\ b.cap \in Nat /\ b.size \in Nat /\ b.size <= b.cap /\ b.mem \in [0 .. b.cap - 1 -> V]
      /\ n \in Nat /\ Len(s) \in Nat
  BY SoundFacts
<1>2. Filled(b, s) = IF Len(s) <= n THEN r ELSE PushAll(r, rest)
  BY DEF Filled
<1>3. /\ DOMAIN f = mWriteIdx .. b.size - 1
      /\ \A k \in DOMAIN f : f[k] = IF k - mWriteIdx < Len(s) THEN s[k - mWriteIdx + 1] ELSE b.mem[k]
  OBVIOUS
<1>4. \A k \in DOMAIN f : k \in 0 .. b.cap - 1 => f[k] \in V
  <2>1. ASSUME NEW k \in DOMAIN f, k \in 0 .. b.cap - 1 PROVE f[k] \in V
    <3>1. k \in mWriteIdx .. b.size - 1
      BY <1>3
    <3>2. CASE k - mWriteIdx < Len(s)
      <4>1. k - mWriteIdx + 1 \in 1 .. Len(s)
        BY <1>1, <3>1, <3>2
      <4> HIDE DEF f
      <4> QED
        BY <1>3, <3>2, <4>1
    <3>3. CASE ~(k - mWriteIdx < Len(s))
      <4> HIDE DEF f
      <4> QED
        BY <1>1, <1>3, <2>1, <3>3
    <3> QED
      BY <3>2, <3>3
  <2> QED
    BY <2>1
<1> HIDE DEF f
<1>5. /\ Sound(r, V) /\ r.cap = b.cap /\ r.size = b.size
      /\ \A k \in 0 .. b.cap - 1 : r.mem[k] = IF k \in DOMAIN f THEN f[k] ELSE b.mem[k]
  BY ONLY Sound(b, V), <1>4, StoreFacts
<1> HIDE DEF r
<1>6. \A k \in 0 .. mWriteIdx - 1 : r.mem[k] = b.mem[k] /\ k \in 0 .. r.size - 1
  <2>1. ASSUME NEW k \in 0 .. mWriteIdx - 1 PROVE r.mem[k] = b.mem[k] /\ k \in 0 .. r.size - 1
    <3>1. k \in 0 .. b.cap - 1 /\ k \in 0 .. b.size - 1 /\ k \notin DOMAIN f
      BY <1>1, <1>3
    <3> QED
      BY <1>5, <3>1
  <2> QED
    BY <2>1
<1>7. \A k \in 1 .. Len(s) : k <= n => /\ r.mem[mWriteIdx + k - 1] = s[k]
                                       /\ mWriteIdx + k - 1 \in 0 .. r.size - 1
  <2>1. ASSUME NEW k \in 1 .. Len(s), k <= n
        PROVE  r.mem[mWriteIdx + k - 1] = s[k] /\ mWriteIdx + k - 1 \in 0 .. r.size - 1
    <3>1. PICK p : p = mWriteIdx + k - 1
      OBVIOUS
    <3>2. p \in mWriteIdx .. b.size - 1 /\ p \in 0 .. b.cap - 1 /\ p - mWriteIdx < Len(s) /\ p - mWriteIdx + 1 = k
      BY <1>1, <2>1, <3>1
    <3>3. f[p] = s[k]
      BY <1>3, <3>2
    <3>4. r.mem[p] = f[p] /\ p \in 0 .. r.size - 1
      <4> HIDE DEF n
      <4> QED
        BY <1>1, <1>3, <1>5, <3>2
    <3> QED
      BY <3>1, <3>3, <3>4
  <2> QED
    BY <2>1
<1>8. CASE Len(s) <= n
  <2>1. b.size >= mWriteIdx + Len(s) /\ \A k \in 1 .. Len(s) : k <= n
    BY <1>1, <1>8
  <2> QED
    BY <1>2, <1>5, <1>6, <1>7, <1>8, <2>1
<1>9. CASE ~(Len(s) <= n)
  <2>1. /\ rest \in Seq(V) /\ Len(rest) = Len(s) - n
        /\ \A k \in 1 .. Len(s) - n : rest[k] = s[n + k]
    <3>1. n + 1 \in 1 .. Len(s) + 1 /\ Len(s) \in n + 1 - 1 .. Len(s)
      BY <1>1, <1>9
    <3>2. PICK m : m = n + 1
      OBVIOUS
    <3>3. m \in 1 .. Len(s) + 1 /\ Len(s) \in m - 1 .. Len(s)
      BY <3>1, <3>2
    <3>4. /\ SubSeq(s, m, Len(s)) \in Seq(V) /\ Len(SubSeq(s, m, Len(s))) = Len(s) - m + 1
          /\ \A k \in 1 .. Len(s) - m + 1 : SubSeq(s, m, Len(s))[k] = s[m + k - 1]
      BY <3>3, SubSeqProperties
    <3>5. Len(s) - m + 1 = Len(s) - n /\ \A k \in 1 .. Len(s) - n : m + k - 1 = n + k
      BY <1>1, <3>2
    <3> QED
      BY <3>2, <3>4, <3>5
  <2> HIDE DEF rest
  <2>2. /\ Sound(PushAll(r, rest), V) /\ PushAll(r, rest).size = r.size + Len(rest)
        /\ \A k \in 0 .. r.size - 1 : PushAll(r, rest).mem[k] = r.mem[k]
        /\ \A k \in 1 .. Len(rest) : PushAll(r, rest).mem[r.size + k - 1] = rest[k]
    BY <1>5, <2>1, PushAllFacts
  <2>3. Filled(b, s) = PushAll(r, rest)
    BY <1>2, <1>9
  <2>4. \A k \in 1 .. Len(s) : PushAll(r, rest).mem[mWriteIdx + k - 1] = s[k]
    <3>1. ASSUME NEW k \in 1 .. Len(s), k <= n PROVE PushAll(r, rest).mem[mWriteIdx + k - 1] = s[k]
      BY <1>7, <2>2, <3>1
    <3>2. ASSUME NEW k \in 1 .. Len(s), ~(k <= n)
          PROVE  PushAll(r, rest).mem[mWriteIdx + k - 1] = s[k]
      <4>1. PICK j : j = k - n
        OBVIOUS
      <4>2. j \in 1 .. Len(s) - n /\ n + j = k /\ r.size + j - 1 = mWriteIdx + k - 1
        <5>1. r.size = mWriteIdx + n
          BY <1>1, <1>5
        <5> HIDE DEF n
        <5> QED
          BY <1>1, <3>2, <4>1, <5>1
      <4> HIDE DEF n
      <4> QED
        BY <2>1, <2>2, <4>2
    <3> QED
      BY <3>1, <3>2
  <2>5. r.size + Len(rest) = mWriteIdx + Len(s)
    BY <1>1, <1>5, <2>1
  <2>6. r.size + Len(rest) >= mWriteIdx + Len(s)
    BY <1>1, <2>5
  <2> QED
    BY <1>6, <2>2, <2>3, <2>4, <2>6
<1> QED
  BY <1>8, <1>9

LEMMA NotLost ==
  ASSUME BufferIInv, ~Lost
  PROVE  /\ Places /\ LastArrived /\ SlotTypes /\ SlotsOfObservers /\ SlotsOfHoles
         /\ mReadIdx \in Nat /\ mWriteIdx \in Nat /\ mReadIdx <= mWriteIdx /\ ReadableBytes \in Nat
         /\ \A o \in held : mStartIdx[o] \in Nat /\ mStartIdx[o] <= ReadableBytes
<1>1. Places /\ LastArrived /\ SlotTypes /\ SlotsOfObservers /\ SlotsOfHoles
  BY DEF BufferIInv
<1>2. mReadIdx \in Nat /\ mWriteIdx \in Nat
  BY <1>1 DEF Places
<1>3. ReadableBytes \in Int /\ ~(ReadableBytes < 0) /\ mReadIdx <= mWriteIdx
  BY <1>2 DEF Lost, ReadableBytes
<1>4. \A o \in held : mStartIdx[o] \in Nat
  BY <1>1 DEF SlotTypes
<1>5. \A o \in held : ~(mStartIdx[o] > ReadableBytes)
  BY DEF Lost
<1>6. \A o \in held : mStartIdx[o] <= ReadableBytes
  BY <1>3, <1>4, <1>5
<1> QED
  BY <1>1, <1>2, <1>3, <1>4, <1>6

LEMMA WatchingIsHeld ==
  ASSUME SlotTypes, SlotsOfObservers
  PROVE  Watching = held
<1>1. ASSUME NEW o \in held PROVE o \in Watching
  <2>1. o \in Observers /\ mIdx[o] + 1 \in 1 .. Len(mObservers) /\ mObservers[mIdx[o] + 1] = o
    <3>1. mIdx[o] \in Nat /\ Len(mObservers) \in Nat /\ o \in Observers
      BY DEF SlotTypes
    <3> QED
      BY <3>1 DEF SlotsOfObservers
  <2> QED
    BY <2>1 DEF Watching
<1>2. ASSUME NEW o \in Watching PROVE o \in held
  <2>1. PICK i \in 1 .. Len(mObservers) : mObservers[i] = o
    BY DEF Watching
  <2>2. o # NoObserver
    BY InputBufferAssumption DEF Watching
  <2> QED
    BY <2>1, <2>2 DEF SlotsOfObservers
<1> QED
  BY <1>1, <1>2

(* The trim is what every observer has taken, if there is one. *)
LEMMA TrimmedFacts ==
  ASSUME BufferIInv, ~Lost
  PROVE  /\ Trimmed \in Nat /\ \A o \in held : Trimmed <= mStartIdx[o]
         /\ held # {} => Trimmed <= ReadableBytes
<1> DEFINE Ts == {mReadBuf.size} \cup {mStartIdx[o] : o \in Watching}
<1>1. Watching = held
  BY NotLost, WatchingIsHeld
<1>2. Ts \in SUBSET Nat /\ Ts # {}
  <2>1. mReadBuf.size \in Nat
    BY SoundFacts, NotLost DEF Places
  <2>2. \A o \in held : mStartIdx[o] \in Nat
    BY NotLost
  <2> QED
    BY <1>1, <2>1, <2>2
<1>3. \E t \in Ts : t <= mReadBuf.size /\ \A o \in Watching : t <= mStartIdx[o]
  <2>1. mReadBuf.size \in Ts /\ \A o \in Watching : mStartIdx[o] \in Ts
    OBVIOUS
  <2>2. PICK t \in Ts : \A u \in Ts : t <= u
    <3> HIDE DEF Ts
    <3> QED
      BY <1>2, HasLeast
  <2> HIDE DEF Ts
  <2> QED
    BY <2>1, <2>2
<1>4. Trimmed \in Ts /\ \A o \in Watching : Trimmed <= mStartIdx[o]
  <2>1. Trimmed = CHOOSE t \in Ts : t <= mReadBuf.size /\ \A o \in Watching : t <= mStartIdx[o]
    BY DEF Trimmed
  <2> HIDE DEF Ts
  <2> QED
    BY <1>3, <2>1
<1>5. Trimmed \in Nat
  <2> HIDE DEF Ts
  <2> QED
    BY <1>2, <1>4
<1>6. ASSUME NEW o \in held PROVE Trimmed <= ReadableBytes
  <2>1. Trimmed <= mStartIdx[o] /\ mStartIdx[o] \in Nat /\ mStartIdx[o] <= ReadableBytes
        /\ ReadableBytes \in Nat
    BY <1>1, <1>4, NotLost
  <2> QED
    BY <1>5, <2>1
<1> QED
  BY <1>1, <1>4, <1>5, <1>6

(* The storage Read fills: there is room in it. *)
LEMMA RoomFacts ==
  ASSUME Places
  PROVE  LET room == IF mWriteIdx = mReadBuf.size THEN Resize(mReadBuf, 2 * mWriteIdx) ELSE mReadBuf
         IN  /\ Sound(room, Value) /\ mWriteIdx <= room.size
             /\ \A k \in 0 .. mWriteIdx - 1 : room.mem[k] = mReadBuf.mem[k]
<1>1. /\ Sound(mReadBuf, Value) /\ mWriteIdx \in Nat /\ mWriteIdx <= mReadBuf.size
  BY DEF Places
<1>2. CASE mWriteIdx = mReadBuf.size
  <2>1. 2 * mWriteIdx \in Nat /\ mWriteIdx <= 2 * mWriteIdx
    BY <1>1
  <2>2. PICK n : n = 2 * mWriteIdx
    OBVIOUS
  <2>3. n \in Nat /\ mWriteIdx <= n
    BY <2>1, <2>2
  <2>4. /\ Sound(Resize(mReadBuf, n), Value) /\ Resize(mReadBuf, n).size = n
        /\ \A k \in 0 .. mReadBuf.size - 1 : Resize(mReadBuf, n).mem[k] = mReadBuf.mem[k]
    BY <1>1, <2>3, ResizeFacts
  <2> QED
    BY <1>2, <2>2, <2>3, <2>4
<1>3. CASE mWriteIdx # mReadBuf.size
  BY <1>1, <1>3
<1> QED
  BY <1>2, <1>3

(* One Read: n bytes come, t are trimmed, and the bytes up to the new       *)
(* mWriteIdx are where they belong.                                         *)
LEMMA ReadMoves ==
  ASSUME BufferIInv, Read
  PROVE  \E n, t \in Nat :
           /\ arrived + n <= Len(stream) /\ arrived' = arrived + n
           /\ mReadIdx' = mReadIdx + t /\ mWriteIdx' = mWriteIdx + n
           /\ \A o \in held : t <= mStartIdx[o] /\ mStartIdx'[o] = mStartIdx[o] - t
           /\ held # {} => t <= ReadableBytes
           /\ mStartIdx' \in [Observers -> Nat]
           /\ Sound(mReadBuf', Value) /\ mWriteIdx' <= mReadBuf'.size
           /\ \A p \in mReadIdx .. mWriteIdx + n - 1 :
                mReadBuf'.mem[p] = stream[arrived - mWriteIdx + p + 1]
           /\ UNCHANGED <<slots, stream>>
<1> DEFINE room == IF mWriteIdx = mReadBuf.size THEN Resize(mReadBuf, 2 * mWriteIdx) ELSE mReadBuf
           t == Trimmed
<1>1. ~Lost
  BY DEF Read
<1>2. /\ Places /\ LastArrived /\ SlotTypes /\ SlotsOfObservers
      /\ mReadIdx \in Nat /\ mWriteIdx \in Nat /\ mReadIdx <= mWriteIdx /\ ReadableBytes \in Nat
  BY <1>1, NotLost
<1>3. /\ Sound(room, Value) /\ mWriteIdx <= room.size
      /\ \A k \in 0 .. mWriteIdx - 1 : room.mem[k] = mReadBuf.mem[k]
  BY <1>2, RoomFacts
<1>4. PICK n \in 0 .. room.size - mWriteIdx + ExtraBufSize :
        /\ arrived + n <= Len(stream)
        /\ mReadIdx' = mReadIdx + t
        /\ mStartIdx' = StartsAfterTrim
        /\ mReadBuf' = Filled(room, SubSeq(stream, arrived + 1, arrived + n))
        /\ mWriteIdx' = mWriteIdx + n
        /\ arrived' = arrived + n
        /\ UNCHANGED <<slots, stream>>
  BY DEF Read
<1>5. t \in Nat /\ (\A o \in held : t <= mStartIdx[o]) /\ (held # {} => t <= ReadableBytes)
  BY <1>1, TrimmedFacts
<1> HIDE DEF room
<1>6. n \in Nat
  OBVIOUS
<1>7. mStartIdx' \in [Observers -> Nat] /\ \A o \in held : mStartIdx'[o] = mStartIdx[o] - t
  <2>1. Watching = held
    BY <1>2, WatchingIsHeld
  <2>2. mStartIdx' = [o \in Observers |-> IF o \in held THEN mStartIdx[o] - t ELSE mStartIdx[o]]
    BY <1>4, <2>1 DEF StartsAfterTrim
  <2>3. held \subseteq Observers /\ \A o \in Observers : mStartIdx[o] \in Nat
    BY <1>2 DEF SlotTypes
  <2> HIDE DEF t
  <2>4. \A o \in held : mStartIdx[o] - t \in Nat
    BY <1>5, <2>3
  <2> QED
    BY <2>2, <2>3, <2>4
<1> HIDE DEF t
<1> DEFINE s == SubSeq(stream, arrived + 1, arrived + n)
<1>8. stream \in Seq(Byte) /\ Len(stream) \in Nat /\ arrived \in Nat
  <2>1. stream \in Streams /\ arrived \in 0 .. Len(stream)
    BY <1>2 DEF Places
  <2> QED
    BY <2>1, StreamFacts
<1>9. /\ s \in Seq(Value) /\ Len(s) = n /\ \A k \in 1 .. n : s[k] = stream[arrived + k]
  <2>1. PICK a : a = arrived + 1
    OBVIOUS
  <2>2. PICK z : z = arrived + n
    OBVIOUS
  <2>3. a \in 1 .. Len(stream) + 1 /\ z \in a - 1 .. Len(stream)
    BY <1>4, <1>6, <1>8, <2>1, <2>2
  <2>4. /\ SubSeq(stream, a, z) \in Seq(Byte) /\ Len(SubSeq(stream, a, z)) = z - a + 1
        /\ \A k \in 1 .. z - a + 1 : SubSeq(stream, a, z)[k] = stream[a + k - 1]
    BY <1>8, <2>3, SubSeqProperties
  <2>5. z - a + 1 = n /\ \A k \in 1 .. n : a + k - 1 = arrived + k
    BY <1>6, <1>8, <2>1, <2>2
  <2>6. s \in Seq(Byte) /\ Len(s) = n /\ \A k \in 1 .. n : s[k] = stream[arrived + k]
    BY <2>1, <2>2, <2>4, <2>5
  <2> HIDE DEF s
  <2>7. Byte \subseteq Value
    BY DEF Value
  <2> QED
    BY <2>6, <2>7
<1>10. mReadBuf' = Filled(room, s)
  BY <1>4
<1> HIDE DEF s
<1>11. /\ Sound(mReadBuf', Value) /\ mReadBuf'.size >= mWriteIdx + n
       /\ \A k \in 0 .. mWriteIdx - 1 : mReadBuf'.mem[k] = room.mem[k]
       /\ \A k \in 1 .. n : mReadBuf'.mem[mWriteIdx + k - 1] = s[k]
  <2>1. /\ Sound(Filled(room, s), Value) /\ Filled(room, s).size >= mWriteIdx + Len(s)
        /\ \A k \in 0 .. mWriteIdx - 1 : Filled(room, s).mem[k] = room.mem[k]
        /\ \A k \in 1 .. Len(s) : Filled(room, s).mem[mWriteIdx + k - 1] = s[k]
    <3>1. mWriteIdx \in Nat /\ mWriteIdx <= room.size /\ Sound(room, Value) /\ s \in Seq(Value)
      BY <1>2, <1>3, <1>9
    <3> QED
      BY ONLY <3>1, FilledFacts
  <2> QED
    BY ONLY <1>9, <1>10, <2>1
<1>12. mReadBuf'.size \in Nat
  <2>1. PICK b : b = mReadBuf'
    OBVIOUS
  <2>2. Sound(b, Value)
    BY <1>11, <2>1
  <2>3. b.size \in Nat
    BY <2>2, SoundFacts
  <2> QED
    BY <2>1, <2>3
<1>13. ASSUME NEW p \in mReadIdx .. mWriteIdx + n - 1
       PROVE  mReadBuf'.mem[p] = stream[arrived - mWriteIdx + p + 1]
  <2>1. CASE p < mWriteIdx
    <3>1. p \in mReadIdx .. mWriteIdx - 1 /\ p \in 0 .. mWriteIdx - 1
      BY <1>2, <2>1
    <3>2. mReadBuf.mem[p] = stream[arrived - mWriteIdx + p + 1]
      BY <1>2, <3>1 DEF LastArrived
    <3> QED
      BY <1>3, <1>11, <3>1, <3>2
  <2>2. CASE ~(p < mWriteIdx)
    <3>1. PICK k : k = p - mWriteIdx + 1
      OBVIOUS
    <3>2. k \in 1 .. n /\ mWriteIdx + k - 1 = p /\ arrived + k = arrived - mWriteIdx + p + 1
      BY <1>2, <1>6, <1>8, <2>2, <3>1
    <3> QED
      BY <1>9, <1>11, <3>2
  <2> QED
    BY <2>1, <2>2
<1>14. mWriteIdx' <= mReadBuf'.size
  BY <1>2, <1>4, <1>6, <1>11, <1>12
<1> QED
  BY <1>4, <1>5, <1>6, <1>7, <1>11, <1>13, <1>14

LEMMA ReadKeeps ==
  ASSUME BufferIInv, Read
  PROVE  BufferIInv'
<1>1. PICK n, t \in Nat :
        /\ arrived + n <= Len(stream) /\ arrived' = arrived + n
        /\ mReadIdx' = mReadIdx + t /\ mWriteIdx' = mWriteIdx + n
        /\ \A o \in held : t <= mStartIdx[o] /\ mStartIdx'[o] = mStartIdx[o] - t
        /\ held # {} => t <= ReadableBytes
        /\ mStartIdx' \in [Observers -> Nat]
        /\ Sound(mReadBuf', Value) /\ mWriteIdx' <= mReadBuf'.size
        /\ \A p \in mReadIdx .. mWriteIdx + n - 1 :
             mReadBuf'.mem[p] = stream[arrived - mWriteIdx + p + 1]
        /\ UNCHANGED <<slots, stream>>
  BY ReadMoves
<1>2. /\ Places /\ LastArrived /\ SlotTypes /\ SlotsOfObservers /\ SlotsOfHoles
      /\ mReadIdx \in Nat /\ mWriteIdx \in Nat
  <2>1. ~Lost
    BY DEF Read
  <2> QED
    BY <2>1, NotLost
<1>3. stream \in Streams /\ arrived \in Nat /\ Len(stream) \in Nat
  BY <1>2, StreamFacts DEF Places
<1>4. UNCHANGED <<mObservers, mObsHoles, mIdx, held, stream>>
  BY <1>1 DEF slots
<1>5. Places'
  <2>1. mReadIdx' \in Nat /\ mWriteIdx' \in Nat /\ arrived' \in 0 .. Len(stream)
    BY <1>1, <1>2, <1>3
  <2> QED
    BY <1>1, <1>3, <1>4, <2>1 DEF Places
<1>6. LastArrived'
  <2>1. ReadableBytes' <= arrived'
    BY <1>1, <1>2, <1>3 DEF LastArrived, ReadableBytes
  <2>2. ASSUME NEW p \in mReadIdx' .. mWriteIdx' - 1
        PROVE  mReadBuf'.mem[p] = stream'[arrived' - mWriteIdx' + p + 1]
    <3>1. p \in mReadIdx .. mWriteIdx + n - 1 /\ arrived' - mWriteIdx' + p + 1 = arrived - mWriteIdx + p + 1
      BY <1>1, <1>2, <1>3
    <3> QED
      BY <1>1, <1>4, <3>1
  <2> QED
    BY <2>1, <2>2 DEF LastArrived
<1>7. SlotTypes' /\ SlotsOfObservers' /\ SlotsOfHoles'
  <2>1. SlotTypes'
    BY <1>1, <1>2, <1>4 DEF SlotTypes
  <2> QED
    BY <1>2, <1>4, <2>1 DEF SlotsOfObservers, SlotsOfHoles
<1> QED
  BY <1>5, <1>6, <1>7 DEF BufferIInv

(* The bytes stay where they are as long as the buffer does. *)
LEMMA BufferStays ==
  ASSUME BufferIInv, ~Lost, UNCHANGED <<buffer, stream, arrived>>
  PROVE  Places' /\ LastArrived'
<1>1. Places /\ LastArrived
  BY NotLost
<1>2. UNCHANGED <<mReadBuf, mReadIdx, mWriteIdx, stream, arrived>>
  BY DEF buffer
<1> QED
  BY <1>1, <1>2 DEF Places, LastArrived, ReadableBytes

LEMMA CreateKeeps ==
  ASSUME BufferIInv, NEW o \in Observers, CreateObserver(o)
  PROVE  BufferIInv'
<1>1. /\ ~Lost /\ o \notin held /\ UNCHANGED <<buffer, stream, arrived>>
      /\ mStartIdx' = [mStartIdx EXCEPT ![o] = 0] /\ held' = held \cup {o}
  BY DEF CreateObserver
<1>2. SlotTypes /\ SlotsOfObservers /\ SlotsOfHoles
  BY <1>1, NotLost
<1>3. Places' /\ LastArrived'
  BY <1>1, BufferStays
<1>4. o # NoObserver
  BY InputBufferAssumption
<1> DEFINE n == Len(mObservers)
           h == Len(mObsHoles)
           W == Observers \cup {NoObserver}
<1>5. /\ n \in Nat /\ h \in Nat /\ mObservers \in Seq(W) /\ mObsHoles \in Seq(Nat)
      /\ \A i \in 1 .. h : mObsHoles[i] \in Nat
      /\ mIdx \in [Observers -> Nat] /\ held \subseteq Observers /\ \A q \in held : mIdx[q] \in Nat
  BY <1>2 DEF SlotTypes
<1>6. mStartIdx' \in [Observers -> Nat] /\ held' \subseteq Observers
  BY <1>1, <1>2 DEF SlotTypes
<1>7. IsFiniteSet(held') /\ Cardinality(held') = Cardinality(held) + 1
  <2>1. IsFiniteSet(held)
    BY <1>2 DEF SlotTypes
  <2> QED
    BY <1>1, <2>1, FS_AddElement
<1>8. Cardinality(held) \in Nat
  BY <1>2, FS_CardinalityType DEF SlotTypes
<1>9. CASE mObsHoles = << >>
  <2>1. mIdx' = [mIdx EXCEPT ![o] = n] /\ mObservers' = Append(mObservers, o) /\ mObsHoles' = mObsHoles
    BY <1>9 DEF CreateObserver
  <2>2. /\ mObservers' \in Seq(W) /\ Len(mObservers') = n + 1
        /\ \A i \in 1 .. n : mObservers'[i] = mObservers[i]
        /\ mObservers'[n + 1] = o
    BY <1>5, <2>1
  <2>3. mIdx' \in [Observers -> Nat] /\ mIdx'[o] = n /\ \A q \in held : mIdx'[q] = mIdx[q]
    BY <1>1, <1>5, <2>1
  <2>4. SlotTypes'
    BY <1>5, <1>6, <1>7, <2>1, <2>2, <2>3 DEF SlotTypes
  <2> HIDE DEF n, h
  <2>5. SlotsOfObservers'
    <3>1. ASSUME NEW q \in held' PROVE mIdx'[q] < Len(mObservers') /\ mObservers'[mIdx'[q] + 1] = q
      <4>1. CASE q = o
        BY <1>5, <2>2, <2>3, <4>1
      <4>2. CASE q # o
        <5>1. q \in held
          BY <1>1, <4>2
        <5>2. mIdx[q] \in Nat /\ mIdx[q] < n /\ mObservers[mIdx[q] + 1] = q
          BY <1>2, <1>5, <5>1 DEF SlotsOfObservers, n
        <5>3. mIdx[q] + 1 \in 1 .. n
          BY <1>5, <5>2
        <5> QED
          BY <1>5, <2>2, <2>3, <5>1, <5>2, <5>3
      <4> QED
        BY <4>1, <4>2
    <3>2. ASSUME NEW i \in 1 .. Len(mObservers'), mObservers'[i] # NoObserver
          PROVE  mObservers'[i] \in held' /\ mIdx'[mObservers'[i]] = i - 1
      <4>1. CASE i = n + 1
        BY <1>1, <1>5, <2>2, <2>3, <4>1
      <4>2. CASE i # n + 1
        <5>1. i \in 1 .. n
          BY <1>5, <2>2, <4>2
        <5>2. mObservers[i] \in held /\ mIdx[mObservers[i]] = i - 1
          BY <1>2, <2>2, <3>2, <5>1 DEF SlotsOfObservers, n
        <5> QED
          BY <1>1, <2>2, <2>3, <5>1, <5>2
      <4> QED
        BY <4>1, <4>2
    <3> QED
      BY <3>1, <3>2 DEF SlotsOfObservers
  <2>6. SlotsOfHoles'
    <3>1. Len(mObsHoles') = 0 /\ h = 0
      BY <1>9, <2>1 DEF h
    <3>2. ASSUME NEW k \in 1 .. Len(mObservers'), mObservers'[k] = NoObserver PROVE FALSE
      <4>1. k \in 1 .. n
        BY <1>4, <1>5, <2>2, <3>2
      <4>2. \E i \in 1 .. h : mObsHoles[i] = k - 1
        BY <1>2, <2>2, <3>2, <4>1 DEF SlotsOfHoles, n, h
      <4> QED
        BY <3>1, <4>2
    <3>3. n = Cardinality(held) + 0
      BY <1>2, <3>1 DEF SlotsOfHoles, n, h
    <3>4. Len(mObservers') = Cardinality(held') + Len(mObsHoles')
      BY <1>7, <1>8, <2>2, <3>1, <3>3
    <3>5. \A i \in 1 .. Len(mObsHoles') : FALSE
      BY <3>1
    <3> QED
      BY <3>2, <3>4, <3>5 DEF SlotsOfHoles
  <2> QED
    BY <1>3, <2>4, <2>5, <2>6 DEF BufferIInv
<1>10. CASE mObsHoles # << >>
  <2> DEFINE idx == mObsHoles[h]
  <2>1. /\ mIdx' = [mIdx EXCEPT ![o] = idx] /\ mObservers' = [mObservers EXCEPT ![idx + 1] = o]
        /\ mObsHoles' = SubSeq(mObsHoles, 1, h - 1)
    BY <1>10 DEF CreateObserver, HolesAfterReuse
  <2>2. /\ h \in Nat \ {0} /\ SubSeq(mObsHoles, 1, h - 1) \in Seq(Nat)
        /\ Len(SubSeq(mObsHoles, 1, h - 1)) = h - 1
        /\ \A j \in 1 .. h - 1 : SubSeq(mObsHoles, 1, h - 1)[j] = mObsHoles[j]
    BY <1>5, <1>10, PopFacts
  <2>3. /\ mObsHoles' \in Seq(Nat) /\ Len(mObsHoles') = h - 1
        /\ \A j \in 1 .. h - 1 : mObsHoles'[j] = mObsHoles[j]
    BY <2>1, <2>2
  <2>4. idx \in Nat /\ idx < n /\ mObservers[idx + 1] = NoObserver
    <3>1. h \in 1 .. h
      BY <2>2
    <3> QED
      BY <1>2, <1>5, <3>1 DEF SlotsOfHoles
  <2> HIDE DEF idx
  <2>5. idx + 1 \in 1 .. n
    BY <1>5, <2>4
  <2>6. /\ mObservers' \in Seq(W) /\ Len(mObservers') = n
        /\ \A i \in 1 .. n : i # idx + 1 => mObservers'[i] = mObservers[i]
        /\ mObservers'[idx + 1] = o
    BY <1>5, <2>1, <2>5
  <2>7. mIdx' \in [Observers -> Nat] /\ mIdx'[o] = idx /\ \A q \in held : mIdx'[q] = mIdx[q]
    BY <1>1, <1>5, <2>1, <2>4
  <2>8. SlotTypes'
    BY <1>6, <1>7, <2>3, <2>6, <2>7 DEF SlotTypes
  <2> HIDE DEF n, h
  <2>9. SlotsOfObservers'
    <3>1. ASSUME NEW q \in held' PROVE mIdx'[q] < Len(mObservers') /\ mObservers'[mIdx'[q] + 1] = q
      <4>1. CASE q = o
        BY <2>4, <2>6, <2>7, <4>1
      <4>2. CASE q # o
        <5>1. q \in held
          BY <1>1, <4>2
        <5>2. mIdx[q] \in Nat /\ mIdx[q] < n /\ mObservers[mIdx[q] + 1] = q /\ q # NoObserver
          BY <1>2, <1>5, <5>1, InputBufferAssumption DEF SlotsOfObservers, n
        <5>3. mIdx[q] + 1 \in 1 .. n
          BY <1>5, <5>2
        <5>4. mIdx[q] + 1 # idx + 1
          BY <2>4, <5>2
        <5> QED
          BY <2>6, <2>7, <5>1, <5>2, <5>3, <5>4
      <4> QED
        BY <4>1, <4>2
    <3>2. ASSUME NEW i \in 1 .. Len(mObservers'), mObservers'[i] # NoObserver
          PROVE  mObservers'[i] \in held' /\ mIdx'[mObservers'[i]] = i - 1
      <4>1. CASE i = idx + 1
        <5>1. i - 1 = idx
          BY <2>4, <4>1
        <5> QED
          BY <1>1, <2>6, <2>7, <4>1, <5>1
      <4>2. CASE i # idx + 1
        <5>1. mObservers[i] \in held /\ mIdx[mObservers[i]] = i - 1
          BY <1>2, <2>6, <3>2, <4>2 DEF SlotsOfObservers, n
        <5> QED
          BY <1>1, <2>6, <2>7, <4>2, <5>1
      <4> QED
        BY <4>1, <4>2
    <3> QED
      BY <3>1, <3>2 DEF SlotsOfObservers
  <2>10. SlotsOfHoles'
    <3>0. h \in 1 .. h /\ \A i \in 1 .. h - 1 : i \in 1 .. h /\ i # h
      BY <2>2
    <3>1. ASSUME NEW i \in 1 .. Len(mObsHoles')
          PROVE  mObsHoles'[i] < Len(mObservers') /\ mObservers'[mObsHoles'[i] + 1] = NoObserver
      <4>1. i \in 1 .. h - 1 /\ i \in 1 .. h /\ mObsHoles'[i] = mObsHoles[i]
        BY <2>3, <3>0
      <4>2. /\ mObsHoles[i] \in Nat /\ mObsHoles[i] < n
            /\ mObservers[mObsHoles[i] + 1] = NoObserver /\ mObsHoles[i] # idx
        BY <1>2, <1>5, <3>0, <4>1 DEF SlotsOfHoles, n, h, idx
      <4>3. mObsHoles[i] + 1 \in 1 .. n /\ mObsHoles[i] + 1 # idx + 1
        <5>1. PICK x : x = mObsHoles[i]
          OBVIOUS
        <5>2. x \in Nat /\ x < n /\ x # idx
          BY <4>2, <5>1
        <5>3. x + 1 \in 1 .. n /\ x + 1 # idx + 1
          BY <1>5, <2>4, <5>2
        <5> QED
          BY <5>1, <5>3
      <4> QED
        BY <2>6, <4>1, <4>2, <4>3
    <3>2. \A i, j \in 1 .. Len(mObsHoles') : mObsHoles'[i] = mObsHoles'[j] => i = j
      BY <1>2, <2>3, <3>0 DEF SlotsOfHoles, h
    <3>3. ASSUME NEW k \in 1 .. Len(mObservers'), mObservers'[k] = NoObserver
          PROVE  \E i \in 1 .. Len(mObsHoles') : mObsHoles'[i] = k - 1
      <4>1. k \in 1 .. n /\ k # idx + 1 /\ mObservers[k] = NoObserver
        BY <1>4, <2>6, <3>3
      <4>2. PICK i \in 1 .. h : mObsHoles[i] = k - 1
        BY <1>2, <4>1 DEF SlotsOfHoles, n, h
      <4>3. k - 1 # idx
        BY <2>4, <4>1
      <4>4. i # h
        BY <4>2, <4>3 DEF idx
      <4>5. i \in 1 .. h - 1
        BY <2>2, <4>4
      <4> QED
        BY <2>3, <4>2, <4>5
    <3>4. n = Cardinality(held) + h
      BY <1>2 DEF SlotsOfHoles, n, h
    <3>5. Len(mObservers') = Cardinality(held') + Len(mObsHoles')
      BY <1>7, <1>8, <2>2, <2>3, <2>6, <3>4
    <3> QED
      BY <3>1, <3>2, <3>3, <3>5 DEF SlotsOfHoles
  <2> QED
    BY <1>3, <2>8, <2>9, <2>10 DEF BufferIInv
<1> QED
  BY <1>9, <1>10

LEMMA SlotReleaseKeeps ==
  ASSUME BufferIInv, NEW o \in Observers, Release(o)
  PROVE  BufferIInv'
<1> DEFINE n == Len(mObservers)
           h == Len(mObsHoles)
           W == Observers \cup {NoObserver}
           idx == mIdx[o]
<1>1. /\ ~Lost /\ o \in held /\ UNCHANGED <<buffer, stream, arrived>>
      /\ mStartIdx' = [mStartIdx EXCEPT ![o] = 0] /\ held' = held \ {o}
      /\ mIdx' = [mIdx EXCEPT ![o] = 0]
      /\ mObservers' = [mObservers EXCEPT ![idx + 1] = NoObserver]
      /\ mObsHoles' = Append(mObsHoles, idx)
  BY DEF Release
<1>2. SlotTypes /\ SlotsOfObservers /\ SlotsOfHoles
  BY <1>1, NotLost
<1>3. Places' /\ LastArrived'
  BY <1>1, BufferStays
<1>4. o # NoObserver
  BY InputBufferAssumption
<1>5. /\ n \in Nat /\ h \in Nat /\ mObservers \in Seq(W) /\ mObsHoles \in Seq(Nat)
      /\ \A i \in 1 .. h : mObsHoles[i] \in Nat
      /\ mIdx \in [Observers -> Nat] /\ held \subseteq Observers /\ \A q \in held : mIdx[q] \in Nat
  BY <1>2 DEF SlotTypes
<1>6. idx \in Nat /\ idx < n /\ mObservers[idx + 1] = o
  BY <1>1, <1>2, <1>5 DEF SlotsOfObservers
<1>7. IsFiniteSet(held') /\ Cardinality(held') = Cardinality(held) - 1 /\ Cardinality(held) \in Nat
  <2>1. IsFiniteSet(held)
    BY <1>2 DEF SlotTypes
  <2> QED
    BY <1>1, <2>1, FS_RemoveElement, FS_CardinalityType
<1> HIDE DEF idx
<1>8. idx + 1 \in 1 .. n
  BY <1>5, <1>6
<1>9. /\ mObservers' \in Seq(W) /\ Len(mObservers') = n
      /\ \A i \in 1 .. n : i # idx + 1 => mObservers'[i] = mObservers[i]
      /\ mObservers'[idx + 1] = NoObserver
  BY <1>1, <1>5, <1>8
<1>10. /\ mObsHoles' \in Seq(Nat) /\ Len(mObsHoles') = h + 1
       /\ \A i \in 1 .. h : mObsHoles'[i] = mObsHoles[i]
       /\ mObsHoles'[h + 1] = idx
  BY <1>1, <1>5, <1>6
<1>11. mIdx' \in [Observers -> Nat] /\ \A q \in held : q # o => mIdx'[q] = mIdx[q]
  BY <1>1, <1>5
<1>12. SlotTypes'
  <2>1. mStartIdx' \in [Observers -> Nat] /\ held' \subseteq Observers
    BY <1>1, <1>2 DEF SlotTypes
  <2> QED
    BY <1>7, <1>9, <1>10, <1>11, <2>1 DEF SlotTypes
<1> HIDE DEF n, h
<1>13. SlotsOfObservers'
  <2>1. ASSUME NEW q \in held' PROVE mIdx'[q] < Len(mObservers') /\ mObservers'[mIdx'[q] + 1] = q
    <3>1. q \in held /\ q # o
      BY <1>1
    <3>2. mIdx[q] \in Nat /\ mIdx[q] < n /\ mObservers[mIdx[q] + 1] = q
      BY <1>2, <1>5, <3>1 DEF SlotsOfObservers, n
    <3>3. mIdx[q] + 1 \in 1 .. n /\ mIdx[q] + 1 # idx + 1
      BY <1>5, <1>6, <3>1, <3>2
    <3> QED
      BY <1>9, <1>11, <3>1, <3>2, <3>3
  <2>2. ASSUME NEW i \in 1 .. Len(mObservers'), mObservers'[i] # NoObserver
        PROVE  mObservers'[i] \in held' /\ mIdx'[mObservers'[i]] = i - 1
    <3>1. i \in 1 .. n /\ i # idx + 1 /\ mObservers'[i] = mObservers[i]
      BY <1>9, <2>2
    <3>2. mObservers[i] \in held /\ mIdx[mObservers[i]] = i - 1
      BY <1>2, <2>2, <3>1 DEF SlotsOfObservers, n
    <3>3. mObservers[i] # o
      BY <1>6, <3>1, <3>2 DEF idx
    <3> QED
      BY <1>1, <1>11, <3>1, <3>2, <3>3
  <2> QED
    BY <2>1, <2>2 DEF SlotsOfObservers
<1>14. SlotsOfHoles'
  <2>1. ASSUME NEW i \in 1 .. h
        PROVE  /\ mObsHoles[i] \in Nat /\ mObsHoles[i] < n /\ mObservers[mObsHoles[i] + 1] = NoObserver
               /\ mObsHoles[i] # idx /\ mObsHoles[i] + 1 \in 1 .. n
    <3>1. mObsHoles[i] \in Nat /\ mObsHoles[i] < n /\ mObservers[mObsHoles[i] + 1] = NoObserver
      BY <1>2, <1>5 DEF SlotsOfHoles, n, h
    <3>2. mObsHoles[i] # idx
      BY <1>4, <1>6, <3>1
    <3>3. mObsHoles[i] + 1 \in 1 .. n
      BY <1>5, <3>1
    <3> QED
      BY <3>1, <3>2, <3>3
  <2>2. \A i \in 1 .. h + 1 : i \in 1 .. h \/ i = h + 1
    BY <1>5
  <2>3. \A i \in 1 .. h : mObsHoles[i] + 1 # idx + 1
    BY <1>6, <2>1
  <2>4. ASSUME NEW i \in 1 .. Len(mObsHoles')
        PROVE  mObsHoles'[i] < Len(mObservers') /\ mObservers'[mObsHoles'[i] + 1] = NoObserver
    <3>1. CASE i \in 1 .. h
      BY <1>9, <1>10, <2>1, <2>3, <3>1
    <3>2. CASE i = h + 1
      BY <1>6, <1>9, <1>10, <3>2
    <3> QED
      BY <1>10, <2>2, <3>1, <3>2
  <2>5. ASSUME NEW i \in 1 .. Len(mObsHoles'), NEW j \in 1 .. Len(mObsHoles'),
               mObsHoles'[i] = mObsHoles'[j]
        PROVE  i = j
    <3>1. CASE i \in 1 .. h /\ j \in 1 .. h
      BY <1>2, <1>10, <2>5, <3>1 DEF SlotsOfHoles, h
    <3>2. CASE i \in 1 .. h /\ j = h + 1
      BY <1>10, <2>1, <2>5, <3>2
    <3>3. CASE i = h + 1 /\ j \in 1 .. h
      BY <1>10, <2>1, <2>5, <3>3
    <3> QED
      BY <1>10, <2>2, <3>1, <3>2, <3>3
  <2>6. ASSUME NEW k \in 1 .. Len(mObservers'), mObservers'[k] = NoObserver
        PROVE  \E i \in 1 .. Len(mObsHoles') : mObsHoles'[i] = k - 1
    <3>1. CASE k = idx + 1
      <4>1. k - 1 = idx /\ h + 1 \in 1 .. h + 1
        BY <1>5, <1>6, <3>1
      <4> QED
        BY <1>10, <4>1
    <3>2. CASE k # idx + 1
      <4>1. k \in 1 .. n /\ mObservers[k] = NoObserver
        BY <1>9, <2>6, <3>2
      <4>2. PICK i \in 1 .. h : mObsHoles[i] = k - 1
        BY <1>2, <4>1 DEF SlotsOfHoles, n, h
      <4>3. i \in 1 .. h + 1
        BY <1>5
      <4> QED
        BY <1>10, <4>2, <4>3
    <3> QED
      BY <3>1, <3>2
  <2>7. n = Cardinality(held) + h
    BY <1>2 DEF SlotsOfHoles, n, h
  <2>8. Len(mObservers') = Cardinality(held') + Len(mObsHoles')
    BY <1>5, <1>7, <1>9, <1>10, <2>7
  <2> QED
    BY <2>4, <2>5, <2>6, <2>8 DEF SlotsOfHoles
<1> QED
  BY <1>3, <1>12, <1>13, <1>14 DEF BufferIInv

LEMMA PopFrontKeeps ==
  ASSUME BufferIInv, NEW o \in Observers, PopFront(o)
  PROVE  BufferIInv'
<1>1. PICK n \in 1 .. ReadableBytes - mStartIdx[o] :
        /\ ~Lost /\ o \in held /\ mStartIdx' = [mStartIdx EXCEPT ![o] = @ + n]
        /\ UNCHANGED <<buffer, slots, stream, arrived>>
  BY DEF PopFront
<1>2. SlotTypes /\ SlotsOfObservers /\ SlotsOfHoles
  BY <1>1, NotLost
<1>3. UNCHANGED <<buffer, mObservers, mObsHoles, mIdx, held, stream, arrived>>
  BY <1>1 DEF slots
<1>4. Places' /\ LastArrived'
  BY <1>1, BufferStays
<1>5. SlotTypes'
  BY <1>1, <1>2, <1>3 DEF SlotTypes
<1> QED
  BY <1>2, <1>3, <1>4, <1>5 DEF BufferIInv, SlotsOfObservers, SlotsOfHoles

LEMMA DropFrontKeeps ==
  ASSUME BufferIInv, DropFront
  PROVE  BufferIInv'
<1>1. PICK n \in 0 .. ReadableBytes :
        /\ ~Lost
        /\ mReadIdx' = IF n = ReadableBytes THEN 0 ELSE mReadIdx + n
        /\ mWriteIdx' = IF n = ReadableBytes THEN 0 ELSE mWriteIdx
        /\ UNCHANGED <<mReadBuf, slots, mStartIdx, stream, arrived>>
  BY DEF DropFront
<1>2. /\ Places /\ LastArrived /\ SlotTypes /\ SlotsOfObservers /\ SlotsOfHoles
      /\ mReadIdx \in Nat /\ mWriteIdx \in Nat /\ ReadableBytes \in Nat
  BY <1>1, NotLost
<1>3. UNCHANGED <<mReadBuf, mObservers, mObsHoles, mIdx, held, mStartIdx, stream, arrived>>
  BY <1>1 DEF slots
<1>4. SlotTypes' /\ SlotsOfObservers' /\ SlotsOfHoles'
  BY <1>2, <1>3 DEF SlotTypes, SlotsOfObservers, SlotsOfHoles
<1>5. arrived \in Nat /\ Sound(mReadBuf, Value) /\ mReadBuf.size \in Nat /\ mWriteIdx <= mReadBuf.size
  BY <1>2, StreamFacts, SoundFacts DEF Places
<1>6. CASE n = ReadableBytes
  <2>1. mReadIdx' = 0 /\ mWriteIdx' = 0
    BY <1>1, <1>6
  <2>2. Places'
    BY <1>2, <1>3, <1>5, <2>1 DEF Places
  <2>3. ReadableBytes' = 0 /\ \A p \in mReadIdx' .. mWriteIdx' - 1 : FALSE
    BY <2>1 DEF ReadableBytes
  <2>4. LastArrived'
    BY <1>3, <1>5, <2>3 DEF LastArrived
  <2> QED
    BY <1>4, <2>2, <2>4 DEF BufferIInv
<1>7. CASE n # ReadableBytes
  <2>1. mReadIdx' = mReadIdx + n /\ mWriteIdx' = mWriteIdx
    BY <1>1, <1>7
  <2>2. Places'
    BY <1>2, <1>3, <1>5, <2>1 DEF Places
  <2>3. ReadableBytes' <= arrived'
    BY <1>2, <1>3, <1>5, <2>1 DEF LastArrived, ReadableBytes
  <2>4. \A p \in mReadIdx' .. mWriteIdx' - 1 : p \in mReadIdx .. mWriteIdx - 1
    BY <1>2, <2>1
  <2>5. LastArrived'
    BY <1>2, <1>3, <2>1, <2>3, <2>4 DEF LastArrived
  <2> QED
    BY <1>4, <2>2, <2>5 DEF BufferIInv
<1> QED
  BY <1>6, <1>7

LEMMA BufferInitInv ==
  BufferInit => BufferIInv
<1> SUFFICES ASSUME BufferInit PROVE BufferIInv
  OBVIOUS
<1>1. /\ mReadBuf = OfSize(InitialSize) /\ mReadIdx = 0 /\ mWriteIdx = 0
      /\ mObservers = << >> /\ mObsHoles = << >> /\ held = {}
      /\ mStartIdx = [o \in Observers |-> 0] /\ mIdx = [o \in Observers |-> 0]
      /\ stream \in Streams /\ arrived = 0
  BY DEF BufferInit
<1>2. Sound(mReadBuf, Value) /\ mReadBuf.size \in Nat
  <2>1. PICK c : c = Doubled(4, InitialSize)
    OBVIOUS
  <2>2. InitialSize \in Nat /\ 4 \in Nat \ {0}
    BY InputBufferAssumption
  <2>3. c \in Nat /\ c >= InitialSize
    BY <2>1, <2>2, DoubledFacts
  <2>4. Junk \in Value
    BY DEF Value
  <2>5. Sound(Array(c, InitialSize), Value) /\ Array(c, InitialSize).size = InitialSize
    BY <2>2, <2>3, <2>4, ArrayFacts
  <2> QED
    BY <1>1, <2>1, <2>2, <2>5 DEF OfSize
<1>3. Places
  BY <1>1, <1>2, StreamFacts DEF Places
<1>4. LastArrived
  BY <1>1 DEF LastArrived, ReadableBytes
<1>5. IsFiniteSet(held) /\ Cardinality(held) = 0
  BY <1>1, FS_EmptySet
<1>6. Len(mObservers) = 0 /\ Len(mObsHoles) = 0
  BY <1>1
<1>7. SlotTypes
  BY <1>1, <1>5 DEF SlotTypes
<1>8. SlotsOfObservers /\ SlotsOfHoles
  BY <1>1, <1>5, <1>6 DEF SlotsOfObservers, SlotsOfHoles
<1> QED
  BY <1>3, <1>4, <1>7, <1>8 DEF BufferIInv

LEMMA BufferStepInv ==
  BufferIInv /\ [BufferNext]_bufferVars => BufferIInv'
<1> SUFFICES ASSUME BufferIInv, [BufferNext]_bufferVars PROVE BufferIInv'
  OBVIOUS
<1>1. CASE Read
  BY <1>1, ReadKeeps
<1>2. ASSUME NEW o \in Observers, CreateObserver(o) PROVE BufferIInv'
  BY <1>2, CreateKeeps
<1>3. ASSUME NEW o \in Observers, Release(o) PROVE BufferIInv'
  BY <1>3, SlotReleaseKeeps
<1>4. ASSUME NEW o \in Observers, PopFront(o) PROVE BufferIInv'
  BY <1>4, PopFrontKeeps
<1>5. CASE DropFront
  BY <1>5, DropFrontKeeps
<1>6. CASE UNCHANGED bufferVars
  <2>1. /\ UNCHANGED <<mReadBuf, mReadIdx, mWriteIdx, mObservers, mObsHoles, mIdx, held>>
        /\ UNCHANGED <<mStartIdx, stream, arrived>>
    BY <1>6 DEF bufferVars, buffer, slots
  <2>2. Places' /\ SlotTypes' /\ SlotsOfObservers' /\ SlotsOfHoles'
    BY <2>1 DEF BufferIInv, Places, SlotTypes, SlotsOfObservers, SlotsOfHoles
  <2>3. Lost' \/ LastArrived'
    BY <2>1 DEF BufferIInv, Lost, LastArrived, ReadableBytes
  <2> QED
    BY <2>2, <2>3 DEF BufferIInv
<1> QED
  BY <1>1, <1>2, <1>3, <1>4, <1>5, <1>6 DEF BufferNext

(* What keeps mReadIdx from passing mWriteIdx: someone who observes. *)
ReadBehindWrite == held # {} => mReadIdx <= mWriteIdx

LEMMA OrderStep ==
  BufferIInv /\ ReadBehindWrite /\ [BufferNext]_bufferVars => ReadBehindWrite'
<1> SUFFICES ASSUME BufferIInv, ReadBehindWrite, [BufferNext]_bufferVars, held' # {}
             PROVE  mReadIdx' <= mWriteIdx'
  BY DEF ReadBehindWrite
<1>1. CASE Read
  <2>1. PICK n, t \in Nat :
          /\ mReadIdx' = mReadIdx + t /\ mWriteIdx' = mWriteIdx + n
          /\ held # {} => t <= ReadableBytes
          /\ UNCHANGED <<slots, stream>>
    BY <1>1, ReadMoves
  <2>2. ~Lost
    BY <1>1 DEF Read
  <2>3. mReadIdx \in Nat /\ mWriteIdx \in Nat
    BY <2>2, NotLost
  <2>4. t <= ReadableBytes
    BY <2>1 DEF slots
  <2> QED
    BY <2>1, <2>3, <2>4 DEF ReadableBytes
<1>2. ASSUME NEW o \in Observers, CreateObserver(o) \/ Release(o) \/ PopFront(o)
      PROVE  mReadIdx' <= mWriteIdx'
  <2>1. ~Lost /\ UNCHANGED buffer
    BY <1>2 DEF CreateObserver, Release, PopFront
  <2>2. mReadIdx <= mWriteIdx
    BY <2>1, NotLost
  <2> QED
    BY <2>1, <2>2 DEF buffer
<1>3. CASE DropFront
  <2>1. PICK n \in 0 .. ReadableBytes :
          /\ ~Lost
          /\ mReadIdx' = IF n = ReadableBytes THEN 0 ELSE mReadIdx + n
          /\ mWriteIdx' = IF n = ReadableBytes THEN 0 ELSE mWriteIdx
    BY <1>3 DEF DropFront
  <2>2. mReadIdx \in Nat /\ mWriteIdx \in Nat
    BY <2>1, NotLost
  <2> QED
    BY <2>1, <2>2 DEF ReadableBytes
<1>4. CASE UNCHANGED bufferVars
  BY <1>4 DEF bufferVars, buffer, slots, ReadBehindWrite
<1> QED
  BY <1>1, <1>2, <1>3, <1>4 DEF BufferNext

LEMMA BufferInvHolds ==
  BufferIInv /\ ReadBehindWrite => BufferInv
<1> SUFFICES ASSUME BufferIInv, ReadBehindWrite PROVE BufferInv
  OBVIOUS
<1>1. Places /\ SlotTypes /\ SlotsOfObservers /\ SlotsOfHoles
  BY DEF BufferIInv
<1>2. 0 <= mReadIdx /\ mWriteIdx <= mReadBuf.size /\ mReadBuf.size <= mReadBuf.cap
  BY <1>1, SoundFacts DEF Places
<1>3. \A o \in held : mObservers[mIdx[o] + 1] = o
  BY <1>1 DEF SlotsOfObservers
<1>4. Watching = held
  BY <1>1, WatchingIsHeld
<1>5. Len(mObservers) = Cardinality(held) + Len(mObsHoles)
  BY <1>1 DEF SlotsOfHoles
<1>6. {mObsHoles[i] : i \in 1 .. Len(mObsHoles)}
        = {i \in 0 .. Len(mObservers) - 1 : mObservers[i + 1] = NoObserver}
  <2>1. Len(mObservers) \in Nat /\ \A i \in 1 .. Len(mObsHoles) : mObsHoles[i] \in Nat
    BY <1>1 DEF SlotTypes
  <2>2. ASSUME NEW i \in 1 .. Len(mObsHoles)
        PROVE  mObsHoles[i] \in 0 .. Len(mObservers) - 1 /\ mObservers[mObsHoles[i] + 1] = NoObserver
    BY <1>1, <2>1 DEF SlotsOfHoles
  <2>3. ASSUME NEW k \in 0 .. Len(mObservers) - 1, mObservers[k + 1] = NoObserver
        PROVE  \E i \in 1 .. Len(mObsHoles) : mObsHoles[i] = k
    <3>1. k + 1 \in 1 .. Len(mObservers) /\ (k + 1) - 1 = k
      BY <2>1
    <3>2. PICK j : j = k + 1
      OBVIOUS
    <3>3. j \in 1 .. Len(mObservers) /\ mObservers[j] = NoObserver /\ j - 1 = k
      BY <2>3, <3>1, <3>2
    <3> QED
      BY <1>1, <3>3 DEF SlotsOfHoles
  <2> QED
    BY <2>2, <2>3
<1> QED
  BY <1>2, <1>3, <1>4, <1>5, <1>6 DEF BufferInv, ReadBehindWrite

(* What is in the buffer arrived last, in the order it arrived, and a slot *)
(* has one observer or is one hole: the inductive invariant of the buffer. *)
THEOREM BufferInvariance ==
  BufferSpec => []BufferIInv
<1> QED
  BY BufferInitInv, BufferStepInv, PTL DEF BufferSpec

(* Each observer is in the slot it will release, and every other slot is   *)
(* in mObsHoles once, whatever is called and whatever arrives, also once   *)
(* the place in the stream is lost.  The indices stay in the storage, and  *)
(* while anyone observes mReadIdx does not pass mWriteIdx: it is when      *)
(* nobody does that it can (HeaderOrder).                                  *)
THEOREM BufferInvAlways ==
  BufferSpec => []BufferInv
<1>1. BufferInit => ReadBehindWrite
  BY DEF BufferInit, ReadBehindWrite
<1> QED
  BY <1>1, BufferInvariance, OrderStep, BufferInvHolds, PTL DEF BufferSpec

-----------------------------------------------------------------------------
(* InputBuffer implements Tee *)

(* The last m of the first a bytes of the stream. *)
LatestOf(a, m) == [k \in 1 .. m |-> stream[a - m + k]]

LEMMA LatestFacts ==
  ASSUME stream \in Streams, NEW a \in 0 .. Len(stream), NEW m \in 0 .. a
  PROVE  /\ LatestOf(a, m) \in Seq(Byte) /\ Len(LatestOf(a, m)) = m
         /\ \A k \in 1 .. m : LatestOf(a, m)[k] = stream[a - m + k]
<1>1. stream \in Seq(Byte) /\ Len(stream) \in Nat /\ \A k \in 1 .. Len(stream) : stream[k] \in Byte
  BY StreamFacts
<1>2. \A k \in 1 .. m : a - m + k \in 1 .. Len(stream)
  BY <1>1
<1>3. LatestOf(a, m) = [k \in 1 .. m |-> stream[a - m + k]]
  BY DEF LatestOf
<1>4. LatestOf(a, m) \in [1 .. m -> Byte] /\ m \in Nat
  BY <1>1, <1>2, <1>3
<1>5. LatestOf(a, m) \in Seq(Byte) /\ Len(LatestOf(a, m)) = m
  <2>1. PICK l : l = LatestOf(a, m)
    OBVIOUS
  <2>2. l \in [1 .. m -> Byte] /\ m \in Nat
    BY <1>4, <2>1
  <2>3. l \in Seq(Byte) /\ Len(l) = m
    BY ONLY <2>2
  <2> QED
    BY <2>1, <2>3
<1> QED
  BY <1>3, <1>5

LEMMA StreamPart ==
  ASSUME stream \in Streams, NEW a \in 0 .. Len(stream), NEW n \in 0 .. Len(stream) - a
  PROVE  /\ SubSeq(stream, a + 1, a + n) \in Seq(Byte) /\ Len(SubSeq(stream, a + 1, a + n)) = n
         /\ \A k \in 1 .. n : SubSeq(stream, a + 1, a + n)[k] = stream[a + k]
<1>1. stream \in Seq(Byte) /\ Len(stream) \in Nat
  BY StreamFacts
<1>2. PICK i : i = a + 1
  OBVIOUS
<1>3. PICK z : z = a + n
  OBVIOUS
<1>4. i \in 1 .. Len(stream) + 1 /\ z \in i - 1 .. Len(stream)
  BY <1>1, <1>2, <1>3
<1>5. /\ SubSeq(stream, i, z) \in Seq(Byte) /\ Len(SubSeq(stream, i, z)) = z - i + 1
      /\ \A k \in 1 .. z - i + 1 : SubSeq(stream, i, z)[k] = stream[i + k - 1]
  BY <1>1, <1>4, SubSeqProperties
<1>6. z - i + 1 = n /\ \A k \in 1 .. n : i + k - 1 = a + k
  BY <1>1, <1>2, <1>3
<1> QED
  BY <1>2, <1>3, <1>5, <1>6

(* What a reader has still to take, when n more bytes arrive... *)
LEMMA LatestGrows ==
  ASSUME stream \in Streams, NEW a \in 0 .. Len(stream), NEW m \in 0 .. a,
         NEW n \in 0 .. Len(stream) - a
  PROVE  LatestOf(a, m) \o SubSeq(stream, a + 1, a + n) = LatestOf(a + n, m + n)
<1>0. Len(stream) \in Nat
  BY StreamFacts
<1> DEFINE l == LatestOf(a, m)
           s == SubSeq(stream, a + 1, a + n)
           r == LatestOf(a + n, m + n)
<1>1. l \in Seq(Byte) /\ Len(l) = m /\ \A k \in 1 .. m : l[k] = stream[a - m + k]
  BY LatestFacts
<1>2. s \in Seq(Byte) /\ Len(s) = n /\ \A k \in 1 .. n : s[k] = stream[a + k]
  BY StreamPart
<1>3. r \in Seq(Byte) /\ Len(r) = m + n /\ \A k \in 1 .. m + n : r[k] = stream[a - m + k]
  <2>1. PICK b : b = a + n
    OBVIOUS
  <2>2. PICK j : j = m + n
    OBVIOUS
  <2>3. b \in 0 .. Len(stream) /\ j \in 0 .. b
    BY <1>0, <2>1, <2>2
  <2>4. /\ LatestOf(b, j) \in Seq(Byte) /\ Len(LatestOf(b, j)) = j
        /\ \A k \in 1 .. j : LatestOf(b, j)[k] = stream[b - j + k]
    BY <2>3, LatestFacts
  <2>5. \A k \in 1 .. j : b - j + k = a - m + k
    BY <1>0, <2>1, <2>2
  <2> QED
    BY <2>1, <2>2, <2>4, <2>5
<1> HIDE DEF l, s, r
<1>4. /\ l \o s \in Seq(Byte) /\ Len(l \o s) = m + n
      /\ \A k \in 1 .. m + n : (l \o s)[k] = IF k <= m THEN l[k] ELSE s[k - m]
  BY ONLY <1>1, <1>2, ConcatProperties
<1>5. ASSUME NEW k \in 1 .. m + n PROVE (l \o s)[k] = r[k]
  <2>1. CASE k <= m
    <3>1. k \in 1 .. m
      BY <2>1
    <3> QED
      BY <1>1, <1>3, <1>4, <2>1, <3>1
  <2>2. CASE ~(k <= m)
    <3>1. PICK j : j = k - m
      OBVIOUS
    <3>2. j \in 1 .. n /\ a + j = a - m + k
      BY <1>0, <2>2, <3>1
    <3>3. (l \o s)[k] = s[j]
      BY ONLY <1>4, <2>2, <3>1, k \in 1 .. m + n
    <3> QED
      BY ONLY <1>2, <1>3, <3>2, <3>3, k \in 1 .. m + n
  <2> QED
    BY <2>1, <2>2
<1>6. l \o s = r
  BY <1>3, <1>4, <1>5, SeqEqual
<1> QED
  BY <1>6 DEF l, s, r

(* ... and when it takes n of them. *)
LEMMA LatestShrinks ==
  ASSUME stream \in Streams, NEW a \in 0 .. Len(stream), NEW m \in 0 .. a, NEW n \in 0 .. m
  PROVE  T!Without(LatestOf(a, m), n) = LatestOf(a, m - n)
<1>0. Len(stream) \in Nat
  BY StreamFacts
<1> DEFINE l == LatestOf(a, m)
           w == T!Without(l, n)
           r == LatestOf(a, m - n)
<1>1. l \in Seq(Byte) /\ Len(l) = m /\ \A k \in 1 .. m : l[k] = stream[a - m + k]
  BY LatestFacts
<1>2. r \in Seq(Byte) /\ Len(r) = m - n /\ \A k \in 1 .. m - n : r[k] = stream[a - m + n + k]
  <2>1. PICK j : j = m - n
    OBVIOUS
  <2>2. j \in 0 .. a
    BY <1>0, <2>1
  <2>3. /\ LatestOf(a, j) \in Seq(Byte) /\ Len(LatestOf(a, j)) = j
        /\ \A k \in 1 .. j : LatestOf(a, j)[k] = stream[a - j + k]
    BY <2>2, LatestFacts
  <2>4. \A k \in 1 .. j : a - j + k = a - m + n + k
    BY <1>0, <2>1
  <2> QED
    BY <2>1, <2>3, <2>4
<1>3. w = SubSeq(l, n + 1, Len(l))
  BY DEF T!Without
<1> HIDE DEF l, w, r
<1>4. w \in Seq(Byte) /\ Len(w) = m - n /\ \A k \in 1 .. m - n : w[k] = l[n + k]
  <2>1. n \in 0 .. Len(l)
    BY <1>1
  <2> QED
    BY <1>1, <1>3, <2>1, Parts
<1>5. ASSUME NEW k \in 1 .. m - n PROVE w[k] = r[k]
  <2>1. PICK j : j = n + k
    OBVIOUS
  <2>2. j \in 1 .. m /\ a - m + j = a - m + n + k
    BY <1>0, <2>1
  <2>3. w[k] = l[j] /\ r[k] = stream[a - m + n + k]
    BY ONLY <1>2, <1>4, <2>1, k \in 1 .. m - n
  <2> QED
    BY ONLY <1>1, <2>2, <2>3
<1>6. w = r
  BY <1>2, <1>4, <1>5, SeqEqual
<1> QED
  BY <1>6 DEF w, l, r

(* What the refinement mapping says an observer has still to take. *)
Unread == [o \in Observers |-> IF o \in held /\ ~Lost THEN View(o) ELSE << >>]
Owed == [o \in Observers |->
           IF o \in held THEN LatestOf(arrived, ReadableBytes - mStartIdx[o]) ELSE << >>]

LEMMA UnreadIsOwed ==
  BufferIInv => IF Lost THEN Unread = [o \in Observers |-> << >>] ELSE Unread = Owed
<1> SUFFICES ASSUME BufferIInv
             PROVE IF Lost THEN Unread = [o \in Observers |-> << >>] ELSE Unread = Owed
  OBVIOUS
<1>1. CASE Lost
  BY <1>1 DEF Unread
<1>2. CASE ~Lost
  <2>1. /\ Places /\ LastArrived
        /\ mReadIdx \in Nat /\ mWriteIdx \in Nat /\ mReadIdx <= mWriteIdx /\ ReadableBytes \in Nat
        /\ \A o \in held : mStartIdx[o] \in Nat /\ mStartIdx[o] <= ReadableBytes
    BY <1>2, NotLost
  <2>2. ASSUME NEW o \in held PROVE View(o) = LatestOf(arrived, ReadableBytes - mStartIdx[o])
    <3>1. PICK m : m = ReadableBytes - mStartIdx[o]
      OBVIOUS
    <3>2. PICK from : from = mReadIdx + mStartIdx[o]
      OBVIOUS
    <3>3. mWriteIdx - from = m
      BY <2>1, <3>1, <3>2 DEF ReadableBytes
    <3>4. View(o) = [k \in 1 .. m |-> Cell(mReadBuf, from + k - 1)]
      BY <3>2, <3>3 DEF View, Bytes
    <3>5. ASSUME NEW k \in 1 .. m PROVE Cell(mReadBuf, from + k - 1) = stream[arrived - m + k]
      <4>1. PICK p : p = from + k - 1
        OBVIOUS
      <4>2. arrived \in Nat /\ m \in Nat /\ from \in Nat
        BY <2>1, <3>1, <3>2, StreamFacts DEF Places
      <4>3. p \in mReadIdx .. mWriteIdx - 1 /\ arrived - mWriteIdx + p + 1 = arrived - m + k
        BY <2>1, <3>2, <3>3, <4>1, <4>2
      <4>4. Cell(mReadBuf, p) = mReadBuf.mem[p]
        <5>1. /\ mReadBuf.cap \in Nat /\ mReadBuf.size \in Nat /\ mReadBuf.size <= mReadBuf.cap
              /\ Cells(mReadBuf) = 0 .. mReadBuf.cap - 1 /\ mWriteIdx <= mReadBuf.size
          BY <2>1, SoundFacts DEF Places
        <5>2. p \in 0 .. mReadBuf.cap - 1
          BY <2>1, <4>3, <5>1
        <5> QED
          BY <5>1, <5>2 DEF Cell
      <4> QED
        BY <2>1, <4>1, <4>3, <4>4 DEF LastArrived
    <3> QED
      BY <3>1, <3>4, <3>5 DEF LatestOf
  <2> QED
    BY <1>2, <2>2 DEF Unread, Owed
<1> QED
  BY <1>1, <1>2

LEMMA ReadImplements ==
  ASSUME BufferIInv, BufferIInv', Read,
         IF Lost' THEN Unread' = [o \in Observers |-> << >>] ELSE Unread' = Owed'
  PROVE  (T!Next \/ UNCHANGED T!vars) /\ (Lost' => Loses)
<1>1. PICK n, t \in Nat :
        /\ arrived + n <= Len(stream) /\ arrived' = arrived + n
        /\ mReadIdx' = mReadIdx + t /\ mWriteIdx' = mWriteIdx + n
        /\ \A o \in held : t <= mStartIdx[o] /\ mStartIdx'[o] = mStartIdx[o] - t
        /\ held # {} => t <= ReadableBytes
        /\ UNCHANGED <<slots, stream>>
  BY ReadMoves
<1>2. /\ ~Lost /\ stream \in Streams /\ arrived \in 0 .. Len(stream) /\ Len(stream) \in Nat
      /\ mReadIdx \in Nat /\ mWriteIdx \in Nat /\ ReadableBytes \in Nat /\ ReadableBytes <= arrived
      /\ held \subseteq Observers
      /\ \A o \in held : mStartIdx[o] \in Nat /\ mStartIdx[o] <= ReadableBytes
  <2>1. ~Lost
    BY DEF Read
  <2> QED
    BY <2>1, NotLost, StreamFacts DEF Places, LastArrived, SlotTypes
<1>3. held' = held /\ stream' = stream
  BY <1>1 DEF slots
<1>4. ReadableBytes' = ReadableBytes + n - t
  BY <1>1, <1>2 DEF ReadableBytes
<1>5. Unread = Owed
  BY <1>2, UnreadIsOwed
<1>6. CASE Lost'
  <2>1. held = {}
    <3>1. ASSUME held # {} PROVE FALSE
      <4>1. t <= ReadableBytes
        BY <1>1, <3>1
      <4>2. ASSUME NEW o \in held' PROVE ~(mStartIdx'[o] > ReadableBytes')
        <5>1. /\ mStartIdx'[o] = mStartIdx[o] - t
              /\ mStartIdx[o] \in Nat /\ mStartIdx[o] <= ReadableBytes
          BY <1>1, <1>2, <1>3
        <5>2. n \in Nat /\ t \in Nat /\ ReadableBytes \in Nat
          BY <1>2
        <5> QED
          BY ONLY <1>4, <5>1, <5>2
      <4>3. ~(ReadableBytes' < 0)
        BY <1>2, <1>4, <4>1
      <4> QED
        BY <1>6, <4>2, <4>3 DEF Lost
    <3> QED
      BY <3>1
  <2>2. arrived' \in arrived .. Len(stream)
    BY <1>1, <1>2
  <2>3. T!Lose
    BY <1>3, <1>6, <2>1, <2>2 DEF T!Lose, Unread
  <2> QED
    BY <1>2, <2>1, <2>3 DEF T!Next, Loses
<1>7. CASE ~Lost'
  <2>1. Unread' = Owed'
    BY <1>7
  <2>2. ASSUME NEW o \in held
        PROVE  Owed'[o] = Owed[o] \o SubSeq(stream, arrived + 1, arrived + n)
    <3>1. PICK m : m = ReadableBytes - mStartIdx[o]
      OBVIOUS
    <3>2. m \in 0 .. arrived /\ n \in 0 .. Len(stream) - arrived
      BY <1>1, <1>2, <3>1
    <3>3. ReadableBytes' - mStartIdx'[o] = m + n
      BY <1>1, <1>2, <1>4, <3>1
    <3>4. Owed[o] = LatestOf(arrived, m)
      BY <1>2, <3>1 DEF Owed
    <3>5. Owed'[o] = LatestOf(arrived + n, m + n)
      BY <1>1, <1>2, <1>3, <3>3 DEF Owed, LatestOf
    <3>6. LatestOf(arrived, m) \o SubSeq(stream, arrived + 1, arrived + n) = LatestOf(arrived + n, m + n)
      BY <1>2, <3>2, LatestGrows
    <3> QED
      BY <3>4, <3>5, <3>6
  <2>3. Owed' = [o \in Observers |-> IF o \in held
                   THEN Owed[o] \o SubSeq(stream, arrived + 1, arrived + n) ELSE << >>]
    <3>1. Owed' = [o \in Observers |-> IF o \in held THEN Owed'[o] ELSE << >>]
      BY <1>3 DEF Owed
    <3> QED
      BY <2>2, <3>1
  <2>4. Lost' = Lost
    BY <1>2, <1>7 DEF Lost
  <2>5. CASE n = 0
    <3>1. arrived' = arrived
      BY <1>1, <1>2, <2>5
    <3>2. Owed' = Owed
      <4>1. ASSUME NEW o \in held PROVE Owed'[o] = Owed[o]
        <5>1. ReadableBytes' - mStartIdx'[o] = ReadableBytes - mStartIdx[o]
          BY <1>1, <1>2, <1>4, <2>5
        <5> QED
          BY <1>2, <1>3, <3>1, <5>1 DEF Owed, LatestOf
      <4>2. Owed' = [o \in Observers |-> IF o \in held THEN Owed'[o] ELSE << >>]
        BY <1>3 DEF Owed
      <4>3. Owed = [o \in Observers |-> IF o \in held THEN Owed[o] ELSE << >>]
        BY DEF Owed
      <4> QED
        BY <4>1, <4>2, <4>3
    <3>3. Unread' = Unread
      BY <1>5, <2>1, <3>2
    <3> QED
      BY <1>3, <1>7, <2>4, <3>1, <3>3 DEF T!vars, Unread
  <2>6. CASE n # 0
    <3>1. n \in 1 .. Len(stream)
      BY <1>1, <1>2, <2>6
    <3>2. Unread' = [o \in Observers |-> IF o \in held
                       THEN Unread[o] \o SubSeq(stream, arrived + 1, arrived + n) ELSE << >>]
      BY <1>5, <2>1, <2>3
    <3>3. T!Arrive(n)
      BY <1>1, <1>3, <2>4, <3>2 DEF T!Arrive, Unread
    <3> QED
      BY <1>2, <1>7, <2>4, <3>1, <3>3 DEF T!Next
  <2> QED
    BY <1>7, <2>5, <2>6
<1> QED
  BY <1>6, <1>7

LEMMA CreateImplements ==
  ASSUME BufferIInv, BufferIInv', NEW o \in Observers, CreateObserver(o),
         IF Lost' THEN Unread' = [q \in Observers |-> << >>] ELSE Unread' = Owed'
  PROVE  T!Next /\ ~Lost'
<1>1. /\ ~Lost /\ o \notin held /\ UNCHANGED <<buffer, stream, arrived>>
      /\ mStartIdx' = [mStartIdx EXCEPT ![o] = 0] /\ held' = held \cup {o}
  BY DEF CreateObserver
<1>2. /\ stream \in Streams /\ arrived \in 0 .. Len(stream) /\ Len(stream) \in Nat
      /\ ReadableBytes \in Nat /\ ReadableBytes <= arrived
      /\ held \subseteq Observers /\ mStartIdx \in [Observers -> Nat]
      /\ \A q \in held : mStartIdx[q] \in Nat /\ mStartIdx[q] <= ReadableBytes
  BY <1>1, NotLost, StreamFacts DEF Places, LastArrived, SlotTypes
<1>3. ReadableBytes' = ReadableBytes /\ stream' = stream /\ arrived' = arrived
  BY <1>1 DEF ReadableBytes, buffer
<1>4. mStartIdx'[o] = 0 /\ \A q \in held : mStartIdx'[q] = mStartIdx[q]
  BY <1>1, <1>2
<1>5. ~Lost'
  BY <1>1, <1>2, <1>3, <1>4 DEF Lost
<1>6. Unread = Owed /\ Unread' = Owed'
  BY <1>1, <1>5, UnreadIsOwed
<1>7. SubSeq(stream, arrived - ReadableBytes + 1, arrived) = LatestOf(arrived, ReadableBytes)
  <2>1. PICK m : m = ReadableBytes
    OBVIOUS
  <2>2. PICK a : a = arrived - m
    OBVIOUS
  <2>3. a \in 0 .. Len(stream) /\ m \in 0 .. Len(stream) - a /\ m \in 0 .. arrived /\ a + m = arrived
    BY <1>2, <2>1, <2>2
  <2>4. /\ SubSeq(stream, a + 1, a + m) \in Seq(Byte) /\ Len(SubSeq(stream, a + 1, a + m)) = m
        /\ \A k \in 1 .. m : SubSeq(stream, a + 1, a + m)[k] = stream[a + k]
    BY <1>2, <2>3, StreamPart
  <2>5. /\ LatestOf(arrived, m) \in Seq(Byte) /\ Len(LatestOf(arrived, m)) = m
        /\ \A k \in 1 .. m : LatestOf(arrived, m)[k] = stream[arrived - m + k]
    BY <1>2, <2>3, LatestFacts
  <2>6. SubSeq(stream, a + 1, a + m) = LatestOf(arrived, m)
    BY <2>2, <2>4, <2>5, SeqEqual
  <2> QED
    BY <2>1, <2>2, <2>3, <2>6
<1>8. Owed' = [Owed EXCEPT ![o] = SubSeq(stream, arrived - ReadableBytes + 1, arrived)]
  <2>1. Owed' = [q \in Observers |-> IF q \in held' THEN LatestOf(arrived, ReadableBytes - mStartIdx'[q])
                                     ELSE << >>]
    BY <1>3 DEF Owed, LatestOf
  <2>2. [Owed EXCEPT ![o] = LatestOf(arrived, ReadableBytes)]
          = [q \in Observers |-> IF q = o THEN LatestOf(arrived, ReadableBytes) ELSE Owed[q]]
    BY DEF Owed
  <2>3. ASSUME NEW q \in Observers
        PROVE  (IF q \in held' THEN LatestOf(arrived, ReadableBytes - mStartIdx'[q]) ELSE << >>)
                 = IF q = o THEN LatestOf(arrived, ReadableBytes) ELSE Owed[q]
    <3>1. CASE q = o
      <4>1. ReadableBytes - mStartIdx'[q] = ReadableBytes
        BY <1>2, <1>4, <3>1
      <4> QED
        BY <1>1, <3>1, <4>1
    <3>2. CASE q # o
      BY <1>1, <1>4, <3>2 DEF Owed
    <3> QED
      BY <3>1, <3>2
  <2> QED
    BY <1>7, <2>1, <2>2, <2>3
<1>9. \A q \in held : Len(Unread[q]) <= ReadableBytes
  <2>1. ASSUME NEW q \in held PROVE Len(Unread[q]) <= ReadableBytes
    <3>1. PICK m : m = ReadableBytes - mStartIdx[q]
      OBVIOUS
    <3>2. m \in 0 .. arrived /\ m <= ReadableBytes
      BY <1>2, <3>1
    <3>3. Unread[q] = LatestOf(arrived, m)
      BY <1>2, <1>6, <3>1 DEF Owed
    <3> QED
      BY <1>2, <3>2, <3>3, LatestFacts
  <2> QED
    BY <2>1
<1>10. Lost' = Lost
  BY <1>1, <1>5 DEF Lost
<1>11. PICK k : k = ReadableBytes
  OBVIOUS
<1>12. k \in 0 .. arrived
  BY <1>2, <1>11
<1>13. T!Join(o, k)
  BY <1>1, <1>3, <1>6, <1>8, <1>9, <1>10, <1>11 DEF T!Join, Unread
<1> QED
  BY <1>1, <1>5, <1>12, <1>13 DEF T!Next

LEMMA ReleaseImplements ==
  ASSUME BufferIInv, BufferIInv', NEW o \in Observers, Release(o),
         IF Lost' THEN Unread' = [q \in Observers |-> << >>] ELSE Unread' = Owed'
  PROVE  T!Next /\ ~Lost'
<1>1. /\ ~Lost /\ o \in held /\ UNCHANGED <<buffer, stream, arrived>>
      /\ mStartIdx' = [mStartIdx EXCEPT ![o] = 0] /\ held' = held \ {o}
  BY DEF Release
<1>2. /\ held \subseteq Observers /\ mStartIdx \in [Observers -> Nat] /\ ReadableBytes \in Nat
      /\ \A q \in held : mStartIdx[q] \in Nat /\ mStartIdx[q] <= ReadableBytes
  BY <1>1, NotLost DEF SlotTypes
<1>3. ReadableBytes' = ReadableBytes /\ stream' = stream /\ arrived' = arrived
  BY <1>1 DEF ReadableBytes, buffer
<1>4. \A q \in held' : mStartIdx'[q] = mStartIdx[q]
  BY <1>1, <1>2
<1>5. ~Lost'
  BY <1>1, <1>2, <1>3, <1>4 DEF Lost
<1>6. Unread = Owed /\ Unread' = Owed'
  BY <1>1, <1>5, UnreadIsOwed
<1>7. Owed' = [Owed EXCEPT ![o] = << >>]
  <2>1. Owed' = [q \in Observers |-> IF q \in held' THEN LatestOf(arrived, ReadableBytes - mStartIdx'[q])
                                     ELSE << >>]
    BY <1>3 DEF Owed, LatestOf
  <2>2. [Owed EXCEPT ![o] = << >>] = [q \in Observers |-> IF q = o THEN << >> ELSE Owed[q]]
    BY DEF Owed
  <2> QED
    BY <1>1, <1>4, <2>1, <2>2 DEF Owed
<1>8. Lost' = Lost
  BY <1>1, <1>5 DEF Lost
<1>9. T!Leave(o)
  BY <1>1, <1>3, <1>6, <1>7, <1>8 DEF T!Leave, Unread
<1> QED
  BY <1>1, <1>5, <1>9 DEF T!Next

LEMMA PopFrontImplements ==
  ASSUME BufferIInv, BufferIInv', NEW o \in Observers, PopFront(o),
         IF Lost' THEN Unread' = [q \in Observers |-> << >>] ELSE Unread' = Owed'
  PROVE  T!Next /\ ~Lost'
<1>1. PICK n \in 1 .. ReadableBytes - mStartIdx[o] :
        /\ ~Lost /\ o \in held /\ mStartIdx' = [mStartIdx EXCEPT ![o] = @ + n]
        /\ UNCHANGED <<buffer, slots, stream, arrived>>
  BY DEF PopFront
<1>2. /\ stream \in Streams /\ arrived \in 0 .. Len(stream) /\ Len(stream) \in Nat
      /\ ReadableBytes \in Nat /\ ReadableBytes <= arrived
      /\ held \subseteq Observers /\ mStartIdx \in [Observers -> Nat]
      /\ \A q \in held : mStartIdx[q] \in Nat /\ mStartIdx[q] <= ReadableBytes
  BY <1>1, NotLost, StreamFacts DEF Places, LastArrived, SlotTypes
<1>3. ReadableBytes' = ReadableBytes /\ stream' = stream /\ arrived' = arrived /\ held' = held
  BY <1>1 DEF ReadableBytes, buffer, slots
<1>4. mStartIdx'[o] = mStartIdx[o] + n /\ \A q \in held : q # o => mStartIdx'[q] = mStartIdx[q]
  BY <1>1, <1>2
<1>5. ~Lost'
  <2>1. \A q \in held : ~(mStartIdx'[q] > ReadableBytes)
    BY <1>1, <1>2, <1>4
  <2> QED
    BY <1>2, <1>3, <2>1 DEF Lost
<1>6. Unread = Owed /\ Unread' = Owed'
  BY <1>1, <1>5, UnreadIsOwed
<1>7. PICK m : m = ReadableBytes - mStartIdx[o]
  OBVIOUS
<1>8. m \in 0 .. arrived /\ n \in 0 .. m /\ n \in 1 .. arrived
  BY <1>1, <1>2, <1>7
<1>9. Owed[o] = LatestOf(arrived, m) /\ Len(Owed[o]) = m
  <2>1. Owed[o] = LatestOf(arrived, m)
    BY <1>1, <1>7 DEF Owed
  <2> QED
    BY <1>2, <1>8, <2>1, LatestFacts
<1>10. Owed' = [Owed EXCEPT ![o] = T!Without(@, n)]
  <2>1. Owed' = [q \in Observers |-> IF q \in held THEN LatestOf(arrived, ReadableBytes - mStartIdx'[q])
                                     ELSE << >>]
    BY <1>3 DEF Owed, LatestOf
  <2>2. [Owed EXCEPT ![o] = T!Without(@, n)]
          = [q \in Observers |-> IF q = o THEN T!Without(Owed[o], n) ELSE Owed[q]]
    BY DEF Owed
  <2>3. T!Without(Owed[o], n) = LatestOf(arrived, m - n)
    BY <1>2, <1>8, <1>9, LatestShrinks
  <2>4. ReadableBytes - mStartIdx'[o] = m - n
    BY <1>1, <1>2, <1>4, <1>7
  <2> QED
    BY <1>1, <1>4, <2>1, <2>2, <2>3, <2>4 DEF Owed
<1>11. Lost' = Lost
  BY <1>1, <1>5 DEF Lost
<1>12. n <= Len(Unread[o])
  BY <1>6, <1>8, <1>9
<1>13. T!Take(o, n)
  BY <1>1, <1>3, <1>6, <1>10, <1>11, <1>12 DEF T!Take, Unread
<1> QED
  BY <1>1, <1>5, <1>8, <1>13 DEF T!Next

LEMMA DropFrontImplements ==
  ASSUME BufferIInv, BufferIInv', DropFront,
         IF Lost' THEN Unread' = [q \in Observers |-> << >>] ELSE Unread' = Owed'
  PROVE  T!Next \/ UNCHANGED T!vars
<1>1. PICK n \in 0 .. ReadableBytes :
        /\ ~Lost
        /\ mReadIdx' = IF n = ReadableBytes THEN 0 ELSE mReadIdx + n
        /\ mWriteIdx' = IF n = ReadableBytes THEN 0 ELSE mWriteIdx
        /\ UNCHANGED <<mReadBuf, slots, mStartIdx, stream, arrived>>
  BY DEF DropFront
<1>2. /\ stream \in Streams /\ arrived \in 0 .. Len(stream) /\ Len(stream) \in Nat
      /\ ReadableBytes \in Nat /\ ReadableBytes <= arrived /\ mReadIdx \in Nat /\ mWriteIdx \in Nat
      /\ held \subseteq Observers
      /\ \A q \in held : mStartIdx[q] \in Nat /\ mStartIdx[q] <= ReadableBytes
  BY <1>1, NotLost, StreamFacts DEF Places, LastArrived, SlotTypes
<1>3. stream' = stream /\ arrived' = arrived /\ held' = held /\ mStartIdx' = mStartIdx
  BY <1>1 DEF slots
<1>4. ReadableBytes' = ReadableBytes - n
  <2>1. CASE n = ReadableBytes
    BY <1>1, <1>2, <2>1 DEF ReadableBytes
  <2>2. CASE n # ReadableBytes
    BY <1>1, <1>2, <2>2 DEF ReadableBytes
  <2> QED
    BY <2>1, <2>2
<1>5. CASE Lost'
  <2>1. arrived' \in arrived .. Len(stream)
    BY <1>2, <1>3
  <2>2. T!Lose
    BY <1>3, <1>5, <2>1 DEF T!Lose, Unread
  <2> QED
    BY <1>1, <2>2 DEF T!Next
<1>6. CASE ~Lost'
  <2>1. Unread = Owed /\ Unread' = Owed'
    BY <1>1, <1>6, UnreadIsOwed
  <2>2. \A q \in held : mStartIdx[q] <= ReadableBytes - n
    <3>1. \A q \in held : ~(mStartIdx[q] > ReadableBytes - n)
      BY <1>3, <1>4, <1>6 DEF Lost
    <3> QED
      BY <1>2, <3>1
  <2>3. ASSUME NEW q \in held
        PROVE  n <= Len(Owed[q]) /\ Owed'[q] = T!Without(Owed[q], n)
    <3>1. PICK m : m = ReadableBytes - mStartIdx[q]
      OBVIOUS
    <3>2. m \in 0 .. arrived /\ n \in 0 .. m
      BY <1>2, <2>2, <3>1
    <3>3. Owed[q] = LatestOf(arrived, m) /\ Len(LatestOf(arrived, m)) = m
      BY <1>2, <3>1, <3>2, LatestFacts DEF Owed
    <3>4. T!Without(LatestOf(arrived, m), n) = LatestOf(arrived, m - n)
      BY <1>2, <3>2, LatestShrinks
    <3>5. ReadableBytes' - mStartIdx'[q] = m - n
      BY <1>2, <1>3, <1>4, <3>1
    <3>6. Owed'[q] = LatestOf(arrived, m - n)
      BY <1>2, <1>3, <3>5 DEF Owed, LatestOf
    <3> QED
      BY <3>2, <3>3, <3>4, <3>6
  <2>4. Owed' = [q \in Observers |-> IF q \in held THEN T!Without(Owed[q], n) ELSE << >>]
    <3>1. Owed' = [q \in Observers |-> IF q \in held THEN Owed'[q] ELSE << >>]
      BY <1>3 DEF Owed
    <3> QED
      BY <2>3, <3>1
  <2>5. Lost' = Lost
    BY <1>1, <1>6 DEF Lost
  <2>6. T!Skip(n)
    BY <1>3, <2>1, <2>3, <2>4, <2>5 DEF T!Skip, Unread
  <2>7. CASE n # 0
    <3>1. n \in 1 .. Len(stream)
      BY <1>1, <1>2, <2>7
    <3> QED
      BY <1>1, <2>6, <3>1 DEF T!Next
  <2>8. CASE n = 0
    <3>1. ReadableBytes' = ReadableBytes
      BY <1>2, <1>4, <2>8
    <3>2. Owed' = Owed
      BY <1>3, <3>1 DEF Owed, LatestOf
    <3> QED
      BY <1>3, <2>1, <2>5, <3>2 DEF T!vars, Unread
  <2> QED
    BY <2>7, <2>8
<1> QED
  BY <1>5, <1>6

LEMMA BufferStepImplements ==
  BufferIInv /\ BufferIInv' /\ [BufferNext]_bufferVars =>
    [T!Next]_(T!vars) /\ [Lost' => Loses]_bufferVars
<1>1. (BufferIInv => IF Lost THEN Unread = [o \in Observers |-> << >>] ELSE Unread = Owed)'
  BY UnreadIsOwed, PTL
<1> SUFFICES ASSUME BufferIInv, BufferIInv', [BufferNext]_bufferVars
             PROVE  /\ T!Next \/ UNCHANGED T!vars
                    /\ (Lost' => Loses) \/ UNCHANGED bufferVars
  OBVIOUS
<1>2. IF Lost' THEN Unread' = [o \in Observers |-> << >>] ELSE Unread' = Owed'
  BY <1>1
<1>3. CASE Read
  BY <1>2, <1>3, ReadImplements
<1>4. ASSUME NEW o \in Observers, CreateObserver(o) PROVE T!Next /\ ~Lost'
  BY <1>2, <1>4, CreateImplements
<1>5. ASSUME NEW o \in Observers, Release(o) PROVE T!Next /\ ~Lost'
  BY <1>2, <1>5, ReleaseImplements
<1>6. ASSUME NEW o \in Observers, PopFront(o) PROVE T!Next /\ ~Lost'
  BY <1>2, <1>6, PopFrontImplements
<1>7. CASE DropFront
  BY <1>2, <1>7, DropFrontImplements DEF Loses
<1>8. CASE UNCHANGED bufferVars
  <2>1. UNCHANGED <<mReadBuf, mReadIdx, mWriteIdx, held, mStartIdx, stream, arrived>>
    BY <1>8 DEF bufferVars, buffer, slots
  <2>2. Lost' = Lost /\ Unread' = Unread
    BY <2>1 DEF Lost, Unread, View, Bytes, Cell, Cells, ReadableBytes
  <2> QED
    BY <1>8, <2>1, <2>2 DEF T!vars, Unread
<1> QED
  BY <1>3, <1>4, <1>5, <1>6, <1>7, <1>8 DEF BufferNext

LEMMA BufferInitImplements ==
  BufferInit => T!Init
<1> SUFFICES ASSUME BufferInit PROVE T!Init
  OBVIOUS
<1>1. held = {} /\ stream \in Streams /\ arrived = 0 /\ mReadIdx = 0 /\ mWriteIdx = 0
  BY DEF BufferInit
<1>2. ~Lost
  BY <1>1 DEF Lost, ReadableBytes
<1>3. Lost = FALSE
  BY <1>2 DEF Lost
<1> QED
  BY <1>1, <1>2, <1>3 DEF T!Init

(* Every observer sees, byte for byte, what arrived since it began and     *)
(* less what it took, however often InputBuffer trims, grows or spills     *)
(* into mExtraBuf: for every stream, every number of observers and every   *)
(* size of the buffer, until the place in the stream is lost; and only a   *)
(* Read with no observer or a DropFront of the buffer loses it.            *)
THEOREM BufferImplementsTee ==
  BufferSpec => ImplementsTee
<1> QED
  BY BufferInvariance, BufferInitImplements, BufferStepImplements, PTL DEF BufferSpec, ImplementsTee, T!Spec

-----------------------------------------------------------------------------
(* PeekFor *)

LEMMA SameFacts ==
  ASSUME NEW np \in Nat, NEW addr, NEW p, Len(p) = np
  PROVE  /\ Same(addr, p) \in 0 .. np
         /\ Same(addr, p) = np \/ Cell(mReadBuf, addr + Same(addr, p)) # p[Same(addr, p) + 1]
         /\ \A j \in 0 .. Same(addr, p) - 1 : Cell(mReadBuf, addr + j) = p[j + 1]
<1> DEFINE Differs(k) == Cell(mReadBuf, addr + k) # p[k + 1]
           Ends == {k \in 0 .. np : k = np \/ Differs(k)}
<1>1. Ends \in SUBSET Nat /\ np \in Ends
  OBVIOUS
<1>2. PICK k \in Ends : \A j \in Ends : k <= j
  <2> HIDE DEF Ends
  <2> QED
    BY <1>1, HasLeast
<1>3. k \in 0 .. np /\ (k = np \/ Differs(k))
  OBVIOUS
<1>4. \A j \in 0 .. k - 1 : ~Differs(j)
  <2>1. ASSUME NEW j \in 0 .. k - 1 PROVE j \in 0 .. np /\ ~(k <= j)
    BY <1>3
  <2> HIDE DEF Differs
  <2> QED
    BY <1>2, <2>1
<1>5. Same(addr, p) = CHOOSE i \in 0 .. np : (i = np \/ Differs(i)) /\ \A j \in 0 .. i - 1 : ~Differs(j)
  BY DEF Same
<1>6. PICK i : i = Same(addr, p)
  OBVIOUS
<1> HIDE DEF Differs
<1>7. i \in 0 .. np /\ (i = np \/ Differs(i)) /\ \A j \in 0 .. i - 1 : ~Differs(j)
  BY <1>3, <1>4, <1>5, <1>6
<1> QED
  BY <1>6, <1>7 DEF Differs

(* The search, read one address at a time. *)
SearchSteps(search, end, p, cap) ==
  /\ end \in 0 .. cap + Len(p) => search[end] = NotFound
  /\ \A a \in cap .. cap + Len(p) : a # end => search[a] = a
  /\ \A a \in 0 .. cap - 1 : a # end =>
       search[a] = IF Same(a, p) = Len(p) THEN a ELSE search[Skip(a, Same(a, p))]

LEMMA SearchExists ==
  ASSUME NEW end, NEW np \in Nat, NEW p, Len(p) = np, NEW cap \in Nat, mReadBuf.cap = cap,
         NEW begin, end - begin >= np, end - begin \in Int
  PROVE  \E search : /\ SearchSteps(search, end, p, cap)
                     /\ FindString(begin, end, p) = search[begin]
<1> DEFINE N == cap + np
           R == Int
           final(a) == a = end \/ a >= cap \/ Same(a, p) = np
           value == [a \in 0 .. N |-> IF a = end THEN NotFound ELSE a]
           next == [a \in 0 .. N |-> IF final(a) THEN 0 ELSE a + Same(a, p) + 1]
           Body(search) == [addr \in 0 .. N |->
             CASE addr = end -> NotFound
               [] addr # end /\ addr >= cap -> addr
               [] OTHER -> IF Same(addr, p) = np THEN addr
                           ELSE search[Skip(addr, Same(addr, p))]]
<1>1. \A a : Same(a, p) \in 0 .. np
  BY SameFacts
<1>2. N \in Nat /\ value \in [0 .. N -> R] /\ next \in [0 .. N -> Nat]
  <2>1. N \in Nat
    OBVIOUS
  <2>2. value \in [0 .. N -> R]
    BY DEF NotFound
  <2>3. \A a \in 0 .. N : a + Same(a, p) + 1 \in Nat
    BY <1>1
  <2> QED
    BY <2>1, <2>2, <2>3
<1>3. PICK g : GoesUp(g, N, R, value, next)
  <2> HIDE DEF N, R, value, next
  <2> QED
    BY <1>2, GoesUpExists
<1>4. /\ g \in [0 .. N -> R]
      /\ \A a \in 0 .. N : g[a] = IF a < next[a] /\ next[a] <= N THEN g[next[a]] ELSE value[a]
  <2> HIDE DEF N, R, value, next
  <2> QED
    BY <1>3 DEF GoesUp
<1>5. g = Body(g)
  <2>1. ASSUME NEW a \in 0 .. N PROVE g[a] = Body(g)[a]
    <3>1. g[a] = IF a < next[a] /\ next[a] <= N THEN g[next[a]] ELSE value[a]
      BY <1>4
    <3>2. CASE a = end
      <4>1. next[a] = 0 /\ value[a] = NotFound /\ Body(g)[a] = NotFound
        BY <3>2
      <4> QED
        BY <3>1, <4>1
    <3>3. CASE a # end /\ a >= cap
      <4>1. next[a] = 0 /\ value[a] = a /\ Body(g)[a] = a
        BY <3>3
      <4> QED
        BY <3>1, <4>1
    <3>4. CASE a # end /\ ~(a >= cap) /\ Same(a, p) = np
      <4>1. next[a] = 0 /\ value[a] = a /\ Body(g)[a] = a
        BY <3>4
      <4> QED
        BY <3>1, <4>1
    <3>5. CASE a # end /\ ~(a >= cap) /\ Same(a, p) # np
      <4>1. PICK k : k = Same(a, p)
        OBVIOUS
      <4>2. k \in 0 .. np - 1
        BY <1>1, <3>5, <4>1
      <4>3. next[a] = a + k + 1 /\ a < a + k + 1 /\ a + k + 1 <= N
        BY <3>5, <4>1, <4>2
      <4>4. Body(g)[a] = g[a + k + 1]
        BY <3>5, <4>1 DEF Skip
      <4> HIDE DEF next, Body, value, N
      <4> QED
        BY <3>1, <4>3, <4>4
    <3> QED
      BY <3>2, <3>3, <3>4, <3>5
  <2>2. Body(g) = [a \in 0 .. N |-> Body(g)[a]]
    OBVIOUS
  <2>3. g = [a \in 0 .. N |-> g[a]]
    BY <1>4
  <2> HIDE DEF Body, N
  <2> QED
    BY <2>1, <2>2, <2>3
<1>6. PICK search : search = CHOOSE s : s = Body(s)
  OBVIOUS
<1>7. search = Body(search)
  <2> HIDE DEF Body
  <2> QED
    BY <1>5, <1>6
<1>8. FindString(begin, end, p) = search[begin]
  <2>1. ~(end - begin < np)
    OBVIOUS
  <2>2. FindString(begin, end, p) = IF end - begin < np THEN NotFound ELSE search[begin]
    BY <1>6 DEF FindString
  <2> QED
    BY <2>1, <2>2
<1>9. SearchSteps(search, end, p, cap)
  <2>1. \A a \in 0 .. N : search[a] =
          CASE a = end -> NotFound
            [] a # end /\ a >= cap -> a
            [] OTHER -> IF Same(a, p) = np THEN a ELSE search[Skip(a, Same(a, p))]
    <3> DEFINE V(a) == CASE a = end -> NotFound
                         [] a # end /\ a >= cap -> a
                         [] OTHER -> IF Same(a, p) = np THEN a ELSE search[Skip(a, Same(a, p))]
    <3>1. search = [a \in 0 .. N |-> V(a)]
      BY <1>7
    <3> HIDE DEF V
    <3>2. \A a \in 0 .. N : search[a] = V(a)
      BY <3>1
    <3> QED
      BY <3>2 DEF V
  <2>2. end \in 0 .. N => search[end] = NotFound
    BY <2>1
  <2>4. ASSUME NEW a \in cap .. N, a # end PROVE search[a] = a
    <3>1. a \in 0 .. N /\ a >= cap
      OBVIOUS
    <3> QED
      BY <2>1, <2>4, <3>1
  <2>3. ASSUME NEW a \in 0 .. cap - 1, a # end
        PROVE  search[a] = IF Same(a, p) = Len(p) THEN a ELSE search[Skip(a, Same(a, p))]
    <3>1. a \in 0 .. N /\ ~(a >= cap)
      OBVIOUS
    <3> QED
      BY <2>1, <2>3, <3>1
  <2> QED
    BY <2>2, <2>3, <2>4 DEF SearchSteps
<1> QED
  BY <1>8, <1>9

(* The view of an observer, byte by byte. *)
LEMMA ViewFacts ==
  ASSUME NEW o, mReadIdx + mStartIdx[o] \in Nat, mWriteIdx \in Nat,
         mReadIdx + mStartIdx[o] <= mWriteIdx
  PROVE  /\ Len(View(o)) = mWriteIdx - (mReadIdx + mStartIdx[o])
         /\ \A i \in 1 .. mWriteIdx - (mReadIdx + mStartIdx[o]) :
              View(o)[i] = Cell(mReadBuf, mReadIdx + mStartIdx[o] + i - 1)
<1>1. PICK from : from = mReadIdx + mStartIdx[o]
  OBVIOUS
<1>2. PICK n : n = mWriteIdx - from
  OBVIOUS
<1>3. n \in Nat
  BY <1>1, <1>2
<1>4. View(o) = [k \in 1 .. n |-> Cell(mReadBuf, from + k - 1)]
  BY <1>1, <1>2 DEF View, Bytes
<1>5. Len(View(o)) = n
  BY <1>3, <1>4
<1> QED
  BY <1>1, <1>2, <1>4, <1>5

(* Where the pattern stands, all of it agrees. *)
LEMMA StandsIsSame ==
  ASSUME NEW p, NEW np \in Nat, Len(p) = np, NEW a \in Nat,
         \A k \in 1 .. np : Cell(mReadBuf, a + k - 1) = p[k]
  PROVE  Same(a, p) = np
<1>1. PICK k : k = Same(a, p)
  OBVIOUS
<1>2. k \in 0 .. np /\ (k = np \/ Cell(mReadBuf, a + k) # p[k + 1])
  BY <1>1, SameFacts
<1>3. ASSUME k # np PROVE FALSE
  <2>1. PICK j : j = k + 1
    OBVIOUS
  <2>2. j \in 1 .. np /\ a + j - 1 = a + k
    BY <1>2, <1>3, <2>1
  <2>3. Cell(mReadBuf, a + j - 1) = p[j]
    BY <2>2
  <2> QED
    BY <1>2, <1>3, <2>1, <2>2, <2>3
<1> QED
  BY <1>1, <1>3

(* A part of the pattern at i runs into j. *)
Hides(i, j, p) == Same(i, p) # Len(p) /\ j <= i + Same(i, p)

(* What a search from a misses up to end, and what it finds. *)
Right(search, end, p, a) ==
  /\ search[a] \in Int
  /\ \A j \in a .. end - 1 :
       Same(j, p) = Len(p) /\ (search[a] = NotFound \/ j < search[a]) =>
         \E i \in a .. j - 1 : Hides(i, j, p)
  /\ a <= end /\ search[a] # NotFound =>
       \/ Same(search[a], p) = Len(p) /\ search[a] \in a .. end - Len(p)
       \/ \E i \in a .. end - 1 : end - i < Len(p) /\ end <= i + Same(i, p)

LEMMA SearchStepRight ==
  ASSUME NEW search, NEW p, NEW np \in Nat, Len(p) = np, NEW cap \in Nat, NEW end \in 0 .. cap,
         SearchSteps(search, end, p, cap), NEW a \in 0 .. cap + np,
         \A b \in a + 1 .. cap + np : Right(search, end, p, b)
  PROVE  Right(search, end, p, a)
<1>1. PICK k : k = Same(a, p)
  OBVIOUS
<1>2. k \in 0 .. np
  BY <1>1, SameFacts
<1>3. PICK r : r = search[a]
  OBVIOUS
<1>4. CASE a = end
  <2>1. r = NotFound /\ r \in Int
    BY <1>3, <1>4 DEF SearchSteps, NotFound
  <2>2. \A j \in a .. end - 1 : FALSE
    BY <1>4
  <2> QED
    BY <1>3, <2>1, <2>2 DEF Right
<1>5. CASE a # end /\ (a >= cap \/ k = np)
  <2>1. r = a
    <3>1. CASE a >= cap
      BY <1>3, <1>5, <3>1 DEF SearchSteps
    <3>2. CASE ~(a >= cap)
      BY <1>1, <1>3, <1>5, <3>2 DEF SearchSteps
    <3> QED
      BY <3>1, <3>2
  <2>2. r \in Int /\ r # NotFound /\ \A j \in a .. end - 1 : ~(j < r)
    BY <2>1 DEF NotFound
  <2>3. ASSUME a <= end
        PROVE  \/ Same(r, p) = np /\ r \in a .. end - np
               \/ \E i \in a .. end - 1 : end - i < np /\ end <= i + Same(i, p)
    <3>1. a < end /\ k = np
      BY <1>5, <2>3
    <3>2. CASE a + np <= end
      <4>1. a \in a .. end - np
        BY <3>2
      <4> QED
        BY <1>1, <2>1, <3>1, <4>1
    <3>3. CASE ~(a + np <= end)
      <4>1. a \in a .. end - 1 /\ end - a < np /\ end <= a + k
        BY <3>1, <3>3
      <4> QED
        BY <1>1, <4>1
    <3> QED
      BY <3>2, <3>3
  <2> QED
    BY <1>3, <2>2, <2>3 DEF Right
<1>6. CASE a # end /\ ~(a >= cap) /\ k # np
  <2>1. PICK b : b = a + k + 1
    OBVIOUS
  <2>2. b \in a + 1 .. cap + np /\ b \in Int
    BY <1>2, <1>6, <2>1
  <2>3. search[b] = r
    <3>1. search[a] = search[Skip(a, Same(a, p))]
      BY <1>1, <1>6 DEF SearchSteps
    <3> QED
      BY <1>1, <1>3, <2>1, <3>1 DEF Skip
  <2>4. /\ r \in Int
        /\ \A j \in b .. end - 1 :
             Same(j, p) = np /\ (r = NotFound \/ j < r) => \E i \in b .. j - 1 : Hides(i, j, p)
        /\ b <= end /\ r # NotFound =>
             \/ Same(r, p) = np /\ r \in b .. end - np
             \/ \E i \in b .. end - 1 : end - i < np /\ end <= i + Same(i, p)
    BY <2>2, <2>3 DEF Right
  <2>5. ASSUME NEW j \in a .. end - 1, Same(j, p) = np, r = NotFound \/ j < r
        PROVE  \E i \in a .. j - 1 : Hides(i, j, p)
    <3>1. j # a
      BY <1>1, <1>6, <2>5
    <3>2. CASE j <= a + k
      <4>1. a \in a .. j - 1
        BY <3>1
      <4>2. Hides(a, j, p)
        BY <1>1, <1>6, <3>2 DEF Hides
      <4> QED
        BY <4>1, <4>2
    <3>3. CASE ~(j <= a + k)
      <4>1. j \in b .. end - 1
        BY <1>2, <2>1, <3>3
      <4>2. PICK i \in b .. j - 1 : Hides(i, j, p)
        BY <2>4, <2>5, <4>1
      <4>3. i \in a .. j - 1
        BY <2>2
      <4> QED
        BY <4>2, <4>3
    <3> QED
      BY <3>2, <3>3
  <2>6. ASSUME a <= end, r # NotFound
        PROVE  \/ Same(r, p) = np /\ r \in a .. end - np
               \/ \E i \in a .. end - 1 : end - i < np /\ end <= i + Same(i, p)
    <3>1. CASE b <= end
      <4>1. /\ \A i \in b .. end - 1 : i \in a .. end - 1
            /\ \A i \in b .. end - np : i \in a .. end - np
        BY <2>2
      <4> QED
        BY <2>4, <2>6, <3>1, <4>1
    <3>2. CASE ~(b <= end)
      <4>1. a \in a .. end - 1 /\ end - a < np /\ end <= a + k
        BY <1>2, <1>6, <2>1, <2>6, <3>2
      <4> QED
        BY <1>1, <4>1
    <3> QED
      BY <3>1, <3>2
  <2> QED
    BY <1>3, <2>4, <2>5, <2>6 DEF Right
<1> QED
  BY <1>4, <1>5, <1>6

(* The search goes upwards, so it is right from the last address down. *)
LEMMA SearchIsRight ==
  ASSUME NEW search, NEW p, NEW np \in Nat, Len(p) = np, NEW cap \in Nat, NEW end \in 0 .. cap,
         SearchSteps(search, end, p, cap), NEW begin \in 0 .. cap + np
  PROVE  Right(search, end, p, begin)
<1> DEFINE R(a) == Right(search, end, p, a)
           Wrong == {n \in Nat : n <= cap + np /\ ~R(cap + np - n)}
<1>1. ASSUME Wrong # {} PROVE FALSE
  <2>1. PICK n \in Wrong : \A j \in Wrong : n <= j
    <3>1. Wrong \in SUBSET Nat
      OBVIOUS
    <3> HIDE DEF Wrong
    <3> QED
      BY <1>1, <3>1, HasLeast
  <2>2. PICK a : a = cap + np - n
    OBVIOUS
  <2>3. a \in 0 .. cap + np /\ ~R(a) /\ n \in Nat
    BY <2>2
  <2>4. ASSUME NEW b \in a + 1 .. cap + np PROVE R(b)
    <3>1. PICK m : m = cap + np - b
      OBVIOUS
    <3>2. m \in Nat /\ m <= cap + np /\ cap + np - m = b /\ ~(n <= m)
      BY <2>2, <2>3, <3>1
    <3>3. m \notin Wrong
      <4> HIDE DEF Wrong
      <4> QED
        BY <2>1, <3>2
    <3>4. R(cap + np - m)
      <4> HIDE DEF R
      <4> QED
        BY <3>2, <3>3
    <3> QED
      BY <3>2, <3>4
  <2>5. R(a)
    BY <2>3, <2>4, SearchStepRight
  <2> QED
    BY <2>3, <2>5
<1>2. PICK m : m = cap + np - begin
  OBVIOUS
<1>3. m \in Nat /\ m <= cap + np /\ cap + np - m = begin
  BY <1>2
<1>4. R(cap + np - m)
  <2> HIDE DEF R
  <2> QED
    BY <1>1, <1>3
<1> QED
  BY <1>3, <1>4

LEMMA SearchHolds ==
  BufferIInv => SearchMissesOnlyOverlapped
<1> SUFFICES ASSUME BufferIInv, NEW o \in held, NEW p \in Patterns, ~Lost
             PROVE  LET view == View(o)
                        begin == mReadIdx + mStartIdx[o]
                        got == PeekFor(o, p)
                    IN  /\ \A j \in 1 .. Len(view) :
                             /\ At(view, p, j)
                             /\ got = NotFound \/ begin + j - 1 < got
                             => Overlapped(view, p, j)
                        /\ got # NotFound => At(view, p, got - begin + 1) \/ EndsIn(view, p)
  BY DEF SearchMissesOnlyOverlapped
<1>1. PICK begin : begin = mReadIdx + mStartIdx[o]
  OBVIOUS
<1>2. PICK end : end = mWriteIdx
  OBVIOUS
<1>3. PICK cap : cap = mReadBuf.cap
  OBVIOUS
<1>4. PICK np : np = Len(p)
  OBVIOUS
<1>5. PICK view : view = View(o)
  OBVIOUS
<1>6. PICK got : got = PeekFor(o, p)
  OBVIOUS
<1>7. PICK size : size = end - begin
  OBVIOUS
<1>8. begin \in Nat /\ end \in Nat /\ begin <= end /\ cap \in Nat /\ end <= cap /\ size \in Nat
  <2>1. /\ mReadIdx \in Nat /\ mWriteIdx \in Nat /\ mStartIdx[o] \in Nat
        /\ mStartIdx[o] <= mWriteIdx - mReadIdx
    BY NotLost DEF ReadableBytes
  <2>2. /\ mReadBuf.cap \in Nat /\ mReadBuf.size \in Nat /\ mReadBuf.size <= mReadBuf.cap
        /\ mWriteIdx <= mReadBuf.size
    BY NotLost, SoundFacts DEF Places
  <2> QED
    BY <1>1, <1>2, <1>3, <1>7, <2>1, <2>2
<1>9. np \in Nat /\ Len(p) = np
  <2>1. p \in Seq(Byte)
    BY InputBufferAssumption
  <2> QED
    BY <1>4, <2>1
<1>10. Len(view) = size /\ \A i \in 1 .. size : view[i] = Cell(mReadBuf, begin + i - 1)
  BY <1>1, <1>2, <1>5, <1>7, <1>8, ViewFacts
<1>11. got = FindString(begin, end, p)
  BY <1>1, <1>2, <1>6 DEF PeekFor
<1> SUFFICES /\ \A j \in 1 .. size :
                  At(view, p, j) /\ (got = NotFound \/ begin + j - 1 < got) => Overlapped(view, p, j)
             /\ got # NotFound => At(view, p, got - begin + 1) \/ EndsIn(view, p)
  BY <1>1, <1>5, <1>6, <1>10
(* The search and the view speak of the same bytes. *)
<1>12. ASSUME NEW i \in 1 .. size, At(view, p, i)
       PROVE  Same(begin + i - 1, p) = np
  <2>1. PICK a : a = begin + i - 1
    OBVIOUS
  <2>2. a \in Nat
    BY <1>8, <2>1
  <2>3. ASSUME NEW k \in 1 .. np PROVE Cell(mReadBuf, a + k - 1) = p[k]
    <3>1. i + np - 1 <= size /\ view[i + k - 1] = p[k]
      BY <1>9, <1>10, <1>12 DEF At, Begins
    <3>2. PICK m : m = i + k - 1
      OBVIOUS
    <3>3. m \in 1 .. size /\ begin + m - 1 = a + k - 1
      BY <1>8, <1>9, <2>1, <3>1, <3>2
    <3> QED
      BY <1>10, <3>1, <3>2, <3>3
  <2>4. Same(a, p) = np
    BY ONLY <1>9, <2>2, <2>3, StandsIsSame
  <2> QED
    BY <2>1, <2>4
<1>13. ASSUME NEW i \in Nat \ {0}, NEW n \in Nat, n <= Same(begin + i - 1, p), i + n - 1 <= size
       PROVE  Begins(view, p, i, n)
  <2>1. PICK a : a = begin + i - 1
    OBVIOUS
  <2>2. Same(a, p) \in 0 .. np /\ \A j \in 0 .. Same(a, p) - 1 : Cell(mReadBuf, a + j) = p[j + 1]
    BY <1>9, SameFacts
  <2>3. ASSUME NEW k \in 1 .. n PROVE view[i + k - 1] = p[k]
    <3>1. PICK m : m = i + k - 1
      OBVIOUS
    <3>2. PICK j : j = k - 1
      OBVIOUS
    <3>3. m \in 1 .. size /\ begin + m - 1 = a + j /\ j \in 0 .. Same(a, p) - 1 /\ j + 1 = k
      BY <1>8, <1>13, <2>1, <2>2, <3>1, <3>2
    <3>4. view[m] = Cell(mReadBuf, begin + m - 1)
      BY <1>10, <3>3
    <3>5. Cell(mReadBuf, a + j) = p[j + 1]
      BY <2>2, <3>3
    <3> QED
      BY <3>1, <3>3, <3>4, <3>5
  <2> QED
    BY <2>3 DEF Begins
<1>14. CASE size < np
  <2>1. got = NotFound
    BY <1>4, <1>7, <1>11, <1>14 DEF FindString
  <2>2. ASSUME NEW j \in 1 .. size, At(view, p, j) PROVE FALSE
    BY <1>8, <1>9, <1>10, <1>14, <2>2 DEF At
  <2> QED
    BY <2>1, <2>2
<1>15. CASE ~(size < np)
  <2>1. PICK search : SearchSteps(search, end, p, cap) /\ got = search[begin]
    <3>1. end - begin >= np /\ end - begin \in Int
      BY <1>7, <1>8, <1>9, <1>15
    <3>2. mReadBuf.cap = cap /\ Len(p) = np /\ cap \in Nat /\ np \in Nat
      BY <1>3, <1>8, <1>9
    <3>3. \E search : SearchSteps(search, end, p, cap) /\ FindString(begin, end, p) = search[begin]
      BY ONLY <3>1, <3>2, SearchExists
    <3> QED
      BY <1>11, <3>3
  <2>2. Right(search, end, p, begin)
    <3>1. begin \in 0 .. cap + np /\ end \in 0 .. cap
      BY <1>8, <1>9
    <3> QED
      BY <1>8, <1>9, <2>1, <3>1, SearchIsRight
  <2>3. /\ got \in Int
        /\ \A j \in begin .. end - 1 :
             Same(j, p) = np /\ (got = NotFound \/ j < got) => \E i \in begin .. j - 1 : Hides(i, j, p)
        /\ got # NotFound =>
             \/ Same(got, p) = np /\ got \in begin .. end - np
             \/ \E i \in begin .. end - 1 : end - i < np /\ end <= i + Same(i, p)
    BY <1>8, <1>9, <2>1, <2>2 DEF Right
  <2>4. ASSUME NEW j \in 1 .. size, At(view, p, j), got = NotFound \/ begin + j - 1 < got
        PROVE  Overlapped(view, p, j)
    <3>1. PICK jj : jj = begin + j - 1
      OBVIOUS
    <3>2. jj \in begin .. end - 1 /\ Same(jj, p) = np
      BY <1>7, <1>8, <1>12, <2>4, <3>1
    <3>3. PICK ii \in begin .. jj - 1 : Hides(ii, jj, p)
      BY <2>3, <2>4, <3>1, <3>2
    <3>4. PICK k : k = Same(ii, p)
      OBVIOUS
    <3>5. k \in 0 .. np /\ k # np /\ jj <= ii + k
      BY <1>9, <3>3, <3>4, SameFacts DEF Hides
    <3>6. PICK i : i = ii - begin + 1
      OBVIOUS
    <3>7. /\ i \in 1 .. j - 1 /\ i \in 1 .. size /\ ii = begin + i - 1
          /\ j - i \in Nat /\ j - i < np /\ j - i <= k /\ i + (j - i) - 1 <= size
      BY <1>8, <1>9, <3>1, <3>2, <3>5, <3>6
    <3>8. Begins(view, p, i, j - i)
      <4>1. PICK n : n = j - i
        OBVIOUS
      <4>2. i \in Nat \ {0} /\ n \in Nat /\ n <= Same(begin + i - 1, p) /\ i + n - 1 <= size
        BY <3>4, <3>7, <4>1
      <4> QED
        BY <1>13, <4>1, <4>2
    <3>9. ~At(view, p, i)
      BY <1>12, <3>4, <3>5, <3>7
    <3> QED
      BY <1>9, <3>7, <3>8, <3>9 DEF Overlapped
  <2>5. ASSUME got # NotFound PROVE At(view, p, got - begin + 1) \/ EndsIn(view, p)
    <3>1. CASE Same(got, p) = np /\ got \in begin .. end - np
      <4>1. PICK i : i = got - begin + 1
        OBVIOUS
      <4>2. i \in Nat \ {0} /\ begin + i - 1 = got /\ i + np - 1 <= size
        BY <1>7, <1>8, <1>9, <3>1, <4>1
      <4>3. np <= Same(begin + i - 1, p)
        BY <1>9, <3>1, <4>2
      <4>4. Begins(view, p, i, np)
        BY <1>9, <1>13, <4>2, <4>3
      <4> QED
        BY <1>9, <1>10, <4>1, <4>2, <4>4 DEF At
    <3>2. ASSUME NEW ii \in begin .. end - 1, end - ii < np, end <= ii + Same(ii, p)
          PROVE  EndsIn(view, p)
      <4>1. PICK i : i = ii - begin + 1
        OBVIOUS
      <4>2. PICK n : n = size - i + 1
        OBVIOUS
      <4>3. /\ i \in 1 .. size /\ i \in Nat \ {0} /\ n \in Nat /\ begin + i - 1 = ii
            /\ n = end - ii /\ i + n - 1 <= size
        BY <1>7, <1>8, <4>1, <4>2
      <4>4. n <= Same(begin + i - 1, p) /\ n < np
        <5>1. Same(ii, p) \in 0 .. np
          BY <1>9, SameFacts
        <5> QED
          BY <1>8, <1>9, <3>2, <4>3, <5>1
      <4>5. Begins(view, p, i, n)
        BY <1>13, <4>3, <4>4
      <4> QED
        BY <1>9, <1>10, <4>2, <4>3, <4>4, <4>5 DEF EndsIn
    <3> QED
      BY <2>3, <2>5, <3>1, <3>2
  <2> QED
    BY <2>4, <2>5
<1> QED
  BY <1>14, <1>15

(* What PeekFor of an observer passes over is an occurrence that a part of *)
(* the pattern runs into, and nothing else; what it returns is an          *)
(* occurrence, unless the view ends in a part of the pattern: for every    *)
(* stream, pattern and state of the buffer.                                *)
THEOREM SearchAlwaysMissesOnlyOverlapped ==
  BufferSpec => []SearchMissesOnlyOverlapped
<1> QED
  BY BufferInvariance, SearchHolds, PTL

LEMMA EditsAgreeAlways ==
  ASSUME NEW V, NEW a, Sound(a, V), NEW s, s \in Seq(V), s # << >>
  PROVE  EditsAgree(a, s)
<1>1. PICK c : c = Content(a)
  OBVIOUS
<1>2. PICK n : n = a.size
  OBVIOUS
<1>3. PICK e : e = s[1]
  OBVIOUS
<1>4. a.cap \in Nat /\ n \in Nat /\ Junk \in V
  BY <1>2, SoundFacts
<1>5. e \in V
  BY <1>3, EmptySeq
<1>6. Len(c) = n
  BY <1>1, <1>2, ContentFacts
<1>7. Content(Copy(a)) = c
  BY <1>1, CopyAgrees
<1>8. Content(Assign(OfSequence(s), a)) = c
  <2>1. PICK x : x = OfSequence(s)
    OBVIOUS
  <2>2. Sound(x, V)
    BY <1>4, <2>1, OfSequenceSound
  <2>3. Content(Assign(x, a)) = Content(a)
    BY <2>2, AssignAgrees
  <2> QED
    BY <1>1, <2>1, <2>3
<1>9. Content(OfCopies(n, e)) = [k \in 1 .. n |-> e]
  <2>1. PICK q : q = [k \in 1 .. n |-> e]
    OBVIOUS
  <2>2. Content(OfCopies(n, e)) = q
    BY <1>4, <1>5, <2>1, OfCopiesAgrees
  <2> QED
    BY <2>1, <2>2
<1>10. Content(PushAll(Clear(a), s)) = s
  BY RefillAgrees
<1>11. ASSUME NEW m \in 0 .. a.cap + 1
       PROVE  /\ Content(AdjustCapacity(a, m)) = c
              /\ \A k \in 1 .. n : k <= m => Content(Resize(a, m))[k] = c[k]
  <2>1. m \in Nat
    BY <1>4
  <2>2. /\ Content(AdjustCapacity(a, m)) = Content(a)
        /\ \A k \in 1 .. a.size : k <= m => Content(Resize(a, m))[k] = Content(a)[k]
    BY <2>1, CapacityAgrees
  <2> QED
    BY ONLY <1>1, <1>2, <2>2
<1>12. ASSUME NEW i \in 0 .. n
       PROVE  /\ Content(Insert(a, i, e)) = Seqs!InsertAt(c, i + 1, e)
              /\ Content(InsertAll(a, i, s)) = SubSeq(c, 1, i) \o s \o SubSeq(c, i + 1, n)
              /\ \A j \in i .. n : Content(Remove(a, i, j)) = SubSeq(c, 1, i) \o SubSeq(c, j + 1, n)
  <2>1. i \in 0 .. a.size
    BY <1>2
  <2>2. Content(Insert(a, i, e)) = Seqs!InsertAt(Content(a), i + 1, e)
    BY <1>5, <2>1, InsertAgrees
  <2>3. Content(InsertAll(a, i, s)) = SubSeq(Content(a), 1, i) \o s \o SubSeq(Content(a), i + 1, a.size)
    BY <2>1, InsertAllAgrees
  <2>4. ASSUME NEW j \in i .. n
        PROVE  Content(Remove(a, i, j)) = SubSeq(Content(a), 1, i) \o SubSeq(Content(a), j + 1, a.size)
    <3>1. j \in i .. a.size
      BY <1>2
    <3> QED
      BY <2>1, <3>1, RemoveAgrees
  <2> QED
    BY ONLY <1>1, <1>2, <2>2, <2>3, <2>4
<1>13. ASSUME NEW i \in 0 .. n - 1, NEW j \in 0 .. n - 1, NEW d, d = Content(Swap(a, i, j))
       PROVE  d[i + 1] = c[j + 1] /\ d[j + 1] = c[i + 1]
              /\ \A k \in 1 .. n : k \in {i + 1, j + 1} \/ d[k] = c[k]
  <2>1. i \in 0 .. a.size - 1 /\ j \in 0 .. a.size - 1
    BY <1>2
  <2>2. d[i + 1] = c[j + 1] /\ d[j + 1] = c[i + 1]
        /\ \A k \in 1 .. a.size : k \in {i + 1, j + 1} \/ d[k] = c[k]
    BY <1>1, <1>13, <2>1, SwapAgrees
  <2> QED
    BY <1>2, <2>2
<1>14. Content(Push(a, e)) = Append(c, e)
  BY <1>1, <1>5, PushAgrees
<1>15. Content(PushAll(a, s)) = c \o s
  BY <1>1, PushAllAgrees
<1>16. n > 0 => Content(Pop(a)) = Seqs!Front(c)
  BY <1>1, <1>2, PopAgrees
<1>17. ASSUME NEW k, k = FindIdx(a, e)
       PROVE  IF k = -1 THEN ~Seqs!Contains(c, e)
              ELSE c[k + 1] = e /\ ~Seqs!Contains(SubSeq(c, 1, k), e)
  BY <1>1, <1>17, FindAgrees
<1>18. /\ Content(Copy(a)) = Content(a) /\ Content(Assign(OfSequence(s), a)) = Content(a)
       /\ Content(OfCopies(a.size, s[1])) = [k \in 1 .. a.size |-> s[1]]
       /\ Content(PushAll(Clear(a), s)) = s
  BY ONLY <1>1, <1>2, <1>3, <1>7, <1>8, <1>9, <1>10
<1>19. \A m \in 0 .. a.cap + 1 :
         /\ Content(AdjustCapacity(a, m)) = Content(a)
         /\ \A k \in 1 .. a.size : k <= m => Content(Resize(a, m))[k] = Content(a)[k]
  BY ONLY <1>1, <1>2, <1>11
<1>20. \A i \in 0 .. a.size :
         /\ Content(Insert(a, i, s[1])) = Seqs!InsertAt(Content(a), i + 1, s[1])
         /\ Content(InsertAll(a, i, s))
              = SubSeq(Content(a), 1, i) \o s \o SubSeq(Content(a), i + 1, a.size)
         /\ \A j \in i .. a.size :
              Content(Remove(a, i, j)) = SubSeq(Content(a), 1, i) \o SubSeq(Content(a), j + 1, a.size)
  BY ONLY <1>1, <1>2, <1>3, <1>12
<1>21. \A i, j \in 0 .. a.size - 1 :
         LET d == Content(Swap(a, i, j))
         IN  d[i + 1] = Content(a)[j + 1] /\ d[j + 1] = Content(a)[i + 1]
             /\ \A k \in 1 .. a.size : k \in {i + 1, j + 1} \/ d[k] = Content(a)[k]
  BY ONLY <1>1, <1>2, <1>13
<1>22. /\ Content(Push(a, s[1])) = Append(Content(a), s[1])
       /\ Content(PushAll(a, s)) = Content(a) \o s
       /\ a.size > 0 => Content(Pop(a)) = Seqs!Front(Content(a))
  BY ONLY <1>1, <1>2, <1>3, <1>14, <1>15, <1>16
<1>23. LET k == FindIdx(a, s[1])
       IN  IF k = -1 THEN ~Seqs!Contains(Content(a), s[1])
           ELSE Content(a)[k + 1] = s[1] /\ ~Seqs!Contains(SubSeq(Content(a), 1, k), s[1])
  BY ONLY <1>1, <1>3, <1>17
<1> QED
  BY ONLY <1>18, <1>19, <1>20, <1>21, <1>22, <1>23 DEF EditsAgree

LEMMA StraysAreKnownAlways ==
  ASSUME NEW V, NEW a, Sound(a, V), NEW s, s \in Seq(V)
  PROVE  StraysAreKnown(a, s)
<1>1. PICK n : n = a.size
  OBVIOUS
<1>2. PICK m : m = Len(s)
  OBVIOUS
<1>3. PICK cap : cap = a.cap
  OBVIOUS
<1>4. n \in Nat /\ m \in Nat /\ cap \in Nat /\ n <= cap /\ Cells(a) = 0 .. cap - 1
  BY <1>1, <1>2, <1>3, SoundFacts
<1>5. PICK one : one = Resize(a, n + 1)
  OBVIOUS
<1>6. PICK more : more = Resize(a, n + m)
  OBVIOUS
<1>7. PICK oneCap : oneCap = one.cap
  OBVIOUS
<1>8. PICK moreCap : moreCap = more.cap
  OBVIOUS
<1>9. one.size = n + 1 /\ oneCap \in Nat /\ n + 1 <= oneCap /\ Cells(one) = 0 .. oneCap - 1
  <2>1. PICK l : l = n + 1
    OBVIOUS
  <2>2. l \in Nat
    BY <1>4, <2>1
  <2>3. Sound(Resize(a, l), V) /\ Resize(a, l).size = l
    BY <2>2, ResizeFacts
  <2>4. Sound(one, V) /\ one.size = n + 1
    BY ONLY <1>5, <2>1, <2>3
  <2> QED
    BY <1>7, <2>4, SoundFacts
<1>10. moreCap \in Nat /\ n + m <= moreCap /\ Cells(more) = 0 .. moreCap - 1
  <2>1. PICK l : l = n + m
    OBVIOUS
  <2>2. l \in Nat
    BY <1>4, <2>1
  <2>3. Sound(Resize(a, l), V) /\ Resize(a, l).size = l
    BY <2>2, ResizeFacts
  <2>4. Sound(more, V) /\ more.size = n + m
    BY ONLY <1>6, <2>1, <2>3
  <2> QED
    BY <1>8, <2>4, SoundFacts
<1>11. ASSUME NEW i \in 0 .. n
       PROVE  /\ Outside(one, DOMAIN InsertStores(a, i, s[1]))
                   = IF one.size = one.cap THEN {one.cap} ELSE {}
              /\ Outside(one, InsertLoads(a, i)) \subseteq {-1}
              /\ Outside(more, DOMAIN InsertAllStores(a, i, s)) = {}
              /\ Outside(more, InsertAllLoads(a, i)) \subseteq {-1}
  <2>1. DOMAIN InsertStores(a, i, s[1]) = i .. n + 1
    BY <1>1, <1>5, <1>9 DEF InsertStores
  <2>2. DOMAIN InsertAllStores(a, i, s) = i .. n + m - 1
    BY <1>1, <1>2 DEF InsertAllStores
  <2>3. InsertLoads(a, i) = i - 1 .. n
    BY <1>1 DEF InsertLoads
  <2>4. InsertAllLoads(a, i) \subseteq i - 1 .. n - 1
    BY <1>1 DEF InsertAllLoads
  <2>5. {k \in i .. n + 1 : k \notin 0 .. oneCap - 1} = IF n + 1 = oneCap THEN {oneCap} ELSE {}
    <3>1. ASSUME NEW k PROVE k \in i .. n + 1 /\ k \notin 0 .. oneCap - 1 <=> n + 1 = oneCap /\ k = oneCap
      BY <1>4, <1>9
    <3> QED
      BY <3>1
  <2>6. {k \in i - 1 .. n : k \notin 0 .. oneCap - 1} \subseteq {-1}
    BY <1>4, <1>9
  <2>7. \A k \in i .. n + m - 1 : k \in 0 .. moreCap - 1
    BY <1>4, <1>10
  <2>8. \A k \in i - 1 .. n - 1 : k \in 0 .. moreCap - 1 \/ k = -1
    BY <1>4, <1>10
  <2> QED
    BY ONLY <1>7, <1>8, <1>9, <1>10, <2>1, <2>2, <2>3, <2>4, <2>5, <2>6, <2>7, <2>8 DEF Outside
<1>12. ASSUME NEW i \in 0 .. n, NEW j \in i .. n
       PROVE  /\ Outside(a, DOMAIN RemoveStores(a, i, j)) = IF n = cap /\ i = j THEN {cap} ELSE {}
              /\ Outside(a, RemoveLoads(a, j)) = IF n = cap THEN {cap} ELSE {}
  <2>1. DOMAIN RemoveStores(a, i, j) = i .. i + n - j /\ RemoveLoads(a, j) = j .. n
    BY <1>1 DEF RemoveStores, RemoveLoads
  <2>2. ASSUME NEW k
        PROVE  k \in i .. i + n - j /\ k \notin 0 .. cap - 1 <=> (n = cap /\ i = j) /\ k = cap
    BY <1>4
  <2>3. ASSUME NEW k PROVE k \in j .. n /\ k \notin 0 .. cap - 1 <=> n = cap /\ k = cap
    BY <1>4
  <2>4. {k \in i .. i + n - j : k \notin 0 .. cap - 1} = IF n = cap /\ i = j THEN {cap} ELSE {}
    BY ONLY <2>2
  <2>5. {k \in j .. n : k \notin 0 .. cap - 1} = IF n = cap THEN {cap} ELSE {}
    BY ONLY <2>3
  <2> QED
    BY ONLY <1>4, <2>1, <2>4, <2>5 DEF Outside
<1> QED
  BY ONLY ZenonT(30), <1>1, <1>2, <1>3, <1>5, <1>6, <1>11, <1>12 DEF StraysAreKnown

LEMMA EditsHold ==
  BufferIInv => EditsAreSequenceEdits
<1> SUFFICES ASSUME BufferIInv, NEW n \in 0 .. mReadBuf.cap
             PROVE  LET a == Resize(mReadBuf, n)
                        s == SubSeq(stream, 1, 2)
                    IN  EditsAgree(a, s) /\ StraysAreKnown(a, s)
  BY DEF EditsAreSequenceEdits
<1>1. PICK a : a = Resize(mReadBuf, n)
  OBVIOUS
<1>2. PICK s : s = SubSeq(stream, 1, 2)
  OBVIOUS
<1>3. PICK V : V = Value \cup {stream[1], stream[2]}
  OBVIOUS
<1>4. Sound(a, V)
  <2>1. Sound(mReadBuf, Value)
    BY DEF BufferIInv, Places
  <2>2. n \in Nat
    OBVIOUS
  <2>3. Sound(Resize(mReadBuf, n), Value)
    BY <2>1, <2>2, ResizeFacts
  <2>4. Value \subseteq V
    BY <1>3
  <2> QED
    BY <1>1, <2>3, <2>4, SoundWider
<1>5. s \in Seq(V) /\ Len(s) = 2
  <2>1. PICK one : one = 1
    OBVIOUS
  <2>2. PICK two : two = 2
    OBVIOUS
  <2>3. one \in Int /\ two \in Int /\ one <= two /\ two - one + 1 = 2
        /\ \A k \in one .. two : k = one \/ k = two
    BY <2>1, <2>2
  <2>4. \A k \in one .. two : stream[k] \in V
    BY <1>3, <2>1, <2>2, <2>3
  <2>5. /\ SubSeq(stream, one, two) \in Seq(V)
        /\ Len(SubSeq(stream, one, two)) = IF one <= two THEN two - one + 1 ELSE 0
    BY <2>3, <2>4, SubSeqProperties
  <2> QED
    BY <1>2, <2>1, <2>2, <2>3, <2>5
<1>6. s # << >>
  BY <1>5
<1>7. EditsAgree(a, s)
  BY <1>4, <1>5, <1>6, EditsAgreeAlways
<1>8. StraysAreKnown(a, s)
  BY <1>4, <1>5, StraysAreKnownAlways
<1> QED
  BY <1>1, <1>2, <1>7, <1>8

(* Every edit of a DataArray does to its elements what it would do to a    *)
(* sequence, and its loops leave the storage only where StraysAreKnown     *)
(* says, for every array the buffer can have and every size it is given.   *)
THEOREM EditsAlwaysAgree ==
  BufferSpec => []EditsAreSequenceEdits
<1> QED
  BY BufferInvariance, EditsHold, PTL

=============================================================================
