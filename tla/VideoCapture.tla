---------------------------- MODULE VideoCapture ----------------------------
(***************************************************************************)
(* VideoCapture: the buffers that go round between a V4L2 driver, the      *)
(* thread of the poll loop, and the consumer the capture callback lends    *)
(* one to.  A buffer is its id.                                            *)
(*                                                                         *)
(* mUsingBuffer is tested without mBufferInUseMutex (VideoCapture.cpp:323) *)
(* and written under it, so the test and the exchange of the buffers are   *)
(* steps of their own, and each critical section is one.                   *)
(***************************************************************************)
EXTENDS Integers

CONSTANT NumBuffers   (* mNumBuffers *)

ASSUME VideoCaptureAssumption == NumBuffers \in Nat \ {0}

Indices == 0 .. NumBuffers - 1
Buffers == 0 .. NumBuffers
NoBuffer == -1        (* nullptr, and userptr 0 *)

VARIABLES
  phase,      (* Of the owner: "opened", "prepared", "streaming" or "exited". *)
  hasCallback,                          (* mCaptureCB *)
  mBuffers, mBufferInUse, mUsingBuffer,
  stage, buf, (* OnReadEvent, and its v4l2_buffer.                            *)
  found,      (* The place of that buffer in mBuffers.                        *)
  slot,       (* Of each index of the driver: with the "user", "queued", "done". *)
  userptr,    (* The buffer it holds.                                         *)
  lent        (* What the consumer works on, or NoBuffer.                     *)

captureVars ==
  <<phase, hasCallback, mBuffers, mBufferInUse, mUsingBuffer, stage, buf, found, slot,
    userptr, lent>>
driver == <<slot, userptr>>
buffers == <<mBuffers, mBufferInUse, mUsingBuffer>>

NoBuf == [index |-> 0, mem |-> NoBuffer]

CaptureInit ==
  /\ phase = "opened" /\ hasCallback \in BOOLEAN
  /\ mBuffers = [i \in Indices |-> NoBuffer] /\ mBufferInUse = NoBuffer
  /\ mUsingBuffer = FALSE
  /\ stage = "idle" /\ buf = NoBuf /\ found = 0
  /\ slot = [i \in Indices |-> "user"] /\ userptr = [i \in Indices |-> NoBuffer]
  /\ lent = NoBuffer

Exit ==
  /\ phase' = "exited" /\ stage' = "idle"
  /\ UNCHANGED <<hasCallback, buffers, buf, found, driver, lent>>

(* REQBUFS succeeds, and the buffers are allocated, or it is the end. *)
PrepareBufferOrDie ==
  /\ phase = "opened"
  /\ \/ /\ phase' = "prepared"
        /\ mBuffers' = [i \in Indices |-> i + 1] /\ mBufferInUse' = 0
        /\ mUsingBuffer' = FALSE
        /\ UNCHANGED <<hasCallback, stage, buf, found, driver, lent>>
     \/ Exit

(* QBUF of every buffer, and STREAMON. *)
StartOrDie ==
  /\ phase = "prepared"
  /\ \/ /\ phase' = "streaming"
        /\ slot' = [i \in Indices |-> "queued"] /\ userptr' = mBuffers
        /\ UNCHANGED <<hasCallback, buffers, stage, buf, found, lent>>
     \/ Exit

(* The driver has filled a buffer. *)
Fill(i) ==
  /\ phase = "streaming" /\ slot[i] = "queued"
  /\ slot' = [slot EXCEPT ![i] = "done"]
  /\ UNCHANGED <<phase, hasCallback, buffers, stage, buf, found, userptr, lent>>

(* OnReadEvent: DQBUF.  With EAGAIN it returns, and changes nothing.       *)
Dequeue(i) ==
  /\ phase = "streaming" /\ stage = "idle" /\ slot[i] = "done"
  /\ buf' = [index |-> i, mem |-> userptr[i]]
  /\ slot' = [slot EXCEPT ![i] = "user"]
  /\ stage' = "dequeued"
  /\ UNCHANGED <<phase, hasCallback, buffers, found, userptr, lent>>

(* EIO: the buffer that is queued then is the cleared one. *)
DequeueEIO ==
  /\ phase = "streaming" /\ stage = "idle"
  /\ buf' = NoBuf
  /\ stage' = "requeue"
  /\ UNCHANGED <<phase, hasCallback, buffers, found, driver, lent>>

DequeueFails == phase = "streaming" /\ stage = "idle" /\ Exit

MayLend == hasCallback /\ ~mUsingBuffer

(* Mutant: a frame that is not lent is not given back. *)
AfterSkipIdle == "idle"

AfterSkip == "requeue"

(* The buffer is looked up, and mUsingBuffer tested. *)
Test ==
  /\ phase = "streaming" /\ stage = "dequeued"
  /\ \/ \E i \in Indices :
          /\ mBuffers[i] = buf.mem /\ MayLend
          /\ found' = i /\ stage' = "exchange"
     \/ /\ ~(MayLend /\ \E i \in Indices : mBuffers[i] = buf.mem)
        /\ stage' = AfterSkip /\ UNCHANGED found
  /\ UNCHANGED <<phase, hasCallback, buffers, buf, driver, lent>>

(* Mutant: the list keeps the buffer that is in use now. *)
ListUnchanged == mBuffers

Exchanged == [mBuffers EXCEPT ![found] = mBufferInUse]

(* The critical section: std::swap(mBufferInUse, mBuffers[i]). *)
Exchange ==
  /\ phase = "streaming" /\ stage = "exchange"
  /\ mUsingBuffer' = TRUE
  /\ mBufferInUse' = mBuffers[found]
  /\ mBuffers' = Exchanged
  /\ stage' = "lend"
  /\ UNCHANGED <<phase, hasCallback, buf, found, driver, lent>>

(* Mutant: the buffer of the frame itself goes back to the driver. *)
RequeuedAsBefore == buf

(* The buffer that was in use is queued in the place of the one that is. *)
Requeued == [buf EXCEPT !.mem = mBuffers[found]]

(* mCaptureCB; the consumer may be done before it returns. *)
Lend ==
  /\ phase = "streaming" /\ stage = "lend"
  /\ \/ lent' = mBufferInUse /\ UNCHANGED mUsingBuffer
     \/ UNCHANGED lent /\ mUsingBuffer' = FALSE
  /\ buf' = Requeued
  /\ stage' = "requeue"
  /\ UNCHANGED <<phase, hasCallback, mBuffers, mBufferInUse, found, driver>>

(* QBUF: refused for an index the driver has, and for no buffer; the       *)
(* device may fail at any other.                                           *)
Requeue ==
  /\ phase = "streaming" /\ stage = "requeue"
  /\ \/ /\ slot[buf.index] = "user" /\ buf.mem # NoBuffer
        /\ slot' = [slot EXCEPT ![buf.index] = "queued"]
        /\ userptr' = [userptr EXCEPT ![buf.index] = buf.mem]
        /\ stage' = "idle" /\ buf' = NoBuf
        /\ UNCHANGED <<phase, hasCallback, buffers, found, lent>>
     \/ Exit

(* The consumer, in a thread of its own, has done with the frame. *)
ReleaseBufferInUse ==
  /\ phase = "streaming" /\ lent # NoBuffer
  /\ mUsingBuffer' = FALSE
  /\ lent' = NoBuffer
  /\ UNCHANGED <<phase, hasCallback, mBuffers, mBufferInUse, stage, buf, found, driver>>

OnReadEvent ==
  \/ \E i \in Indices : Dequeue(i)
  \/ Test \/ Exchange \/ Lend \/ Requeue

CaptureNext ==
  \/ PrepareBufferOrDie \/ StartOrDie
  \/ \E i \in Indices : Fill(i)
  \/ OnReadEvent
  \/ DequeueEIO \/ DequeueFails
  \/ ReleaseBufferInUse

CaptureSpec == CaptureInit /\ [][CaptureNext]_captureVars

(* The loop calls back what poll(2) reports, and the camera goes on        *)
(* filling; the consumer need not ever be done.                            *)
CaptureFairness ==
  /\ WF_captureVars(OnReadEvent)
  /\ \A i \in Indices : WF_captureVars(Fill(i))

FairCaptureSpec == CaptureSpec /\ CaptureFairness

-----------------------------------------------------------------------------

CaptureTypeOK ==
  /\ phase \in {"opened", "prepared", "streaming", "exited"}
  /\ hasCallback \in BOOLEAN /\ mUsingBuffer \in BOOLEAN
  /\ mBuffers \in [Indices -> Buffers \cup {NoBuffer}]
  /\ mBufferInUse \in Buffers \cup {NoBuffer}
  /\ stage \in {"idle", "dequeued", "exchange", "lend", "requeue"}
  /\ buf \in [index : Indices, mem : Buffers \cup {NoBuffer}]
  /\ found \in Indices
  /\ slot \in [Indices -> {"user", "queued", "done"}]
  /\ userptr \in [Indices -> Buffers \cup {NoBuffer}]
  /\ lent \in Buffers \cup {NoBuffer}

(* No buffer is lost and none is in two places: the ones of the list and   *)
(* the one in use are all of them.                                         *)
EachOnce ==
  phase \in {"prepared", "streaming"} =>
    /\ mBufferInUse \in Buffers
    /\ \A b \in Buffers \ {mBufferInUse} : \E i \in Indices : mBuffers[i] = b
    /\ \A i \in Indices : mBuffers[i] \in Buffers \ {mBufferInUse}
    /\ \A i, j \in Indices : mBuffers[i] = mBuffers[j] => i = j

(* Whatever the consumer does, the driver is short of at most the buffer   *)
(* whose frame is being handled, so capturing never runs dry; QBUF will    *)
(* take that one back; and no buffer is queued twice.                      *)
DriverKeepsItsBuffers ==
  phase = "streaming" =>
    \A i \in Indices :
      /\ slot[i] = "user" => stage # "idle" /\ buf.index = i /\ buf.mem # NoBuffer
      /\ \A j \in Indices :
           slot[i] # "user" /\ slot[j] # "user" /\ userptr[i] = userptr[j] => i = j

(* No buffer is lost, be it by the consumer or by the driver.              *)
CaptureInv == CaptureTypeOK /\ EachOnce /\ DriverKeepsItsBuffers

(* What the consumer works on is the buffer in use, stays so until it is   *)
(* released, and is never where the driver would write the next frame: not *)
(* with it, and not about to be queued.                                    *)
LentIsTheConsumersOwn ==
  phase = "streaming" /\ lent # NoBuffer =>
    /\ mUsingBuffer /\ lent = mBufferInUse
    /\ \A i \in Indices : slot[i] # "user" => userptr[i] # lent
    /\ stage = "requeue" => buf.mem # lent

(* As soon as the consumer has released its frame, another one is lent to  *)
(* it, unless the device fails.                                            *)
FramesKeepComing ==
  phase = "streaming" /\ hasCallback /\ ~mUsingBuffer ~> mUsingBuffer \/ phase = "exited"

=============================================================================
