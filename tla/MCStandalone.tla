---------------------------- MODULE MCStandalone ----------------------------
(***************************************************************************)
(* The three components that no server uses: a worker with two callers, a  *)
(* capture with three buffers at the driver and one in use, and a buffer   *)
(* with two observers.  They share no state, so what one of them does is   *)
(* what it does alone: a behaviour is of one of them, its subject, and the *)
(* other two do not start.                                                 *)
(***************************************************************************)
EXTENDS ThreadWorker, VideoCapture, MCInputBuffer

VARIABLE subject

standaloneVars == <<subject, vars, captureVars, bufferVars>>

StandaloneInit ==
  /\ subject \in {"worker", "capture", "buffer"}
  /\ Init /\ CaptureInit /\ BufferInit
  /\ subject # "capture" => hasCallback
  /\ subject # "buffer" => stream = CHOOSE s \in Streams : TRUE

StandaloneNext ==
  \/ subject = "worker" /\ Next /\ UNCHANGED <<subject, captureVars, bufferVars>>
  \/ subject = "capture" /\ CaptureNext /\ UNCHANGED <<subject, vars, bufferVars>>
  \/ subject = "buffer" /\ BufferNext /\ UNCHANGED <<subject, vars, captureVars>>

(* Each is as fair as it is alone. *)
StandaloneSpec ==
  /\ StandaloneInit /\ [][StandaloneNext]_standaloneVars
  /\ subject = "worker" => Fairness
  /\ subject = "capture" => CaptureFairness
=============================================================================
