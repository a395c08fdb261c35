----------------------------- MODULE Connection -----------------------------
(***************************************************************************)
(* The sending side of one Connection on a poll loop: SendBytes called by  *)
(* the loop thread or by other threads, OnWriteEvent draining mWriteBuf,   *)
(* and the close that HandleEvents acts upon after the callbacks.          *)
(*                                                                         *)
(* Bytes are numbered in the order SendBytes is given them.  No lock makes *)
(* the calls of DataQueue atomic: a PushBack of another thread takes two   *)
(* steps, and when a second thread may touch the queue between them the    *)
(* process is beyond what the language defines, and the model stops.       *)
(***************************************************************************)
EXTENDS DataQueue

CONSTANTS
  MaxBytes,   (* Bound: the bytes the application sends.                 *)
  MaxSend,    (* The most bytes of one call.                             *)
  Workers     (* Threads other than the loop's that call SendBytes.      *)

ASSUME ConnectionAssumption ==
  /\ MaxBytes \in Nat
  /\ MaxSend \in Nat \ {0}
  /\ 1 .. MaxBytes \subseteq Values

VARIABLES
  given,     (* How many bytes SendBytes has been given.                          *)
  wire,      (* How many of them send(2) has taken, in order.                     *)
  buf,       (* mWriteBuf                                                         *)
  events,    (* The events of the handler's mPollFd; POLLIN is always in it.      *)
  loop,      (* Where the loop thread is: "idle" (outside HandleEvents), "write", *)
             (* "drained" (in OnWriteEvent, after DropFront), "arm" and "disarm"  *)
             (* (about to call EnableWrite), "closing", "closed" (off the loop).  *)
  asked,     (* mIsClosing                                                        *)
  worker,    (* Where each worker is: "idle", "push" (inside PushBack), "enable"  *)
             (* or "wake".                                                        *)
  failed,    (* The assertion that failed, "race" after a data race, or "none".   *)
  shared,    (* History: another thread has called SendBytes.                     *)
  cleared    (* History: OnWriteEvent has cleared POLLOUT although bytes waited.  *)

vars == <<given, wire, buf, events, loop, asked, worker, failed, shared, cleared>>

POLLOUT == "POLLOUT"

Init ==
  /\ given = 0
  /\ wire = 0
  /\ buf = NewQueue
  /\ events = {}
  /\ loop = "idle"
  /\ asked = FALSE
  /\ worker = [w \in Workers |-> "idle"]
  /\ failed = "none"
  /\ shared = FALSE
  /\ cleared = FALSE

(* The bytes numbered from a to b. *)
Bytes(a, b) == [i \in 1 .. b - a + 1 |-> a + i - 1]

(* Some worker is inside PushBack. *)
Pushing == \E w \in Workers : worker[w] = "push"

-----------------------------------------------------------------------------
(* SendBytes *)

(* Mutant: send(2) is tried although earlier bytes wait. *)
SentAhead(n) == 0 .. n

(* How many of n bytes the loop thread's send(2) may take at once: it is   *)
(* tried only when nothing waits.                                          *)
SentAtOnce(n) == IF Empty(buf) THEN 0 .. n ELSE {0}

(* Mutant: EnableWrite(true) is forgotten. *)
PushOnly(bytes) ==
  IF bytes = << >>
    THEN UNCHANGED <<buf, events, failed>>
    ELSE IF PushBackAsserts(buf, Len(bytes))
      THEN buf' = PushBackN(buf, bytes) /\ UNCHANGED <<events, failed>>
      ELSE failed' = "PushBack" /\ UNCHANGED <<buf, events>>

(* mWriteBuf.PushBack and EnableWrite(true), when bytes are left to push. *)
PushAndEnable(bytes) ==
  IF bytes = << >>
    THEN UNCHANGED <<buf, events, failed>>
    ELSE IF PushBackAsserts(buf, Len(bytes))
      THEN /\ buf' = PushBackN(buf, bytes)
           /\ events' = events \cup {POLLOUT}
           /\ UNCHANGED failed
      ELSE /\ failed' = "PushBack"
           /\ UNCHANGED <<buf, events>>

(* Called by the loop thread, in a callback of this connection or of its   *)
(* session.                                                                *)
SendBytes(n, k) ==
  /\ failed = "none" /\ loop = "idle" /\ ~Pushing
  /\ given + n <= MaxBytes
  /\ given' = given + n
  /\ k \in SentAtOnce(n)
  /\ wire' = wire + k
  /\ PushAndEnable(Bytes(given + k + 1, given + n))
  /\ UNCHANGED <<loop, worker, shared, cleared>>

Send(n, k) == SendBytes(n, k) /\ UNCHANGED asked

(* OnTaskSuccessDefault and HttpModuleResponse: SendBytes, then Close when *)
(* the response asks for it.                                               *)
Respond(n, k) ==
  /\ SendBytes(n, k)
  /\ asked' = (asked \/ failed' = "none")

(* Another thread: PushBack, EnableWrite(true) and WakeUpLoop, one by one. *)
WorkerPush(w) ==
  /\ failed = "none" /\ worker[w] = "idle" /\ loop # "closed" /\ ~Pushing
  /\ given < MaxBytes
  /\ worker' = [worker EXCEPT ![w] = "push"]
  /\ shared' = TRUE
  /\ UNCHANGED <<given, wire, buf, events, loop, asked, failed, cleared>>

WorkerPushed(w, n) ==
  /\ failed = "none" /\ worker[w] = "push"
  /\ given + n <= MaxBytes
  /\ given' = given + n
  /\ IF PushBackAsserts(buf, n)
       THEN /\ buf' = PushBackN(buf, Bytes(given + 1, given + n))
            /\ worker' = [worker EXCEPT ![w] = "enable"]
            /\ UNCHANGED failed
       ELSE /\ failed' = "PushBack"
            /\ UNCHANGED <<buf, worker>>
  /\ UNCHANGED <<wire, events, loop, asked, shared, cleared>>

(* While a worker is inside PushBack, the loop thread is where it reads or *)
(* writes mWriteBuf, or another worker enters PushBack.                    *)
DataRace ==
  /\ failed = "none" /\ Pushing
  /\ \/ loop \in {"idle", "write", "drained"}
     \/ \E w \in Workers : worker[w] = "idle"
  /\ failed' = "race"
  /\ UNCHANGED <<given, wire, buf, events, loop, asked, worker, shared, cleared>>

WorkerEnable(w) ==
  /\ failed = "none" /\ worker[w] = "enable"
  /\ events' = events \cup {POLLOUT}
  /\ worker' = [worker EXCEPT ![w] = "wake"]
  /\ UNCHANGED <<given, wire, buf, loop, asked, failed, shared, cleared>>

(* GetLoopTid and WakeUpLoop, each with `assert(mLoop)`; the loop's        *)
(* WakeUpper is written.                                                   *)
WorkerWake(w) ==
  /\ failed = "none" /\ worker[w] = "wake"
  /\ failed' = IF loop = "closed" THEN "WakeUpLoop" ELSE "none"
  /\ worker' = [worker EXCEPT ![w] = "idle"]
  /\ UNCHANGED <<given, wire, buf, events, loop, asked, shared, cleared>>

-----------------------------------------------------------------------------
(* The loop thread. *)

(* Close(), called in a callback or because the peer has gone. *)
Close ==
  /\ failed = "none" /\ loop = "idle"
  /\ asked' = TRUE
  /\ UNCHANGED <<given, wire, buf, events, loop, worker, failed, shared, cleared>>

(* HandleEvents, after its read callback: no revents of this loop ever     *)
(* hold POLLOUT, so the write callback is called by the events alone.      *)
HandleEvents ==
  /\ failed = "none" /\ loop = "idle"
  /\ loop' = IF POLLOUT \in events THEN "write" ELSE "closing"
  /\ UNCHANGED <<given, wire, buf, events, asked, worker, failed, shared, cleared>>

(* OnWriteEvent up to DropFront; send(2) takes k of the bytes up to the fold. *)
OnWriteEvent(k) ==
  /\ failed = "none" /\ loop = "write" /\ ~Pushing
  /\ IF Empty(buf)
       THEN /\ k = 0
            /\ failed' = "OnWriteEvent"
            /\ UNCHANGED <<wire, buf, loop>>
       ELSE /\ k \in 0 .. (IF Folded(buf) THEN FoldedHead(buf) ELSE Size(buf))
            /\ wire' = wire + k
            /\ buf' = IF k = 0 THEN buf ELSE DropFront(buf, k)
            /\ loop' = "drained"
            /\ UNCHANGED failed
  /\ UNCHANGED <<given, events, asked, worker, shared, cleared>>

(* The rest of OnWriteEvent: EnableWrite, by what was left when Empty() was called. *)
CheckEmpty ==
  /\ failed = "none" /\ loop = "drained" /\ ~Pushing
  /\ loop' = IF Empty(buf) THEN "disarm" ELSE "arm"
  /\ UNCHANGED <<given, wire, buf, events, asked, worker, failed, shared, cleared>>

(* Mutant: OnWriteEvent turns POLLOUT off although bytes are left. *)
DisArmAlways ==
  /\ failed = "none" /\ loop \in {"arm", "disarm"}
  /\ events' = events \ {POLLOUT}
  /\ loop' = "closing"
  /\ UNCHANGED <<given, wire, buf, asked, worker, failed, shared, cleared>>

ReArm ==
  /\ failed = "none" /\ loop \in {"arm", "disarm"}
  /\ events' = IF loop = "arm" THEN events \cup {POLLOUT} ELSE events \ {POLLOUT}
  /\ cleared' = (cleared \/ (loop = "disarm" /\ ~Empty(buf)))
  /\ loop' = "closing"
  /\ UNCHANGED <<given, wire, buf, asked, worker, failed, shared>>

(* The end of HandleEvents: the closing callback takes the connection off  *)
(* the loop, and the descriptor is closed.                                 *)
ActOnClosing ==
  /\ failed = "none" /\ loop = "closing"
  /\ loop' = IF asked THEN "closed" ELSE "idle"
  /\ UNCHANGED <<given, wire, buf, events, asked, worker, failed, shared, cleared>>

Next ==
  \/ \E n \in 1 .. MaxSend : \E k \in 0 .. n : Send(n, k)
  \/ \E n \in 1 .. MaxSend : \E k \in 0 .. n : Respond(n, k)
  \/ \E w \in Workers : WorkerPush(w)
  \/ \E w \in Workers, n \in 1 .. MaxSend : WorkerPushed(w, n)
  \/ DataRace
  \/ \E w \in Workers : WorkerEnable(w)
  \/ \E w \in Workers : WorkerWake(w)
  \/ Close
  \/ HandleEvents
  \/ \E k \in 0 .. MaxBytes : OnWriteEvent(k)
  \/ CheckEmpty
  \/ ReArm
  \/ ActOnClosing

Spec == Init /\ [][Next]_vars

(* Passes go on, because poll(2) is given a finite timeout, a peer that    *)
(* stays makes send(2) take something in the end, and a thread that is     *)
(* inside SendBytes comes to its EnableWrite.                              *)
FairSpec ==
  /\ Spec
  /\ WF_vars(HandleEvents)
  /\ WF_vars(\E k \in 0 .. MaxBytes : OnWriteEvent(k))
  /\ SF_vars(\E k \in 1 .. MaxBytes : OnWriteEvent(k))
  /\ WF_vars(CheckEmpty)
  /\ WF_vars(ReArm)
  /\ WF_vars(ActOnClosing)
  /\ \A w \in Workers :
       WF_vars(\E n \in 1 .. MaxSend : WorkerPushed(w, n)) /\ WF_vars(WorkerEnable(w))

-----------------------------------------------------------------------------

TypeOK ==
  /\ given \in 0 .. MaxBytes
  /\ wire \in 0 .. MaxBytes
  /\ IsQueue(buf)
  /\ events \subseteq {POLLOUT}
  /\ loop \in {"idle", "write", "drained", "arm", "disarm", "closing", "closed"}
  /\ asked \in BOOLEAN
  /\ worker \in [Workers -> {"idle", "push", "enable", "wake"}]
  /\ failed \in {"none", "PushBack", "OnWriteEvent", "WakeUpLoop", "race"}
  /\ shared \in BOOLEAN /\ cleared \in BOOLEAN

(* What is on the wire and what waits in the ring is what was given, in    *)
(* order: nothing is lost, doubled or reordered between the direct send,   *)
(* the folded queue and partial writes, nor by the sends of other threads  *)
(* as long as no two threads are at the queue at once.                     *)
StreamInOrder ==
  failed = "none" => Content(buf) = Bytes(wire + 1, given)

(* Except between DropFront and EnableWrite, POLLOUT is on whenever bytes  *)
(* wait, or the thread that pushed them is about to turn it on; only an    *)
(* EnableWrite(false) decided before they came can have taken it from      *)
(* them.  It is on without need only after another thread has sent.        *)
PollOutIffPending ==
  failed = "none" /\ loop \notin {"drained", "arm", "disarm"} =>
    /\ ~Empty(buf) =>
         POLLOUT \in events \/ cleared \/ (\E w \in Workers : worker[w] = "enable")
    /\ Empty(buf) => POLLOUT \notin events \/ shared

(* The assertions of OnWriteEvent ("!mWriteBuf.Empty()") and of WakeUpLoop *)
(* ("mLoop") fail, and POLLOUT is taken from bytes that wait, only after   *)
(* another thread has called SendBytes.                                    *)
OnlyOtherThreadsFail ==
  failed \in {"OnWriteEvent", "WakeUpLoop", "race"} \/ cleared => shared

(* The types, POLLOUT and the assertions. *)
Inv == TypeOK /\ PollOutIffPending /\ OnlyOtherThreadsFail

(* Bytes given to SendBytes by any thread reach the wire unless the        *)
(* connection is closed, the process stops, or POLLOUT was cleared between *)
(* another thread's PushBack and its next one.                             *)
GivenIsSent ==
  \A b \in 1 .. MaxBytes :
    given >= b ~> (wire >= b \/ loop = "closed" \/ failed # "none" \/ cleared)

=============================================================================
