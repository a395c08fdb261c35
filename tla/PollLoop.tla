------------------------------ MODULE PollLoop ------------------------------
(***************************************************************************)
(* One thread running EventLoop::Loop over PollLoop::LoopOnce, and the     *)
(* callbacks of the handlers it dispatches.  A callback may apply handlers *)
(* to the loop and take handlers off it, its own included, while LoopOnce  *)
(* is in the middle of its scan of the vectors the callback changes.       *)
(*                                                                         *)
(* The loop is single threaded; what interleaves here is the scan with the *)
(* table changes made from inside it.                                      *)
(***************************************************************************)
EXTENDS SlotTable

CONSTANTS
  FdOf   (* The descriptor of each handler; -1 where its creation failed. *)

ASSUME FdAssumption ==
  /\ FdOf \in [Handlers -> Int]
  /\ \A h \in Handlers : FdOf[h] >= -1
  /\ \A h, k \in Handlers : FdOf[h] = FdOf[k] /\ FdOf[h] >= 0 => h = k

VARIABLES
  loop,      (* The slot table.                                                     *)
  phase,     (* "setup", "poll" (blocked in poll), "scan" (between slots),          *)
             (* "run" (inside the callbacks of the handler in slot cursor).         *)
  cursor,    (* The variable i of LoopOnce's for loop.                              *)
  aborted,   (* The handler whose removal failed an assertion, or NoHandler.        *)
  (* History of the current pass, for the properties. *)
  due,       (* Handlers poll(2) watched and that have stayed on the loop since.    *)
  fired,     (* Those of them poll(2) reported ready.                               *)
  served     (* Handlers dispatched in this pass and still on the loop.             *)

vars == <<loop, phase, cursor, aborted, due, fired, served>>

Live == {h \in Handlers : Applied(loop, h) /\ FdOf[h] >= 0}

Init ==
  /\ loop = EmptyTable
  /\ phase = "setup"
  /\ cursor = 1
  /\ aborted = NoHandler
  /\ due = {}
  /\ fired = {}
  /\ served = {}

-----------------------------------------------------------------------------
(* Table changes, from main() before Loop() or from a callback. *)

ApplyHandler(h) ==
  /\ phase \in {"setup", "run"}
  /\ aborted = NoHandler
  /\ ~Applied(loop, h)
  /\ loop' = Apply(loop, h, FdOf[h])
  /\ UNCHANGED <<phase, cursor, aborted, due, fired, served>>

UnApplyHandler(h) ==
  /\ phase = "run"
  /\ aborted = NoHandler
  /\ Applied(loop, h)
  /\ IF UnApplyAsserts(loop, h, FdOf[h])
       THEN /\ loop' = UnApply(loop, h)
            /\ due' = due \ {h}
            /\ fired' = fired \ {h}
            /\ served' = served \ {h}
            /\ UNCHANGED aborted
       ELSE /\ aborted' = h
            /\ UNCHANGED <<loop, due, fired, served>>
  /\ UNCHANGED <<phase, cursor>>

-----------------------------------------------------------------------------
(* EventLoop::Loop and PollLoop::LoopOnce. *)

StartLoop ==
  /\ phase = "setup"
  /\ phase' = "poll"
  /\ UNCHANGED <<loop, cursor, aborted, due, fired, served>>

PollReturns(ready) ==
  /\ phase = "poll"
  /\ loop' = Polled(loop, ready)
  /\ phase' = "scan"
  /\ cursor' = 1
  /\ due' = Live
  /\ fired' = ready
  /\ served' = {}
  /\ UNCHANGED aborted

(* Mutant: `break` instead of `continue`. *)
SkipSlotBreaking ==
  /\ phase = "scan"
  /\ cursor \in Slots(loop)
  /\ loop.polls[cursor].fd < 0
  /\ loop' = ClearSlot(loop, cursor)
  /\ phase' = "poll"
  /\ UNCHANGED <<cursor, aborted, due, fired, served>>

(* `continue` on a slot that is not watched. *)
SkipSlot ==
  /\ phase = "scan"
  /\ cursor \in Slots(loop)
  /\ loop.polls[cursor].fd < 0
  /\ loop' = ClearSlot(loop, cursor)
  /\ cursor' = cursor + 1
  /\ UNCHANGED <<phase, aborted, due, fired, served>>

(* handler->HandleEvents(mPollFdList[i]) is called. *)
Dispatch ==
  /\ phase = "scan"
  /\ cursor \in Slots(loop)
  /\ loop.polls[cursor].fd >= 0
  /\ phase' = "run"
  /\ served' = served \cup {loop.handlers[cursor]}
  /\ UNCHANGED <<loop, cursor, aborted, due, fired>>

(* HandleEvents returns. *)
Return ==
  /\ phase = "run"
  /\ aborted = NoHandler
  /\ phase' = "scan"
  /\ cursor' = cursor + 1
  /\ UNCHANGED <<loop, aborted, due, fired, served>>

EndPass ==
  /\ phase = "scan"
  /\ cursor \notin Slots(loop)
  /\ phase' = "poll"
  /\ UNCHANGED <<loop, cursor, aborted, due, fired, served>>

Next ==
  \/ \E h \in Handlers : ApplyHandler(h)
  \/ \E h \in Handlers : UnApplyHandler(h)
  \/ StartLoop
  \/ \E ready \in SUBSET Live : PollReturns(ready)
  \/ SkipSlot
  \/ Dispatch
  \/ Return
  \/ EndPass

Spec == Init /\ [][Next]_vars

(* The loop thread keeps running, poll(2) returns (it is given a finite    *)
(* timeout) and a callback returns.                                        *)
LoopStep ==
  \/ StartLoop
  \/ \E ready \in SUBSET Live : PollReturns(ready)
  \/ SkipSlot
  \/ Dispatch
  \/ Return
  \/ EndPass

FairSpec == Spec /\ WF_vars(LoopStep)

-----------------------------------------------------------------------------
(* Invariants. *)

TypeOK ==
  /\ loop \in Table
  /\ phase \in {"setup", "poll", "scan", "run"}
  /\ cursor \in Nat \ {0}
  /\ aborted \in Handlers \cup {NoHandler}
  /\ due \subseteq Handlers
  /\ fired \subseteq Handlers
  /\ served \subseteq Handlers \cup {NoHandler}

(* The vectors of the loop and the indices of the handlers agree at every  *)
(* point of a scan: a handler on the loop owns the slot it believes to     *)
(* have, alone, and every other slot is empty, unwatched and on the free   *)
(* stack, so that no slot is lost and none is handed out twice.            *)
TableConsistent == Consistent(loop, FdOf)

(* Readiness is never delivered to a handler it was not reported for: a    *)
(* slot freed and taken again during a pass (EventLoop.cpp:38-42) starts   *)
(* without the revents of the handler that had it.                         *)
ReadinessIsOwn ==
  \A i \in Slots(loop) : loop.polls[i].revents # {} =>
    loop.polls[i].fd >= 0 /\ loop.handlers[i] \in fired

(* A handler HandleEvents is about to be called on exists and its own fd   *)
(* is the one polled (PollLoop.cpp:22-23, PollEventHandler.cpp:45).        *)
DispatchIsSafe ==
  phase = "scan" /\ cursor \in Slots(loop) /\ loop.polls[cursor].fd >= 0 =>
    /\ loop.handlers[cursor] # NoHandler
    /\ FdOf[loop.handlers[cursor]] = loop.polls[cursor].fd

(* However the table changes under the scan, the handlers that were        *)
(* watched when the pass began and have not left since are the ones behind *)
(* the cursor once they have been served: none is skipped and none is      *)
(* served twice.                                                           *)
Reached(h) ==
  \/ phase = "run" /\ loop.loopIdx[h] <= cursor
  \/ phase # "run" /\ loop.loopIdx[h] < cursor

ScanCoversDue ==
  /\ due \subseteq Live
  /\ phase \in {"scan", "run"} => \A h \in due : h \in served <=> Reached(h)

(* An assertion of UnRegister or Remove fails only for a handler whose     *)
(* descriptor could not be created (PollLoop.cpp:41-42, EventLoop.cpp:     *)
(* 50-51).                                                                 *)
AbortOnlyOnBadFd == aborted # NoHandler => FdOf[aborted] < 0

(* The state of the loop is sound between any two calls a callback makes.  *)
Inv ==
  /\ TypeOK
  /\ TableConsistent
  /\ DispatchIsSafe
  /\ AbortOnlyOnBadFd

(* Under a fair loop, a handler reported ready gets its callback in the    *)
(* end, unless a callback takes it or its readiness away first, or aborts. *)
ReadyIsServed ==
  \A h \in Handlers :
    (phase = "scan" /\ h \in fired) ~> (h \in served \/ h \notin fired \/ aborted # NoHandler)

=============================================================================
