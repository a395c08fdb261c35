------------------------------ MODULE EPollLoop ------------------------------
(***************************************************************************)
(* One thread running EventLoop::Loop over EPollLoop::LoopOnce, and the    *)
(* callbacks of the handlers it dispatches.  Unlike the poll loop it scans *)
(* a batch of events that epoll_wait(2) has copied out, each of which      *)
(* names a slot of mHandlerList: a callback that frees the slot, or frees  *)
(* it and fills it again, leaves the event behind.                         *)
(*                                                                         *)
(* A handler stands for an EventHandler object and its descriptor; one     *)
(* that has been closed may come back as a new object with a new           *)
(* descriptor.  Slots are numbered from 1; slot i is index i - 1 of the    *)
(* code, and 0 is its index -1.                                            *)
(*                                                                         *)
(* Left out: EPOLLHUP and EPOLLERR, on which HandleEvents does nothing,    *)
(* EPOLLET, which nobody asks for, and the last branch of HandleEvents,    *)
(* which finds mIsClosed set by SetClosing whenever mIsClosing is.         *)
(***************************************************************************)
EXTENDS Integers, Sequences

CONSTANTS
  Handlers,    (* The EventHandler objects.                         *)
  NoHandler,   (* The null pointer an empty slot holds.             *)
  BadFd,       (* The handlers whose descriptor is -1.               *)
  Talkers,     (* The ones whose peer sends something.               *)
  Writers,     (* The ones that are written to: some connections.    *)
  MaxEvs       (* mMaxEvs: how many events epoll_wait(2) copies out. *)

ASSUME EPollAssumption ==
  /\ NoHandler \notin Handlers
  /\ BadFd \subseteq Handlers
  /\ Talkers \subseteq Handlers
  /\ Writers \subseteq Handlers
  /\ MaxEvs \in Nat \ {0}

EPOLLIN == "EPOLLIN"
EPOLLOUT == "EPOLLOUT"
Masks == SUBSET {EPOLLIN, EPOLLOUT}

VARIABLES
  handlers,   (* mHandlerList                                                  *)
  idle,       (* mIdleIdx, used as a stack                                     *)
  loopIdx,    (* mLoopIdx of each handler; mLoop is null when it is 0          *)
  events,     (* mEPollEvent.events of each handler                            *)
  (* The kernel. *)
  data,       (* data.fd of each descriptor in the interest list, 0 outside it *)
  asked,      (* The events the interest list has for it                       *)
  io,         (* What each descriptor is ready for                             *)
  ready,      (* The ready list of the epoll instance                          *)
  (* LoopOnce. *)
  phase,      (* "setup"; "wait" in epoll_wait; "scan" between two events;     *)
              (* "read", "write" in the callbacks of HandleEvents              *)
  batch,      (* The first nready events of mEvents; `who` is the handler an   *)
              (* event was reported for                                        *)
  pos,        (* The variable i of the for loop                                *)
  target,     (* The handler HandleEvents has been called on                   *)
  gone,       (* Handlers taken off the loop since epoll_wait returned         *)
  nullCall,   (* HandleEvents has been called on a null pointer                *)
  aborted     (* The handler an assertion has failed for                       *)

table  == <<handlers, idle, loopIdx>>
kernel == <<data, asked, io, ready>>
scan   == <<phase, batch, pos, target>>
vars   == <<table, events, kernel, scan, gone, nullCall, aborted>>

Init ==
  /\ handlers = << >>
  /\ idle = << >>
  /\ loopIdx = [h \in Handlers |-> 0]
  /\ events = [h \in Handlers |-> {EPOLLIN}]
  /\ data = [h \in Handlers |-> 0]
  /\ asked = [h \in Handlers |-> {}]
  /\ io = [h \in Handlers |-> {}]
  /\ ready = << >>
  /\ phase = "setup"
  /\ batch = << >>
  /\ pos = 1
  /\ target = NoHandler
  /\ gone = {}
  /\ nullCall = FALSE
  /\ aborted = NoHandler

Running  == aborted = NoHandler /\ ~nullCall
OnLoop(h) == loopIdx[h] # 0
Slots    == 1 .. Len(handlers)

(* A callback of a handler is being run. *)
InCallback == phase \in {"read", "write"}

-----------------------------------------------------------------------------
(* The ready list.  A descriptor is queued once, when it becomes ready for *)
(* an event it is asked for, or is asked for one it is ready for.          *)

IsQueued(h) == \E i \in 1 .. Len(ready) : ready[i] = h

Queued(h, mask, state) ==
  IF mask \cap state # {} /\ ~IsQueued(h) THEN Append(ready, h) ELSE ready

Unqueued(h) == SelectSeq(ready, LAMBDA k : k # h)

Reportable(h) == asked[h] \cap io[h] # {}

(* epoll_wait(2) walks the list until it has MaxEvs events, and drops what *)
(* is no longer ready; what it reports, level-triggered, goes to the back. *)
Walked(n) == SelectSeq(SubSeq(ready, 1, n), Reportable)

WalkEnds(n) ==
  \/ Len(Walked(n)) = MaxEvs /\ Reportable(ready[n])
  \/ Len(Walked(n)) < MaxEvs /\ n = Len(ready)

-----------------------------------------------------------------------------
(* Table changes, from main() before Loop() or from a callback. *)

(* Mutant: the free stack is read at its bottom and popped at its top. *)
NextSlotOldest == IF idle = << >> THEN Len(handlers) + 1 ELSE idle[1]

(* EventLoop::Add *)
NextSlot == IF idle = << >> THEN Len(handlers) + 1 ELSE idle[Len(idle)]

Added(h) ==
  /\ handlers' = IF idle = << >> THEN Append(handlers, h) ELSE [handlers EXCEPT ![NextSlot] = h]
  /\ idle' = IF idle = << >> THEN idle ELSE SubSeq(idle, 1, Len(idle) - 1)

(* A handler made by SetFd of a Connection, or by a Timer or a WakeUpper,  *)
(* is given to ApplyHandlerOnLoop: Add, then EPOLL_CTL_ADD in Register.    *)
ApplyHandler(h) ==
  /\ Running
  /\ phase = "setup" \/ (InCallback /\ h # target)
  /\ ~OnLoop(h)
  /\ IF h \in BadFd
       THEN /\ aborted' = h
            /\ UNCHANGED <<table, events, kernel>>
       ELSE /\ Added(h)
            /\ loopIdx' = [loopIdx EXCEPT ![h] = NextSlot]
            /\ events' = [events EXCEPT ![h] = {EPOLLIN}]
            /\ data' = [data EXCEPT ![h] = NextSlot]
            /\ asked' = [asked EXCEPT ![h] = {EPOLLIN}]
            /\ io' = [io EXCEPT ![h] = {}]
            /\ UNCHANGED <<ready, aborted>>
  /\ UNCHANGED <<scan, gone, nullCall>>

(* The assertions of UnRegister and Remove. *)
RemoveAsserts(h) ==
  /\ data[h] # 0
  /\ loopIdx[h] \in Slots
  /\ handlers[loopIdx[h]] = h

(* SetClosing of a handler: its closing callback takes it off the loop,    *)
(* EPOLL_CTL_DEL in UnRegister and then Remove, and it is closed.          *)
SetClosing(h) ==
  /\ Running
  /\ InCallback
  /\ OnLoop(h)
  /\ IF RemoveAsserts(h)
       THEN /\ handlers' = [handlers EXCEPT ![loopIdx[h]] = NoHandler]
            /\ idle' = Append(idle, loopIdx[h])
            /\ loopIdx' = [loopIdx EXCEPT ![h] = 0]
            /\ data' = [data EXCEPT ![h] = 0]
            /\ asked' = [asked EXCEPT ![h] = {}]
            /\ io' = [io EXCEPT ![h] = {}]
            /\ ready' = Unqueued(h)
            /\ gone' = gone \cup {h}
            /\ UNCHANGED aborted
       ELSE /\ aborted' = h
            /\ UNCHANGED <<table, kernel, gone>>
  /\ UNCHANGED <<events, scan, nullCall>>

(* EnableWrite and the EPOLL_CTL_MOD of UpdateEpoll, from a callback, or   *)
(* from a thread that sends; a handler off the loop only notes the events. *)
EnableWrite(h, en) ==
  LET mask == IF en THEN events[h] \cup {EPOLLOUT} ELSE events[h] \ {EPOLLOUT} IN
  /\ Running
  /\ OnLoop(h) \/ (InCallback /\ h = target)
  /\ mask # events[h]
  /\ events' = [events EXCEPT ![h] = mask]
  /\ IF OnLoop(h) /\ data[h] # 0
       THEN /\ asked' = [asked EXCEPT ![h] = mask]
            /\ ready' = Queued(h, mask, io[h])
       ELSE UNCHANGED <<asked, ready>>
  /\ aborted' = IF OnLoop(h) /\ data[h] = 0 THEN h ELSE NoHandler
  /\ UNCHANGED <<table, data, io, scan, gone, nullCall>>

(* Bytes arrive, or the socket takes bytes again. *)
BecomesReady(h, e) ==
  /\ Running
  /\ OnLoop(h)
  /\ e \notin io[h]
  /\ io' = [io EXCEPT ![h] = @ \cup {e}]
  /\ ready' = Queued(h, asked[h], {e})
  /\ UNCHANGED <<table, events, data, asked, scan, gone, nullCall, aborted>>

-----------------------------------------------------------------------------
(* EventLoop::Loop, EPollLoop::LoopOnce and EPollEventHandler::HandleEvents *)

StartLoop ==
  /\ Running
  /\ phase = "setup"
  /\ phase' = "wait"
  /\ UNCHANGED <<table, events, kernel, batch, pos, target, gone, nullCall, aborted>>

(* epoll_wait(2) returns, after its timeout when there is nothing to report. *)
EPollReturns(n, d) ==
  /\ phase = "wait"
  /\ WalkEnds(n)
  /\ d = Walked(n)
  /\ batch' = [i \in 1 .. Len(d) |->
                 [slot |-> data[d[i]], ev |-> asked[d[i]] \cap io[d[i]], who |-> d[i]]]
  /\ ready' = SubSeq(ready, n + 1, Len(ready)) \o d
  /\ pos' = 1
  /\ phase' = "scan"
  /\ UNCHANGED <<table, events, data, asked, io, target, gone, nullCall, aborted>>

(* HandleEvents has no callback left to call; ephandler goes out of scope. *)
EndEvent ==
  /\ phase' = "scan"
  /\ pos' = pos + 1
  /\ target' = NoHandler

(* Mutant: mHandlerList[i] for mHandlerList[mEvents[i].data.fd]. *)
DispatchByPosition ==
  LET e == batch[pos]
      h == handlers[pos] IN
  /\ Running
  /\ phase = "scan"
  /\ pos \in 1 .. Len(batch)
  /\ IF h = NoHandler
       THEN nullCall' = TRUE /\ UNCHANGED scan
       ELSE /\ target' = h
            /\ phase' = "read"
            /\ UNCHANGED <<batch, pos, nullCall>>
  /\ UNCHANGED <<table, events, kernel, gone, aborted>>

(* mHandlerList[mEvents[i].data.fd], and the first callback of HandleEvents. *)
Dispatch ==
  LET e == batch[pos]
      h == handlers[e.slot] IN
  /\ Running
  /\ phase = "scan"
  /\ pos \in 1 .. Len(batch)
  /\ IF h = NoHandler
       THEN nullCall' = TRUE /\ UNCHANGED scan
       ELSE /\ target' = h
            /\ \/ EPOLLIN \in e.ev /\ phase' = "read" /\ UNCHANGED pos
               \/ EPOLLIN \notin e.ev /\ EPOLLOUT \in events[h] \cup e.ev /\ phase' = "write" /\ UNCHANGED pos
            /\ UNCHANGED <<batch, nullCall>>
  /\ UNCHANGED <<table, events, kernel, gone, aborted>>

(* The read callback returns, having read some or all there was to read. *)
ReadReturns ==
  /\ Running
  /\ phase = "read"
  /\ io' \in {io, [io EXCEPT ![target] = @ \ {EPOLLIN}]}
  /\ \/ /\ EPOLLOUT \in events[target] \cup batch[pos].ev
        /\ phase' = "write"
        /\ UNCHANGED <<pos, target>>
     \/ /\ EPOLLOUT \notin events[target] \cup batch[pos].ev
        /\ EndEvent
  /\ UNCHANGED <<table, events, data, asked, ready, batch, gone, nullCall, aborted>>

(* The write callback returns, the socket being full or not. *)
WriteReturns ==
  /\ Running
  /\ phase = "write"
  /\ io' \in {io, [io EXCEPT ![target] = @ \ {EPOLLOUT}]}
  /\ EndEvent
  /\ UNCHANGED <<table, events, data, asked, ready, batch, gone, nullCall, aborted>>

(* Mutant: the loop stops one event short. *)
EndPassEarly ==
  /\ phase = "scan"
  /\ pos >= Len(batch)
  /\ phase' = "wait"
  /\ batch' = << >>
  /\ pos' = 1
  /\ gone' = {}
  /\ UNCHANGED <<table, events, kernel, target, nullCall, aborted>>

EndPass ==
  /\ phase = "scan"
  /\ pos > Len(batch)
  /\ phase' = "wait"
  /\ batch' = << >>
  /\ pos' = 1
  /\ gone' = {}
  /\ UNCHANGED <<table, events, kernel, target, nullCall, aborted>>

(* The sequences epoll_wait(2) may copy out. *)
Deliveries == UNION {[1 .. n -> {h \in Handlers : OnLoop(h)}] : n \in 0 .. MaxEvs}

LoopStep ==
  \/ StartLoop
  \/ \E n \in 0 .. Len(ready), d \in Deliveries : EPollReturns(n, d)
  \/ Dispatch
  \/ ReadReturns
  \/ WriteReturns
  \/ EndPass

Next ==
  \/ \E h \in Handlers : ApplyHandler(h)
  \/ \E h \in Handlers : SetClosing(h)
  \/ \E h \in Writers, en \in BOOLEAN : EnableWrite(h, en)
  \/ \E h \in Talkers : BecomesReady(h, EPOLLIN)
  \/ \E h \in Writers : BecomesReady(h, EPOLLOUT)
  \/ LoopStep

Spec == Init /\ [][Next]_vars

(* The loop thread keeps running, epoll_wait(2) returns and callbacks return. *)
FairSpec == Spec /\ WF_vars(LoopStep)

-----------------------------------------------------------------------------
(* Invariants. *)

TypeOK ==
  /\ handlers \in Seq(Handlers \cup {NoHandler})
  /\ idle \in Seq(Nat)
  /\ loopIdx \in [Handlers -> Nat]
  /\ events \in [Handlers -> Masks]
  /\ data \in [Handlers -> Nat]
  /\ asked \in [Handlers -> Masks]
  /\ io \in [Handlers -> Masks]
  /\ phase \in {"setup", "wait", "scan", "read", "write"}
  /\ pos \in Nat \ {0}
  /\ target \in Handlers \cup {NoHandler}
  /\ gone \subseteq Handlers
  /\ nullCall \in BOOLEAN
  /\ aborted \in Handlers \cup {NoHandler}

(* A handler on the loop owns its slot; a free slot is empty, and free once. *)
TableConsistent ==
  /\ \A h \in Handlers : OnLoop(h) => loopIdx[h] \in Slots /\ handlers[loopIdx[h]] = h
  /\ \A n \in 1 .. Len(idle) : idle[n] \in Slots /\ handlers[idle[n]] = NoHandler
  /\ \A n, m \in 1 .. Len(idle) : idle[n] = idle[m] => n = m

(* The kernel watches the handlers on the loop, under the slot they have   *)
(* and for the events they have enabled.                                   *)
InterestAgrees ==
  \A h \in Handlers :
    /\ data[h] = loopIdx[h]
    /\ OnLoop(h) => asked[h] = events[h]

(* The assertions on epoll_ctl(2) and on the table (EPollLoop.cpp:51,      *)
(* EPollLoop.cpp:64, EPollEventHandler.cpp:30, EventLoop.cpp:50-51) fail   *)
(* only for a handler whose descriptor could not be created.               *)
OnlyBadFdsAbort == aborted # NoHandler => aborted \in BadFd

(* The table of the loop and the interest list of the kernel are typed and *)
(* agree with each other, after any calls the callbacks make, and no call  *)
(* has been made that an assertion stops but for a bad descriptor.         *)
Inv == TypeOK /\ TableConsistent /\ InterestAgrees /\ OnlyBadFdsAbort

(* An event is given to the handler it was reported for, unless that       *)
(* handler has been taken off the loop since epoll_wait returned: only     *)
(* then does LoopOnce meet an empty slot (a call on a null pointer,        *)
(* EPollLoop.cpp:37-38) or a handler that has taken the slot over.         *)
EventsReachTheirHandler ==
  /\ nullCall => batch[pos].who \in gone
  /\ InCallback => target = batch[pos].who \/ batch[pos].who \in gone

(* Under a fair loop, a descriptor with something to read has its read     *)
(* callback called, however many others are ready and however few events   *)
(* are copied out at a time, unless it is taken off the loop.              *)
ReadyIsServed ==
  \A h \in Talkers :
    (OnLoop(h) /\ phase # "setup" /\ EPOLLIN \in io[h])
      ~> ((phase = "read" /\ target = h) \/ ~OnLoop(h) \/ ~Running)

=============================================================================
