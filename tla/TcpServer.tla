----------------------------- MODULE TcpServer -----------------------------
(***************************************************************************)
(* A TcpServer with the session table of TcpAppServer on a PollLoop: the   *)
(* acceptor, the time wheel with its timer, the connections and one        *)
(* WakeUpper per session, all handlers of the same loop.                   *)
(*                                                                         *)
(* One HandleEvents call is one action.  What poll(2) reported is decided  *)
(* when a handler is dispatched, among the slots that were watched when it *)
(* returned: nothing looks at a revents before that.                       *)
(***************************************************************************)
EXTENDS Integers, Sequences, FiniteSets

CONSTANTS
  Conns,       (* Names of Connection objects; a name is used again after its *)
               (* object is deleted.                                          *)
  NoConn,
  NoHandler,
  MaxConn,     (* mMaxConn                                                    *)
  NSlots,      (* The n of SetTimeOut.                                        *)
  MaxFd        (* The largest descriptor the process may open (RLIMIT_NOFILE). *)

LoopWk  == <<"loop", NoConn>>
Acc     == <<"acceptor", NoConn>>
Tim     == <<"timer", NoConn>>
Conn(c) == <<"conn", c>>
Wk(c)   == <<"wakeup", c>>

Handlers ==
  {LoopWk, Acc, Tim} \cup {Conn(c) : c \in Conns} \cup {Wk(c) : c \in Conns}

(* Descriptors 0 to 2 are the standard streams. *)
FirstFd == 3
FixedFds == FirstFd .. FirstFd + 2

ASSUME TcpServerAssumption ==
  /\ NoConn \notin Conns /\ NoHandler \notin Handlers
  /\ MaxConn \in Nat \ {0}
  /\ NSlots \in Nat /\ NSlots > 1
  /\ MaxFd \in Nat /\ MaxFd >= FirstFd + 2

VARIABLES
  tbl,       (* The slot table of the loop.                                        *)
  cursor,    (* The slot LoopOnce's scan is at; 0 while it is blocked in poll.     *)
  fd,        (* The descriptor of every handler; NoFd for one that does not exist. *)
  open,      (* The descriptors the process has open.                              *)
  wheel,     (* mTimeWheel: the connections linked in each slot, front first.      *)
  nconn,     (* mConnNum                                                           *)
  closing,   (* Connections whose handler has mIsClosing.                          *)
  sessions,  (* mHandlers: whose session each entry holds.                         *)
  holes,     (* mHoles                                                             *)
  idx,       (* mIdx of each session.                                              *)
  failed,    (* The assertion that stopped the process, or "none".                 *)
  silent     (* History: timer ticks since the connection was accepted or          *)
             (* last sent something.                                               *)

INSTANCE SlotTable

vars == <<tbl, cursor, fd, open, wheel, nconn, closing, sessions, holes, idx, failed, silent>>

appVars == <<sessions, holes, idx>>

Linked == UNION {wheel[i] : i \in 1 .. NSlots}

(* The constructors: loop, acceptor, timer, in that order. *)
Init ==
  /\ tbl = Apply(Apply(Apply(EmptyTable, LoopWk, FirstFd), Acc, FirstFd + 1), Tim, FirstFd + 2)
  /\ cursor = 0
  /\ fd = [h \in Handlers |-> CASE h = LoopWk -> FirstFd
                                [] h = Acc -> FirstFd + 1
                                [] h = Tim -> FirstFd + 2
                                [] OTHER -> NoFd]
  /\ open = FixedFds
  /\ wheel = [i \in 1 .. NSlots |-> {}]
  /\ nconn = 0
  /\ closing = {}
  /\ sessions = << >>
  /\ holes = << >>
  /\ idx = [c \in Conns |-> 0]
  /\ failed = "none"
  /\ silent = [c \in Conns |-> 0]

-----------------------------------------------------------------------------
(* PollLoop::LoopOnce *)

(* LoopOnce calls HandleEvents of h, whose assertion on the fd holds or stops the process. *)
Dispatching(h) ==
  /\ failed = "none"
  /\ cursor \in Slots(tbl)
  /\ tbl.polls[cursor].fd >= 0
  /\ tbl.handlers[cursor] = h

(* poll(2) watched the handler in this slot, so it may have reported it. *)
MayBeReady == POLLIN \in tbl.polls[cursor].revents

PollReturns ==
  /\ failed = "none"
  /\ cursor = 0
  /\ tbl' = Polled(tbl, Handlers)
  /\ cursor' = 1
  /\ UNCHANGED <<fd, open, wheel, nconn, closing, appVars, failed, silent>>

SkipSlot ==
  /\ failed = "none"
  /\ cursor \in Slots(tbl)
  /\ tbl.polls[cursor].fd < 0
  /\ tbl' = ClearSlot(tbl, cursor)
  /\ cursor' = cursor + 1
  /\ UNCHANGED <<fd, open, wheel, nconn, closing, appVars, failed, silent>>

EndPass ==
  /\ failed = "none"
  /\ cursor > Len(tbl.handlers)
  /\ cursor' = 0
  /\ UNCHANGED <<tbl, fd, open, wheel, nconn, closing, appVars, failed, silent>>

(* HandleEvents finds nothing to do, or only a WakeUpper to drain. *)
Quiet ==
  /\ \E h \in Handlers : Dispatching(h) /\ \A c \in closing : h # Conn(c)
  /\ cursor' = cursor + 1
  /\ UNCHANGED <<tbl, fd, open, wheel, nconn, closing, appVars, failed, silent>>

-----------------------------------------------------------------------------
(* TcpServer::OnNewConnection *)

(* The kernel gives out the lowest free descriptor, or fails with EMFILE. *)
LowestFd(used) ==
  LET free == (FirstFd .. MaxFd) \ used
  IN  IF free = {} THEN NoFd ELSE CHOOSE f \in free : \A g \in free : f <= g

Opened(used, f) == IF f = NoFd THEN used ELSE used \cup {f}

(* Acceptor::OnReadEvent calls accept(2), then OnNewConnection. *)
Accepting == Dispatching(Acc) /\ MayBeReady

(* The connection is over the limit and closed at once, or accept failed. *)
Reject ==
  /\ Accepting
  /\ nconn >= MaxConn
  /\ cursor' = cursor + 1
  /\ UNCHANGED <<tbl, fd, open, wheel, nconn, closing, appVars, failed, silent>>

(* GetFreeHandlerIdx, with entries counted from 1. *)
FreeIdx == IF holes = << >> THEN Len(sessions) + 1 ELSE holes[Len(holes)]

(* OnNewConnection does not look at the descriptor accept returned. *)
Accept(c) ==
  /\ Accepting
  /\ nconn < MaxConn
  /\ c \notin Linked
  /\ LET f == LowestFd(open)
         w == LowestFd(Opened(open, f))
     IN  /\ tbl' = Apply(Apply(tbl, Conn(c), f), Wk(c), w)
         /\ fd' = [fd EXCEPT ![Conn(c)] = f, ![Wk(c)] = w]
         /\ open' = Opened(Opened(open, f), w)
  /\ wheel' = [wheel EXCEPT ![NSlots] = @ \cup {c}]
  /\ nconn' = nconn + 1
  /\ sessions' = Put(sessions, FreeIdx, c)
  /\ holes' = IF holes = << >> THEN << >> ELSE SubSeq(holes, 1, Len(holes) - 1)
  /\ idx' = [idx EXCEPT ![c] = FreeIdx]
  /\ silent' = [silent EXCEPT ![c] = 0]
  /\ cursor' = cursor + 1
  /\ UNCHANGED <<closing, failed>>

-----------------------------------------------------------------------------
(* The timer: TcpServer::OnTimeOut *)

(* Mutant: the wheel is rotated before the front slot is traversed. *)
TimedOutAfterRotation == wheel[2]

(* Mutant: the wheel turns the other way. *)
RotatedBackwards == [i \in 1 .. NSlots |-> IF i > 1 THEN wheel[i - 1] ELSE wheel[NSlots]]

(* Mutant: the wheel does not turn. *)
NotRotated == wheel

(* The front slot, traversed before it moves to the back. *)
TimedOut == wheel[1]

Rotated == [i \in 1 .. NSlots |-> IF i < NSlots THEN wheel[i + 1] ELSE wheel[1]]

Tick ==
  /\ Dispatching(Tim)
  /\ MayBeReady
  /\ closing' = closing \cup TimedOut
  /\ wheel' = Rotated
  /\ silent' = [c \in Conns |->
                  IF c \notin Linked THEN 0
                  ELSE IF silent[c] > NSlots THEN silent[c] ELSE silent[c] + 1]
  /\ cursor' = cursor + 1
  /\ UNCHANGED <<tbl, fd, open, nconn, appVars, failed>>

-----------------------------------------------------------------------------
(* A session's WakeUpper runs OnTaskFinished, which may end with con->Close(). *)

WakeAndClose(c) ==
  /\ Dispatching(Wk(c))
  /\ MayBeReady
  /\ closing' = closing \cup {c}
  /\ cursor' = cursor + 1
  /\ UNCHANGED <<tbl, fd, open, wheel, nconn, appVars, failed, silent>>

-----------------------------------------------------------------------------
(* HandleEvents of a connection. *)

(* Mutant: AddTail to the slot before the back. *)
RelinkedTooEarly(c) ==
  [i \in 1 .. NSlots |-> IF i = NSlots - 1 THEN wheel[i] \cup {c} ELSE wheel[i] \ {c}]

(* Delete, then AddTail to the back of the wheel. *)
Relinked(c) ==
  [i \in 1 .. NSlots |-> IF i = NSlots THEN wheel[i] \cup {c} ELSE wheel[i] \ {c}]

(* The connection has sent data and stays open. *)
Message(c) ==
  /\ Dispatching(Conn(c))
  /\ MayBeReady
  /\ c \notin closing
  /\ wheel' = Relinked(c)
  /\ silent' = [silent EXCEPT ![c] = 0]
  /\ cursor' = cursor + 1
  /\ UNCHANGED <<tbl, fd, open, nconn, closing, appVars, failed>>

(* The assertions on the way through OnCloseConnection, in order. *)
CloseFailure(c) ==
  LET without == UnApply(tbl, Wk(c)) IN
  CASE ~(idx[c] \in 1 .. Len(sessions) /\ sessions[idx[c]] = c) -> "ReleaseHandler"
    [] ~UnApplyAsserts(tbl, Wk(c), fd[Wk(c)])                   -> "UnApply wakeup"
    [] ~UnApplyAsserts(without, Conn(c), fd[Conn(c)])           -> "UnApply conn"
    [] OTHER                                                    -> "none"

(* Delete takes the connection off whichever list it is on. *)
Unlinked(c) == [i \in 1 .. NSlots |-> wheel[i] \ {c}]

(* Mutant: ~WakeUpper does not close its eventfd. *)
ClosedConnFd(c) == {fd[Conn(c)]}

(* HandleEvents closes the descriptor of the connection, ~WakeUpper its own. *)
ClosedFds(c) == {fd[Conn(c)], fd[Wk(c)]}

(* HandleEvents closes the connection when it was marked closing before,   *)
(* or when the read callback has just closed it: end of file, or a message *)
(* the application answers with Close.  The relinking such a message does  *)
(* is undone by the Delete of OnCloseConnection.                           *)
CloseConn(c) ==
  /\ Dispatching(Conn(c))
  /\ c \in closing \/ MayBeReady
  /\ failed' = CloseFailure(c)
  /\ IF failed' = "none"
       THEN /\ tbl' = UnApply(UnApply(tbl, Wk(c)), Conn(c))
            /\ sessions' = [sessions EXCEPT ![idx[c]] = NoConn]
            /\ holes' = Append(holes, idx[c])
            /\ idx' = [idx EXCEPT ![c] = 0]
            /\ wheel' = Unlinked(c)
            /\ nconn' = nconn - 1
            /\ open' = open \ ClosedFds(c)
            /\ fd' = [fd EXCEPT ![Conn(c)] = NoFd, ![Wk(c)] = NoFd]
            /\ closing' = closing \ {c}
            /\ silent' = [silent EXCEPT ![c] = 0]
            /\ cursor' = cursor + 1
       ELSE UNCHANGED <<tbl, cursor, fd, open, wheel, nconn, closing, appVars, silent>>

Next ==
  \/ PollReturns
  \/ SkipSlot
  \/ EndPass
  \/ Quiet
  \/ Reject
  \/ \E c \in Conns : Accept(c)
  \/ Tick
  \/ \E c \in Conns : WakeAndClose(c)
  \/ \E c \in Conns : Message(c)
  \/ \E c \in Conns : CloseConn(c)

Spec == Init /\ [][Next]_vars

(* The loop thread keeps running, and the periodic timer expires again and *)
(* again.                                                                  *)
FairSpec == Spec /\ WF_vars(Next) /\ SF_vars(Tick)

-----------------------------------------------------------------------------

TypeOK ==
  /\ tbl \in Table
  /\ cursor \in Nat
  /\ fd \in [Handlers -> Int]
  /\ open \subseteq FirstFd .. MaxFd
  /\ wheel \in [1 .. NSlots -> SUBSET Conns]
  /\ nconn \in Nat
  /\ closing \subseteq Conns
  /\ sessions \in Seq(Conns \cup {NoConn})
  /\ holes \in Seq(Nat \ {0})
  /\ idx \in [Conns -> Nat]
  /\ failed \in {"none", "ReleaseHandler", "UnApply wakeup", "UnApply conn"}
  /\ silent \in [Conns -> Nat]

(* The accepts and closes made from inside a scan, two handlers each, keep *)
(* the loop's slot table in order.                                         *)
TableConsistent == Consistent(tbl, fd)

(* No descriptor leaks and none is closed under a handler: the open ones   *)
(* are exactly those of the handlers on the loop, one each, although       *)
(* accept, eventfd, HandleEvents and ~WakeUpper open and close them at     *)
(* different places and the kernel hands the numbers out again.            *)
FdsAreOwned ==
  /\ open = {fd[h] : h \in AppliedHandlers(tbl)}
  /\ \A h, k \in AppliedHandlers(tbl) : fd[h] = fd[k] => h = k

(* A connection is linked in one slot of the wheel exactly while it is on  *)
(* the loop with its WakeUpper, and mConnNum counts those and respects     *)
(* mMaxConn.                                                               *)
ConnCount ==
  /\ nconn = Cardinality(Linked)
  /\ nconn <= MaxConn
  /\ \A i, j \in 1 .. NSlots : wheel[i] \cap wheel[j] # {} => i = j
  /\ \A c \in Conns : c \in Linked <=> Applied(tbl, Conn(c))
  /\ \A c \in Conns : c \in Linked <=> Applied(tbl, Wk(c))
  /\ closing \subseteq Linked

(* The session table: every connection has the entry its session believes  *)
(* to have, and the other entries are empty and on mHoles, once each.      *)
SessionsConsistent ==
  /\ \A c \in Linked : idx[c] \in 1 .. Len(sessions) /\ sessions[idx[c]] = c
  /\ \A i \in 1 .. Len(sessions) :
       sessions[i] = NoConn <=> \E n \in 1 .. Len(holes) : holes[n] = i
  /\ \A n, m \in 1 .. Len(holes) : holes[n] = holes[m] => n = m
  /\ Len(sessions) = Len(holes) + nconn

(* No assertion on the way through OnCloseConnection fails                 *)
(* (TcpAppServer.cpp:45-46, PollLoop.cpp:41-42, EventLoop.cpp:50-51).      *)
NoAssertionFails == failed = "none"

(* The wheel counts: a connection that is not closing is linked as many    *)
(* slots from the front as it has ticks left.                              *)
WheelCounts ==
  \A c \in Linked \ closing : silent[c] < NSlots /\ c \in wheel[NSlots - silent[c]]

(* The table, the wheel, the sessions and the count agree with one another *)
(* at every point of a scan, and no assertion has failed.                  *)
Inv ==
  /\ TypeOK
  /\ TableConsistent
  /\ ConnCount
  /\ SessionsConsistent
  /\ WheelCounts
  /\ NoAssertionFails

(* A tick closes the connections that have been silent for NSlots ticks,   *)
(* this one included: none earlier, and none is left.                      *)
TimeoutIsExact ==
  [][Tick => \A c \in Linked \ closing : c \in closing' <=> silent'[c] = NSlots]_vars

(* The server implements the abstract wheel, the scan, the table and the   *)
(* descriptors hidden; the close that a timeout or a callback has asked    *)
(* for happens: PollEventHandler always acts upon a deferred SetClosing.   *)
Wheel == INSTANCE TimeWheelSpec WITH slots <- wheel
ImplementsWheel == Wheel!FairSpec

(* A connection that has gone silent is heard from again or closed.        *)
SilentIsClosed == \A c \in Conns : silent[c] > 0 ~> silent[c] = 0

=============================================================================
