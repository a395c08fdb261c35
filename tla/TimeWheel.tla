------------------------------ MODULE TimeWheel ------------------------------
(***************************************************************************)
(* The time wheel of a TcpServer at the level of the pointers: a deque of  *)
(* list heads, and one ConnectionNode per connection, allocated in         *)
(* OnNewConnection and deleted in OnCloseConnection.  A deleted node keeps *)
(* its pointers until the memory is used again.                            *)
(*                                                                         *)
(* On a PollLoop SetClosing leaves the close to the next HandleEvents; on  *)
(* an EPollLoop it runs the closing callback at once, from inside the      *)
(* traversal of OnTimeOut or the message callback of OnMessage.            *)
(*                                                                         *)
(* Everything happens in the loop thread, one callback at a time; the      *)
(* traversal of OnTimeOut is cut into its steps, with nothing in between.  *)
(***************************************************************************)
EXTENDS ConnectionNode, Sequences, FiniteSets

CONSTANTS
  Conns,    (* The nodes of connections. *)
  Heads,    (* The heads, one per slot.  *)
  NoNode

ASSUME NodesAssumption ==
  /\ Nodes = Conns \cup Heads
  /\ Conns \cap Heads = {}
  /\ NoNode \notin Nodes
  /\ IsFiniteSet(Nodes)
  /\ Cardinality(Heads) > 1

NSlots == Cardinality(Heads)

VARIABLES
  atOnce,    (* Whether the loop is an EPollLoop: SetClosing closes at once. *)
  mem,       (* The pointers.                                                *)
  wheel,     (* mTimeWheel                                                   *)
  linked,    (* The nodes of connections that are not deleted.               *)
  closing,   (* Connections whose handler has mIsClosing and is not closed.  *)
  it,        (* The variable `it` of OnTimeOut; NoNode while it is not run.  *)
  dangling   (* A deleted node has been put into a list.  What the program   *)
             (* does from there on is undefined and left out.                *)

wheelVars == <<atOnce, mem, wheel, linked, closing, it, dangling>>

(* The constructor's head and the ones SetTimeOut pushes. *)
WheelInit ==
  /\ atOnce \in BOOLEAN
  /\ mem = [prev |-> [n \in Nodes |-> n], next |-> [n \in Nodes |-> n]]
  /\ wheel \in {s \in [1 .. NSlots -> Heads] : \A i, j \in 1 .. NSlots : s[i] = s[j] => i = j}
  /\ linked = {}
  /\ closing = {}
  /\ it = NoNode
  /\ dangling = FALSE

Front == wheel[1]
(* Mutant: mTimeWheel.front() for back(). *)
BackIsFront == wheel[1]

Back == wheel[NSlots]

(* The loop thread is in none of the functions below. *)
Idle == it = NoNode /\ ~dangling

NewConnection(c) ==
  /\ Idle
  /\ c \notin linked
  /\ mem' = AddTail(NewNode(mem, c), c, Back)
  /\ linked' = linked \cup {c}
  /\ UNCHANGED <<atOnce, wheel, closing, it, dangling>>

(* What OnCloseConnection does to the lists. *)
Removed(c) ==
  /\ mem' = Delete(mem, c)
  /\ linked' = linked \ {c}

(* con->Close(): SetClosing of the handler of either loop. *)
AskClose(c) ==
  \/ /\ atOnce
     /\ Removed(c)
     /\ UNCHANGED closing
  \/ /\ ~atOnce
     /\ closing' = closing \cup {c}
     /\ UNCHANGED <<mem, linked>>

(* OnMessage, when the application's callback leaves the connection open: Delete, AddTail. *)
OnMessage(c) ==
  /\ Idle
  /\ c \in linked
  /\ mem' = AddTail(Delete(mem, c), c, Back)
  /\ UNCHANGED <<atOnce, wheel, linked, closing, it, dangling>>

(* The callback closes the connection, and OnMessage goes on with its node. *)
OnMessageCloses(c) ==
  /\ Idle
  /\ c \in linked
  /\ \/ /\ atOnce
        /\ mem' = AddTail(Delete(Delete(mem, c), c), c, Back)
        /\ linked' = linked \ {c}
        /\ dangling' = TRUE
        /\ UNCHANGED closing
     \/ /\ ~atOnce
        /\ mem' = AddTail(Delete(mem, c), c, Back)
        /\ closing' = closing \cup {c}
        /\ UNCHANGED <<linked, dangling>>
  /\ UNCHANGED <<atOnce, wheel, it>>

(* Close called from elsewhere: a read that fails, or a WakeUpper's callback. *)
Close(c) ==
  /\ Idle
  /\ c \in linked
  /\ AskClose(c)
  /\ UNCHANGED <<atOnce, wheel, it, dangling>>

(* HandleEvents of a PollEventHandler acts on mIsClosing. *)
OnCloseConnection(c) ==
  /\ Idle
  /\ c \in linked
  /\ c \in closing
  /\ Removed(c)
  /\ closing' = closing \ {c}
  /\ UNCHANGED <<atOnce, wheel, it, dangling>>

-----------------------------------------------------------------------------
(* OnTimeOut *)

TimeOut ==
  /\ Idle
  /\ it' = mem.next[Front]
  /\ UNCHANGED <<atOnce, mem, wheel, linked, closing, dangling>>

(* it->conn->Close(), then it = it->next, read from a node that may just   *)
(* have been deleted; no memory is allocated in between.                   *)
CloseNext ==
  /\ it \notin {NoNode, Front}
  /\ AskClose(it)
  /\ it' = mem'.next[it]
  /\ UNCHANGED <<atOnce, wheel, dangling>>

(* push_back(front), pop_front() *)
Rotated == [i \in 1 .. NSlots |-> IF i < NSlots THEN wheel[i + 1] ELSE Front]

TurnWheel ==
  /\ it = Front
  /\ wheel' = Rotated
  /\ it' = NoNode
  /\ UNCHANGED <<atOnce, mem, linked, closing, dangling>>

WheelNext ==
  \/ \E c \in Conns : NewConnection(c)
  \/ \E c \in Conns : OnMessage(c)
  \/ \E c \in Conns : OnMessageCloses(c)
  \/ \E c \in Conns : Close(c)
  \/ \E c \in Conns : OnCloseConnection(c)
  \/ TimeOut
  \/ CloseNext
  \/ TurnWheel

WheelSpec == WheelInit /\ [][WheelNext]_wheelVars

-----------------------------------------------------------------------------

(* The lists of the heads and of the nodes not yet deleted are closed and  *)
(* linked both ways, and no live node points at a deleted one, whatever    *)
(* order connections come, talk, close and time out in, and although       *)
(* OnTimeOut may delete the nodes it walks over.  The one exception is a   *)
(* message callback that closes its connection on an EPollLoop.            *)
ListsAreClosed ==
  IF dangling THEN atOnce ELSE WellLinked(mem, linked \cup Heads)

(* The slots as sets: what a traversal from each head finds. *)
SlotSets == [i \in 1 .. NSlots |-> Visited(mem, wheel[i], Cardinality(Nodes))]

Abstract == INSTANCE TimeWheelSpec WITH slots <- SlotSets

(* The pointer lists implement the wheel of sets on either loop: a slot    *)
(* holds the connections that belong there, and OnTimeOut turns the wheel  *)
(* when every connection of the front slot, and no other, has been closed  *)
(* or asked to.                                                            *)
ImplementsWheel == Abstract!Spec

=============================================================================
