--------------------------- MODULE TimeWheelSpec ---------------------------
(***************************************************************************)
(* What a TcpServer promises of its time wheel, whatever the lists, the    *)
(* event loop and the session table do: a connection joins at the back,    *)
(* goes to the back when it is heard, moves one slot to the front with     *)
(* every tick, is asked to close when a tick finds it in front, and leaves.*)
(***************************************************************************)
EXTENDS Integers

CONSTANTS
  Conns,
  NSlots    (* At least 1. *)

VARIABLES
  slots,    (* The connections in each slot, front first. *)
  closing   (* Those that have been asked to close.       *)

vars == <<slots, closing>>

Members == UNION {slots[i] : i \in 1 .. NSlots}

Init ==
  /\ slots = [i \in 1 .. NSlots |-> {}]
  /\ closing = {}

Join(c) ==
  /\ c \notin Members
  /\ slots' = [slots EXCEPT ![NSlots] = @ \cup {c}]
  /\ UNCHANGED closing

(* What is heard may make the application ask for the close. *)
Hear(c) ==
  /\ c \in Members
  /\ slots' = [i \in 1 .. NSlots |-> IF i = NSlots THEN slots[i] \cup {c} ELSE slots[i] \ {c}]
  /\ closing' \in {closing, closing \cup {c}}

Ask(c) ==
  /\ c \in Members
  /\ closing' = closing \cup {c}
  /\ UNCHANGED slots

Tick ==
  /\ slots' = [i \in 1 .. NSlots |-> IF i < NSlots THEN slots[i + 1] ELSE slots[1]]
  /\ closing' = closing \cup slots[1]

Leave(c) ==
  /\ c \in Members
  /\ slots' = [i \in 1 .. NSlots |-> slots[i] \ {c}]
  /\ closing' = closing \ {c}

Next == Tick \/ \E c \in Conns : Join(c) \/ Hear(c) \/ Ask(c) \/ Leave(c)

Spec == Init /\ [][Next]_vars

(* A connection asked to close leaves in the end. *)
FairSpec == Spec /\ \A c \in Conns : WF_vars(c \in closing /\ Leave(c))

=============================================================================
