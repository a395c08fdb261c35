--------------------------- MODULE ConnectionNode ---------------------------
(***************************************************************************)
(* The intrusive circular lists of ConnectionNode.  The memory is a record *)
(* of the functions prev and next over all nodes; an operation maps the    *)
(* memory before the call to the memory after it.                          *)
(***************************************************************************)
EXTENDS Integers

CONSTANT Nodes

(* The constructor: a list of its own. *)
NewNode(m, n) ==
  [ prev |-> [m.prev EXCEPT ![n] = n],
    next |-> [m.next EXCEPT ![n] = n] ]

(* Add(node, prev, next), its four stores in order. *)
AddBetween(m, n, before, after) ==
  [ prev |-> [[m.prev EXCEPT ![after] = n] EXCEPT ![n] = before],
    next |-> [[m.next EXCEPT ![n] = after] EXCEPT ![before] = n] ]

AddTail(m, n, head) == AddBetween(m, n, m.prev[head], head)

(* Mutant: the store to next->prev is missing. *)
DeleteOneWay(m, n) ==
  [ prev |-> m.prev,
    next |-> [m.next EXCEPT ![m.prev[n]] = m.next[n]] ]

(* Delete(node): its neighbours are joined, its own pointers stay. *)
Delete(m, n) ==
  [ prev |-> [m.prev EXCEPT ![m.next[n]] = m.prev[n]],
    next |-> [m.next EXCEPT ![m.prev[n]] = m.next[n]] ]

(* The nodes a traversal from head visits, as OnTimeOut does it: `it =     *)
(* head->next; it != head; it = it->next`.  On memory that is not a list   *)
(* the traversal need not end; it is cut off after `fuel` nodes.           *)
Visited(m, head, fuel) ==
  LET walk[k \in 0 .. fuel] ==
        IF k = 0 THEN [at |-> m.next[head], seen |-> {}]
        ELSE LET w == walk[k - 1] IN
             IF w.at = head THEN w ELSE [at |-> m.next[w.at], seen |-> w.seen \cup {w.at}]
  IN  walk[fuel].seen

Memory == [prev : [Nodes -> Nodes], next : [Nodes -> Nodes]]

(* The nodes in live form closed circular lists, linked both ways. *)
WellLinked(m, live) ==
  \A n \in live :
    /\ m.next[n] \in live /\ m.prev[m.next[n]] = n
    /\ m.prev[n] \in live /\ m.next[m.prev[n]] = n

=============================================================================
