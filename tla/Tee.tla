--------------------------------- MODULE Tee ---------------------------------
(***************************************************************************)
(* What InputBuffer promises: one stream, and readers that each take its   *)
(* bytes at their own pace.                                                *)
(***************************************************************************)
EXTENDS Integers, Sequences

CONSTANTS
  Readers,
  Streams   (* What a peer may send. *)

VARIABLES
  stream,
  arrived,   (* How many of its bytes have been read from the descriptor. *)
  readers,
  unread,    (* What each reader has still to take.                       *)
  lost       (* Whether the place in the stream has been lost.            *)

vars == <<stream, arrived, readers, unread, lost>>

Init ==
  /\ stream \in Streams
  /\ arrived = 0
  /\ readers = {}
  /\ unread = [r \in Readers |-> << >>]
  /\ lost = FALSE

Arrive(n) ==
  /\ arrived + n <= Len(stream)
  /\ arrived' = arrived + n
  /\ unread' = [r \in Readers |->
       IF r \in readers THEN unread[r] \o SubSeq(stream, arrived + 1, arrived + n) ELSE << >>]
  /\ UNCHANGED <<stream, readers, lost>>

(* A new reader begins at, or before, the one that is furthest behind. *)
Join(r, k) ==
  /\ r \notin readers
  /\ \A q \in readers : Len(unread[q]) <= k
  /\ readers' = readers \cup {r}
  /\ unread' = [unread EXCEPT ![r] = SubSeq(stream, arrived - k + 1, arrived)]
  /\ UNCHANGED <<stream, arrived, lost>>

Leave(r) ==
  /\ readers' = readers \ {r}
  /\ unread' = [unread EXCEPT ![r] = << >>]
  /\ UNCHANGED <<stream, arrived, lost>>

Without(s, n) == SubSeq(s, n + 1, Len(s))

Take(r, n) ==
  /\ r \in readers /\ n <= Len(unread[r])
  /\ unread' = [unread EXCEPT ![r] = Without(@, n)]
  /\ UNCHANGED <<stream, arrived, readers, lost>>

(* The buffer drops bytes no reader has taken, for all of them. *)
Skip(n) ==
  /\ \A r \in readers : n <= Len(unread[r])
  /\ unread' = [r \in Readers |-> IF r \in readers THEN Without(unread[r], n) ELSE << >>]
  /\ UNCHANGED <<stream, arrived, readers, lost>>

(* Bytes arrive while nobody reads, or are dropped that a reader has taken. *)
Lose ==
  /\ lost' = TRUE
  /\ readers = {} \/ arrived' = arrived
  /\ arrived' \in arrived .. Len(stream)
  /\ unread' = [r \in Readers |-> << >>]
  /\ UNCHANGED <<stream, readers>>

Next ==
  /\ ~lost
  /\ \/ \E n \in 1 .. Len(stream) : Arrive(n) \/ Skip(n)
     \/ \E r \in Readers : \/ Leave(r)
                           \/ \E k \in 0 .. arrived : Join(r, k)
                           \/ \E n \in 1 .. arrived : Take(r, n)
     \/ Lose

Spec == Init /\ [][Next]_vars

=============================================================================
