-------------------------------- MODULE Deque --------------------------------
(* The double-ended queue a DataQueue is to its callers. *)
EXTENDS Sequences, Integers

CONSTANTS
  Values,
  MaxBatch   (* The most elements one call appends. *)

VARIABLE content

Init == content = << >>

PushFront(e) == content' = <<e>> \o content

PushBack(s) == content' = content \o s

(* The first n elements leave. *)
PopFront(n) ==
  /\ n <= Len(content)
  /\ content' = SubSeq(content, n + 1, Len(content))

PopBack ==
  /\ content # << >>
  /\ content' = SubSeq(content, 1, Len(content) - 1)

Next ==
  \/ \E e \in Values : PushFront(e)
  \/ \E n \in 1 .. MaxBatch : \E s \in [1 .. n -> Values] : PushBack(s)
  \/ \E n \in 1 .. Len(content) : PopFront(n)
  \/ PopBack

Spec == Init /\ [][Next]_content

=============================================================================
