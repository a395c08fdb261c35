---------------------------- MODULE MCTimeWheel ----------------------------
(* TimeWheel with a few connections and slots. *)
EXTENDS TimeWheel, TLC

MCNodes == Conns \cup Heads
Symmetric == Permutations(Conns) \cup Permutations(Heads)
=============================================================================
