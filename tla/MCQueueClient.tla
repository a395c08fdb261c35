---------------------------- MODULE MCQueueClient ----------------------------
(* One DataQueue with up to MaxSize elements. *)
EXTENDS QueueClient
=============================================================================
