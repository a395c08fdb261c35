---------------------------- MODULE MCConnection ----------------------------
(* One connection, with the loop thread alone or with another thread. *)
EXTENDS Connection
=============================================================================
