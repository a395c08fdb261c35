----------------------------- MODULE MCPollLoop -----------------------------
(* PollLoop with a few handlers, one of which has no descriptor. *)
EXTENDS PollLoop, TLC

CONSTANTS h1, h2, h3, bad

MCHandlers == {h1, h2, h3, bad}
MCFdOf == (h1 :> 3) @@ (h2 :> 4) @@ (h3 :> 5) @@ (bad :> -1)
=============================================================================
