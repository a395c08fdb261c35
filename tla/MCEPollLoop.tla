---------------------------- MODULE MCEPollLoop ----------------------------
(* EPollLoop with more handlers than epoll_wait copies events, and one without a descriptor. *)
EXTENDS EPollLoop

CONSTANTS h1, h2, h3, bad

MCHandlers == {h1, h2, h3, bad}
MCBadFd == {bad}
MCTalkers == {h1, h2}
MCWriters == {h3}
=============================================================================
