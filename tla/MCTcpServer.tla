---------------------------- MODULE MCTcpServer ----------------------------
(* TcpServer with enough descriptors for every connection it admits, and   *)
(* more connections coming than it admits.                                 *)
EXTENDS TcpServer
=============================================================================
