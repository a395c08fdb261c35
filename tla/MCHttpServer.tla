---------------------------- MODULE MCHttpServer ----------------------------
(* Requests that are answered, refused and malformed; the last two are not *)
(* those of a tame client.                                                 *)
EXTENDS HttpServer

Line(t) == <<t, "CR", "LF">>
End == <<"CR", "LF">>

SomeRequests ==
  { Line("GET") \o Line("keep") \o End,
    Line("POST") \o Line("length") \o End \o <<"byte", "byte">>,
    Line("HEAD") \o Line("cookie") \o Line("upgrade") \o End,
    Line("GET") \o Line("cookie") \o Line("handshake") \o End,
    Line("GET") \o Line("word"),
    Line("BAD"),
    Line("NOURL") \o End,
    Line("GET") \o <<"long">> \o Line("long") \o End }

(* A request without a body. *)
PlainRequests == { Line("GET") \o Line("keep") \o End }
=============================================================================
