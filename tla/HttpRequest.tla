----------------------------- MODULE HttpRequest -----------------------------
(***************************************************************************)
(* HttpRequest: the parser of request messages, fed with whatever read(2)  *)
(* returns.  The bytes are abstracted to tokens: the start line of a       *)
(* method, a header field, "CR", "LF" and "byte" (one byte of a body).  A  *)
(* token other than the last three stands for more than eight bytes, so a  *)
(* chunk may end between any two tokens but not inside one.                *)
(***************************************************************************)
EXTENDS Integers, Sequences

CONSTANT BodyLength   (* The value of the Content-Length field. *)

Methods == {"GET", "POST", "HEAD", "PUT", "DELETE"}

(* "length" is Content-Length, "keep" is Connection: keep-alive, "cookie"  *)
(* identifies the user, "upgrade" is Connection: Upgrade and Upgrade:      *)
(* websocket, "handshake" these and the other fields of a handshake, and   *)
(* "long" half of a field of over 1024 bytes; "word" has no colon.         *)
Fields == {"length", "keep", "cookie", "upgrade", "handshake", "long"}

Tokens == Methods \cup {"NOURL", "BAD", "CR", "LF", "byte", "word"} \cup Fields

(* nullptr, and a pointer past the end of the chunk. *)
Null == <<"nullptr">>
Beyond == <<"beyond">>

NewRequest ==
  [state |-> "eExpectRequestLine", method |-> "eINVALID", line |-> << >>,
   headers |-> {}, content |-> 0]

(* FindString(begin, end, "\r\n", 2): 0 is NULL, and -1 says that it has   *)
(* read past the end, which a CR in the last place makes it do, to go on   *)
(* until it meets a CR LF in memory that is not of the chunk.              *)
FindCrlf(c) ==
  LET crs == {i \in 1 .. Len(c) : c[i] = "CR"}
      cr  == CHOOSE i \in crs : \A j \in crs : i <= j
  IN  IF Len(c) < 2 \/ crs = {} THEN 0 ELSE IF cr = Len(c) THEN -1 ELSE cr

(* Both halves of an overlong field are in it. *)
Overlong(line) ==
  \E i, j \in 1 .. Len(line) : i < j /\ line[i] = "long" /\ line[j] = "long"

(* GetLine when the chunk holds no end of line: mReadingLine takes it. *)
Kept(req, c) ==
  LET line == req.line \o c
  IN  IF Overlong(line)
        THEN [req EXCEPT !.line = << >>, !.state = "eError"]
        ELSE [req EXCEPT !.line = line]

(* Mutant: the part of the line read before is left out. *)
GetLineOfChunk(req, c) ==
  LET i == FindCrlf(c)
  IN  IF i > 0 THEN [line |-> SubSeq(c, 1, i - 1), begin |-> SubSeq(c, i + 2, Len(c))]
      ELSE [line |-> Null, begin |-> IF i = 0 THEN Null ELSE Beyond]

(* What GetLine makes of the chunk c: the line, or Null, and what follows. *)
GetLine(req, c) ==
  LET i == FindCrlf(c)
  IN  CASE i > 0  -> [line |-> req.line \o SubSeq(c, 1, i - 1),
                      begin |-> SubSeq(c, i + 2, Len(c))]
        [] i = 0  -> [line |-> Null, begin |-> Null]
        [] OTHER  -> [line |-> Null, begin |-> Beyond]

(* More than eight bytes are there, and no known method begins them. *)
NoSuchMethod(line) ==
  /\ \E i \in 1 .. Len(line) : line[i] \notin {"CR", "LF", "byte"}
  /\ line[1] \notin Methods \cup {"NOURL"}

(* ParseRequestLine; "NOURL" is a known method without a URL. *)
ParseRequestLine(req, line) ==
  IF line # << >> /\ line[1] \in Methods
    THEN [req EXCEPT !.state = "eReadingHeaders", !.method = line[1], !.line = << >>]
    ELSE [req EXCEPT !.state = "eError", !.line = << >>]

OnExpectRequestLine(req, c) ==
  LET got == GetLine(req, c)
      kept == Kept(req, c)
  IN  [begin |-> got.begin,
       req |-> CASE got.line # Null -> ParseRequestLine(req, got.line)
                 [] got.line = Null /\ NoSuchMethod(kept.line) ->
                      [kept EXCEPT !.state = "eError", !.line = << >>]
                 [] OTHER -> kept]

(* One line of the headers. *)
ParseHeader(req, line) ==
  IF line = << >>
    THEN [req EXCEPT !.state = "eReadingBody", !.line = << >>]
    ELSE IF \A i \in 1 .. Len(line) : line[i] \notin Fields
      THEN [req EXCEPT !.state = "eError", !.line = << >>]
      ELSE [req EXCEPT !.line = << >>,
                       !.headers = IF Len(line) = 1 THEN @ \cup {line[1]} ELSE @]

OnReadingHeaders(req, c) ==
  LET got == GetLine(req, c)
  IN  [begin |-> got.begin,
       req |-> IF got.line = Null THEN Kept(req, c) ELSE ParseHeader(req, got.line)]

ContentLength(req) ==
  IF req.method \in {"POST", "PUT"} /\ "length" \in req.headers THEN BodyLength ELSE 0

(* Mutant: the body is complete only when more has come. *)
OnReadingBodyAndMore(req, c) ==
  LET need == ContentLength(req) - req.content
  IN  IF need < Len(c) \/ need = 0
        THEN [req |-> [req EXCEPT !.content = @ + need, !.state = "eResponsing"],
              begin |-> SubSeq(c, need + 1, Len(c))]
        ELSE [req |-> [req EXCEPT !.content = @ + Len(c)], begin |-> Null]

OnReadingBody(req, c) ==
  LET need == ContentLength(req) - req.content
  IN  IF need <= Len(c)
        THEN [req |-> [req EXCEPT !.content = @ + need, !.state = "eResponsing"],
              begin |-> SubSeq(c, need + 1, Len(c))]
        ELSE [req |-> [req EXCEPT !.content = @ + Len(c)], begin |-> Null]

NeedUpgrade(req) == req.headers \cap {"upgrade", "handshake"} # {}

(* WebSocketHandler: Upgrade, Host, Sec-WebSocket-Version and -Key. *)
CheckHandShake(req) == "handshake" \in req.headers

KeepAlive(req) == req.method # "eINVALID" /\ "keep" \in req.headers

(* What is left of the chunk stops Parse, or the state does. *)
Stops(r) ==
  \/ r.begin \in {Null, Beyond}
  \/ r.req.state \in {"eResponsing", "eError"}
  \/ r.begin = << >> /\ r.req.state # "eReadingBody"

(* One call of a handler in Parse. *)
Handled(req, c) ==
  CASE req.state = "eExpectRequestLine" -> OnExpectRequestLine(req, c)
    [] req.state = "eReadingHeaders"    -> OnReadingHeaders(req, c)
    [] req.state = "eReadingBody"       -> OnReadingBody(req, c)
    [] OTHER                            -> [req |-> req, begin |-> c]

ParseStep(req, c) ==
  LET r == Handled(req, c)
  IN  IF r.req.state = "eError" /\ r.begin \notin {Null, Beyond}
        THEN [r EXCEPT !.req.method = "eINVALID"] ELSE r

=============================================================================
