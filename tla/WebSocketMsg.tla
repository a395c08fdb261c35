---------------------------- MODULE WebSocketMsg ----------------------------
(***************************************************************************)
(* WebSocketMsg: the parser of frames, and what a message to be sent       *)
(* begins with.  A frame is a byte with the opcode, one with the length or *)
(* the mark of a longer length field, that field, the mask and the         *)
(* payload; every part but the payload is gathered in mBufData until it is *)
(* whole.  FIN and MASK are left out: frames come masked.  Reserved bits   *)
(* are refused like an unknown opcode.                                     *)
(* The exclusive or of bytes is that of each bit, so that the bytes of a   *)
(* mask and of a payload are bits.                                         *)
(***************************************************************************)
EXTENDS Integers, Sequences

CONSTANTS
  Len64Bytes,   (* Bound: the bytes of the long length field, 8 in the code. *)
  MaskBytes     (* Bound: the bytes of the mask, 4 in the code.              *)

Null == <<-1>>

eWS_OPCODE_CLOSE == 8
IsOpcodeValide(opcode) == opcode \in {0, 1, 2, 8, 9, 10}

NewMsg ==
  [state |-> "eReadingHead", buf |-> << >>, opcode |-> 0, len |-> 0, mask |-> << >>,
   content |-> << >>]

(* be16toh and be64toh, and htobe16 and htobe64 into k bytes. *)
BigEndian(data) ==
  LET upTo[i \in 0 .. Len(data)] == IF i = 0 THEN 0 ELSE 256 * upTo[i - 1] + data[i]
  IN  upTo[Len(data)]

Bytes(k, n) ==
  LET shifted[i \in 0 .. k] == IF i = 0 THEN n ELSE shifted[i - 1] \div 256
  IN  [i \in 1 .. k |-> shifted[k - i] % 256]

(* SetPayloadLen: the length as the head of a message states it. *)
LengthHead(n) ==
  CASE n < 126               -> <<n>>
    [] n >= 126 /\ n < 65536 -> <<126>> \o Bytes(2, n)
    [] OTHER                 -> <<127>> \o Bytes(Len64Bytes, n)

(* GetData: n bytes out of mBufData and the chunk c, or Null. *)
GetData(m, n, c) ==
  LET need == n - Len(m.buf)
  IN  CASE need <= 0 ->
             [data |-> Null, begin |-> Null,
              msg |-> [m EXCEPT !.buf = << >>, !.state = "eError"]]
        [] need > Len(c) ->
             [data |-> Null, begin |-> Null, msg |-> [m EXCEPT !.buf = @ \o c]]
        [] OTHER ->
             [data |-> m.buf \o SubSeq(c, 1, need), begin |-> SubSeq(c, need + 1, Len(c)),
              msg |-> [m EXCEPT !.buf = << >>]]

SetPayloadLen(m, n) == [m EXCEPT !.len = n, !.state = "eReadingMask"]

Headed(m, data) ==
  LET h == [m EXCEPT !.opcode = data[1]]
  IN  CASE data[2] = 126 -> [h EXCEPT !.state = "eReadingLen16"]
        [] data[2] = 127 -> [h EXCEPT !.state = "eReadingLen64"]
        [] OTHER           -> SetPayloadLen(h, data[2])

OnReadingHead(m, c) ==
  LET got == GetData(m, 2, c)
  IN  CASE got.data = Null -> [msg |-> got.msg, begin |-> Null]
        [] got.data # Null /\ ~IsOpcodeValide(got.data[1]) ->
             [msg |-> [got.msg EXCEPT !.state = "eError"], begin |-> Null]
        [] OTHER -> [msg |-> Headed(got.msg, got.data), begin |-> got.begin]

(* Both length fields. *)
OnReadingLen(m, n, c) ==
  LET got == GetData(m, n, c)
  IN  [msg |-> IF got.data = Null THEN got.msg ELSE SetPayloadLen(got.msg, BigEndian(got.data)),
       begin |-> got.begin]

OnReadingMask(m, c) ==
  LET got == GetData(m, MaskBytes, c)
  IN  [msg |-> IF got.data = Null THEN got.msg
               ELSE [got.msg EXCEPT !.mask = got.data, !.state = "eReadingPayload"],
       begin |-> got.begin]

Xor(a, b) == IF a = b THEN 0 ELSE 1

(* UnMaskPayload: the mask again and again, from the beginning of the      *)
(* payload.                                                                *)
UnMasked(content, mask) ==
  [i \in 1 .. Len(content) |-> Xor(content[i], mask[((i - 1) % MaskBytes) + 1])]

(* Mutant: what has come of the payload is not counted. *)
OnReadingPayloadAfresh(m, c) ==
  IF m.len <= Len(c)
    THEN [msg |-> [m EXCEPT !.content = UnMasked(@ \o SubSeq(c, 1, m.len), m.mask),
                            !.state = "eNewMsg"],
          begin |-> SubSeq(c, m.len + 1, Len(c))]
    ELSE [msg |-> [m EXCEPT !.content = @ \o c], begin |-> Null]

OnReadingPayload(m, c) ==
  LET need == m.len - Len(m.content)
  IN  IF need <= Len(c)
        THEN [msg |-> [m EXCEPT !.content = UnMasked(@ \o SubSeq(c, 1, need), m.mask),
                                !.state = "eNewMsg"],
              begin |-> SubSeq(c, need + 1, Len(c))]
        ELSE [msg |-> [m EXCEPT !.content = @ \o c], begin |-> Null]

(* One call of a handler in Parse. *)
ParseStep(m, c) ==
  CASE m.state = "eReadingHead"    -> OnReadingHead(m, c)
    [] m.state = "eReadingLen16"   -> OnReadingLen(m, 2, c)
    [] m.state = "eReadingLen64"   -> OnReadingLen(m, Len64Bytes, c)
    [] m.state = "eReadingMask"    -> OnReadingMask(m, c)
    [] m.state = "eReadingPayload" -> OnReadingPayload(m, c)
    [] OTHER                       -> [msg |-> m, begin |-> c]

(* What is left of the chunk stops Parse, or the state does. *)
Stops(r) ==
  \/ r.begin = Null
  \/ r.msg.state \in {"eNewMsg", "eError"}
  \/ r.begin = << >> /\ r.msg.state # "eReadingPayload"

=============================================================================
