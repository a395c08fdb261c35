--------------------------- MODULE WebSocketServer ---------------------------
(***************************************************************************)
(* One connection of WebSocketServer from the upgrade on: the frames of    *)
(* the client, cut anywhere by read(2), and the messages that the callback *)
(* on the loop thread and other threads send through mSendMsgs and the     *)
(* WakeUpper.  HttpServer models what comes before the upgrade.            *)
(***************************************************************************)
EXTENDS WebSocketMsg

CONSTANTS
  Frames,      (* What the client may send: the bytes of a   *)
               (* frame, and the payload it carries.         *)
  Workers,     (* Threads that call SendMsg.                 *)
  MaxFrames,   (* Bound: the frames the client sends.        *)
  MaxMsgs      (* Bound: the messages the application sends. *)

(* The bytes of the length field of a frame, and of all before its payload. *)
FieldLength(f) ==
  CASE f.bytes[2] = 126 -> 2
    [] f.bytes[2] = 127 -> Len64Bytes
    [] OTHER            -> 0

HeadLength(f) == 2 + FieldLength(f) + MaskBytes

Mask(f) == SubSeq(f.bytes, 2 + FieldLength(f) + 1, HeadLength(f))

Bad(f) == ~IsOpcodeValide(f.bytes[1])

(* A frame states the length of its payload in one of the three forms and  *)
(* masks it; nothing is asked of one with an unknown opcode.               *)
IsFrame(f) ==
  /\ f.bytes \in Seq(Nat) /\ Len(f.bytes) >= 2
  /\ f.payload \in Seq({0, 1})
  /\ ~Bad(f) =>
       /\ Len(f.bytes) = HeadLength(f) + Len(f.payload)
       /\ Len(f.payload) = IF FieldLength(f) = 0 THEN f.bytes[2]
                           ELSE BigEndian(SubSeq(f.bytes, 3, 2 + FieldLength(f)))
       /\ Mask(f) \in Seq({0, 1})
       /\ SubSeq(f.bytes, HeadLength(f) + 1, Len(f.bytes)) = UnMasked(f.payload, Mask(f))

(* A length of 65536 takes three bytes. *)
ASSUME WebSocketAssumption ==
  /\ MaxFrames \in Nat /\ MaxMsgs \in Nat
  /\ Len64Bytes \in Nat /\ Len64Bytes >= 3 /\ MaskBytes \in Nat \ {0}
  /\ \A f \in Frames : IsFrame(f)

VARIABLES
  sent,      (* The frames the client has sent.                                *)
  inbox,     (* What it has written and the server has not read.               *)
  rest,      (* begin .. end in OnWsMessage, or Null.                          *)
  loop,      (* "idle", "parse", "check" (in OnWsMessage), "drain"             *)
             (* (in HandleWsReponse).                                          *)
  msg,       (* mRcvdMsg                                                       *)
  got,       (* The messages the callback has been given.                      *)
  proto,     (* What mUserObject is: "http" or "ws".                           *)
  conn,      (* "open", "shutting" (inside the HandleEvents that will close    *)
             (* it) or "closed".                                               *)
  wake,      (* The eventfd of mWakeUpper is readable.                         *)
  msgs,      (* mSendMsgs; messages are numbered in the order they are pushed. *)
  pushed,    (* How many have been pushed.                                     *)
  wire,      (* What SendBytes has been given.                                 *)
  worker,    (* Where each thread is: "idle" or "wake" (before WakeUp).        *)
  failed     (* WakeUp has used mWakeUpper after it was released.              *)

reading == <<sent, inbox, rest, msg, got>>
sending == <<msgs, pushed, wire>>
vars == <<reading, loop, proto, conn, wake, sending, worker, failed>>

Init ==
  /\ sent = << >> /\ inbox = << >> /\ rest = Null /\ loop = "idle"
  /\ msg = NewMsg /\ got = << >>
  /\ proto = "http" /\ conn = "open" /\ wake = TRUE
  /\ msgs = << >> /\ pushed = 0 /\ wire = << >>
  /\ worker = [w \in Workers |-> "idle"]
  /\ failed = FALSE

Handshake == 0

-----------------------------------------------------------------------------
(* The client waits for the handshake. *)
Send(f) ==
  /\ ~failed /\ proto = "ws" /\ conn # "closed" /\ Len(sent) < MaxFrames
  /\ sent' = Append(sent, f)
  /\ inbox' = inbox \o f.bytes
  /\ UNCHANGED <<rest, msg, got, loop, proto, conn, wake, sending, worker, failed>>

Read(n) ==
  /\ ~failed /\ loop = "idle" /\ conn = "open"
  /\ rest' = SubSeq(inbox, 1, n)
  /\ inbox' = SubSeq(inbox, n + 1, Len(inbox))
  /\ loop' = "parse"
  /\ UNCHANGED <<sent, msg, got, proto, conn, wake, sending, worker, failed>>

(* read(2) returns nothing: Close(), and HandleEvents closes. *)
PeerCloses ==
  /\ ~failed /\ loop = "idle" /\ conn = "open" /\ inbox = << >>
  /\ conn' = "shutting"
  /\ UNCHANGED <<reading, loop, proto, wake, sending, worker, failed>>

(* OnCloseConnection: the handler and its WakeUpper are released. *)
OnCloseConnection ==
  /\ ~failed /\ loop = "idle" /\ conn = "shutting"
  /\ conn' = "closed"
  /\ wake' = FALSE
  /\ UNCHANGED <<reading, loop, proto, sending, worker, failed>>

-----------------------------------------------------------------------------
(* The handler is replaced, and the callback of its WakeUpper with it. *)
OnWsHandler == proto = "http" /\ proto' = "ws"

(* HttpModuleUpgradeWs: the handshake is sent, the handler replaced and *)
(* woken up.                                                            *)
Upgrade ==
  /\ ~failed /\ loop = "idle" /\ conn = "open" /\ wake
  /\ wire' = Append(wire, Handshake)
  /\ OnWsHandler
  /\ wake' = TRUE
  /\ UNCHANGED <<reading, loop, conn, msgs, pushed, worker, failed>>

Parse ==
  /\ ~failed /\ loop = "parse"
  /\ \E r \in {ParseStep(msg, rest)} :
       /\ msg' = r.msg
       /\ rest' = r.begin
       /\ loop' = IF Stops(r) THEN "check" ELSE "parse"
  /\ UNCHANGED <<sent, inbox, got, proto, conn, wake, sending, worker, failed>>

Push ==
  /\ msgs' = Append(msgs, pushed + 1)
  /\ pushed' = pushed + 1

(* Mutant: SendMsg on the loop thread does not wake the loop up. *)
CallbackAsleep ==
  /\ got' = Append(got, msg.content)
  /\ (pushed < MaxMsgs /\ Push) \/ UNCHANGED <<msgs, pushed>>
  /\ UNCHANGED wake

(* mMsgCallBk, which may call SendMsg. *)
Callback ==
  /\ got' = Append(got, msg.content)
  /\ \/ pushed < MaxMsgs /\ Push /\ wake' = TRUE
     \/ UNCHANGED <<msgs, pushed, wake>>

Check ==
  /\ ~failed /\ loop = "check"
  /\ CASE msg.state = "eNewMsg" /\ msg.opcode = eWS_OPCODE_CLOSE ->
            conn' = "shutting" /\ UNCHANGED <<msg, got, msgs, pushed, wake>>
       [] msg.state = "eNewMsg" /\ msg.opcode # eWS_OPCODE_CLOSE ->
            Callback /\ msg' = NewMsg /\ UNCHANGED conn
       [] OTHER -> UNCHANGED <<msg, got, conn, msgs, pushed, wake>>
  /\ loop' = IF rest \in {Null, << >>} THEN "idle" ELSE "parse"
  /\ rest' = IF rest = << >> THEN Null ELSE rest
  /\ UNCHANGED <<sent, inbox, proto, wire, worker, failed>>

-----------------------------------------------------------------------------
(* SendMsg of another thread, and HandleWsReponse. *)

SendMsg(w) ==
  /\ ~failed /\ proto = "ws" /\ conn # "closed" /\ worker[w] = "idle" /\ pushed < MaxMsgs
  /\ Push
  /\ worker' = [worker EXCEPT ![w] = "wake"]
  /\ UNCHANGED <<reading, loop, proto, conn, wake, wire, failed>>

WakeUp(w) ==
  /\ ~failed /\ worker[w] = "wake"
  /\ worker' = [worker EXCEPT ![w] = "idle"]
  /\ IF conn = "closed"
       THEN failed' = TRUE /\ UNCHANGED wake
       ELSE wake' = TRUE /\ UNCHANGED failed
  /\ UNCHANGED <<reading, loop, proto, conn, sending>>

OnReadEvent ==
  /\ ~failed /\ loop = "idle" /\ conn # "closed" /\ proto = "ws" /\ wake
  /\ wake' = FALSE
  /\ loop' = "drain"
  /\ UNCHANGED <<reading, proto, conn, sending, worker, failed>>

(* Mutant: the message pushed last goes first. *)
PopNewest ==
  /\ wire' = Append(wire, msgs[Len(msgs)])
  /\ msgs' = SubSeq(msgs, 1, Len(msgs) - 1)
  /\ UNCHANGED loop

(* Mutant: one message for a wake-up. *)
PopOnce ==
  /\ wire' = Append(wire, msgs[1])
  /\ msgs' = Tail(msgs)
  /\ loop' = "idle"

PopSendMsg ==
  /\ wire' = Append(wire, msgs[1])
  /\ msgs' = Tail(msgs)
  /\ UNCHANGED loop

(* PopSendMsg and SendBytes, until PopSendMsg returns nullptr. *)
HandleWsReponse ==
  /\ ~failed /\ loop = "drain"
  /\ IF msgs = << >>
       THEN loop' = "idle" /\ UNCHANGED <<msgs, wire>>
       ELSE PopSendMsg
  /\ UNCHANGED <<reading, proto, conn, wake, pushed, worker, failed>>

Next ==
  \/ \E f \in Frames : Send(f)
  \/ \E n \in 1 .. Len(inbox) : Read(n)
  \/ PeerCloses
  \/ OnCloseConnection
  \/ Upgrade
  \/ Parse
  \/ Check
  \/ \E w \in Workers : SendMsg(w)
  \/ \E w \in Workers : WakeUp(w)
  \/ OnReadEvent
  \/ HandleWsReponse

Spec == Init /\ [][Next]_vars

(* The loop goes on polling, and a thread inside SendMsg goes on. *)
FairSpec ==
  /\ Spec
  /\ WF_vars(\E n \in 1 .. Len(inbox) : Read(n))
  /\ WF_vars(OnCloseConnection)
  /\ WF_vars(Upgrade)
  /\ WF_vars(Parse)
  /\ WF_vars(Check)
  /\ WF_vars(OnReadEvent)
  /\ WF_vars(HandleWsReponse)
  /\ \A w \in Workers : WF_vars(WakeUp(w))

-----------------------------------------------------------------------------

(* The bytes of the part a state reads. *)
Needed(state) ==
  CASE state \in {"eReadingHead", "eReadingLen16"} -> 2
    [] state = "eReadingLen64" -> Len64Bytes
    [] state = "eReadingMask" -> MaskBytes
    [] OTHER -> 0

(* Types; mBufData never holds the whole of the part being read. *)
TypeOK ==
  /\ Len(sent) <= MaxFrames /\ pushed \in 0 .. MaxMsgs
  /\ loop \in {"idle", "parse", "check", "drain"}
  /\ msg.state \in {"eReadingHead", "eReadingLen16", "eReadingLen64", "eReadingMask",
                    "eReadingPayload", "eNewMsg", "eError"}
  /\ msg.buf = << >> \/ Len(msg.buf) < Needed(msg.state)
  /\ proto \in {"http", "ws"} /\ conn \in {"open", "shutting", "closed"}
  /\ wake \in BOOLEAN /\ failed \in BOOLEAN
  /\ worker \in [Workers -> {"idle", "wake"}]

Last(f) == Bad(f) \/ f.bytes[1] = eWS_OPCODE_CLOSE

(* The frames before the first that closes or is malformed. *)
Good(fs) ==
  LET stops == {i \in 1 .. Len(fs) : Last(fs[i])}
      n == IF stops = {} THEN Len(fs) ELSE CHOOSE i \in stops : \A j \in stops : i <= j
  IN  IF stops = {} THEN fs ELSE SubSeq(fs, 1, n - 1)

(* However the bytes are cut, the callback is given the payloads of the    *)
(* frames sent as they were before they were masked, each once and in      *)
(* order, and when all has been read none is missing.                      *)
MessagesFit ==
  LET all == [i \in 1 .. Len(Good(sent)) |-> Good(sent)[i].payload]
  IN  /\ Len(got) <= Len(all) /\ got = SubSeq(all, 1, Len(got))
      /\ inbox = << >> /\ loop \in {"idle", "drain"} => got = all

(* The handshake goes out first, then every message pushed, by whichever   *)
(* thread, once and in the order of the pushes.                            *)
SentInOrder ==
  wire \o msgs = IF proto = "ws" THEN [i \in 1 .. pushed + 1 |-> i - 1] ELSE << >>

(* A message never waits without a wake-up pending, a drain going on or a  *)
(* thread about to wake the loop up.                                       *)
NoLostWakeup ==
  msgs # << >> /\ conn # "closed" =>
    wake \/ loop = "drain" \/ \E w \in Workers : worker[w] = "wake"

(* The length in the head of a message that is sent is the one the parser  *)
(* reads.                                                                  *)
ReadsBack(n) ==
  LET head == LengthHead(n)
      m    == Headed(NewMsg, <<0, head[1]>>)
      read == CASE m.state = "eReadingLen16" -> OnReadingLen(m, 2, Tail(head))
                [] m.state = "eReadingLen64" -> OnReadingLen(m, Len64Bytes, Tail(head))
                [] OTHER -> [msg |-> m, begin |-> Tail(head)]
  IN  read.msg.len = n /\ read.msg.state = "eReadingMask" /\ read.begin = << >>

(* The lengths on either side of where the form changes. *)
LengthsReadBack == \A n \in {0, 125, 126, 127, 255, 256, 65535, 65536} : ReadsBack(n)

(* The types, the wake-ups, and the lengths. *)
Inv == TypeOK /\ NoLostWakeup /\ LengthsReadBack

Wild == \E i \in 1 .. Len(sent) : Bad(sent[i]) \/ (Last(sent[i]) /\ i < Len(sent))

(* Every message pushed is sent unless the connection is closed; a client  *)
(* that sends a malformed frame, or goes on after its close frame, may     *)
(* keep OnWsMessage in its loop for ever.                                  *)
PushedIsSent ==
  \A m \in 1 .. MaxMsgs :
    pushed >= m ~> (Len(wire) > m \/ conn = "closed" \/ failed \/ Wild)

=============================================================================
