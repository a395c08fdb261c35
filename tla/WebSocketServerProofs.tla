----------------------- MODULE WebSocketServerProofs -----------------------
(***************************************************************************)
(* What the server sends and what it reads, for any frames, any threads    *)
(* that call SendMsg and any number of messages.                           *)
(*                                                                         *)
(* Sending: the handshake and the messages go out in the order they were   *)
(* pushed, and no message is left without a wake-up to come.  Nothing is   *)
(* pushed, read or sent before the upgrade: the inductive invariant IInv say*)
(* so, for the handshake is the first thing on the wire only because of it.*)
(*                                                                         *)
(* Reading: however the stream is cut into chunks, the parser gives the    *)
(* callback the frames the client sent, payloads unmasked and in order.  RIn*)
(* says what has been read of the frame the parser is in the middle of.    *)
(*                                                                         *)
(* The lengths: each of the three ways a head carries a payload length is  *)
(* read back as it was written.                                            *)
(***************************************************************************)
EXTENDS WebSocketServer, FifoLemmas

SendingTypes ==
  /\ pushed \in Nat /\ msgs \in Seq(Nat) /\ wire \in Seq(Nat)
  /\ worker \in [Workers -> {"idle", "wake"}]

NothingBeforeUpgrade ==
  /\ proto \in {"http", "ws"}
  /\ proto = "http" =>
       wire = << >> /\ msgs = << >> /\ pushed = 0 /\ inbox = << >> /\ loop = "idle"

(* A connection is closed between two handlers of its loop. *)
ClosedIsIdle == conn = "closed" => loop = "idle"

IInv ==
  /\ SendingTypes
  /\ NothingBeforeUpgrade
  /\ ClosedIsIdle
  /\ SentInOrder
  /\ NoLostWakeup

LEMMA InitInv == Init => IInv
<1> SUFFICES ASSUME Init PROVE IInv
  OBVIOUS
<1>1. << >> \in Seq(Nat) /\ << >> \o << >> = << >>
  BY EmptySeq, ConcatEmptySeq
<1> QED
  BY <1>1 DEF Init, IInv, SendingTypes, NothingBeforeUpgrade, ClosedIsIdle, SentInOrder, NoLostWakeup

(* A message pushed is the next number, behind those that wait. *)
LEMMA PushInv ==
  ASSUME SendingTypes, SentInOrder, proto = "ws", Push, UNCHANGED <<wire, proto>>
  PROVE  /\ pushed' \in Nat /\ msgs' \in Seq(Nat) /\ wire' \in Seq(Nat)
         /\ SentInOrder'
<1>1. /\ pushed \in Nat /\ pushed + 1 \in Nat /\ msgs \in Seq(Nat) /\ wire \in Seq(Nat)
      /\ msgs' = Append(msgs, pushed + 1) /\ pushed' = pushed + 1
      /\ wire' = wire /\ proto' = proto
  BY DEF SendingTypes, Push
<1>2. msgs' \in Seq(Nat)
  <2> DEFINE e == pushed + 1
  <2>1. e \in Nat /\ msgs' = Append(msgs, e)
    BY <1>1
  <2> HIDE DEF e
  <2> QED
    BY <1>1, <2>1
<1>3. wire \o Append(msgs, pushed + 1) = Append(wire \o msgs, pushed + 1)
  BY <1>1, PushKeepsOrder
<1>4. Append([i \in 1 .. pushed + 1 |-> i - 1], pushed + 1) = [i \in 1 .. pushed + 2 |-> i - 1]
  <2> DEFINE n == pushed + 1
  <2>1. n \in Nat
    BY <1>1
  <2> HIDE DEF n
  <2>2. Append([i \in 1 .. n |-> i - 1], n + 1 - 1) = [i \in 1 .. n + 1 |-> i - 1]
    BY <2>1, NextNumber
  <2>3. n + 1 - 1 = n
    BY <2>1
  <2>4. Append([i \in 1 .. n |-> i - 1], n) = [i \in 1 .. n + 1 |-> i - 1]
    BY <2>2, <2>3
  <2>5. n = pushed + 1 /\ n + 1 = pushed + 2
    BY <1>1 DEF n
  <2> QED
    BY <2>4, <2>5
<1>5. pushed' + 1 = pushed + 2
  BY <1>1
<1> QED
  BY <1>1, <1>2, <1>3, <1>4, <1>5 DEF SentInOrder

(* The steps that leave what is sent, and what it waits for, alone. *)
LEMMA IdleInv ==
  ASSUME IInv, UNCHANGED <<proto, sending, worker>>,
         conn' = "closed" \/ (conn # "closed" /\ (wake => wake')),
         loop = "drain" => loop' = "drain",
         NothingBeforeUpgrade', ClosedIsIdle'
  PROVE  IInv'
BY DEF IInv, SendingTypes, SentInOrder, NoLostWakeup, sending

LEMMA CheckInv ==
  ASSUME IInv, Check
  PROVE  IInv'
<1>1. /\ loop = "check" /\ conn # "closed" /\ proto = "ws" /\ loop' \in {"idle", "parse"}
      /\ UNCHANGED <<inbox, proto, wire, worker>>
  BY DEF IInv, NothingBeforeUpgrade, ClosedIsIdle, Check
<1>2. \/ UNCHANGED <<msgs, pushed, wake>> /\ conn' \in {conn, "shutting"}
      \/ Push /\ wake' = TRUE /\ conn' = conn
  BY DEF Check, Callback
<1>3. NothingBeforeUpgrade' /\ ClosedIsIdle'
  BY <1>1, <1>2 DEF IInv, NothingBeforeUpgrade, ClosedIsIdle
<1>4. CASE UNCHANGED <<msgs, pushed, wake>>
  BY <1>1, <1>3, <1>4 DEF IInv, SendingTypes, SentInOrder, NoLostWakeup
<1>5. CASE Push /\ wake' = TRUE
  <2>1. SentInOrder' /\ pushed' \in Nat /\ msgs' \in Seq(Nat) /\ wire' \in Seq(Nat)
    BY <1>1, <1>5, PushInv DEF IInv
  <2> QED
    BY <1>1, <1>3, <1>5, <2>1 DEF IInv, SendingTypes, NoLostWakeup
<1> QED
  BY <1>2, <1>4, <1>5

LEMMA SendMsgInv ==
  ASSUME IInv, NEW w \in Workers, SendMsg(w)
  PROVE  IInv'
<1>1. /\ proto = "ws" /\ Push /\ worker' = [worker EXCEPT ![w] = "wake"]
      /\ UNCHANGED <<inbox, loop, proto, conn, wire>>
  BY DEF SendMsg, reading
<1>2. SentInOrder' /\ pushed' \in Nat /\ msgs' \in Seq(Nat) /\ wire' \in Seq(Nat)
  BY <1>1, PushInv DEF IInv
<1>3. worker' \in [Workers -> {"idle", "wake"}] /\ worker'[w] = "wake"
  BY <1>1 DEF IInv, SendingTypes
<1> QED
  BY <1>1, <1>2, <1>3 DEF IInv, SendingTypes, NothingBeforeUpgrade, ClosedIsIdle, NoLostWakeup

LEMMA WakeUpInv ==
  ASSUME IInv, NEW w \in Workers, WakeUp(w)
  PROVE  IInv'
<1>1. /\ worker' = [worker EXCEPT ![w] = "idle"]
      /\ conn = "closed" \/ wake' = TRUE
      /\ UNCHANGED <<inbox, loop, proto, conn, msgs, pushed, wire>>
  BY DEF WakeUp, reading, sending
<1>2. worker' \in [Workers -> {"idle", "wake"}]
  BY <1>1 DEF IInv, SendingTypes
<1> QED
  BY <1>1, <1>2 DEF IInv, SendingTypes, NothingBeforeUpgrade, ClosedIsIdle, SentInOrder, NoLostWakeup

LEMMA DrainInv ==
  ASSUME IInv, HandleWsReponse
  PROVE  IInv'
<1>1. /\ loop = "drain" /\ proto = "ws" /\ conn # "closed"
      /\ UNCHANGED <<inbox, proto, conn, pushed, worker>>
  BY DEF IInv, NothingBeforeUpgrade, ClosedIsIdle, HandleWsReponse, reading
<1>2. CASE msgs = << >>
  <2>1. loop' = "idle" /\ msgs' = msgs /\ wire' = wire
    BY <1>2 DEF HandleWsReponse
  <2> QED
    BY <1>1, <1>2, <2>1
    DEF IInv, SendingTypes, NothingBeforeUpgrade, ClosedIsIdle, SentInOrder, NoLostWakeup
<1>3. CASE msgs # << >>
  <2>1. loop' = loop /\ wire' = Append(wire, Head(msgs)) /\ msgs' = Tail(msgs)
    BY <1>3 DEF HandleWsReponse, PopSendMsg, IInv, SendingTypes
  <2>2. /\ wire' \o msgs' = wire \o msgs
        /\ wire' \in Seq(Nat) /\ msgs' \in Seq(Nat)
    <3>1. wire \in Seq(Nat) /\ msgs \in Seq(Nat)
      BY DEF IInv, SendingTypes
    <3>2. /\ Append(wire, Head(msgs)) \o Tail(msgs) = wire \o msgs
          /\ Append(wire, Head(msgs)) \in Seq(Nat) /\ Tail(msgs) \in Seq(Nat)
      BY ONLY <1>3, <3>1, PopKeepsOrder
    <3> QED
      BY ONLY <2>1, <3>2
  <2> QED
    BY <1>1, <2>1, <2>2
    DEF IInv, SendingTypes, NothingBeforeUpgrade, ClosedIsIdle, SentInOrder, NoLostWakeup
<1> QED
  BY <1>2, <1>3

LEMMA UpgradeInv ==
  ASSUME IInv, Upgrade
  PROVE  IInv'
<1>1. /\ proto = "http" /\ proto' = "ws" /\ wake' = TRUE /\ wire' = Append(wire, 0)
      /\ UNCHANGED <<loop, conn, msgs, pushed, worker>>
  BY DEF Upgrade, OnWsHandler, Handshake
<1>2. wire = << >> /\ msgs = << >> /\ pushed = 0
  BY <1>1 DEF IInv, NothingBeforeUpgrade
<1>3. wire' = <<0>> /\ wire' \in Seq(Nat) /\ wire' \o msgs' = <<0>>
  BY <1>1, <1>2
<1>4. <<0>> = [i \in 1 .. 0 + 1 |-> i - 1]
  OBVIOUS
<1> QED
  BY <1>1, <1>2, <1>3, <1>4
  DEF IInv, SendingTypes, NothingBeforeUpgrade, ClosedIsIdle, SentInOrder, NoLostWakeup

LEMMA StepInv == IInv /\ [Next]_vars => IInv'
<1> SUFFICES ASSUME IInv, [Next]_vars PROVE IInv'
  OBVIOUS
<1>1. ASSUME NEW f \in Frames, Send(f) PROVE IInv'
  <2>1. proto = "ws" /\ conn # "closed" /\ UNCHANGED <<loop, proto, conn, wake, sending, worker>>
    BY <1>1 DEF Send
  <2>2. NothingBeforeUpgrade' /\ ClosedIsIdle'
    BY <2>1 DEF IInv, NothingBeforeUpgrade, ClosedIsIdle
  <2> QED
    BY <2>1, <2>2, IdleInv
<1>2. ASSUME NEW n \in 1 .. Len(inbox), Read(n) PROVE IInv'
  <2>1. /\ loop = "idle" /\ conn = "open" /\ loop' = "parse"
        /\ UNCHANGED <<proto, conn, wake, sending, worker>>
    BY <1>2 DEF Read
  <2>2. inbox # << >>
    <3>1. Len(<< >>) = 0
      OBVIOUS
    <3> QED
      BY <3>1
  <2>3. NothingBeforeUpgrade' /\ ClosedIsIdle'
    BY <2>1, <2>2 DEF IInv, NothingBeforeUpgrade, ClosedIsIdle
  <2> QED
    BY <2>1, <2>3, IdleInv
<1>3. CASE PeerCloses
  <2>1. /\ conn = "open" /\ conn' = "shutting" /\ loop = "idle"
        /\ UNCHANGED <<inbox, loop, proto, wake, sending, worker>>
    BY <1>3 DEF PeerCloses, reading
  <2>2. NothingBeforeUpgrade' /\ ClosedIsIdle'
    BY <2>1 DEF IInv, NothingBeforeUpgrade, ClosedIsIdle, sending
  <2> QED
    BY <2>1, <2>2, IdleInv
<1>4. CASE OnCloseConnection
  <2>1. /\ conn' = "closed" /\ loop = "idle"
        /\ UNCHANGED <<inbox, loop, proto, sending, worker>>
    BY <1>4 DEF OnCloseConnection, reading
  <2>2. NothingBeforeUpgrade' /\ ClosedIsIdle'
    BY <2>1 DEF IInv, NothingBeforeUpgrade, ClosedIsIdle, sending
  <2> QED
    BY <2>1, <2>2, IdleInv
<1>5. CASE Upgrade
  BY <1>5, UpgradeInv
<1>6. CASE Parse
  <2>1. /\ loop = "parse" /\ loop' \in {"check", "parse"} /\ proto = "ws" /\ conn # "closed"
        /\ UNCHANGED <<inbox, proto, conn, wake, sending, worker>>
    BY <1>6 DEF IInv, NothingBeforeUpgrade, ClosedIsIdle, Parse
  <2>2. NothingBeforeUpgrade' /\ ClosedIsIdle'
    BY <2>1 DEF NothingBeforeUpgrade, ClosedIsIdle
  <2> QED
    BY <2>1, <2>2, IdleInv
<1>7. CASE Check
  BY <1>7, CheckInv
<1>8. ASSUME NEW w \in Workers, SendMsg(w) PROVE IInv'
  BY <1>8, SendMsgInv
<1>9. ASSUME NEW w \in Workers, WakeUp(w) PROVE IInv'
  BY <1>9, WakeUpInv
<1>10. CASE OnReadEvent
  <2>1. /\ proto = "ws" /\ loop' = "drain" /\ conn # "closed"
        /\ UNCHANGED <<inbox, proto, conn, sending, worker>>
    BY <1>10 DEF OnReadEvent, reading
  <2> QED
    BY <2>1
    DEF IInv, SendingTypes, NothingBeforeUpgrade, ClosedIsIdle, SentInOrder, NoLostWakeup, sending
<1>11. CASE HandleWsReponse
  BY <1>11, DrainInv
<1>12. CASE UNCHANGED vars
  BY <1>12 DEF vars, reading, sending,
    IInv, SendingTypes, NothingBeforeUpgrade, ClosedIsIdle, SentInOrder, NoLostWakeup
<1> QED
  BY <1>1, <1>2, <1>3, <1>4, <1>5, <1>6, <1>7, <1>8, <1>9, <1>10, <1>11, <1>12 DEF Next

LEMMA Invariance == Spec => []IInv
BY InitInv, StepInv, PTL DEF Spec

(* The handshake goes out first, and then the messages the application has *)
(* pushed, on the loop thread or another, each once and in order.          *)
THEOREM MessagesSentInOrder == Spec => []SentInOrder
<1>1. IInv => SentInOrder
  BY DEF IInv
<1> QED
  BY <1>1, Invariance, PTL

(* SendMsg, the WakeUpper and HandleWsReponse leave no message behind: one *)
(* that waits has a wake-up pending, a drain going on, or a thread about   *)
(* to wake the loop up.                                                    *)
THEOREM MessagesAreWoken == Spec => []NoLostWakeup
<1>1. IInv => NoLostWakeup
  BY DEF IInv
<1> QED
  BY <1>1, Invariance, PTL


-----------------------------------------------------------------------------
(* What the client sends.  The bytes a follow the first p of the frame     *)
(* behind the first k of fs: the frames from there on end at the offsets o *)
(* of a, the last of them where a ends.                                    *)

Placed(a, fs, k, p, o) ==
  /\ o \in [k + 1 .. Len(fs) + 1 -> Int]
  /\ o[k + 1] + p = 0 /\ o[Len(fs) + 1] = Len(a)
  /\ \A i \in k + 1 .. Len(fs) + 1 : o[i] <= Len(a)
  /\ \A i \in k + 1 .. Len(fs) :
       /\ o[i + 1] = o[i] + Len(fs[i].bytes)
       /\ \A j \in 1 .. Len(fs[i].bytes) : o[i] + j > 0 => a[o[i] + j] = fs[i].bytes[j]

Follows(a, fs, k, p) == \E o : Placed(a, fs, k, p, o)

LEMMA FrameBytes ==
  ASSUME NEW f \in Frames
  PROVE  /\ f.bytes \in Seq(Nat) /\ Len(f.bytes) \in Nat /\ Len(f.bytes) >= 2
         /\ f.payload \in Seq({0, 1})
BY WebSocketAssumption DEF IsFrame

(* A frame is sent. *)
LEMMA FollowsSent ==
  ASSUME NEW a \in Seq(Nat), NEW fs \in Seq(Frames), NEW k \in 0 .. Len(fs), NEW p \in Nat,
         NEW f \in Frames, Follows(a, fs, k, p)
  PROVE  Follows(a \o f.bytes, Append(fs, f), k, p)
<1> DEFINE n == Len(fs)
           gs == Append(fs, f)
           b == f.bytes
           c == a \o b
<1>1. PICK o : Placed(a, fs, k, p, o)
  BY DEF Follows
<1>2. n \in Nat /\ k \in Nat /\ k <= n /\ k + 1 \in k + 1 .. n + 1 /\ n + 1 \in k + 1 .. n + 1
  OBVIOUS
<1>3. /\ gs \in Seq(Frames) /\ Len(gs) = n + 1 /\ gs[n + 1] = f
      /\ \A i \in 1 .. n : gs[i] = fs[i]
  OBVIOUS
<1>4. b \in Seq(Nat) /\ Len(b) \in Nat /\ Len(a) \in Nat
  BY FrameBytes
<1> HIDE DEF b, gs, n
<1>5. /\ c \in Seq(Nat) /\ Len(c) = Len(a) + Len(b)
      /\ \A i \in 1 .. Len(a) + Len(b) : c[i] = IF i <= Len(a) THEN a[i] ELSE b[i - Len(a)]
  BY <1>4, ConcatProperties
<1> HIDE DEF c
<1> DEFINE q == [i \in k + 1 .. (n + 1) + 1 |-> IF i <= n + 1 THEN o[i] ELSE Len(c)]
<1>6. /\ o \in [k + 1 .. n + 1 -> Int] /\ o[k + 1] + p = 0 /\ o[n + 1] = Len(a)
      /\ \A i \in k + 1 .. n + 1 : o[i] <= Len(a)
      /\ \A i \in k + 1 .. n :
           /\ o[i + 1] = o[i] + Len(fs[i].bytes)
           /\ \A j \in 1 .. Len(fs[i].bytes) : o[i] + j > 0 => a[o[i] + j] = fs[i].bytes[j]
  BY <1>1 DEF Placed, n
<1>7. /\ q \in [k + 1 .. (n + 1) + 1 -> Int] /\ q[k + 1] + p = 0
      /\ q[(n + 1) + 1] = Len(c) /\ \A i \in k + 1 .. n + 1 : q[i] = o[i]
  BY <1>2, <1>4, <1>5, <1>6
<1> HIDE DEF q
<1>8. \A i \in k + 1 .. (n + 1) + 1 : q[i] <= Len(c)
  <2> SUFFICES ASSUME NEW i \in k + 1 .. (n + 1) + 1 PROVE q[i] <= Len(c)
    OBVIOUS
  <2>1. CASE i = (n + 1) + 1
    BY <1>4, <1>5, <1>7, <2>1
  <2>2. CASE i # (n + 1) + 1
    <3>1. i \in k + 1 .. n + 1
      BY <1>2, <2>2
    <3>2. q[i] = o[i] /\ o[i] <= Len(a) /\ o[i] \in Int
      BY <1>6, <1>7, <3>1
    <3> QED
      BY <1>4, <1>5, <3>2
  <2> QED
    BY <2>1, <2>2
<1>9. ASSUME NEW i \in k + 1 .. n + 1
      PROVE  /\ q[i + 1] = q[i] + Len(gs[i].bytes)
             /\ \A j \in 1 .. Len(gs[i].bytes) : q[i] + j > 0 => c[q[i] + j] = gs[i].bytes[j]
  <2>1. CASE i = n + 1
    <3>1. q[i] = Len(a) /\ q[i + 1] = Len(c) /\ gs[i].bytes = b
      BY <1>2, <1>3, <1>6, <1>7, <2>1 DEF b
    <3>2. ASSUME NEW j \in 1 .. Len(b) PROVE c[Len(a) + j] = b[j]
      <4>1. /\ Len(a) + j \in 1 .. Len(a) + Len(b) /\ ~(Len(a) + j <= Len(a))
            /\ (Len(a) + j) - Len(a) = j
        BY <1>4
      <4> QED
        BY <1>5, <4>1
    <3> QED
      BY <1>5, <3>1, <3>2
  <2>2. CASE i # n + 1
    <3>1. i \in k + 1 .. n /\ i + 1 \in k + 1 .. n + 1 /\ i \in 1 .. n /\ i \in k + 1 .. n + 1
      BY <1>2, <2>2
    <3>2. q[i] = o[i] /\ q[i + 1] = o[i + 1] /\ gs[i] = fs[i] /\ o[i] \in Int /\ o[i + 1] <= Len(a)
      BY <1>3, <1>6, <1>7, <3>1
    <3>3. fs[i] \in Frames
      BY <3>1 DEF n
    <3>4. Len(fs[i].bytes) \in Nat
      BY <3>3, FrameBytes
    <3>5. ASSUME NEW j \in 1 .. Len(fs[i].bytes), o[i] + j > 0
          PROVE  c[o[i] + j] = fs[i].bytes[j]
      <4>1. a[o[i] + j] = fs[i].bytes[j] /\ o[i + 1] = o[i] + Len(fs[i].bytes)
        BY <1>6, <3>1, <3>5
      <4>2. o[i] + j \in 1 .. Len(a)
        <5> DEFINE x == o[i]
                   y == o[i + 1]
                   l == Len(fs[i].bytes)
                   A == Len(a)
        <5>1. x \in Int /\ y <= A /\ y = x + l /\ l \in Nat /\ j \in 1 .. l /\ x + j > 0 /\ A \in Nat
          BY <1>4, <3>2, <3>4, <3>5, <4>1
        <5> HIDE DEF x, y, l, A
        <5>2. x + j \in 1 .. A
          BY <5>1
        <5> QED
          BY <5>2 DEF x, A
      <4>3. o[i] + j \in 1 .. Len(a) + Len(b) /\ o[i] + j <= Len(a)
        BY <1>4, <4>2
      <4> QED
        BY <1>5, <4>1, <4>3
    <3> QED
      BY <1>6, <3>1, <3>2, <3>5
  <2> QED
    BY <2>1, <2>2
<1>10. Placed(c, gs, k, p, q)
  BY <1>3, <1>7, <1>8, <1>9 DEF Placed
<1> QED
  BY <1>10 DEF Follows, c, gs, b

(* The first n bytes are taken. *)
LEMMA FollowsTaken ==
  ASSUME NEW a \in Seq(Nat), NEW fs \in Seq(Frames), NEW k \in 0 .. Len(fs), NEW p \in Nat,
         NEW n \in 0 .. Len(a), Follows(a, fs, k, p)
  PROVE  Follows(SubSeq(a, n + 1, Len(a)), fs, k, p + n)
<1> DEFINE c == SubSeq(a, n + 1, Len(a))
           m == Len(fs)
<1>1. PICK o : Placed(a, fs, k, p, o)
  BY DEF Follows
<1>2. m \in Nat /\ k \in Nat /\ k <= m /\ k + 1 \in k + 1 .. m + 1 /\ m + 1 \in k + 1 .. m + 1
      /\ n \in Nat /\ Len(a) \in Nat /\ n <= Len(a)
  OBVIOUS
<1>3. /\ c \in Seq(Nat) /\ Len(c) = Len(a) - n
      /\ \A i \in 1 .. Len(a) - n : c[i] = a[n + i]
  BY Parts
<1> HIDE DEF c
<1>4. \A i \in k + 1 .. m : fs[i] \in Frames /\ Len(fs[i].bytes) \in Nat
  BY <1>2, FrameBytes
<1> HIDE DEF m
<1>5. /\ o \in [k + 1 .. m + 1 -> Int] /\ o[k + 1] + p = 0 /\ o[m + 1] = Len(a)
      /\ \A i \in k + 1 .. m + 1 : o[i] <= Len(a)
      /\ \A i \in k + 1 .. m :
           /\ o[i + 1] = o[i] + Len(fs[i].bytes)
           /\ \A j \in 1 .. Len(fs[i].bytes) : o[i] + j > 0 => a[o[i] + j] = fs[i].bytes[j]
  BY <1>1 DEF Placed, m
<1> DEFINE q == [i \in k + 1 .. m + 1 |-> o[i] - n]
<1>6. /\ q \in [k + 1 .. m + 1 -> Int]
      /\ \A i \in k + 1 .. m + 1 : q[i] = o[i] - n /\ o[i] \in Int
  BY <1>2, <1>5
<1> HIDE DEF q
<1>7. /\ q[k + 1] + (p + n) = 0 /\ q[m + 1] = Len(c)
      /\ \A i \in k + 1 .. m + 1 : q[i] <= Len(c)
  <2>1. q[k + 1] = o[k + 1] - n /\ o[k + 1] \in Int /\ o[k + 1] + p = 0
    BY <1>2, <1>5, <1>6
  <2>2. q[k + 1] + (p + n) = 0
    BY <1>2, <2>1
  <2>3. q[m + 1] = Len(c)
    BY <1>2, <1>3, <1>5, <1>6
  <2>4. ASSUME NEW i \in k + 1 .. m + 1 PROVE q[i] <= Len(c)
    <3>1. q[i] = o[i] - n /\ o[i] \in Int /\ o[i] <= Len(a) /\ Len(c) = Len(a) - n
      BY <1>3, <1>5, <1>6
    <3> QED
      BY <1>2, <3>1
  <2> QED
    BY <2>2, <2>3, <2>4
<1>8. ASSUME NEW i \in k + 1 .. m
      PROVE  /\ q[i + 1] = q[i] + Len(fs[i].bytes)
             /\ \A j \in 1 .. Len(fs[i].bytes) : q[i] + j > 0 => c[q[i] + j] = fs[i].bytes[j]
  <2>1. i \in k + 1 .. m + 1 /\ i + 1 \in k + 1 .. m + 1
    BY <1>2
  <2>2. /\ q[i] = o[i] - n /\ q[i + 1] = o[i + 1] - n /\ o[i] \in Int /\ o[i + 1] \in Int
        /\ o[i + 1] = o[i] + Len(fs[i].bytes) /\ o[i + 1] <= Len(a) /\ Len(fs[i].bytes) \in Nat
    BY <1>4, <1>5, <1>6, <2>1
  <2>3. ASSUME NEW j \in 1 .. Len(fs[i].bytes), q[i] + j > 0
        PROVE  c[q[i] + j] = fs[i].bytes[j]
    <3>1. q[i] + j \in 1 .. Len(a) - n /\ n + (q[i] + j) = o[i] + j /\ o[i] + j > 0
      <4> DEFINE x == o[i]
                 y == o[i + 1]
                 z == q[i]
                 l == Len(fs[i].bytes)
                 A == Len(a)
      <4>1. /\ x \in Int /\ y <= A /\ y = x + l /\ l \in Nat /\ j \in 1 .. l /\ z = x - n
            /\ z + j > 0 /\ A \in Nat /\ n \in Nat
        BY <1>2, <2>2, <2>3
      <4> HIDE DEF x, y, z, l, A
      <4>2. z + j \in 1 .. A - n /\ n + (z + j) = x + j /\ x + j > 0
        BY <4>1
      <4> QED
        BY <4>2 DEF x, z, A
    <3>2. a[o[i] + j] = fs[i].bytes[j]
      BY <1>5, <3>1
    <3> QED
      BY <1>3, <3>1, <3>2
  <2>4. q[i + 1] = q[i] + Len(fs[i].bytes)
    <3> DEFINE l == Len(fs[i].bytes)
    <3>1. q[i] = o[i] - n /\ q[i + 1] = o[i + 1] - n /\ o[i] \in Int /\ o[i + 1] = o[i] + l /\ l \in Nat
      BY <2>2
    <3> HIDE DEF l
    <3>2. q[i + 1] = q[i] + l
      BY <1>2, <3>1
    <3> QED
      BY <3>2 DEF l
  <2> QED
    BY <2>3, <2>4
<1>9. Placed(c, fs, k, p + n, q)
  BY <1>6, <1>7, <1>8 DEF Placed, m
<1> QED
  BY <1>9 DEF Follows, c

(* A frame has been taken as a whole. *)
LEMMA FollowsNext ==
  ASSUME NEW a \in Seq(Nat), NEW fs \in Seq(Frames), NEW k \in 0 .. Len(fs) - 1,
         Follows(a, fs, k, Len(fs[k + 1].bytes))
  PROVE  Follows(a, fs, k + 1, 0)
<1> DEFINE m == Len(fs)
           p == Len(fs[k + 1].bytes)
<1>1. PICK o : Placed(a, fs, k, p, o)
  BY DEF Follows
<1>2. m \in Nat /\ k \in Nat /\ k + 1 <= m /\ k + 1 \in 1 .. m
  OBVIOUS
<1>3. fs[k + 1] \in Frames
  BY <1>2
<1>4. p \in Nat
  BY <1>3, FrameBytes
<1> DEFINE q == [i \in (k + 1) + 1 .. m + 1 |-> o[i]]
<1>5. Placed(a, fs, k + 1, 0, q)
  <2>1. /\ o \in [k + 1 .. m + 1 -> Int] /\ o[k + 1] + p = 0 /\ o[m + 1] = Len(a)
        /\ \A i \in k + 1 .. m + 1 : o[i] <= Len(a)
        /\ \A i \in k + 1 .. m :
             /\ o[i + 1] = o[i] + Len(fs[i].bytes)
             /\ \A j \in 1 .. Len(fs[i].bytes) : o[i] + j > 0 => a[o[i] + j] = fs[i].bytes[j]
    BY <1>1 DEF Placed
  <2>2. k + 1 \in k + 1 .. m /\ k + 1 \in k + 1 .. m + 1
        /\ (k + 1) + 1 \in (k + 1) + 1 .. m + 1 /\ m + 1 \in (k + 1) + 1 .. m + 1
    BY <1>2
  <2>3. o[(k + 1) + 1] = o[k + 1] + p /\ o[k + 1] \in Int
    BY <2>1, <2>2
  <2> HIDE DEF p
  <2>4. o[(k + 1) + 1] + 0 = 0
    BY <1>4, <2>1, <2>3
  <2>5. \A i \in (k + 1) + 1 .. m + 1 : q[i] = o[i] /\ i \in k + 1 .. m + 1
    BY <1>2
  <2>6. q \in [(k + 1) + 1 .. m + 1 -> Int]
    BY <2>1, <2>5
  <2> HIDE DEF q
  <2>7. q[(k + 1) + 1] + 0 = 0 /\ q[m + 1] = Len(a) /\ \A i \in (k + 1) + 1 .. m + 1 : q[i] <= Len(a)
    BY <2>1, <2>2, <2>4, <2>5
  <2>8. ASSUME NEW i \in (k + 1) + 1 .. m
        PROVE  /\ q[i + 1] = q[i] + Len(fs[i].bytes)
               /\ \A j \in 1 .. Len(fs[i].bytes) : q[i] + j > 0 => a[q[i] + j] = fs[i].bytes[j]
    <3>1. i \in (k + 1) + 1 .. m + 1 /\ i + 1 \in (k + 1) + 1 .. m + 1 /\ i \in k + 1 .. m
      BY <1>2
    <3>2. q[i] = o[i] /\ q[i + 1] = o[i + 1]
      BY <2>5, <3>1
    <3> QED
      BY <2>1, <3>1, <3>2
  <2> QED
    BY <2>6, <2>7, <2>8 DEF Placed
<1> QED
  BY <1>5 DEF Follows

(* The bytes of the frame that has begun come first, and whole. *)
LEMMA FollowsFrame ==
  ASSUME NEW a \in Seq(Nat), NEW fs \in Seq(Frames), NEW k \in 0 .. Len(fs) - 1, NEW p \in Nat,
         Follows(a, fs, k, p)
  PROVE  /\ Len(fs[k + 1].bytes) - p <= Len(a)
         /\ \A j \in 1 .. Len(fs[k + 1].bytes) - p : a[j] = fs[k + 1].bytes[p + j]
<1> DEFINE m == Len(fs)
           b == fs[k + 1].bytes
<1>1. PICK o : Placed(a, fs, k, p, o)
  BY DEF Follows
<1>2. m \in Nat /\ k \in Nat /\ k + 1 \in 1 .. m /\ k + 1 \in k + 1 .. m
      /\ (k + 1) + 1 \in k + 1 .. m + 1 /\ k + 1 \in k + 1 .. m + 1
  OBVIOUS
<1>3. fs[k + 1] \in Frames
  BY <1>2
<1>4. Len(b) \in Nat /\ Len(a) \in Nat
  BY <1>3, FrameBytes
<1>5. /\ o \in [k + 1 .. m + 1 -> Int] /\ o[k + 1] + p = 0 /\ o[(k + 1) + 1] <= Len(a)
      /\ o[(k + 1) + 1] = o[k + 1] + Len(b)
      /\ \A j \in 1 .. Len(b) : o[k + 1] + j > 0 => a[o[k + 1] + j] = b[j]
  BY <1>1, <1>2 DEF Placed
<1>6. o[k + 1] \in Int
  BY <1>2, <1>5
<1> DEFINE s == o[k + 1]
<1>7. s \in Int /\ s + p = 0 /\ s + Len(b) <= Len(a)
      /\ \A j \in 1 .. Len(b) : s + j > 0 => a[s + j] = b[j]
  BY <1>5, <1>6
<1> HIDE DEF b, s
<1>8. Len(b) - p <= Len(a)
  BY <1>4, <1>7
<1>9. ASSUME NEW j \in 1 .. Len(b) - p PROVE a[j] = b[p + j]
  <2>1. p + j \in 1 .. Len(b) /\ s + (p + j) = j /\ j > 0
    BY <1>4, <1>7
  <2> QED
    BY <1>7, <2>1
<1> QED
  BY <1>8, <1>9 DEF b

(* Behind the last frame there is nothing. *)
LEMMA FollowsLast ==
  ASSUME NEW a \in Seq(Nat), NEW fs \in Seq(Frames), Follows(a, fs, Len(fs), 0)
  PROVE  a = << >>
<1>1. PICK o : Placed(a, fs, Len(fs), 0, o)
  BY DEF Follows
<1>2. Len(fs) + 1 \in Len(fs) + 1 .. Len(fs) + 1
  OBVIOUS
<1>3. o[Len(fs) + 1] + 0 = 0 /\ o[Len(fs) + 1] = Len(a) /\ Len(a) \in Nat
  BY <1>1 DEF Placed
<1>4. Len(a) = 0
  BY <1>3
<1> QED
  BY <1>4, EmptySeq

LEMMA FollowsFirst ==
  ASSUME NEW fs \in Seq(Frames)
  PROVE  Follows(<< >>, fs, Len(fs), 0)
<1> DEFINE m == Len(fs)
           o == [i \in m + 1 .. m + 1 |-> 0]
<1>1. m \in Nat /\ Len(<< >>) = 0
  OBVIOUS
<1>2. o \in [m + 1 .. m + 1 -> Int] /\ o[m + 1] = 0 /\ \A i \in m + 1 .. m + 1 : o[i] = 0
  BY <1>1
<1> HIDE DEF o
<1>3. Placed(<< >>, fs, m, 0, o)
  BY <1>1, <1>2 DEF Placed
<1> QED
  BY <1>3 DEF Follows

-----------------------------------------------------------------------------
(* The parser. *)

States == {"eReadingHead", "eReadingLen16", "eReadingLen64", "eReadingMask",
           "eReadingPayload", "eNewMsg", "eError"}

MsgRecords ==
  [state : States, buf : Seq(Nat), opcode : Nat, len : Nat, mask : Seq(Nat), content : Seq(Nat)]

(* What m is when it has been given the first p bytes of f. *)
Parsed(f, p, m) ==
  /\ m.state # "eError"
  /\ m.state = "eReadingHead" =>
       p < 2 /\ m = [NewMsg EXCEPT !.buf = SubSeq(f.bytes, 1, p)]
  /\ m.state # "eReadingHead" => ~Bad(f) /\ m.opcode = f.bytes[1]
  /\ m.state = "eReadingLen16" =>
       /\ f.bytes[2] = 126 /\ p \in 2 .. 1 + FieldLength(f)
       /\ m.buf = SubSeq(f.bytes, 2 + 1, p) /\ m.content = << >>
  /\ m.state = "eReadingLen64" =>
       /\ f.bytes[2] = 127 /\ p \in 2 .. 1 + FieldLength(f)
       /\ m.buf = SubSeq(f.bytes, 2 + 1, p) /\ m.content = << >>
  /\ m.state = "eReadingMask" =>
       /\ p \in 2 + FieldLength(f) .. HeadLength(f) - 1
       /\ m.buf = SubSeq(f.bytes, 2 + FieldLength(f) + 1, p)
       /\ m.len = Len(f.payload) /\ m.content = << >>
  /\ m.state = "eReadingPayload" =>
       /\ p >= HeadLength(f)
       /\ m.buf = << >> /\ m.len = Len(f.payload) /\ m.mask = Mask(f)
       /\ m.content = SubSeq(f.bytes, HeadLength(f) + 1, p)
  /\ m.state = "eNewMsg" =>
       p = Len(f.bytes) /\ m.buf = << >> /\ m.content = f.payload

LEMMA FrameFacts ==
  ASSUME NEW f \in Frames
  PROVE  /\ f.bytes \in Seq(Nat) /\ Len(f.bytes) \in Nat /\ Len(f.bytes) >= 2
         /\ f.payload \in Seq({0, 1}) /\ Len(f.payload) \in Nat
         /\ FieldLength(f) \in Nat /\ HeadLength(f) \in Nat /\ HeadLength(f) = 2 + FieldLength(f) + MaskBytes
         /\ f.bytes[2] = 126 => FieldLength(f) = 2
         /\ f.bytes[2] = 127 => FieldLength(f) = Len64Bytes
         /\ FieldLength(f) = 0 <=> f.bytes[2] \notin {126, 127}
         /\ ~Bad(f) =>
              /\ Len(f.bytes) = HeadLength(f) + Len(f.payload)
              /\ FieldLength(f) = 0 => Len(f.payload) = f.bytes[2]
              /\ FieldLength(f) # 0 =>
                   Len(f.payload) = BigEndian(SubSeq(f.bytes, 2 + 1, 2 + FieldLength(f)))
              /\ Mask(f) = SubSeq(f.bytes, 2 + FieldLength(f) + 1, HeadLength(f))
              /\ Mask(f) \in Seq({0, 1})
              /\ SubSeq(f.bytes, HeadLength(f) + 1, Len(f.bytes)) = UnMasked(f.payload, Mask(f))
<1>1. /\ Len64Bytes \in Nat /\ Len64Bytes >= 3 /\ MaskBytes \in Nat \ {0} /\ IsFrame(f)
  BY WebSocketAssumption
<1>2. /\ f.bytes[2] = 126 => FieldLength(f) = 2
      /\ f.bytes[2] = 127 => FieldLength(f) = Len64Bytes
      /\ f.bytes[2] \notin {126, 127} => FieldLength(f) = 0
  BY DEF FieldLength
<1>3. FieldLength(f) \in Nat /\ (FieldLength(f) = 0 <=> f.bytes[2] \notin {126, 127})
  BY <1>1, <1>2
<1>4. HeadLength(f) \in Nat /\ HeadLength(f) = 2 + FieldLength(f) + MaskBytes
  BY <1>1, <1>3 DEF HeadLength
<1>5. 2 + 1 = 3
  OBVIOUS
<1>6. /\ f.bytes \in Seq(Nat) /\ Len(f.bytes) >= 2 /\ f.payload \in Seq({0, 1})
  BY <1>1 DEF IsFrame
<1>7. ~Bad(f) =>
        /\ Len(f.bytes) = HeadLength(f) + Len(f.payload)
        /\ Len(f.payload) = IF FieldLength(f) = 0 THEN f.bytes[2]
                            ELSE BigEndian(SubSeq(f.bytes, 2 + 1, 2 + FieldLength(f)))
        /\ Mask(f) \in Seq({0, 1})
        /\ SubSeq(f.bytes, HeadLength(f) + 1, Len(f.bytes)) = UnMasked(f.payload, Mask(f))
  BY <1>1, <1>5 DEF IsFrame
<1>8. Mask(f) = SubSeq(f.bytes, 2 + FieldLength(f) + 1, HeadLength(f))
  BY DEF Mask
<1>9. Len(f.bytes) \in Nat /\ Len(f.payload) \in Nat
  BY <1>6
<1> QED
  BY <1>2, <1>3, <1>4, <1>6, <1>7, <1>8, <1>9

LEMMA Slice ==
  ASSUME NEW S, NEW b \in Seq(S), NEW s \in Nat, NEW p \in Nat, s <= p, p <= Len(b)
  PROVE  /\ SubSeq(b, s + 1, p) \in Seq(S) /\ Len(SubSeq(b, s + 1, p)) = p - s
         /\ \A i \in 1 .. p - s : SubSeq(b, s + 1, p)[i] = b[s + i]
<1>1. /\ s + 1 \in 1 .. Len(b) + 1 /\ p \in (s + 1) - 1 .. Len(b) /\ p - (s + 1) + 1 = p - s
  OBVIOUS
<1>2. /\ SubSeq(b, s + 1, p) \in Seq(S) /\ Len(SubSeq(b, s + 1, p)) = p - (s + 1) + 1
      /\ \A i \in 1 .. p - (s + 1) + 1 : SubSeq(b, s + 1, p)[i] = b[(s + 1) + i - 1]
  BY <1>1, SubSeqProperties
<1>3. \A i \in 1 .. p - s : (s + 1) + i - 1 = s + i
  OBVIOUS
<1> QED
  BY <1>1, <1>2, <1>3

Continues(b, p, c) == p + Len(c) <= Len(b) /\ \A j \in 1 .. Len(c) : c[j] = b[p + j]

Joins(b, s, p, c) == SubSeq(b, s + 1, p) \o c = SubSeq(b, s + 1, p + Len(c))

LEMMA SliceJoined ==
  ASSUME NEW b \in Seq(Nat), NEW s \in Nat, NEW p \in Nat, s <= p,
         NEW c \in Seq(Nat), Continues(b, p, c)
  PROVE  Joins(b, s, p, c)
<1> DEFINE u == SubSeq(b, s + 1, p)
           v == SubSeq(b, s + 1, p + Len(c))
           x == u \o c
           n == Len(c)
<1>0. p + n <= Len(b) /\ \A j \in 1 .. n : c[j] = b[p + j]
  BY DEF Continues
<1>1. n \in Nat /\ p <= Len(b) /\ s <= p + n /\ p + n \in Nat /\ p + n <= Len(b)
  BY <1>0
<1>2. u \in Seq(Nat) /\ Len(u) = p - s /\ \A i \in 1 .. p - s : u[i] = b[s + i]
  BY <1>1, Slice
<1>3. /\ v \in Seq(Nat) /\ Len(v) = p + n - s /\ \A i \in 1 .. p + n - s : v[i] = b[s + i]
  BY <1>1, Slice
<1> HIDE DEF u, v
<1>4. /\ x \in Seq(Nat) /\ Len(x) = Len(u) + n
      /\ \A i \in 1 .. Len(u) + n : x[i] = IF i <= Len(u) THEN u[i] ELSE c[i - Len(u)]
  BY <1>2, ConcatProperties
<1> HIDE DEF x
<1>5. \A j \in 1 .. n : c[j] = b[p + j]
  BY <1>0
<1> HIDE DEF n
<1>6. Len(x) = Len(v)
  BY <1>1, <1>2, <1>3, <1>4
<1>7. ASSUME NEW i \in 1 .. Len(v) PROVE x[i] = v[i]
  <2>1. i \in 1 .. p + n - s /\ i \in 1 .. Len(u) + n /\ v[i] = b[s + i]
    BY <1>1, <1>2, <1>3
  <2>2. CASE i <= p - s
    <3>1. i \in 1 .. p - s
      BY <2>1, <2>2
    <3> QED
      BY <1>2, <1>4, <2>1, <2>2, <3>1
  <2>3. CASE ~(i <= p - s)
    <3>1. i - (p - s) \in 1 .. n /\ p + (i - (p - s)) = s + i
      BY <1>1, <2>1, <2>3
    <3>2. x[i] = c[i - (p - s)]
      BY <1>2, <1>4, <2>1, <2>3
    <3> QED
      BY <1>5, <2>1, <3>1, <3>2
  <2> QED
    BY <2>2, <2>3
<1>8. x = v
  BY <1>3, <1>4, <1>6, <1>7, SeqEqual
<1> QED
  BY <1>8 DEF Joins, x, u, v, n

(* The chunk c goes on with b where p of its bytes have been taken. *)
Carries(b, p, c) == \A j \in 1 .. Len(c) : p + j <= Len(b) => c[j] = b[p + j]

(* A part of b, of the n bytes behind the first s, is gathered from chunks. *)
Gathers(b, s, n, p, m) ==
  s <= p /\ p < s + n /\ s + n <= Len(b) /\ m.buf = SubSeq(b, s + 1, p)

Gathered(b, s, n, p, m, c, g) ==
  LET need == s + n - p
  IN  /\ need > Len(c) =>
           /\ g.data = Null /\ g.begin = Null /\ p + Len(c) < s + n
           /\ g.msg = [m EXCEPT !.buf = SubSeq(b, s + 1, p + Len(c))]
      /\ ~(need > Len(c)) =>
           /\ g.data = SubSeq(b, s + 1, s + n) /\ g.data # Null
           /\ need \in 0 .. Len(c) /\ g.begin = SubSeq(c, need + 1, Len(c))
           /\ g.msg = [m EXCEPT !.buf = << >>]

LEMMA GetDataFacts ==
  ASSUME NEW b \in Seq(Nat), NEW s \in Nat, NEW n \in Nat \ {0}, NEW p \in Nat,
         NEW m \in MsgRecords, NEW c \in Seq(Nat), Gathers(b, s, n, p, m), Carries(b, p, c)
  PROVE  Gathered(b, s, n, p, m, c, GetData(m, n, c))
<1> DEFINE g == GetData(m, n, c)
           need == s + n - p
           l == Len(c)
           u == SubSeq(b, s + 1, p)
<1>0. /\ s <= p /\ p < s + n /\ s + n <= Len(b) /\ m.buf = u
      /\ \A j \in 1 .. Len(c) : p + j <= Len(b) => c[j] = b[p + j]
  BY DEF Gathers, Carries
<1>1. l \in Nat /\ Len(b) \in Nat /\ p <= Len(b) /\ need \in Nat \ {0} /\ p + need = s + n
      /\ s <= s + n /\ s + n \in Nat
  BY <1>0
<1> SUFFICES Gathered(b, s, n, p, m, c, g)
  OBVIOUS
<1>2. u \in Seq(Nat) /\ Len(u) = p - s
  BY <1>0, <1>1, Slice
<1>3. n - Len(m.buf) = need
  BY <1>0, <1>1, <1>2
<1> HIDE DEF need, l
<1>4. CASE need > l
  <2>1. g = [data |-> Null, begin |-> Null, msg |-> [m EXCEPT !.buf = @ \o c]]
    BY <1>1, <1>3, <1>4 DEF GetData, l
  <2>2. p + l < s + n /\ p + l <= Len(b)
    BY <1>0, <1>1, <1>4
  <2>3. \A j \in 1 .. Len(c) : c[j] = b[p + j]
    BY <1>0, <1>1, <2>2 DEF l
  <2>4. u \o c = SubSeq(b, s + 1, p + Len(c))
    <3>1. p + Len(c) <= Len(b)
      BY <2>2 DEF l
    <3> HIDE DEF l, u
    <3>2. Continues(b, p, c)
      BY <2>3, <3>1 DEF Continues
    <3>3. b \in Seq(Nat) /\ s \in Nat /\ p \in Nat /\ s <= p /\ c \in Seq(Nat)
      BY <1>0
    <3>4. Joins(b, s, p, c)
      BY ONLY <3>2, <3>3, SliceJoined
    <3> QED
      BY ONLY <3>4 DEF Joins, u
  <2>5. g.data = Null /\ g.begin = Null /\ g.msg = [m EXCEPT !.buf = SubSeq(b, s + 1, p + Len(c))]
    <3>1. g.data = Null /\ g.begin = Null /\ g.msg = [m EXCEPT !.buf = @ \o c]
      BY <2>1
    <3> QED
      BY <1>0, <2>4, <3>1
  <2> HIDE DEF g
  <2> QED
    BY <1>1, <1>4, <2>2, <2>5 DEF Gathered, l, need
<1>5. CASE ~(need > l)
  <2>1. /\ g.data = m.buf \o SubSeq(c, 1, need) /\ g.begin = SubSeq(c, need + 1, Len(c))
        /\ g.msg = [m EXCEPT !.buf = << >>]
    <3> DEFINE k == n - Len(m.buf)
    <3>1. ~(k <= 0) /\ ~(k > Len(c))
      BY <1>1, <1>3, <1>5 DEF l
    <3>2. g = [data |-> m.buf \o SubSeq(c, 1, k), begin |-> SubSeq(c, k + 1, Len(c)),
               msg |-> [m EXCEPT !.buf = << >>]]
      BY <3>1 DEF GetData
    <3>3. k = need
      BY <1>3
    <3> HIDE DEF k, g
    <3> QED
      BY <3>2, <3>3
  <2>2. need \in 0 .. Len(c)
    BY <1>1, <1>5 DEF l
  <2> DEFINE d == SubSeq(c, 1, need)
  <2>3. d \in Seq(Nat) /\ Len(d) = need /\ \A i \in 1 .. need : d[i] = c[i]
    BY <2>2, Parts
  <2> HIDE DEF d
  <2>4. \A j \in 1 .. Len(d) : d[j] = b[p + j]
    <3> SUFFICES ASSUME NEW j \in 1 .. Len(d) PROVE d[j] = b[p + j]
      OBVIOUS
    <3>1. j \in 1 .. need
      BY <2>3
    <3>2. j \in 1 .. Len(c) /\ p + j <= Len(b)
      <4>1. j \in Nat /\ j <= need /\ 1 <= j /\ need <= l /\ need \in Nat /\ l \in Nat
        BY <1>1, <1>5, <3>1
      <4>2. p + need = s + n /\ s + n <= Len(b) /\ Len(b) \in Nat
        BY <1>0, <1>1
      <4>3. j <= l /\ p + j <= Len(b)
        BY <4>1, <4>2
      <4> QED
        BY <4>1, <4>3 DEF l
    <3> QED
      BY <1>0, <2>3, <3>1, <3>2
  <2>5. p + Len(d) = s + n /\ p + Len(d) <= Len(b)
    BY <1>0, <1>1, <2>3
  <2>6. u \o d = SubSeq(b, s + 1, p + Len(d))
    <3>1. Continues(b, p, d)
      BY <2>4, <2>5 DEF Continues
    <3>2. b \in Seq(Nat) /\ s \in Nat /\ p \in Nat /\ s <= p /\ d \in Seq(Nat)
      BY <1>0, <2>3
    <3>3. Joins(b, s, p, d)
      BY ONLY <3>1, <3>2, SliceJoined
    <3> QED
      BY ONLY <3>3 DEF Joins, u
  <2>7. g.data = SubSeq(b, s + 1, s + n)
    <3>1. g.data = m.buf \o d /\ m.buf = u
      BY <1>0, <2>1 DEF d
    <3> HIDE DEF g, u
    <3> QED
      BY <2>5, <2>6, <3>1
  <2>8. SubSeq(b, s + 1, s + n) \in Seq(Nat) /\ Len(SubSeq(b, s + 1, s + n)) = s + n - s
    BY <1>0, <1>1, Slice
  <2>9. g.data # Null
    <3>1. SubSeq(b, s + 1, s + n)[1] \in Nat
      BY <2>8
    <3>2. Null[1] = -1
      BY DEF Null
    <3> QED
      BY <2>7, <3>1, <3>2
  <2>10. g.begin = SubSeq(c, need + 1, Len(c)) /\ g.msg = [m EXCEPT !.buf = << >>]
    BY <2>1
  <2> HIDE DEF g
  <2> QED
    BY <1>1, <1>5, <2>2, <2>7, <2>9, <2>10 DEF Gathered, l, need
<1> QED
  BY <1>4, <1>5

(* The mask is taken off again. *)
LEMMA UnMaskedTwice ==
  ASSUME NEW u \in Seq({0, 1}), NEW k \in Seq({0, 1}), Len(k) = MaskBytes
  PROVE  UnMasked(UnMasked(u, k), k) = u
<1> DEFINE v == UnMasked(u, k)
           x == UnMasked(v, k)
           n == Len(u)
<1>1. n \in Nat /\ MaskBytes \in Nat \ {0} /\ \A i \in 1 .. n : u[i] \in {0, 1}
  BY WebSocketAssumption
<1>2. ASSUME NEW i \in 1 .. n PROVE k[((i - 1) % MaskBytes) + 1] \in {0, 1}
  <2>1. (i - 1) % MaskBytes \in 0 .. MaskBytes - 1
    BY <1>1
  <2>2. ((i - 1) % MaskBytes) + 1 \in 1 .. Len(k)
    BY <1>1, <2>1
  <2> QED
    BY <2>2
<1>3. v = [i \in 1 .. n |-> Xor(u[i], k[((i - 1) % MaskBytes) + 1])]
  BY DEF UnMasked
<1>4. \A i \in 1 .. n : v[i] \in {0, 1}
  BY <1>3 DEF Xor
<1>5. v \in Seq({0, 1}) /\ Len(v) = n
  <2>1. v \in [1 .. n -> {0, 1}]
    BY <1>3, <1>4
  <2> HIDE DEF v, n
  <2> QED
    BY <1>1, <2>1
<1>6. x = [i \in 1 .. n |-> Xor(v[i], k[((i - 1) % MaskBytes) + 1])]
  <2> HIDE DEF v
  <2> QED
    BY <1>5 DEF UnMasked
<1>7. ASSUME NEW i \in 1 .. n PROVE x[i] = u[i]
  <2> DEFINE a == u[i]
             d == k[((i - 1) % MaskBytes) + 1]
  <2>1. x[i] = Xor(Xor(a, d), d)
    <3> HIDE DEF v, x
    <3> QED
      BY <1>3, <1>6
  <2>2. a \in {0, 1} /\ d \in {0, 1}
    BY <1>1, <1>2
  <2> HIDE DEF a, d
  <2>3. Xor(Xor(a, d), d) = a
    BY <2>2 DEF Xor
  <2> QED
    BY <2>1, <2>3 DEF a
<1>8. u = [i \in 1 .. n |-> u[i]]
  OBVIOUS
<1> HIDE DEF v, x
<1>9. x = [i \in 1 .. n |-> u[i]]
  BY <1>6, <1>7
<1> QED
  BY <1>8, <1>9 DEF x, v

(* What a handler of the parser makes of the chunk c: it takes some of it, *)
(* or refuses the frame.                                                   *)
Stepped(f, p, c, r) ==
  /\ r.msg \in MsgRecords
  /\ \/ Bad(f) /\ r.begin = Null /\ r.msg.state = "eError" /\ r.msg.buf = << >>
     \/ \E n \in 0 .. Len(c) :
          /\ r.begin = SubSeq(c, n + 1, Len(c)) \/ (r.begin = Null /\ n = Len(c))
          /\ p + n <= Len(f.bytes) /\ Parsed(f, p + n, r.msg)
  /\ r.msg.state = "eReadingPayload" /\ r.begin = Null => Len(r.msg.content) < r.msg.len

LEMMA NullIsNoChunk == Null \notin Seq(Nat)
<1>1. Null[1] = -1
  BY DEF Null
<1>2. SUFFICES ASSUME Null \in Seq(Nat) PROVE FALSE
  OBVIOUS
<1>3. Len(Null) = 1
  BY DEF Null
<1>4. Null[1] \in Nat
  BY SMTT(30), <1>2, <1>3
<1> QED
  BY <1>1, <1>4

LEMMA BufSet ==
  ASSUME NEW m \in MsgRecords, NEW u \in Seq(Nat), NEW x, x = [m EXCEPT !.buf = u]
  PROVE  /\ x \in MsgRecords /\ x.state = m.state /\ x.buf = u /\ x.opcode = m.opcode
         /\ x.len = m.len /\ x.mask = m.mask /\ x.content = m.content
BY DEF MsgRecords

LEMMA NothingYet ==
  ASSUME NEW b, NEW s \in Nat
  PROVE  SubSeq(b, s + 1, s) = << >>
OBVIOUS

LEMMA ReadHead ==
  ASSUME NEW f \in Frames, NEW m \in MsgRecords, NEW p \in Nat, Parsed(f, p, m),
         NEW c \in Seq(Nat), Carries(f.bytes, p, c), m.state = "eReadingHead"
  PROVE  Stepped(f, p, c, OnReadingHead(m, c))
<1> DEFINE b == f.bytes
           g == GetData(m, 2, c)
           need == 0 + 2 - p
           r == OnReadingHead(m, c)
<1>1. /\ b \in Seq(Nat) /\ Len(b) \in Nat /\ Len(b) >= 2 /\ p < 2
      /\ m = [NewMsg EXCEPT !.buf = SubSeq(b, 0 + 1, p)] /\ Len(c) \in Nat
  BY FrameFacts DEF Parsed
<1>2. m.buf = SubSeq(b, 0 + 1, p) /\ SubSeq(b, 0 + 1, p) \in Seq(Nat)
  <2>1. 0 <= p /\ p <= Len(b)
    BY <1>1
  <2> QED
    BY <1>1, <2>1, Slice DEF NewMsg
<1>3. /\ need > Len(c) =>
           /\ g.data = Null /\ g.begin = Null /\ p + Len(c) < 0 + 2
           /\ g.msg = [m EXCEPT !.buf = SubSeq(b, 0 + 1, p + Len(c))]
      /\ ~(need > Len(c)) =>
           /\ g.data = SubSeq(b, 0 + 1, 0 + 2) /\ g.data # Null
           /\ need \in 0 .. Len(c) /\ g.begin = SubSeq(c, need + 1, Len(c))
           /\ g.msg = [m EXCEPT !.buf = << >>]
  <2>1. Gathers(b, 0, 2, p, m)
    BY <1>1, <1>2 DEF Gathers
  <2>2. Carries(b, p, c) /\ b \in Seq(Nat) /\ 2 \in Nat \ {0} /\ 0 \in Nat
    BY <1>1
  <2> HIDE DEF b
  <2>3. Gathered(b, 0, 2, p, m, c, GetData(m, 2, c))
    BY <2>1, <2>2, GetDataFacts
  <2> HIDE DEF g
  <2> QED
    BY <2>3 DEF Gathered, g
<1>4. r = CASE g.data = Null -> [msg |-> g.msg, begin |-> Null]
            [] g.data # Null /\ ~IsOpcodeValide(g.data[1]) ->
                 [msg |-> [g.msg EXCEPT !.state = "eError"], begin |-> Null]
            [] OTHER -> [msg |-> Headed(g.msg, g.data), begin |-> g.begin]
  BY DEF OnReadingHead
<1> SUFFICES Stepped(f, p, c, r)
  OBVIOUS
<1> HIDE DEF g, r, b
<1>5. CASE need > Len(c)
  <2>1. r.begin = Null /\ r.msg = [NewMsg EXCEPT !.buf = SubSeq(b, 1, p + Len(c))]
    <3>1. r = [msg |-> g.msg, begin |-> Null]
      BY <1>3, <1>4, <1>5
    <3>2. 0 + 1 = 1
      OBVIOUS
    <3> QED
      BY <1>1, <1>3, <1>5, <3>1, <3>2 DEF NewMsg
  <2>2. p + Len(c) < 2 /\ p + Len(c) \in Nat /\ p + Len(c) <= Len(b)
    BY <1>1, <1>3, <1>5
  <2>3. SubSeq(b, 0 + 1, p + Len(c)) \in Seq(Nat)
    BY <1>1, <2>2, Slice
  <2>4. r.msg \in MsgRecords /\ r.msg.state = "eReadingHead"
    <3> DEFINE u == SubSeq(b, 1, p + Len(c))
    <3>1. u \in Seq(Nat)
      BY <2>3
    <3> HIDE DEF u
    <3>2. [NewMsg EXCEPT !.buf = u] =
            [state |-> "eReadingHead", buf |-> u, opcode |-> 0, len |-> 0, mask |-> << >>,
             content |-> << >>]
      BY DEF NewMsg
    <3>3. [NewMsg EXCEPT !.buf = u] \in MsgRecords
      <4>1. << >> \in Seq(Nat) /\ 0 \in Nat /\ "eReadingHead" \in States
        BY DEF States
      <4> QED
        BY <3>1, <3>2, <4>1 DEF MsgRecords
    <3> QED
      BY <2>1, <3>2, <3>3 DEF u
  <2>5. Parsed(f, p + Len(c), r.msg)
    BY <2>1, <2>2, <2>4 DEF Parsed, b
  <2>6. Len(c) \in 0 .. Len(c) /\ p + Len(c) <= Len(f.bytes)
    BY <1>1, <2>2 DEF b
  <2> QED
    BY <2>1, <2>4, <2>5, <2>6 DEF Stepped
<1>6. CASE ~(need > Len(c))
  <2>1. g.data[1] = b[1] /\ g.data[2] = b[2] /\ b[1] \in Nat /\ b[2] \in Nat
    <3>1. 0 <= 0 + 2 /\ 0 + 2 <= Len(b) /\ 0 \in Nat /\ 0 + 2 \in Nat
      BY <1>1
    <3>2. \A i \in 1 .. 0 + 2 - 0 : SubSeq(b, 0 + 1, 0 + 2)[i] = b[0 + i]
      BY <1>1, <3>1, Slice
    <3>3. 1 \in 1 .. 0 + 2 - 0 /\ 2 \in 1 .. 0 + 2 - 0 /\ 0 + 1 = 1 /\ 0 + 2 = 2
      OBVIOUS
    <3>4. g.data[1] = b[1] /\ g.data[2] = b[2]
      <4> HIDE DEF need
      <4> QED
        BY <1>3, <1>6, <3>2, <3>3
    <3>5. b[1] \in Nat /\ b[2] \in Nat
      BY <1>1
    <3> QED
      BY <3>4, <3>5
  <2>2. g.msg = NewMsg
    BY <1>1, <1>3, <1>6 DEF NewMsg
  <2>3. NewMsg \in MsgRecords /\ NewMsg.buf = << >>
    BY DEF NewMsg, MsgRecords, States
  <2>4. CASE Bad(f)
    <3>1. ~IsOpcodeValide(g.data[1])
      BY <2>1, <2>4 DEF Bad, b
    <3>2. r = [msg |-> [NewMsg EXCEPT !.state = "eError"], begin |-> Null]
      BY <1>3, <1>4, <1>6, <2>2, <3>1
    <3>3. r.msg = [state |-> "eError", buf |-> << >>, opcode |-> 0, len |-> 0, mask |-> << >>,
                   content |-> << >>] /\ r.begin = Null
      BY <3>2 DEF NewMsg
    <3>4. r.msg \in MsgRecords /\ r.msg.state = "eError" /\ r.msg.buf = << >>
      BY <3>3 DEF MsgRecords, States
    <3> QED
      BY <2>4, <3>3, <3>4 DEF Stepped
  <2>5. CASE ~Bad(f)
    <3> DEFINE h == [NewMsg EXCEPT !.opcode = b[1]]
    <3>1. IsOpcodeValide(g.data[1])
      BY <2>1, <2>5 DEF Bad, b
    <3>2. r = [msg |-> Headed(NewMsg, g.data), begin |-> g.begin]
      BY <1>3, <1>4, <1>6, <2>2, <3>1
    <3>3. r.msg = CASE b[2] = 126 -> [h EXCEPT !.state = "eReadingLen16"]
                    [] b[2] = 127 -> [h EXCEPT !.state = "eReadingLen64"]
                    [] OTHER      -> SetPayloadLen(h, b[2])
      BY <2>1, <3>2 DEF Headed
    <3>4. r.begin = SubSeq(c, need + 1, Len(c)) /\ need \in 0 .. Len(c) /\ p + need = 2
      <4>1. p + need = 2
        BY <1>1
      <4> HIDE DEF need
      <4> QED
        BY <1>3, <1>6, <3>2, <4>1
    <3>5. /\ FieldLength(f) \in Nat /\ HeadLength(f) = 2 + FieldLength(f) + MaskBytes
          /\ b[2] = 126 => FieldLength(f) = 2
          /\ b[2] = 127 => FieldLength(f) = Len64Bytes
          /\ b[2] \notin {126, 127} => FieldLength(f) = 0 /\ Len(f.payload) = b[2]
      BY <2>5, FrameFacts DEF b
    <3>6. Len64Bytes \in Nat /\ Len64Bytes >= 3 /\ MaskBytes \in Nat \ {0}
      BY WebSocketAssumption
    <3>7. SubSeq(b, 2 + 1, 2) = << >>
      BY NothingYet
    <3> HIDE DEF need
    <3>8. r.msg \in MsgRecords /\ Parsed(f, 2, r.msg) /\ r.msg.state # "eReadingPayload"
      <4>1. CASE b[2] = 126
        <5>1. r.msg = [state |-> "eReadingLen16", buf |-> << >>, opcode |-> b[1], len |-> 0,
                       mask |-> << >>, content |-> << >>]
          <6>1. r.msg = [h EXCEPT !.state = "eReadingLen16"]
            BY <3>3, <4>1
          <6> QED
            BY <6>1 DEF NewMsg
        <5>2. 2 \in 2 .. 1 + FieldLength(f)
          BY <3>5, <4>1
        <5> QED
          BY <2>1, <2>5, <3>7, <4>1, <5>1, <5>2 DEF Parsed, MsgRecords, States, b
      <4>2. CASE b[2] = 127
        <5>1. r.msg = [state |-> "eReadingLen64", buf |-> << >>, opcode |-> b[1], len |-> 0,
                       mask |-> << >>, content |-> << >>]
          <6>1. r.msg = [h EXCEPT !.state = "eReadingLen64"]
            BY <3>3, <4>2
          <6> QED
            BY <6>1 DEF NewMsg
        <5>2. 2 \in 2 .. 1 + FieldLength(f)
          BY <3>5, <3>6, <4>2
        <5> QED
          BY <2>1, <2>5, <3>7, <4>2, <5>1, <5>2 DEF Parsed, MsgRecords, States, b
      <4>3. CASE b[2] \notin {126, 127}
        <5>1. r.msg = [state |-> "eReadingMask", buf |-> << >>, opcode |-> b[1], len |-> b[2],
                       mask |-> << >>, content |-> << >>]
          BY <3>3, <4>3 DEF NewMsg, SetPayloadLen
        <5>2. 2 \in 2 + FieldLength(f) .. HeadLength(f) - 1 /\ 2 + FieldLength(f) + 1 = 2 + 1
          BY <3>5, <3>6, <4>3
        <5>3. Len(f.payload) = b[2]
          BY <3>5, <4>3
        <5> QED
          BY <2>1, <2>5, <3>7, <5>1, <5>2, <5>3 DEF Parsed, MsgRecords, States, b
      <4> QED
        BY <4>1, <4>2, <4>3
    <3>9. p + need <= Len(f.bytes) /\ Parsed(f, p + need, r.msg)
      BY <1>1, <3>4, <3>8 DEF b
    <3> QED
      BY <3>4, <3>8, <3>9 DEF Stepped
  <2> QED
    BY <2>4, <2>5
<1> QED
  BY <1>5, <1>6

LEMMA ReadLen ==
  ASSUME NEW f \in Frames, NEW m \in MsgRecords, NEW p \in Nat, Parsed(f, p, m),
         NEW c \in Seq(Nat), Carries(f.bytes, p, c),
         m.state \in {"eReadingLen16", "eReadingLen64"}, NEW n \in Nat, n = FieldLength(f)
  PROVE  Stepped(f, p, c, OnReadingLen(m, n, c))
<1> DEFINE b == f.bytes
           g == GetData(m, n, c)
           need == 2 + n - p
           r == OnReadingLen(m, n, c)
           B == Len(b)
           L == Len(c)
           H == HeadLength(f)
           P == Len(f.payload)
<1>1. /\ m.state # "eReadingHead" /\ m.state # "eError" /\ ~Bad(f) /\ m.opcode = b[1]
      /\ p \in 2 .. 1 + n /\ m.buf = SubSeq(b, 2 + 1, p) /\ m.content = << >>
      /\ m.state = "eReadingLen16" => b[2] = 126
      /\ m.state = "eReadingLen64" => b[2] = 127
  BY DEF Parsed
<1>2. /\ b \in Seq(Nat) /\ B \in Nat /\ n \in Nat \ {0} /\ L \in Nat
      /\ H = 2 + n + MaskBytes /\ MaskBytes \in Nat \ {0} /\ B = H + P /\ P \in Nat
  <2>1. b[2] \in {126, 127}
    BY <1>1
  <2>2. MaskBytes \in Nat \ {0} /\ L \in Nat
    BY WebSocketAssumption
  <2>3. /\ b \in Seq(Nat) /\ B \in Nat /\ FieldLength(f) \in Nat
        /\ H = 2 + FieldLength(f) + MaskBytes /\ P \in Nat
        /\ FieldLength(f) = 0 <=> b[2] \notin {126, 127}
        /\ B = H + P
    BY ZenonT(30), <1>1, FrameFacts
  <2> HIDE DEF B, H, P, L, b
  <2> QED
    BY <2>1, <2>2, <2>3
<1>3. 2 <= p /\ p < 2 + n /\ 2 + n <= Len(b) /\ 2 + n \in Nat
  <2>1. p \in 2 .. 1 + n
    BY <1>1
  <2> HIDE DEF B, H, P, L, b
  <2>2. 2 <= p /\ p < 2 + n /\ 2 + n \in Nat
    BY <2>1
  <2>3. 2 + n <= B
    BY <1>2
  <2> QED
    BY <2>2, <2>3 DEF B
<1>4. Gathered(b, 2, n, p, m, c, g)
  <2>1. Gathers(b, 2, n, p, m)
    BY <1>1, <1>3 DEF Gathers
  <2>2. Carries(b, p, c) /\ 2 \in Nat
    OBVIOUS
  <2> HIDE DEF b
  <2> QED
    BY <1>2, <2>1, <2>2, GetDataFacts
<1>5. r = [msg |-> IF g.data = Null THEN g.msg ELSE SetPayloadLen(g.msg, BigEndian(g.data)),
           begin |-> g.begin]
  BY DEF OnReadingLen
<1> SUFFICES Stepped(f, p, c, r)
  OBVIOUS
<1>6. B = Len(f.bytes) /\ B = Len(b) /\ L = Len(c)
  OBVIOUS
<1> HIDE DEF g, r, B, H, P, L, b
<1>7. CASE need > L
  <2> DEFINE u == SubSeq(b, 2 + 1, p + Len(c))
  <2>1. /\ g.data = Null /\ g.begin = Null /\ p + Len(c) < 2 + n
        /\ g.msg = [m EXCEPT !.buf = u]
    BY <1>4, <1>6, <1>7 DEF Gathered
  <2>2. r.begin = Null /\ r.msg = [m EXCEPT !.buf = u]
    BY <1>5, <2>1
  <2> DEFINE q == p + L
  <2>3. q \in 2 .. 1 + n /\ q \in Nat /\ 2 <= q /\ q <= B
    <3>1. p \in 2 .. 1 + n /\ p + L < 2 + n /\ 2 + n <= B
      BY <1>1, <1>3, <1>6, <2>1
    <3>2. L \in Nat /\ B \in Nat /\ n \in Nat
      BY <1>2
    <3>3. 2 <= p + L /\ p + L <= B /\ p + L \in Nat /\ p + L \in 2 .. 1 + n
      BY <3>1, <3>2
    <3> QED
      BY <3>3
  <2>4. u = SubSeq(b, 2 + 1, q)
    BY <1>6
  <2>5. u \in Seq(Nat)
    <3> HIDE DEF q, u
    <3> QED
      BY ZenonT(30), <1>2, <1>6, <2>3, <2>4, Slice
  <2> HIDE DEF u, q
  <2>7. /\ r.msg \in MsgRecords /\ r.msg.state = m.state /\ r.msg.buf = u
        /\ r.msg.content = << >> /\ r.msg.opcode = b[1]
    BY <1>1, <2>2, <2>5, BufSet
  <2>8. Parsed(f, q, r.msg)
    BY <1>1, <2>3, <2>4, <2>7 DEF Parsed, b
  <2>9. L \in 0 .. L /\ p + L <= B
    BY <1>2, <2>3 DEF q
  <2>11. r.msg.state # "eReadingPayload"
    BY <2>7
  <2>10. Parsed(f, p + Len(c), r.msg) /\ Len(c) \in 0 .. Len(c) /\ p + Len(c) <= Len(f.bytes)
    BY <1>6, <2>8, <2>9 DEF q
  <2> QED
    BY <2>2, <2>7, <2>10, <2>11 DEF Stepped
<1>8. CASE ~(need > L)
  <2> DEFINE d == SubSeq(b, 2 + 1, 2 + n)
  <2>1. /\ g.data = d /\ g.data # Null
        /\ need \in 0 .. Len(c) /\ g.begin = SubSeq(c, need + 1, Len(c))
        /\ g.msg = [m EXCEPT !.buf = << >>]
    BY <1>4, <1>6, <1>8 DEF Gathered
  <2>2. BigEndian(d) = P /\ P \in Nat
    <3>1. ~Bad(f) /\ FieldLength(f) # 0
      BY <1>1, <1>2
    <3>2. P = BigEndian(SubSeq(b, 2 + 1, 2 + FieldLength(f)))
      BY <3>1, FrameFacts DEF b, P
    <3>3. P = BigEndian(SubSeq(b, 2 + 1, 2 + n))
      BY <3>2
    <3> QED
      BY <1>2, <3>3
  <2> HIDE DEF d
  <2>3. r.begin = g.begin /\ r.msg = SetPayloadLen(g.msg, P)
    BY <1>5, <2>1, <2>2
  <2>4. r.msg = [g.msg EXCEPT !.len = P, !.state = "eReadingMask"]
    BY <2>3 DEF SetPayloadLen
  <2>5. << >> \in Seq(Nat)
    OBVIOUS
  <2>6. /\ r.msg \in MsgRecords /\ r.msg.state = "eReadingMask" /\ r.msg.buf = << >>
        /\ r.msg.content = << >> /\ r.msg.opcode = b[1] /\ r.msg.len = P
    <3>1. /\ g.msg \in MsgRecords /\ g.msg.buf = << >> /\ g.msg.opcode = m.opcode
          /\ g.msg.content = m.content
      BY <2>1, <2>5 DEF MsgRecords
    <3>2. /\ r.msg \in MsgRecords /\ r.msg.state = "eReadingMask" /\ r.msg.buf = g.msg.buf
          /\ r.msg.opcode = g.msg.opcode /\ r.msg.content = g.msg.content /\ r.msg.len = P
      BY <2>2, <2>4, <3>1 DEF MsgRecords, States
    <3> QED
      BY <1>1, <3>1, <3>2
  <2>7. SubSeq(b, 2 + n + 1, 2 + n) = << >>
    BY <1>3, NothingYet
  <2>8. 2 + n \in 2 + n .. H - 1
    <3>1. n \in Nat /\ H = 2 + n + MaskBytes /\ MaskBytes \in Nat \ {0}
      BY <1>2
    <3> QED
      BY ONLY <3>1
  <2>9. Parsed(f, 2 + n, r.msg)
    <3>1. ~Bad(f) /\ FieldLength(f) = n
      BY <1>1
    <3> QED
      BY ONLY <2>6, <2>7, <2>8, <3>1 DEF Parsed, b, P, H
  <2>10. p + need = 2 + n
    BY SMTT(30), <1>1, <1>2
  <2> HIDE DEF need
  <2>11. p + need <= Len(f.bytes) /\ Parsed(f, p + need, r.msg)
    BY <1>3, <1>6, <2>9, <2>10
  <2> QED
    BY <2>1, <2>3, <2>6, <2>11 DEF Stepped
<1> QED
  BY <1>7, <1>8

LEMMA ReadMask ==
  ASSUME NEW f \in Frames, NEW m \in MsgRecords, NEW p \in Nat, Parsed(f, p, m),
         NEW c \in Seq(Nat), Carries(f.bytes, p, c), m.state = "eReadingMask"
  PROVE  Stepped(f, p, c, OnReadingMask(m, c))
<1> DEFINE b == f.bytes
           s == 2 + FieldLength(f)
           g == GetData(m, MaskBytes, c)
           need == s + MaskBytes - p
           r == OnReadingMask(m, c)
           B == Len(b)
           L == Len(c)
           H == HeadLength(f)
           P == Len(f.payload)
<1>1. /\ ~Bad(f) /\ m.opcode = b[1] /\ p \in s .. H - 1
      /\ m.buf = SubSeq(b, s + 1, p) /\ m.len = P /\ m.content = << >>
  BY DEF Parsed
<1>2. /\ b \in Seq(Nat) /\ B \in Nat /\ s \in Nat /\ L \in Nat
      /\ H = s + MaskBytes /\ MaskBytes \in Nat \ {0} /\ B = H + P /\ P \in Nat
      /\ Mask(f) = SubSeq(b, s + 1, s + MaskBytes)
  <2>1. MaskBytes \in Nat \ {0} /\ L \in Nat
    BY WebSocketAssumption
  <2>2. /\ b \in Seq(Nat) /\ B \in Nat /\ FieldLength(f) \in Nat /\ H = s + MaskBytes
        /\ P \in Nat /\ B = H + P /\ Mask(f) = SubSeq(b, s + 1, H)
    BY <1>1, FrameFacts
  <2>3. s \in Nat
    BY <2>2
  <2> HIDE DEF B, H, P, L, b, s
  <2> QED
    BY <2>1, <2>2, <2>3
<1>3. s <= p /\ p < s + MaskBytes /\ s + MaskBytes <= Len(b) /\ s + MaskBytes \in Nat
  <2>1. p \in s .. H - 1
    BY <1>1
  <2> HIDE DEF B, H, P, L, b, s
  <2>2. s <= p /\ p < s + MaskBytes /\ s + MaskBytes <= B /\ s + MaskBytes \in Nat
    BY <1>2, <2>1
  <2> QED
    BY <2>2 DEF B
<1> HIDE DEF s
<1>4. Gathered(b, s, MaskBytes, p, m, c, g)
  <2>1. Gathers(b, s, MaskBytes, p, m)
    BY <1>1, <1>3 DEF Gathers
  <2>2. Carries(b, p, c)
    OBVIOUS
  <2> HIDE DEF b
  <2> QED
    BY <1>2, <2>1, <2>2, GetDataFacts
<1>5. r = [msg |-> IF g.data = Null THEN g.msg
                   ELSE [g.msg EXCEPT !.mask = g.data, !.state = "eReadingPayload"],
           begin |-> g.begin]
  BY DEF OnReadingMask
<1> SUFFICES Stepped(f, p, c, r)
  OBVIOUS
<1>6. B = Len(f.bytes) /\ B = Len(b) /\ L = Len(c)
  OBVIOUS
<1> HIDE DEF g, r, B, H, P, L, b
<1>7. CASE need > L
  <2> DEFINE u == SubSeq(b, s + 1, p + Len(c))
             q == p + L
  <2>1. /\ g.data = Null /\ g.begin = Null /\ p + Len(c) < s + MaskBytes
        /\ g.msg = [m EXCEPT !.buf = u]
    BY <1>4, <1>6, <1>7 DEF Gathered
  <2>2. r.begin = Null /\ r.msg = [m EXCEPT !.buf = u]
    BY <1>5, <2>1
  <2>3. q \in s .. H - 1 /\ q \in Nat /\ s <= q /\ q <= B
    <3>1. p \in s .. H - 1 /\ p + L < s + MaskBytes /\ s + MaskBytes <= B
      BY <1>1, <1>3, <1>6, <2>1
    <3> QED
      BY <1>2, <3>1
  <2>4. u = SubSeq(b, s + 1, q)
    BY <1>6
  <2>5. u \in Seq(Nat)
    <3> HIDE DEF q, u
    <3> QED
      BY <1>2, <1>6, <2>3, <2>4, Slice
  <2> HIDE DEF u, q
  <2>7. /\ r.msg \in MsgRecords /\ r.msg.state = "eReadingMask" /\ r.msg.buf = u
        /\ r.msg.content = << >> /\ r.msg.opcode = b[1] /\ r.msg.len = P
    BY <1>1, <2>2, <2>5, BufSet
  <2>8. Parsed(f, q, r.msg)
    BY <1>1, <2>3, <2>4, <2>7 DEF Parsed, b, s, H, P
  <2>9. L \in 0 .. L /\ p + L <= B
    BY <1>2, <2>3 DEF q
  <2>10. Parsed(f, p + Len(c), r.msg) /\ Len(c) \in 0 .. Len(c) /\ p + Len(c) <= Len(f.bytes)
    BY <1>6, <2>8, <2>9 DEF q
  <2> QED
    BY <2>2, <2>7, <2>10 DEF Stepped
<1>8. CASE ~(need > L)
  <2> DEFINE d == SubSeq(b, s + 1, s + MaskBytes)
  <2>1. /\ g.data = d /\ g.data # Null
        /\ need \in 0 .. Len(c) /\ g.begin = SubSeq(c, need + 1, Len(c))
        /\ g.msg = [m EXCEPT !.buf = << >>]
    BY <1>4, <1>6, <1>8 DEF Gathered
  <2>2. d = Mask(f) /\ d \in Seq(Nat)
    <3>1. s <= s + MaskBytes
      BY <1>2
    <3> QED
      BY <1>2, <1>3, <3>1, Slice
  <2> HIDE DEF d
  <2>3. r.begin = g.begin /\ r.msg = [g.msg EXCEPT !.mask = d, !.state = "eReadingPayload"]
    BY <1>5, <2>1
  <2>4. << >> \in Seq(Nat)
    OBVIOUS
  <2>6. /\ r.msg \in MsgRecords /\ r.msg.state = "eReadingPayload" /\ r.msg.buf = << >>
        /\ r.msg.content = << >> /\ r.msg.opcode = b[1] /\ r.msg.len = P
        /\ r.msg.mask = Mask(f)
    <3>1. /\ g.msg \in MsgRecords /\ g.msg.buf = << >> /\ g.msg.opcode = m.opcode
          /\ g.msg.content = m.content /\ g.msg.len = m.len
      BY <2>1, <2>4 DEF MsgRecords
    <3>2. /\ r.msg \in MsgRecords /\ r.msg.state = "eReadingPayload" /\ r.msg.buf = g.msg.buf
          /\ r.msg.opcode = g.msg.opcode /\ r.msg.content = g.msg.content
          /\ r.msg.len = g.msg.len /\ r.msg.mask = d
      BY <2>2, <2>3, <3>1 DEF MsgRecords, States
    <3> QED
      BY <1>1, <2>2, <3>1, <3>2
  <2>7. H \in Nat /\ SubSeq(b, H + 1, H) = << >> /\ H >= H
    <3>1. H \in Nat
      BY <1>2
    <3> QED
      BY <3>1, NothingYet
  <2>9. Parsed(f, H, r.msg)
    BY <1>1, <2>6, <2>7 DEF Parsed, b, H, P
  <2>10. p + need = H /\ H <= B
    BY <1>1, <1>2
  <2> HIDE DEF need
  <2>12. p + need <= Len(f.bytes) /\ Parsed(f, p + need, r.msg)
    BY <1>6, <2>9, <2>10
  <2>11. r.begin \in Seq(Nat) /\ r.begin # Null
    <3>1. r.begin = SubSeq(c, need + 1, Len(c)) /\ need \in 0 .. Len(c)
      BY <2>1, <2>3
    <3>2. r.begin \in Seq(Nat)
      BY <3>1, Parts
    <3> QED
      BY <3>2, NullIsNoChunk
  <2> QED
    BY <2>1, <2>3, <2>6, <2>11, <2>12 DEF Stepped
<1> QED
  BY <1>7, <1>8

LEMMA ReadPayload ==
  ASSUME NEW f \in Frames, NEW m \in MsgRecords, NEW p \in Nat, Parsed(f, p, m),
         p <= Len(f.bytes), NEW c \in Seq(Nat), Carries(f.bytes, p, c),
         m.state = "eReadingPayload"
  PROVE  Stepped(f, p, c, OnReadingPayload(m, c))
<1> DEFINE b == f.bytes
           B == Len(b)
           L == Len(c)
           H == HeadLength(f)
           P == Len(f.payload)
           need == m.len - Len(m.content)
           r == OnReadingPayload(m, c)
           u == SubSeq(b, H + 1, p)
<1>1. /\ ~Bad(f) /\ m.opcode = b[1] /\ p >= H /\ m.buf = << >> /\ m.len = P
      /\ m.mask = Mask(f) /\ m.content = u
  BY DEF Parsed
<1>2. /\ b \in Seq(Nat) /\ B \in Nat /\ L \in Nat /\ H \in Nat /\ P \in Nat /\ B = H + P
      /\ p <= B /\ H <= p
  <2>1. /\ b \in Seq(Nat) /\ B \in Nat /\ H \in Nat /\ P \in Nat /\ B = H + P
    BY <1>1, FrameFacts
  <2>2. L \in Nat /\ p <= B /\ p >= H
    BY <1>1
  <2> HIDE DEF b, B, H, P, L
  <2> QED
    BY <2>1, <2>2
<1>3. /\ f.payload \in Seq({0, 1}) /\ Mask(f) \in Seq({0, 1}) /\ Len(Mask(f)) = MaskBytes
      /\ SubSeq(b, H + 1, B) = UnMasked(f.payload, Mask(f))
  <2>1. /\ f.payload \in Seq({0, 1}) /\ Mask(f) \in Seq({0, 1})
        /\ SubSeq(b, H + 1, B) = UnMasked(f.payload, Mask(f))
        /\ Mask(f) = SubSeq(b, 2 + FieldLength(f) + 1, H)
        /\ H = 2 + FieldLength(f) + MaskBytes /\ FieldLength(f) \in Nat
    BY ZenonT(30), <1>1, FrameFacts
  <2> DEFINE s == 2 + FieldLength(f)
  <2>2. s \in Nat /\ H = s + MaskBytes /\ Mask(f) = SubSeq(b, s + 1, H)
    BY <2>1
  <2> HIDE DEF s, H, b, B, P
  <2>5. MaskBytes \in Nat \ {0}
    BY WebSocketAssumption
  <2>3. s <= H /\ H <= B
    BY <1>2, <2>2, <2>5
  <2>4. Len(SubSeq(b, s + 1, H)) = H - s
    BY <1>2, <2>2, <2>3, Slice DEF B
  <2> QED
    <3>1. H - s = MaskBytes
      BY <2>2, <2>5
    <3> QED
      BY <2>1, <2>2, <2>4, <3>1
<1>4. /\ u \in Seq(Nat) /\ Len(u) = p - H
  <2> HIDE DEF H, b, B, P
  <2> QED
    BY <1>2, Slice DEF B
<1>5. B = Len(f.bytes) /\ B = Len(b) /\ L = Len(c)
  OBVIOUS
<1>6. need = B - p
  <2>1. m.len = P /\ Len(m.content) = p - H
    BY <1>1, <1>4
  <2> HIDE DEF H, B, P
  <2> QED
    BY <1>2, <2>1
<1>7. \A j \in 1 .. L : p + j <= B => c[j] = b[p + j]
  BY DEF Carries
<1> SUFFICES Stepped(f, p, c, r)
  OBVIOUS
<1>8. CASE need <= Len(c)
  <2> DEFINE d == SubSeq(c, 1, need)
             q == B - p
  <2>1. /\ r.begin = SubSeq(c, need + 1, Len(c))
        /\ r.msg = [m EXCEPT !.content = UnMasked(@ \o SubSeq(c, 1, need), m.mask), !.state = "eNewMsg"]
    BY <1>8 DEF OnReadingPayload
  <2> HIDE DEF need, r, B, L, H, P, b, u
  <2>2. need \in 0 .. Len(c) /\ need \in Nat /\ p + need = B
    BY <1>2, <1>6, <1>8
  <2>3. d \in Seq(Nat) /\ Len(d) = need /\ \A i \in 1 .. need : d[i] = c[i]
    BY <2>2, Parts
  <2> HIDE DEF d
  <2>4. \A j \in 1 .. Len(d) : d[j] = b[p + j]
    <3> SUFFICES ASSUME NEW j \in 1 .. Len(d) PROVE d[j] = b[p + j]
      OBVIOUS
    <3>1. j \in 1 .. need /\ j \in 1 .. L /\ p + j <= B
      BY <1>2, <1>5, <2>2, <2>3
    <3> QED
      BY <1>7, <2>3, <3>1
  <2>5. u \o d = SubSeq(b, H + 1, B)
    <3>1. p + Len(d) = B /\ p + Len(d) <= Len(b) /\ H <= p
      BY <1>2, <1>5, <2>2, <2>3
    <3>2. SubSeq(b, H + 1, p) \o d = SubSeq(b, H + 1, p + Len(d))
      <4>1. Continues(b, p, d)
        BY <2>4, <3>1 DEF Continues
      <4>2. b \in Seq(Nat) /\ H \in Nat /\ p \in Nat /\ H <= p /\ d \in Seq(Nat)
        BY <1>2, <2>3
      <4>3. Joins(b, H, p, d)
        BY ONLY <4>1, <4>2, SliceJoined
      <4> QED
        BY ONLY <4>3 DEF Joins
    <3> QED
      BY <3>1, <3>2 DEF u
  <2>6. UnMasked(m.content \o d, m.mask) = f.payload
    <3>1. UnMasked(UnMasked(f.payload, Mask(f)), Mask(f)) = f.payload
      BY <1>3, UnMaskedTwice
    <3>2. m.content \o d = UnMasked(f.payload, Mask(f))
      BY <1>1, <1>3, <2>5
    <3> QED
      BY <1>1, <3>1, <3>2
  <2>7. r.msg = [m EXCEPT !.content = f.payload, !.state = "eNewMsg"]
    BY <2>1, <2>6 DEF d
  <2>8. f.payload \in Seq(Nat)
    BY <1>3
  <2>9. /\ r.msg \in MsgRecords /\ r.msg.state = "eNewMsg" /\ r.msg.content = f.payload
        /\ r.msg.buf = m.buf /\ r.msg.opcode = m.opcode
    BY <2>7, <2>8 DEF MsgRecords, States
  <2>10. Parsed(f, B, r.msg)
    BY <1>1, <1>5, <2>9 DEF Parsed, b
  <2>11. p + need <= Len(f.bytes) /\ Parsed(f, p + need, r.msg)
    <3>1. p + need = B /\ B = Len(f.bytes) /\ B <= B
      BY <1>2, <1>5, <2>2
    <3> QED
      BY <2>10, <3>1
  <2> QED
    BY <2>1, <2>2, <2>9, <2>11 DEF Stepped
<1>9. CASE ~(need <= Len(c))
  <2>1. r.begin = Null /\ r.msg = [m EXCEPT !.content = @ \o c]
    BY <1>9 DEF OnReadingPayload
  <2> DEFINE q == p + L
             v == SubSeq(b, H + 1, q)
  <2> HIDE DEF need, r, B, L, H, P, b, u
  <2>2. q \in Nat /\ q <= B /\ H <= q /\ q - H < P /\ L \in 0 .. L
    BY <1>2, <1>5, <1>6, <1>9
  <2>3. v \in Seq(Nat) /\ Len(v) = q - H
    <3> HIDE DEF q
    <3> QED
      BY <1>2, <1>5, <2>2, Slice
  <2>4. u \o c = v
    <3>1. p + Len(c) <= Len(b) /\ H <= p /\ \A j \in 1 .. Len(c) : c[j] = b[p + j]
      BY <1>2, <1>5, <1>7, <2>2
    <3>2. SubSeq(b, H + 1, p) \o c = SubSeq(b, H + 1, p + Len(c))
      <4>1. Continues(b, p, c)
        BY <3>1 DEF Continues
      <4>2. b \in Seq(Nat) /\ H \in Nat /\ p \in Nat /\ H <= p /\ c \in Seq(Nat)
        BY <1>2
      <4>3. Joins(b, H, p, c)
        BY ONLY <4>1, <4>2, SliceJoined
      <4> QED
        BY ONLY <4>3 DEF Joins
    <3> QED
      BY <1>5, <3>2 DEF u
  <2>5. r.msg = [m EXCEPT !.content = v]
    BY <1>1, <2>1, <2>4
  <2>6. v = SubSeq(b, H + 1, q) /\ q = p + Len(c)
    BY <1>5
  <2> HIDE DEF v, q
  <2>7. /\ r.msg \in MsgRecords /\ r.msg.state = "eReadingPayload" /\ r.msg.content = v
        /\ r.msg.buf = m.buf /\ r.msg.opcode = m.opcode /\ r.msg.len = m.len /\ r.msg.mask = m.mask
    BY <2>3, <2>5 DEF MsgRecords
  <2>8. q >= H
    BY <1>2, <2>2
  <2>9. Parsed(f, q, r.msg)
    BY <1>1, <2>6, <2>7, <2>8 DEF Parsed, b, H, P
  <2>10. Len(r.msg.content) < r.msg.len
    BY <1>1, <2>2, <2>3, <2>7
  <2>11. p + Len(c) <= Len(f.bytes) /\ Parsed(f, p + Len(c), r.msg) /\ Len(c) \in 0 .. Len(c)
    BY <1>5, <2>2, <2>6, <2>9
  <2> QED
    BY <2>1, <2>7, <2>10, <2>11 DEF Stepped
<1> QED
  BY <1>8, <1>9

(* One call of a handler. *)
LEMMA ParseStepFacts ==
  ASSUME NEW f \in Frames, NEW m \in MsgRecords, NEW p \in Nat, Parsed(f, p, m),
         p <= Len(f.bytes), NEW c \in Seq(Nat), Carries(f.bytes, p, c)
  PROVE  Stepped(f, p, c, ParseStep(m, c))
<1>1. m.state \in States /\ m.state # "eError"
  BY DEF MsgRecords, Parsed
<1>2. CASE m.state = "eReadingHead"
  <2>1. ParseStep(m, c) = OnReadingHead(m, c)
    BY <1>2 DEF ParseStep
  <2> QED
    BY <1>2, <2>1, ReadHead
<1>3. CASE m.state = "eReadingLen16"
  <2>1. ParseStep(m, c) = OnReadingLen(m, 2, c)
    BY <1>3 DEF ParseStep
  <2>2. FieldLength(f) = 2
    BY <1>3, FrameFacts DEF Parsed
  <2> QED
    BY <1>3, <2>1, <2>2, ReadLen
<1>4. CASE m.state = "eReadingLen64"
  <2>1. ParseStep(m, c) = OnReadingLen(m, Len64Bytes, c)
    BY <1>4 DEF ParseStep
  <2>2. FieldLength(f) = Len64Bytes /\ Len64Bytes \in Nat
    BY <1>4, FrameFacts, WebSocketAssumption DEF Parsed
  <2> QED
    BY <1>4, <2>1, <2>2, ReadLen
<1>5. CASE m.state = "eReadingMask"
  <2>1. ParseStep(m, c) = OnReadingMask(m, c)
    BY <1>5 DEF ParseStep
  <2> QED
    BY <1>5, <2>1, ReadMask
<1>6. CASE m.state = "eReadingPayload"
  <2>1. ParseStep(m, c) = OnReadingPayload(m, c)
    BY <1>6 DEF ParseStep
  <2> QED
    BY <1>6, <2>1, ReadPayload
<1>7. CASE m.state = "eNewMsg"
  <2> DEFINE r == ParseStep(m, c)
  <2>1. r.msg = m /\ r.begin = c
    BY <1>7 DEF ParseStep
  <2>2. Len(c) \in Nat /\ 0 \in 0 .. Len(c) /\ SubSeq(c, 0 + 1, Len(c)) = c
        /\ p + 0 <= Len(f.bytes) /\ p + 0 = p
    OBVIOUS
  <2>3. Parsed(f, p + 0, r.msg) /\ r.begin = SubSeq(c, 0 + 1, Len(c))
    BY <2>1, <2>2
  <2> HIDE DEF r
  <2>4. r.msg \in MsgRecords /\ r.msg.state # "eReadingPayload"
    BY SMTT(30), <1>7, <2>1
  <2>5. \E n \in 0 .. Len(c) :
          /\ r.begin = SubSeq(c, n + 1, Len(c)) \/ (r.begin = Null /\ n = Len(c))
          /\ p + n <= Len(f.bytes) /\ Parsed(f, p + n, r.msg)
    BY ONLY <2>2, <2>3
  <2>6. Stepped(f, p, c, r)
    BY ONLY <2>4, <2>5 DEF Stepped
  <2> QED
    BY <2>6 DEF r
<1> QED
  BY <1>1, <1>2, <1>3, <1>4, <1>5, <1>6, <1>7 DEF States

-----------------------------------------------------------------------------
(* What the server has read.  rest and inbox hold what is ahead of the     *)
(* parser, msg what has been read of the frame behind those the callback   *)
(* has been given.                                                         *)

Chunk == IF rest = Null THEN << >> ELSE rest
Ahead == Chunk \o inbox

ReadTypes ==
  /\ sent \in Seq(Frames) /\ Len(sent) <= MaxFrames
  /\ inbox \in Seq(Nat) /\ rest \in Seq(Nat) \cup {Null}
  /\ msg \in MsgRecords /\ got \in Seq(Seq(Nat))
  /\ loop \in {"idle", "parse", "check", "drain"}

Delivered ==
  /\ Len(got) <= Len(sent)
  /\ \A i \in 1 .. Len(got) : ~Last(sent[i]) /\ got[i] = sent[i].payload

(* A frame with an unknown opcode is never left again. *)
Refused == msg.state = "eError" /\ msg.buf = << >> /\ Bad(sent[Len(got) + 1])

Underway ==
  LET f == sent[Len(got) + 1]
  IN  \E p \in 0 .. Len(f.bytes) : Follows(Ahead, sent, Len(got), p) /\ Parsed(f, p, msg)

InTheMiddle ==
  /\ Len(got) = Len(sent) => msg = NewMsg /\ Ahead = << >>
  /\ Len(got) < Len(sent) => Refused \/ Underway

(* Where the loop stands in OnWsMessage. *)
Reading ==
  /\ loop = "parse" => rest # Null
  /\ loop \in {"idle", "drain"} => rest = Null
  /\ msg.state = "eNewMsg" /\ loop # "check" => msg.opcode = eWS_OPCODE_CLOSE
  /\ msg.state = "eReadingPayload" /\ loop # "parse" => Len(msg.content) < msg.len

RInv == ReadTypes /\ Delivered /\ InTheMiddle /\ Reading

LEMMA Regrouped ==
  ASSUME NEW a \in Seq(Nat), NEW b \in Seq(Nat), NEW c \in Seq(Nat)
  PROVE  (a \o b) \o c = a \o (b \o c)
BY ConcatAssociative

LEMMA NewMsgParsed ==
  ASSUME NEW f \in Frames
  PROVE  NewMsg \in MsgRecords /\ Parsed(f, 0, NewMsg) /\ 0 \in 0 .. Len(f.bytes)
<1>1. SubSeq(f.bytes, 1, 0) = << >> /\ f.bytes \in Seq(Nat) /\ << >> \in Seq(Nat)
  BY FrameFacts
<1>2. NewMsg \in MsgRecords
  BY <1>1 DEF NewMsg, MsgRecords, States
<1>3. NewMsg = [NewMsg EXCEPT !.buf = SubSeq(f.bytes, 1, 0)] /\ NewMsg.state = "eReadingHead"
  BY <1>1 DEF NewMsg
<1>4. Parsed(f, 0, NewMsg)
  <2> DEFINE m == NewMsg
  <2>1. m.state = "eReadingHead" /\ m = [NewMsg EXCEPT !.buf = SubSeq(f.bytes, 1, 0)]
    BY <1>3
  <2> HIDE DEF m
  <2>2. Parsed(f, 0, m)
    BY <2>1 DEF Parsed
  <2> QED
    BY <2>2 DEF m
<1> QED
  BY <1>1, <1>2, <1>4

LEMMA AheadIsBytes ==
  ASSUME ReadTypes
  PROVE  Chunk \in Seq(Nat) /\ Ahead \in Seq(Nat) /\ inbox \in Seq(Nat)
<1>1. Chunk \in Seq(Nat) /\ inbox \in Seq(Nat)
  BY DEF ReadTypes, Chunk
<1> HIDE DEF Chunk
<1>2. Ahead \in Seq(Nat)
  BY <1>1 DEF Ahead
<1> QED
  BY <1>1, <1>2

LEMMA RInitInv == Init => RInv
<1> SUFFICES ASSUME Init PROVE RInv
  OBVIOUS
<1>1. /\ sent = << >> /\ inbox = << >> /\ rest = Null /\ loop = "idle" /\ msg = NewMsg /\ got = << >>
  BY DEF Init
<1>2. << >> \o << >> = << >> /\ Len(<< >>) = 0 /\ 0 <= MaxFrames /\ << >> \in Seq(Nat)
      /\ << >> \in Seq(Frames) /\ << >> \in Seq(Seq(Nat))
  BY WebSocketAssumption
<1>3. NewMsg \in MsgRecords /\ NewMsg.state = "eReadingHead"
  BY <1>2 DEF NewMsg, MsgRecords, States
<1>4. ReadTypes /\ Reading
  BY <1>1, <1>2, <1>3 DEF ReadTypes, Reading
<1>5. Delivered
  BY <1>1, <1>2 DEF Delivered
<1>6. Chunk = << >>
  BY <1>1 DEF Chunk
<1>7. Ahead = << >>
  BY <1>1, <1>2, <1>6 DEF Ahead
<1>8. InTheMiddle
  BY <1>1, <1>2, <1>7 DEF InTheMiddle
<1> QED
  BY <1>4, <1>5, <1>8 DEF RInv

(* The steps that read nothing. *)
LEMMA UnreadInv ==
  ASSUME RInv, UNCHANGED reading,
         loop' = loop \/ (loop \in {"idle", "drain"} /\ loop' \in {"idle", "drain"})
  PROVE  RInv'
<1>1. UNCHANGED <<sent, inbox, rest, msg, got>>
  BY DEF reading
<1>2. ReadTypes'
  BY <1>1 DEF RInv, ReadTypes
<1>3. Delivered'
  BY <1>1 DEF RInv, Delivered
<1>4. Chunk' = Chunk
  BY <1>1 DEF Chunk
<1>5. Ahead' = Ahead
  BY <1>1, <1>4 DEF Ahead
<1>6. InTheMiddle'
  <2>1. Refused' = Refused
    BY <1>1 DEF Refused
  <2>2. Underway' = Underway
    BY <1>1, <1>5 DEF Underway
  <2> QED
    BY <1>1, <1>5, <2>1, <2>2 DEF RInv, InTheMiddle
<1>7. Reading'
  BY <1>1 DEF RInv, Reading
<1> QED
  BY <1>2, <1>3, <1>6, <1>7 DEF RInv

LEMMA SendReads ==
  ASSUME RInv, NEW f \in Frames, Send(f)
  PROVE  RInv'
<1> DEFINE k == Len(got)
           n == Len(sent)
           b == f.bytes
<1>1. /\ sent' = Append(sent, f) /\ inbox' = inbox \o b /\ UNCHANGED <<rest, msg, got, loop>>
      /\ n < MaxFrames
  BY DEF Send
<1>2. /\ sent \in Seq(Frames) /\ n \in Nat /\ MaxFrames \in Nat /\ inbox \in Seq(Nat)
      /\ got \in Seq(Seq(Nat)) /\ k \in Nat /\ k <= n
  BY WebSocketAssumption DEF RInv, ReadTypes, Delivered
<1>3. b \in Seq(Nat)
  BY FrameFacts
<1>4. /\ sent' \in Seq(Frames) /\ Len(sent') = n + 1 /\ sent'[n + 1] = f
      /\ \A i \in 1 .. n : sent'[i] = sent[i]
  BY <1>1, <1>2
<1> HIDE DEF b
<1>5. ReadTypes'
  <2>1. inbox' \in Seq(Nat)
    BY <1>1, <1>2, <1>3
  <2>2. Len(sent') <= MaxFrames
    BY <1>1, <1>2, <1>4
  <2> QED
    BY <1>1, <1>4, <2>1, <2>2 DEF RInv, ReadTypes
<1>6. Chunk' = Chunk
  BY <1>1 DEF Chunk
<1>7. Chunk \in Seq(Nat) /\ Ahead \in Seq(Nat)
  BY AheadIsBytes DEF RInv
<1>8. Ahead' = Ahead \o b
  <2>1. Ahead' = Chunk \o (inbox \o b) /\ Ahead = Chunk \o inbox
    BY <1>1, <1>6 DEF Ahead
  <2> HIDE DEF Chunk
  <2>2. (Chunk \o inbox) \o b = Chunk \o (inbox \o b)
    <3>1. Chunk \in Seq(Nat) /\ inbox \in Seq(Nat) /\ b \in Seq(Nat)
      BY <1>2, <1>3, <1>7
    <3> QED
      BY <3>1, Regrouped
  <2> QED
    BY <2>1, <2>2
<1>9. Delivered'
  <2>1. Len(got') <= Len(sent')
    BY <1>1, <1>2, <1>4
  <2>2. \A i \in 1 .. k : i \in 1 .. n
    BY <1>2
  <2> QED
    BY <1>1, <1>4, <2>1, <2>2 DEF RInv, Delivered
<1>10. InTheMiddle'
  <2>1. k \in 0 .. n /\ ~(Len(got') = Len(sent'))
    BY <1>1, <1>2, <1>4
  <2>2. CASE k = n
    <3>1. msg = NewMsg /\ Ahead = << >>
      BY <2>2 DEF RInv, InTheMiddle
    <3>2. Follows(Ahead, sent, n, 0)
      BY <1>2, <3>1, FollowsFirst
    <3>3. n \in 0 .. n /\ 0 \in Nat
      BY <1>2
    <3>4. Follows(Ahead \o b, Append(sent, f), n, 0)
      BY <1>2, <1>7, <3>2, <3>3, FollowsSent DEF b
    <3>5. Follows(Ahead', sent', Len(got'), 0)
      BY <1>1, <1>8, <2>2, <3>4
    <3>6. sent'[Len(got') + 1] = f /\ msg' = NewMsg
      BY <1>1, <1>4, <2>2, <3>1
    <3>7. Parsed(f, 0, NewMsg) /\ 0 \in 0 .. Len(f.bytes)
      BY NewMsgParsed
    <3>8. Underway'
      BY <3>5, <3>6, <3>7 DEF Underway
    <3> QED
      BY <2>1, <3>8 DEF InTheMiddle
  <2>3. CASE k # n
    <3>1. k < n /\ k + 1 \in 1 .. n
      BY <1>2, <2>3
    <3>2. sent'[Len(got') + 1] = sent[k + 1]
      BY <1>1, <1>4, <3>1
    <3>3. Refused \/ Underway
      BY <3>1 DEF RInv, InTheMiddle
    <3>4. ASSUME Refused PROVE Refused'
      BY <1>1, <3>2, <3>4 DEF Refused
    <3>5. ASSUME Underway PROVE Underway'
      <4>1. PICK p \in 0 .. Len(sent[k + 1].bytes) :
              Follows(Ahead, sent, k, p) /\ Parsed(sent[k + 1], p, msg)
        BY <3>5 DEF Underway
      <4>2. Follows(Ahead \o b, Append(sent, f), k, p)
        <5>1. p \in Nat /\ k \in 0 .. Len(sent)
          BY <2>1
        <5> HIDE DEF k, n
        <5> QED
          BY <1>2, <1>7, <4>1, <5>1, FollowsSent DEF b
      <4>3. Follows(Ahead', sent', Len(got'), p)
        BY <1>1, <1>8, <4>2
      <4> QED
        BY <1>1, <3>2, <4>1, <4>3 DEF Underway
    <3> QED
      BY <2>1, <3>3, <3>4, <3>5 DEF InTheMiddle
  <2> QED
    BY <2>2, <2>3
<1>11. Reading'
  BY <1>1 DEF RInv, Reading
<1> QED
  BY <1>5, <1>9, <1>10, <1>11 DEF RInv

LEMMA ReadReads ==
  ASSUME RInv, NEW n \in 1 .. Len(inbox), Read(n)
  PROVE  RInv'
<1>1. /\ rest' = SubSeq(inbox, 1, n) /\ inbox' = SubSeq(inbox, n + 1, Len(inbox))
      /\ loop' = "parse" /\ loop = "idle" /\ UNCHANGED <<sent, msg, got>>
  BY DEF Read
<1>2. inbox \in Seq(Nat) /\ n \in 0 .. Len(inbox) /\ rest = Null
  BY <1>1 DEF RInv, ReadTypes, Reading
<1>3. rest' \in Seq(Nat) /\ inbox' \in Seq(Nat) /\ rest' \o inbox' = inbox
  BY <1>1, <1>2, Parts
<1>4. rest' # Null
  BY <1>3, NullIsNoChunk
<1>5. Chunk' = rest' /\ Chunk = << >>
  BY <1>2, <1>4 DEF Chunk
<1>6. Ahead' = Ahead
  <2>1. Ahead = inbox
    BY <1>2, <1>5, ConcatEmptySeq DEF Ahead
  <2> QED
    BY <1>3, <1>5, <2>1 DEF Ahead
<1>7. ReadTypes'
  BY <1>1, <1>3 DEF RInv, ReadTypes
<1>8. Delivered'
  BY <1>1 DEF RInv, Delivered
<1>9. InTheMiddle'
  <2>1. Refused' = Refused
    BY <1>1 DEF Refused
  <2>2. Underway' = Underway
    BY <1>1, <1>6 DEF Underway
  <2> QED
    BY <1>1, <1>6, <2>1, <2>2 DEF RInv, InTheMiddle
<1>10. Reading'
  BY <1>1, <1>4 DEF RInv, Reading
<1> QED
  BY <1>7, <1>8, <1>9, <1>10 DEF RInv

(* n bytes of the chunk are taken. *)
LEMMA TakenOffChunk ==
  ASSUME NEW c \in Seq(Nat), NEW b \in Seq(Nat), NEW n \in 0 .. Len(c)
  PROVE  /\ SubSeq(c, n + 1, Len(c)) \o b = SubSeq(c \o b, n + 1, Len(c \o b))
         /\ n \in 0 .. Len(c \o b) /\ c \o b \in Seq(Nat)
<1> DEFINE a == c \o b
           u == SubSeq(c, n + 1, Len(c))
           v == SubSeq(a, n + 1, Len(a))
           x == u \o b
           C == Len(c)
           B == Len(b)
<1>1. n \in Nat /\ C \in Nat /\ B \in Nat /\ n <= C
  OBVIOUS
<1>2. /\ u \in Seq(Nat) /\ Len(u) = C - n /\ \A i \in 1 .. C - n : u[i] = c[n + i]
  BY Parts
<1>3. /\ a \in Seq(Nat) /\ Len(a) = C + B
      /\ \A i \in 1 .. C + B : a[i] = IF i <= C THEN c[i] ELSE b[i - C]
  BY ConcatProperties
<1> HIDE DEF u, a
<1>4. n \in 0 .. Len(a)
  <2> HIDE DEF C, B
  <2> QED
    BY <1>1, <1>3
<1>5. v \in Seq(Nat) /\ Len(v) = Len(a) - n /\ \A i \in 1 .. Len(a) - n : v[i] = a[n + i]
  BY ZenonT(30), <1>3, <1>4, Parts
<1>6. /\ x \in Seq(Nat) /\ Len(x) = Len(u) + B
      /\ \A i \in 1 .. Len(u) + B : x[i] = IF i <= Len(u) THEN u[i] ELSE b[i - Len(u)]
  BY <1>2, ConcatProperties
<1> HIDE DEF C, B, v, x
<1>7. Len(x) = Len(v)
  BY <1>1, <1>2, <1>3, <1>5, <1>6
<1>8. ASSUME NEW i \in 1 .. Len(v) PROVE x[i] = v[i]
  <2>1. i \in 1 .. (C - n) + B /\ i \in 1 .. Len(u) + B /\ i \in 1 .. Len(a) - n
        /\ n + i \in 1 .. C + B /\ Len(u) = C - n
    BY <1>1, <1>2, <1>3, <1>5
  <2>2. v[i] = a[n + i]
    BY <1>5, <2>1
  <2>3. CASE i <= C - n
    <3>1. i \in 1 .. C - n /\ n + i <= C
      BY <1>1, <2>1, <2>3
    <3> QED
      BY <1>2, <1>3, <1>6, <2>1, <2>2, <2>3, <3>1
  <2>4. CASE ~(i <= C - n)
    <3>1. ~(n + i <= C) /\ (n + i) - C = i - (C - n)
      BY <1>1, <2>1, <2>4
    <3>2. x[i] = b[i - (C - n)]
      BY <1>6, <2>1, <2>4
    <3>3. a[n + i] = b[(n + i) - C]
      BY <1>3, <2>1, <3>1
    <3> QED
      BY <2>2, <3>1, <3>2, <3>3
  <2> QED
    BY <2>3, <2>4
<1>9. x = v
  BY <1>5, <1>6, <1>7, <1>8, SeqEqual
<1> QED
  BY <1>3, <1>4, <1>9 DEF x, v, u, a, C

LEMMA NothingParsed == ParseStep(NewMsg, << >>) = [msg |-> NewMsg, begin |-> Null]
<1> DEFINE g == GetData(NewMsg, 2, << >>)
<1>1. NewMsg.buf = << >> /\ NewMsg.state = "eReadingHead"
  BY DEF NewMsg
<1>2. 2 - Len(NewMsg.buf) > Len(<< >>) /\ ~(2 - Len(NewMsg.buf) <= 0)
  BY <1>1
<1>3. g = [data |-> Null, begin |-> Null, msg |-> [NewMsg EXCEPT !.buf = @ \o << >>]]
  BY <1>2 DEF GetData
<1>4. [NewMsg EXCEPT !.buf = @ \o << >>] = NewMsg
  <2>1. << >> \o << >> = << >>
    OBVIOUS
  <2> QED
    BY <2>1 DEF NewMsg
<1>5. g.data = Null /\ g.msg = NewMsg
  BY <1>3, <1>4
<1>6. ParseStep(NewMsg, << >>) = OnReadingHead(NewMsg, << >>)
  BY <1>1 DEF ParseStep
<1> HIDE DEF g
<1>7. OnReadingHead(NewMsg, << >>) = [msg |-> g.msg, begin |-> Null]
  BY <1>5 DEF OnReadingHead, g
<1> QED
  BY <1>5, <1>6, <1>7

LEMMA ParseReads ==
  ASSUME RInv, Parse
  PROVE  RInv'
<1> DEFINE r == ParseStep(msg, rest)
           k == Len(got)
           f == sent[k + 1]
<1>1. /\ loop = "parse" /\ msg' = r.msg /\ rest' = r.begin
      /\ loop' = IF Stops(r) THEN "check" ELSE "parse"
      /\ UNCHANGED <<sent, inbox, got>>
  BY DEF Parse
<1>2. /\ rest # Null /\ rest \in Seq(Nat) /\ inbox \in Seq(Nat) /\ msg \in MsgRecords
      /\ sent \in Seq(Frames) /\ got \in Seq(Seq(Nat)) /\ k \in Nat /\ Len(sent) \in Nat
      /\ k <= Len(sent)
  BY <1>1 DEF RInv, ReadTypes, Reading, Delivered
<1>3. Chunk = rest /\ Ahead = rest \o inbox
  BY <1>2 DEF Chunk, Ahead
<1> SUFFICES /\ r.msg \in MsgRecords /\ r.begin \in Seq(Nat) \cup {Null}
             /\ InTheMiddle'
             /\ r.msg.state = "eReadingPayload" /\ r.begin = Null => Len(r.msg.content) < r.msg.len
  <2> HIDE DEF r, k, f
  <2>1. ReadTypes'
    BY <1>1 DEF RInv, ReadTypes
  <2>2. Delivered'
    BY <1>1 DEF RInv, Delivered
  <2>3. Reading'
    BY <1>1 DEF Reading, Stops
  <2> QED
    BY <2>1, <2>2, <2>3 DEF RInv
<1> HIDE DEF r
<1>4. CASE k = Len(sent)
  <2>1. msg = NewMsg /\ rest \o inbox = << >>
    BY <1>3, <1>4 DEF RInv, InTheMiddle
  <2>2. rest = << >> /\ inbox = << >>
    <3>1. Len(rest) + Len(inbox) = 0 /\ Len(rest) \in Nat /\ Len(inbox) \in Nat
      BY <1>2, <2>1, ConcatProperties
    <3>2. Len(rest) = 0 /\ Len(inbox) = 0
      BY <3>1
    <3> QED
      BY <1>2, <3>2, EmptySeq
  <2>3. r.msg = NewMsg /\ r.begin = Null
    BY <2>1, <2>2, NothingParsed DEF r
  <2>4. Chunk' = << >>
    BY <1>1, <2>3 DEF Chunk
  <2>5. << >> \o << >> = << >>
    OBVIOUS
  <2>6. Ahead' = << >>
    BY <1>1, <2>2, <2>4, <2>5 DEF Ahead
  <2>7. InTheMiddle'
    BY <1>1, <1>4, <2>3, <2>6 DEF InTheMiddle
  <2> QED
    BY <1>2, <2>1, <2>3, <2>7 DEF NewMsg
<1>5. CASE k # Len(sent)
  <2>1. k < Len(sent) /\ k + 1 \in 1 .. Len(sent) /\ k \in 0 .. Len(sent) - 1 /\ k \in 0 .. Len(sent)
    BY <1>2, <1>5
  <2>2. f \in Frames
    BY <1>2, <2>1
  <2>3. Refused \/ Underway
    BY <2>1 DEF RInv, InTheMiddle
  <2>4. SUFFICES /\ r.msg \in MsgRecords /\ r.begin \in Seq(Nat) \cup {Null}
                 /\ Refused' \/ Underway'
                 /\ r.msg.state = "eReadingPayload" /\ r.begin = Null => Len(r.msg.content) < r.msg.len
    BY <1>1, <1>2, <1>5, <2>1 DEF InTheMiddle
  <2>5. CASE Refused
    <3>1. msg.state = "eError"
      BY <2>5 DEF Refused
    <3>2. r.msg = msg /\ r.begin = rest
      BY <3>1 DEF ParseStep, r
    <3>3. Refused'
      BY <1>1, <2>5, <3>2 DEF Refused
    <3> QED
      BY <1>2, <3>1, <3>2, <3>3
  <2>6. CASE Underway
    <3>1. PICK p \in 0 .. Len(f.bytes) : Follows(Ahead, sent, k, p) /\ Parsed(f, p, msg)
      BY <2>6 DEF Underway
    <3>2. p \in Nat /\ p <= Len(f.bytes) /\ Len(f.bytes) \in Nat
      BY <2>2, FrameFacts
    <3>3. Ahead \in Seq(Nat)
      BY AheadIsBytes DEF RInv
    <3>4. Carries(f.bytes, p, rest)
      <4>1. /\ Len(f.bytes) - p <= Len(Ahead)
            /\ \A j \in 1 .. Len(f.bytes) - p : Ahead[j] = f.bytes[p + j]
        BY <1>2, <2>1, <3>1, <3>2, <3>3, FollowsFrame
      <4>2. \A j \in 1 .. Len(rest) : Ahead[j] = rest[j]
        BY <1>2, <1>3, ConcatProperties
      <4> HIDE DEF f
      <4>3. ASSUME NEW j \in 1 .. Len(rest), p + j <= Len(f.bytes) PROVE j \in 1 .. Len(f.bytes) - p
        BY <3>2, <4>3
      <4> QED
        BY <4>1, <4>2, <4>3 DEF Carries
    <3>5. Stepped(f, p, rest, r)
      BY <1>2, <2>2, <3>1, <3>2, <3>4, ParseStepFacts DEF r
    <3>6. CASE Bad(f) /\ r.begin = Null /\ r.msg.state = "eError" /\ r.msg.buf = << >>
      <4>1. Refused'
        BY <1>1, <3>6 DEF Refused
      <4> QED
        BY <3>5, <3>6, <4>1 DEF Stepped
    <3>7. ASSUME NEW n \in 0 .. Len(rest),
                 r.begin = SubSeq(rest, n + 1, Len(rest)) \/ (r.begin = Null /\ n = Len(rest)),
                 p + n <= Len(f.bytes), Parsed(f, p + n, r.msg)
          PROVE  r.begin \in Seq(Nat) \cup {Null} /\ Underway'
      <4>1. SubSeq(rest, n + 1, Len(rest)) \in Seq(Nat)
        BY <1>2, Parts
      <4>2. Chunk' = SubSeq(rest, n + 1, Len(rest))
        <5>1. CASE r.begin = Null /\ n = Len(rest)
          <6>1. Chunk' = << >>
            BY <1>1, <5>1 DEF Chunk
          <6>2. SubSeq(rest, n + 1, n) = << >>
            BY <1>2, NothingYet
          <6> QED
            BY <5>1, <6>1, <6>2
        <5>2. CASE r.begin = SubSeq(rest, n + 1, Len(rest))
          BY <1>1, <4>1, <5>2, NullIsNoChunk DEF Chunk
        <5> QED
          BY <3>7, <5>1, <5>2
      <4>3. Ahead' = SubSeq(Ahead, n + 1, Len(Ahead)) /\ n \in 0 .. Len(Ahead)
        <5>1. Ahead' = SubSeq(rest, n + 1, Len(rest)) \o inbox
          BY <1>1, <4>2 DEF Ahead
        <5> QED
          BY <1>2, <1>3, <5>1, TakenOffChunk
      <4>4. Follows(Ahead', sent, k, p + n)
        BY <1>2, <2>1, <3>1, <3>2, <3>3, <4>3, FollowsTaken
      <4>5. p + n \in 0 .. Len(f.bytes)
        <5> HIDE DEF f
        <5> QED
          BY <1>2, <3>2, <3>7
      <4>6. sent'[Len(got') + 1] = f /\ Len(got') = k /\ sent' = sent /\ msg' = r.msg
        BY <1>1
      <4> HIDE DEF f, k
      <4>7. Underway'
        BY <3>7, <4>4, <4>5, <4>6 DEF Underway
      <4> QED
        BY <3>7, <4>1, <4>7
    <3> HIDE DEF f
    <3> QED
      BY <3>5, <3>6, <3>7 DEF Stepped
  <2> QED
    BY <2>3, <2>5, <2>6
<1> QED
  BY <1>4, <1>5

(* A message is whole: so is its frame, and the next one begins. *)
LEMMA CallbackReads ==
  ASSUME RInv, loop = "check", msg.state = "eNewMsg", msg.opcode # eWS_OPCODE_CLOSE,
         got' = Append(got, msg.content), msg' = NewMsg, UNCHANGED sent, Ahead' = Ahead
  PROVE  /\ got' \in Seq(Seq(Nat)) /\ msg' \in MsgRecords
         /\ Delivered' /\ InTheMiddle'
<1> DEFINE k == Len(got)
           n == Len(sent)
           f == sent[k + 1]
<1>1. /\ sent \in Seq(Frames) /\ n \in Nat /\ got \in Seq(Seq(Nat)) /\ k \in Nat /\ k <= n
      /\ msg \in MsgRecords
  BY DEF RInv, ReadTypes, Delivered
<1>2. Underway /\ k < n
  <2>1. msg # NewMsg
    BY DEF NewMsg
  <2>2. k < n
    BY <1>1, <2>1 DEF RInv, InTheMiddle
  <2>3. ~Refused
    BY DEF Refused
  <2> QED
    BY <2>2, <2>3 DEF RInv, InTheMiddle
<1>3. k + 1 \in 1 .. n /\ k \in 0 .. n - 1 /\ k + 1 \in 0 .. n
  BY <1>1, <1>2
<1>4. f \in Frames
  BY <1>1, <1>3
<1>5. PICK p \in 0 .. Len(f.bytes) : Follows(Ahead, sent, k, p) /\ Parsed(f, p, msg)
  BY <1>2 DEF Underway
<1>6. /\ p = Len(f.bytes) /\ msg.content = f.payload /\ ~Bad(f) /\ msg.opcode = f.bytes[1]
  BY <1>5 DEF Parsed
<1>7. ~Last(f)
  BY <1>6 DEF Last
<1>8. Follows(Ahead, sent, k + 1, 0)
  <2>1. Ahead \in Seq(Nat)
    BY AheadIsBytes DEF RInv
  <2> QED
    BY <1>1, <1>3, <1>5, <1>6, <2>1, FollowsNext
<1>9. msg.content \in Seq(Nat)
  BY <1>1 DEF MsgRecords
<1>10. /\ got' \in Seq(Seq(Nat)) /\ Len(got') = k + 1 /\ got'[k + 1] = msg.content
       /\ \A i \in 1 .. k : got'[i] = got[i]
  BY <1>1, <1>9
<1>11. NewMsg \in MsgRecords
  BY <1>4, NewMsgParsed
<1>12. Delivered'
  <2>1. Len(got') <= Len(sent')
    BY <1>1, <1>2, <1>10
  <2>2. ASSUME NEW i \in 1 .. k + 1 PROVE ~Last(sent[i]) /\ got'[i] = sent[i].payload
    <3>1. CASE i = k + 1
      BY <1>6, <1>7, <1>10, <3>1
    <3>2. CASE i # k + 1
      <4>1. i \in 1 .. k
        BY <1>1, <3>2
      <4> QED
        BY <1>10, <4>1 DEF RInv, Delivered
    <3> QED
      BY <3>1, <3>2
  <2> QED
    BY <1>10, <2>1, <2>2 DEF Delivered
<1>13. InTheMiddle'
  <2> HIDE DEF f
  <2>1. CASE k + 1 = n
    <3>1. Ahead = << >>
      <4>1. Follows(Ahead, sent, Len(sent), 0) /\ Ahead \in Seq(Nat)
        BY <1>8, <2>1, AheadIsBytes DEF RInv
      <4> QED
        BY <1>1, <4>1, FollowsLast
    <3>2. Len(got') = Len(sent')
      BY <1>10, <2>1
    <3> QED
      BY <1>10, <3>1, <3>2 DEF InTheMiddle
  <2>2. CASE k + 1 # n
    <3>1. k + 1 < n /\ (k + 1) + 1 \in 1 .. n
      BY <1>1, <1>2, <2>2
    <3> DEFINE h == sent[(k + 1) + 1]
    <3>2. h \in Frames
      BY <1>1, <3>1
    <3>3. Parsed(h, 0, NewMsg) /\ 0 \in 0 .. Len(h.bytes)
      BY <3>2, NewMsgParsed
    <3>4. sent'[Len(got') + 1] = h /\ Follows(Ahead', sent', Len(got'), 0)
      BY <1>8, <1>10
    <3> HIDE DEF h
    <3>5. Underway'
      BY <3>3, <3>4 DEF Underway
    <3>6. Len(got') < Len(sent') /\ Len(got') # Len(sent')
      BY <1>1, <1>10, <3>1
    <3> QED
      BY <3>5, <3>6 DEF InTheMiddle
  <2> QED
    BY <2>1, <2>2
<1> QED
  BY <1>10, <1>11, <1>12, <1>13

LEMMA CheckReads ==
  ASSUME RInv, Check
  PROVE  RInv'
<1>1. /\ loop = "check" /\ UNCHANGED <<sent, inbox>>
      /\ loop' = IF rest \in {Null, << >>} THEN "idle" ELSE "parse"
      /\ rest' = IF rest = << >> THEN Null ELSE rest
  BY DEF Check
<1>2. inbox \in Seq(Nat) /\ rest \in Seq(Nat) \cup {Null} /\ sent \in Seq(Frames)
  BY DEF RInv, ReadTypes
<1>3. Chunk' = Chunk
  BY <1>1 DEF Chunk
<1>4. Ahead' = Ahead
  BY <1>1, <1>3 DEF Ahead
<1>5. /\ loop' \in {"idle", "parse"}
      /\ loop' = "parse" => rest' # Null
      /\ loop' = "idle" => rest' = Null
      /\ rest' \in Seq(Nat) \cup {Null}
  BY <1>1, <1>2
<1>6. CASE msg.state = "eNewMsg" /\ msg.opcode # eWS_OPCODE_CLOSE
  <2>1. got' = Append(got, msg.content) /\ msg' = NewMsg
    BY <1>6 DEF Check, Callback
  <2>2. /\ got' \in Seq(Seq(Nat)) /\ msg' \in MsgRecords
        /\ Delivered' /\ InTheMiddle'
    BY <1>1, <1>4, <1>6, <2>1, CallbackReads
  <2>3. msg'.state = "eReadingHead"
    BY <2>1 DEF NewMsg
  <2>4. ReadTypes'
    BY <1>1, <1>5, <2>2 DEF RInv, ReadTypes
  <2>5. Reading'
    BY <1>5, <2>3 DEF Reading
  <2> QED
    BY <2>2, <2>4, <2>5 DEF RInv
<1>7. CASE ~(msg.state = "eNewMsg" /\ msg.opcode # eWS_OPCODE_CLOSE)
  <2>1. UNCHANGED <<msg, got>>
    BY <1>7 DEF Check
  <2>2. ReadTypes' /\ Delivered'
    BY <1>1, <1>5, <2>1 DEF RInv, ReadTypes, Delivered
  <2>3. Refused' = Refused
    BY <1>1, <2>1 DEF Refused
  <2>4. Underway' = Underway
    BY <1>1, <1>4, <2>1 DEF Underway
  <2>5. InTheMiddle'
    BY <1>1, <1>4, <2>1, <2>3, <2>4 DEF RInv, InTheMiddle
  <2>6. Reading'
    <3>3. msg.state = "eReadingPayload" => Len(msg.content) < msg.len
      BY <1>1 DEF RInv, Reading
    <3> QED
      BY <1>5, <1>7, <2>1, <3>3 DEF Reading
  <2> QED
    BY <2>2, <2>5, <2>6 DEF RInv
<1> QED
  BY <1>6, <1>7

LEMMA RStepInv == RInv /\ [Next]_vars => RInv'
<1> SUFFICES ASSUME RInv, [Next]_vars PROVE RInv'
  OBVIOUS
<1>1. ASSUME NEW f \in Frames, Send(f) PROVE RInv'
  BY <1>1, SendReads
<1>2. ASSUME NEW n \in 1 .. Len(inbox), Read(n) PROVE RInv'
  BY <1>2, ReadReads
<1>3. CASE PeerCloses \/ OnCloseConnection \/ Upgrade
  BY <1>3, UnreadInv DEF PeerCloses, OnCloseConnection, Upgrade
<1>4. CASE Parse
  BY <1>4, ParseReads
<1>5. CASE Check
  BY <1>5, CheckReads
<1>6. ASSUME NEW w \in Workers, SendMsg(w) \/ WakeUp(w) PROVE RInv'
  BY <1>6, UnreadInv DEF SendMsg, WakeUp
<1>7. CASE OnReadEvent
  BY <1>7, UnreadInv DEF OnReadEvent
<1>8. CASE HandleWsReponse
  <2>1. UNCHANGED reading /\ loop = "drain" /\ loop' \in {"idle", "drain"}
    BY <1>8 DEF HandleWsReponse, PopSendMsg
  <2> QED
    BY <2>1, UnreadInv
<1>9. CASE UNCHANGED vars
  BY <1>9, UnreadInv DEF vars
<1> QED
  BY <1>1, <1>2, <1>3, <1>4, <1>5, <1>6, <1>7, <1>8, <1>9 DEF Next

LEMMA ReadInvariance == Spec => []RInv
BY RInitInv, RStepInv, PTL DEF Spec

LEMMA GoodFrames ==
  ASSUME NEW fs \in Seq(Frames)
  PROVE  \E g \in 0 .. Len(fs) :
           /\ Good(fs) \in Seq(Frames) /\ Len(Good(fs)) = g
           /\ \A i \in 1 .. g : Good(fs)[i] = fs[i] /\ ~Last(fs[i])
           /\ g < Len(fs) => Last(fs[g + 1])
<1> DEFINE stops == {i \in 1 .. Len(fs) : Last(fs[i])}
<1>1. CASE stops = {}
  <2>1. Good(fs) = fs
    BY <1>1 DEF Good
  <2>2. Len(fs) \in 0 .. Len(fs) /\ \A i \in 1 .. Len(fs) : ~Last(fs[i])
    BY <1>1
  <2> QED
    BY <2>1, <2>2
<1>2. CASE stops # {}
  <2>1. stops \in SUBSET Nat
    OBVIOUS
  <2>2. \E i \in stops : \A j \in stops : i <= j
    BY <1>2, <2>1, HasLeast
  <2> DEFINE n == CHOOSE i \in stops : \A j \in stops : i <= j
  <2>3. n \in stops /\ \A j \in stops : n <= j
    BY <2>2
  <2>4. Good(fs) = SubSeq(fs, 1, n - 1)
    BY <1>2 DEF Good
  <2>5. n \in 1 .. Len(fs) /\ Last(fs[n]) /\ \A j \in 1 .. Len(fs) : Last(fs[j]) => n <= j
    BY <2>3
  <2> HIDE DEF n, stops
  <2>6. n - 1 \in 0 .. Len(fs) /\ (n - 1) + 1 = n
    BY <2>5
  <2> DEFINE g == n - 1
  <2>7. g \in 0 .. Len(fs) /\ Last(fs[g + 1]) /\ Good(fs) = SubSeq(fs, 1, g)
    BY <2>4, <2>5, <2>6
  <2>9. \A i \in 1 .. g : ~Last(fs[i])
    BY <2>5
  <2> HIDE DEF g
  <2>8. /\ SubSeq(fs, 1, g) \in Seq(Frames) /\ Len(SubSeq(fs, 1, g)) = g
        /\ \A i \in 1 .. g : SubSeq(fs, 1, g)[i] = fs[i]
    BY <2>7, Parts
  <2> QED
    BY <2>7, <2>8, <2>9
<1> QED
  BY <1>1, <1>2

(* When all has been read, the frame in the middle is one the server stops *)
(* at.                                                                     *)
LEMMA AllIsRead ==
  ASSUME RInv, inbox = << >>, loop \in {"idle", "drain"}, Len(got) < Len(sent)
  PROVE  Last(sent[Len(got) + 1])
<1> DEFINE k == Len(got)
           f == sent[k + 1]
           B == Len(f.bytes)
           H == HeadLength(f)
           P == Len(f.payload)
<1>1. sent \in Seq(Frames) /\ k \in Nat /\ Len(sent) \in Nat /\ k + 1 \in 1 .. Len(sent)
      /\ k \in 0 .. Len(sent) - 1 /\ rest = Null
  BY DEF RInv, ReadTypes, Reading
<1>2. f \in Frames
  BY <1>1
<1>3. Ahead = << >>
  <2>1. Chunk = << >> /\ << >> \o << >> = << >>
    BY <1>1 DEF Chunk
  <2> QED
    BY <2>1 DEF Ahead
<1>4. CASE Refused
  BY <1>4 DEF Refused, Last
<1>5. CASE Underway /\ ~Bad(f)
  <2>1. PICK p \in 0 .. B : Follows(Ahead, sent, k, p) /\ Parsed(f, p, msg)
    BY <1>5 DEF Underway
  <2>2. /\ f.bytes \in Seq(Nat) /\ B \in Nat /\ B >= 2 /\ P \in Nat /\ FieldLength(f) \in Nat
        /\ H = 2 + FieldLength(f) + MaskBytes /\ B = H + P /\ MaskBytes \in Nat \ {0}
    BY ZenonT(30), <1>2, <1>5, FrameFacts, WebSocketAssumption
  <2>3. p = B
    <3>1. p \in Nat /\ << >> \in Seq(Nat) /\ Len(<< >>) = 0
      BY <2>2
    <3>2. Len(f.bytes) - p <= Len(<< >>)
      BY <1>1, <1>3, <2>1, <3>1, FollowsFrame
    <3> QED
      BY <2>2, <3>1, <3>2
  <2>4. ~(p < 2) /\ ~(p \in 2 .. 1 + FieldLength(f)) /\ ~(p \in 2 + FieldLength(f) .. H - 1)
    <3> DEFINE F == FieldLength(f)
    <3>1. F \in Nat /\ H = 2 + F + MaskBytes
      BY <2>2
    <3> HIDE DEF F, H, B, P
    <3>2. ~(p < 2) /\ ~(p \in 2 .. 1 + F) /\ ~(p \in 2 + F .. H - 1)
      BY SMTT(30), <2>2, <2>3, <3>1
    <3> QED
      BY <3>2 DEF F
  <2>5. msg.state \in States /\ msg.state \in {"eReadingPayload", "eNewMsg"}
    BY <2>1, <2>4 DEF RInv, ReadTypes, MsgRecords, States, Parsed
  <2>6. msg.state # "eReadingPayload"
    <3> SUFFICES ASSUME msg.state = "eReadingPayload" PROVE FALSE
      OBVIOUS
    <3>1. msg.content = SubSeq(f.bytes, H + 1, p) /\ msg.len = P /\ Len(msg.content) < msg.len
      BY <2>1 DEF Parsed, RInv, Reading
    <3>2. H \in Nat /\ H <= B /\ B - H = P
      <4> HIDE DEF B, H, P
      <4>1. H \in Nat
        BY SMTT(30), <2>2
      <4> QED
        BY SMTT(30), <2>2, <4>1
    <3> DEFINE b == f.bytes
    <3>3. b \in Seq(Nat) /\ B = Len(b) /\ B \in Nat /\ msg.content = SubSeq(b, H + 1, B)
      BY <2>2, <2>3, <3>1
    <3> HIDE DEF B, H, P, b
    <3>4. Len(SubSeq(b, H + 1, B)) = B - H
      <4>1. H <= B /\ B <= Len(b)
        BY <3>2, <3>3
      <4> QED
        BY <3>2, <3>3, <4>1, Slice
    <3>5. Len(msg.content) = P /\ Len(msg.content) < P
      BY <3>1, <3>2, <3>3, <3>4
    <3> QED
      BY <2>2, <3>5
  <2>7. msg.state = "eNewMsg" /\ msg.opcode = eWS_OPCODE_CLOSE /\ msg.opcode = f.bytes[1]
    BY <2>1, <2>5, <2>6 DEF Parsed, RInv, Reading
  <2> QED
    BY <2>7 DEF Last
<1>6. CASE Bad(f)
  BY <1>6 DEF Last
<1> QED
  BY <1>4, <1>5, <1>6 DEF RInv, InTheMiddle

(* However read(2) cuts what the client sends, the callback is given the   *)
(* payloads as they were before they were masked, each once and in order,  *)
(* and when all has been read none before the first close frame or         *)
(* malformed one is missing: for every length, in each of its three forms. *)
THEOREM MessagesAlwaysFit == Spec => []MessagesFit
<1>1. RInv => MessagesFit
  <2> SUFFICES ASSUME RInv PROVE MessagesFit
    OBVIOUS
  <2> DEFINE fs == Good(sent)
             k == Len(got)
             all == [i \in 1 .. Len(fs) |-> fs[i].payload]
  <2>1. /\ sent \in Seq(Frames) /\ got \in Seq(Seq(Nat)) /\ k \in Nat /\ k <= Len(sent)
        /\ Len(sent) \in Nat
        /\ \A i \in 1 .. k : ~Last(sent[i]) /\ got[i] = sent[i].payload
    BY DEF RInv, ReadTypes, Delivered
  <2>2. PICK g \in 0 .. Len(sent) :
          /\ fs \in Seq(Frames) /\ Len(fs) = g
          /\ \A i \in 1 .. g : fs[i] = sent[i] /\ ~Last(sent[i])
          /\ g < Len(sent) => Last(sent[g + 1])
    BY <2>1, GoodFrames
  <2> HIDE DEF fs
  <2>3. k <= g
    <3> SUFFICES ASSUME ~(k <= g) PROVE FALSE
      OBVIOUS
    <3> HIDE DEF k
    <3>1. g + 1 \in 1 .. k /\ g < Len(sent)
      BY <2>1
    <3> QED
      BY <2>1, <2>2, <3>1
  <2>4. all = [i \in 1 .. g |-> sent[i].payload]
    BY <2>2
  <2>5. \A i \in 1 .. g : sent[i].payload \in Seq(Nat)
    <3> SUFFICES ASSUME NEW i \in 1 .. g PROVE sent[i].payload \in Seq(Nat)
      OBVIOUS
    <3>1. sent[i] \in Frames
      BY <2>1
    <3>2. sent[i].payload \in Seq({0, 1})
      BY <3>1, FrameFacts
    <3> QED
      BY <3>2
  <2>6. /\ all \in Seq(Seq(Nat)) /\ Len(all) = g
        /\ \A i \in 1 .. g : all[i] = sent[i].payload
    <3>1. g \in Nat
      OBVIOUS
    <3>2. all \in [1 .. g -> Seq(Nat)]
      BY <2>4, <2>5
    <3>3. \A i \in 1 .. g : all[i] = sent[i].payload
      BY <2>4
    <3> HIDE DEF all
    <3> QED
      BY <3>1, <3>2, <3>3
  <2> HIDE DEF all
  <2>7. got = SubSeq(all, 1, k)
    <3> DEFINE u == SubSeq(all, 1, k)
    <3>1. k \in 0 .. Len(all)
      BY <2>1, <2>3, <2>6
    <3>2. u \in Seq(Seq(Nat)) /\ Len(u) = k /\ \A i \in 1 .. k : u[i] = all[i]
      <4> HIDE DEF k
      <4> QED
        BY <2>6, <3>1, Parts
    <3> HIDE DEF u
    <3>3. \A i \in 1 .. k : i \in 1 .. g
      BY <2>1, <2>3
    <3>4. \A i \in 1 .. Len(got) : got[i] = u[i]
      BY <2>1, <2>6, <3>2, <3>3
    <3>5. got = u
      BY <2>1, <3>2, <3>4, SeqEqual
    <3> QED
      BY <3>5 DEF u
  <2>8. ASSUME inbox = << >>, loop \in {"idle", "drain"} PROVE got = all
    <3>1. ~(k < g)
      <4> SUFFICES ASSUME k < g PROVE FALSE
        OBVIOUS
      <4>1. k < Len(sent) /\ k + 1 \in 1 .. g
        BY <2>1
      <4>2. Last(sent[k + 1])
        BY <2>8, <4>1, AllIsRead
      <4> QED
        BY <2>2, <4>1, <4>2
    <3>2. k = g
      BY <2>1, <2>3, <3>1
    <3>3. \A i \in 1 .. Len(got) : got[i] = all[i]
      BY <2>1, <2>6, <3>2
    <3> QED
      BY <2>1, <2>6, <3>2, <3>3, SeqEqual
  <2> QED
    BY <2>3, <2>6, <2>7, <2>8 DEF MessagesFit, all, fs
<1> QED
  BY <1>1, ReadInvariance, PTL

-----------------------------------------------------------------------------
(* The lengths. *)

Longest == 65536

(* What is left of n after i bytes, for the lengths below the third form's *)
(* limit of this model.                                                    *)
Left(n, i) ==
  CASE i = 0 -> n
    [] i = 1 -> n \div 256
    [] i = 2 -> (n \div 256) \div 256
    [] OTHER -> 0

LEMMA LeftStep ==
  ASSUME NEW n \in 0 .. Longest
  PROVE  /\ \A i \in Nat : Left(n, i) \in Nat
         /\ Left(n, 0) = n
         /\ \A i \in Nat \ {0} : Left(n, i) = Left(n, i - 1) \div 256
         /\ \A i \in Nat : i >= 3 \/ (i = 2 /\ n < Longest) => Left(n, i) = 0
<1> DEFINE a == n \div 256
           b == a \div 256
<1>1. n \in Nat /\ a \in Nat /\ a <= 256 /\ (n < Longest => a < 256)
  BY SMT DEF Longest
<1> HIDE DEF a
<1>2. b \in Nat /\ b <= 1 /\ (n < Longest => b = 0)
  BY <1>1
<1> HIDE DEF b
<1>3. b \div 256 = 0 /\ 0 \div 256 = 0
  BY <1>2
<1>4. /\ Left(n, 0) = n /\ Left(n, 1) = a /\ Left(n, 2) = b
      /\ \A i \in Nat : i >= 3 => Left(n, i) = 0
  BY DEF Left, a, b
<1>5. \A i \in Nat : i = 0 \/ i = 1 \/ i = 2 \/ i >= 3
  OBVIOUS
<1>6. \A i \in Nat : Left(n, i) \in Nat
  BY <1>1, <1>2, <1>4, <1>5
<1>8. \A i \in Nat : i >= 3 \/ (i = 2 /\ n < Longest) => Left(n, i) = 0
  BY <1>2, <1>4
<1>7. ASSUME NEW i \in Nat \ {0} PROVE Left(n, i) = Left(n, i - 1) \div 256
  <2>1. CASE i = 1
    BY <1>4, <2>1 DEF a
  <2>2. CASE i = 2
    BY <1>4, <2>2 DEF b
  <2>3. CASE i = 3
    BY <1>3, <1>4, <2>3
  <2>4. CASE i >= 4
    <3>1. i >= 3 /\ i - 1 >= 3 /\ i - 1 \in Nat
      BY <2>4
    <3>2. Left(n, i) = 0 /\ Left(n, i - 1) = 0
      BY <1>4, <3>1
    <3> QED
      BY <1>3, <3>2
  <2>5. i = 1 \/ i = 2 \/ i = 3 \/ i >= 4
    OBVIOUS
  <2> QED
    BY <2>1, <2>2, <2>3, <2>4, <2>5
<1> QED
  BY <1>4, <1>6, <1>7, <1>8

LEMMA BytesFacts ==
  ASSUME NEW n \in 0 .. Longest, NEW k \in Nat
  PROVE  Bytes(k, n) = [i \in 1 .. k |-> Left(n, k - i) % 256]
<1> DEFINE E(s) == s = [i \in 0 .. k |-> IF i = 0 THEN n ELSE s[i - 1] \div 256]
           S == CHOOSE s : E(s)
           w == [i \in 0 .. k |-> Left(n, i)]
<1>1. Bytes(k, n) = [i \in 1 .. k |-> S[k - i] % 256]
  BY DEF Bytes
<1>2. E(w)
  <2>1. \A i \in 0 .. k : w[i] = IF i = 0 THEN n ELSE w[i - 1] \div 256
    <3> SUFFICES ASSUME NEW i \in 0 .. k PROVE w[i] = IF i = 0 THEN n ELSE w[i - 1] \div 256
      OBVIOUS
    <3>1. CASE i = 0
      BY <3>1, LeftStep
    <3>2. CASE i # 0
      <4>1. i \in Nat \ {0} /\ i - 1 \in 0 .. k
        BY <3>2
      <4>2. w[i] = Left(n, i) /\ w[i - 1] = Left(n, i - 1)
        BY <4>1
      <4>3. Left(n, i) = Left(n, i - 1) \div 256
        BY <4>1, LeftStep
      <4> HIDE DEF w
      <4> QED
        BY <3>2, <4>2, <4>3
    <3> QED
      BY <3>1, <3>2
  <2>2. w = [i \in 0 .. k |-> w[i]]
    OBVIOUS
  <2> HIDE DEF w
  <2> QED
    BY <2>1, <2>2
<1>3. E(S)
  <2> HIDE DEF w, E
  <2> QED
    BY <1>2
<1> HIDE DEF S
<1>4. \A i \in 0 .. k : S[i] = IF i = 0 THEN n ELSE S[i - 1] \div 256
  BY <1>3
<1>5. \A i \in 0 .. k : S[i] = Left(n, i)
  <2> DEFINE T == {i \in 0 .. k : S[i] # Left(n, i)}
  <2>1. SUFFICES ASSUME T # {} PROVE FALSE
    OBVIOUS
  <2>2. T \in SUBSET Nat
    OBVIOUS
  <2>3. PICK x \in T : \A y \in T : x <= y
    BY <2>1, <2>2, HasLeast
  <2>4. x \in 0 .. k /\ S[x] # Left(n, x)
    OBVIOUS
  <2>5. x # 0
    BY <1>4, <2>4, LeftStep
  <2>6. x \in Nat \ {0} /\ x - 1 \in 0 .. k
    BY <2>4, <2>5
  <2>7. x - 1 \notin T
    BY <2>3, <2>6
  <2>8. S[x - 1] = Left(n, x - 1)
    BY <2>6, <2>7
  <2>9. S[x] = S[x - 1] \div 256 /\ Left(n, x) = Left(n, x - 1) \div 256
    BY <1>4, <2>4, <2>5, <2>6, LeftStep
  <2> QED
    BY <2>4, <2>8, <2>9
<1>6. \A i \in 1 .. k : S[k - i] = Left(n, k - i)
  <2> SUFFICES ASSUME NEW i \in 1 .. k PROVE S[k - i] = Left(n, k - i)
    OBVIOUS
  <2>1. k - i \in 0 .. k
    OBVIOUS
  <2> QED
    BY <1>5, <2>1
<1> QED
  BY <1>1, <1>6

LEMMA BigEndianOfBytes ==
  ASSUME NEW n \in 0 .. Longest, NEW k \in Nat, k >= 3 \/ (k = 2 /\ n < Longest)
  PROVE  /\ BigEndian(Bytes(k, n)) = n
         /\ Bytes(k, n) \in Seq(Nat) /\ Len(Bytes(k, n)) = k
<1> DEFINE d == Bytes(k, n)
<1>1. d = [i \in 1 .. k |-> Left(n, k - i) % 256]
  BY BytesFacts
<1>2. \A i \in 1 .. k : d[i] = Left(n, k - i) % 256 /\ d[i] \in Nat
  <2> SUFFICES ASSUME NEW i \in 1 .. k PROVE d[i] = Left(n, k - i) % 256 /\ d[i] \in Nat
    OBVIOUS
  <2>1. d[i] = Left(n, k - i) % 256
    BY <1>1
  <2>2. k - i \in Nat
    OBVIOUS
  <2>3. Left(n, k - i) \in Nat
    BY <2>2, LeftStep
  <2> HIDE DEF d
  <2> QED
    BY <2>1, <2>3
<1>3. d \in Seq(Nat) /\ Len(d) = k
  <2>1. d \in [1 .. k -> Nat]
    BY <1>1, <1>2
  <2> HIDE DEF d
  <2> QED
    BY <2>1
<1> HIDE DEF d
<1> DEFINE E(s) == s = [i \in 0 .. Len(d) |-> IF i = 0 THEN 0 ELSE 256 * s[i - 1] + d[i]]
           S == CHOOSE s : E(s)
           w == [i \in 0 .. k |-> Left(n, k - i)]
<1>4. BigEndian(d) = S[Len(d)]
  BY DEF BigEndian
<1>5. \A i \in 0 .. k : w[i] = IF i = 0 THEN 0 ELSE 256 * w[i - 1] + d[i]
  <2> SUFFICES ASSUME NEW i \in 0 .. k PROVE w[i] = IF i = 0 THEN 0 ELSE 256 * w[i - 1] + d[i]
    OBVIOUS
  <2>1. CASE i = 0
    <3>1. w[i] = Left(n, k) /\ k - 0 = k
      BY <2>1
    <3>2. Left(n, k) = 0
      BY LeftStep
    <3> QED
      BY <2>1, <3>1, <3>2
  <2>2. CASE i # 0
    <3> DEFINE j == k - i
    <3>1. j \in Nat /\ j + 1 \in Nat \ {0} /\ i - 1 \in 0 .. k /\ k - (i - 1) = j + 1
          /\ (j + 1) - 1 = j /\ i \in 1 .. k
      BY <2>2
    <3>2. w[i] = Left(n, j) /\ w[i - 1] = Left(n, j + 1) /\ d[i] = Left(n, j) % 256
      BY <1>2, <3>1
    <3> HIDE DEF j, w
    <3>3. Left(n, j + 1) = Left(n, j) \div 256
      BY <3>1, LeftStep
    <3>4. Left(n, j) \in Nat
      BY <3>1, LeftStep
    <3> DEFINE x == Left(n, j)
    <3>5. x \in Nat /\ w[i] = x /\ w[i - 1] = x \div 256 /\ d[i] = x % 256
      BY <3>2, <3>3, <3>4
    <3> HIDE DEF x
    <3>6. x = 256 * (x \div 256) + (x % 256)
      BY <3>5
    <3> QED
      BY <2>2, <3>5, <3>6
  <2> QED
    BY <2>1, <2>2
<1>6. E(w)
  <2>1. w = [i \in 0 .. k |-> w[i]]
    OBVIOUS
  <2>2. 0 .. Len(d) = 0 .. k
    BY <1>3
  <2> HIDE DEF w
  <2> QED
    BY <1>5, <2>1, <2>2, ZenonT(20)
<1>7. E(S)
  <2> HIDE DEF w, E
  <2> QED
    BY <1>6
<1> HIDE DEF S
<1>8. \A i \in 0 .. k : S[i] = IF i = 0 THEN 0 ELSE 256 * S[i - 1] + d[i]
  BY <1>3, <1>7
<1>9. \A i \in 0 .. k : w[i] = Left(n, k - i)
  OBVIOUS
<1> HIDE DEF w
<1>10. \A i \in 0 .. k : S[i] = w[i]
  <2> DEFINE T == {i \in 0 .. k : S[i] # w[i]}
  <2>1. SUFFICES ASSUME T # {} PROVE FALSE
    OBVIOUS
  <2>2. T \in SUBSET Nat
    OBVIOUS
  <2>3. PICK x \in T : \A y \in T : x <= y
    BY <2>1, <2>2, HasLeast
  <2>4. x \in 0 .. k /\ S[x] # w[x]
    OBVIOUS
  <2>5. x # 0
    BY <1>5, <1>8, <2>4
  <2>6. x - 1 \in 0 .. k /\ x \in Nat
    BY <2>4, <2>5
  <2>7. x - 1 \notin T
    BY <2>3, <2>6
  <2>8. S[x - 1] = w[x - 1]
    BY <2>6, <2>7
  <2>9. S[x] = 256 * S[x - 1] + d[x] /\ w[x] = 256 * w[x - 1] + d[x]
    BY <1>5, <1>8, <2>4, <2>5
  <2> QED
    BY <2>4, <2>8, <2>9
<1>11. S[k] = n
  <2>1. k \in 0 .. k /\ k - k = 0
    OBVIOUS
  <2> QED
    BY <1>9, <1>10, <2>1, LeftStep
<1> QED
  BY <1>3, <1>4, <1>11 DEF d

LEMMA FieldReadsBack ==
  ASSUME NEW n \in 0 .. Longest, NEW k \in Nat, k >= 3 \/ (k = 2 /\ n < Longest),
         NEW m, m.buf = << >>, m \in MsgRecords
  PROVE  LET r == OnReadingLen(m, k, Bytes(k, n))
         IN  r.msg.len = n /\ r.msg.state = "eReadingMask" /\ r.begin = << >>
<1> DEFINE d == Bytes(k, n)
           g == GetData(m, k, d)
           r == OnReadingLen(m, k, d)
<1>1. BigEndian(d) = n /\ d \in Seq(Nat) /\ Len(d) = k
  BY BigEndianOfBytes
<1> HIDE DEF d
<1>2. k - Len(m.buf) = k /\ ~(k <= 0) /\ ~(k > Len(d))
  BY <1>1
<1>3. g = [data |-> m.buf \o SubSeq(d, 1, k), begin |-> SubSeq(d, k + 1, Len(d)),
           msg |-> [m EXCEPT !.buf = << >>]]
  BY <1>2 DEF GetData
<1>4. m.buf \o SubSeq(d, 1, k) = d
  BY <1>1
<1>5. SubSeq(d, k + 1, Len(d)) = << >>
  BY <1>1
<1>6. d # Null
  <2>1. k \in Nat /\ k # 1 /\ Len(Null) = 1
    BY DEF Null
  <2> QED
    BY <1>1, <2>1
<1>7. g.data = d /\ g.begin = << >> /\ g.msg = [m EXCEPT !.buf = << >>]
  BY <1>3, <1>4, <1>5
<1> HIDE DEF g
<1>8. r.msg = SetPayloadLen(g.msg, n) /\ r.begin = << >>
  BY <1>1, <1>6, <1>7 DEF OnReadingLen, g
<1> HIDE DEF r
<1>9. r.msg.len = n /\ r.msg.state = "eReadingMask"
  <2>1. r.msg = [[m EXCEPT !.buf = << >>] EXCEPT !.len = n, !.state = "eReadingMask"]
    BY <1>7, <1>8 DEF SetPayloadLen
  <2> HIDE DEF Longest
  <2> QED
    BY <2>1 DEF MsgRecords
<1> QED
  BY <1>8, <1>9 DEF r, d

(* Every length up to the first that takes three bytes. *)
LEMMA HeadReadsBack ==
  ASSUME NEW n \in 0 .. Longest
  PROVE  ReadsBack(n)
<1> DEFINE head == LengthHead(n)
           m == Headed(NewMsg, <<0, head[1]>>)
           h == [NewMsg EXCEPT !.opcode = 0]
           read == CASE m.state = "eReadingLen16" -> OnReadingLen(m, 2, Tail(head))
                     [] m.state = "eReadingLen64" -> OnReadingLen(m, Len64Bytes, Tail(head))
                     [] OTHER -> [msg |-> m, begin |-> Tail(head)]
<1>1. n \in Nat
  BY SMTT(30) DEF Longest
<1>2. m = CASE head[1] = 126 -> [h EXCEPT !.state = "eReadingLen16"]
            [] head[1] = 127 -> [h EXCEPT !.state = "eReadingLen64"]
            [] OTHER         -> SetPayloadLen(h, head[1])
  BY DEF Headed
<1>3. h = [state |-> "eReadingHead", buf |-> << >>, opcode |-> 0, len |-> 0, mask |-> << >>,
           content |-> << >>]
  BY DEF NewMsg
<1>4. head = CASE n < 126                     -> <<n>>
               [] n >= 126 /\ n < Longest -> <<126>> \o Bytes(2, n)
               [] OTHER                       -> <<127>> \o Bytes(Len64Bytes, n)
  BY SMT DEF LengthHead, Longest
<1>5. ASSUME NEW e, NEW d \in Seq(Nat)
      PROVE  (<<e>> \o d)[1] = e /\ Tail(<<e>> \o d) = d
  OBVIOUS
<1> HIDE DEF h, m, head
<1>6. CASE n < 126
  <2>1. head = <<n>> /\ n # 126 /\ n # 127
    BY <1>1, <1>4, <1>6
  <2>2. head[1] = n /\ Tail(head) = << >>
    BY <2>1
  <2>3. m = SetPayloadLen(h, n)
    BY <1>2, <2>1, <2>2
  <2>4. m.len = n /\ m.state = "eReadingMask"
    BY <1>3, <2>3 DEF SetPayloadLen
  <2>5. read = [msg |-> m, begin |-> << >>]
    BY <2>2, <2>4
  <2> HIDE DEF read
  <2>6. read.msg.len = n /\ read.msg.state = "eReadingMask" /\ read.begin = << >>
    BY <2>4, <2>5
  <2> QED
    BY <2>6 DEF ReadsBack, read, m, head
<1>7. CASE n >= 126 /\ n < Longest
  <2> DEFINE d == Bytes(2, n)
  <2>1. d \in Seq(Nat)
    BY <1>7, BigEndianOfBytes
  <2>2. head = <<126>> \o d
    BY <1>1, <1>4, <1>7
  <2> HIDE DEF d
  <2>3. head[1] = 126 /\ Tail(head) = d
    BY <1>5, <2>1, <2>2
  <2>4. m = [h EXCEPT !.state = "eReadingLen16"]
    BY <1>2, <2>3
  <2>5. m.state = "eReadingLen16" /\ m.buf = << >> /\ m \in MsgRecords
    <3>1. m = [state |-> "eReadingLen16", buf |-> << >>, opcode |-> 0, len |-> 0, mask |-> << >>,
               content |-> << >>]
      BY <1>3, <2>4
    <3>2. "eReadingLen16" \in States /\ << >> \in Seq(Nat) /\ 0 \in Nat
      BY DEF States
    <3> QED
      BY <3>1, <3>2 DEF MsgRecords
  <2>6. read = OnReadingLen(m, 2, d)
    BY <2>3, <2>5
  <2> HIDE DEF read
  <2>7. read.msg.len = n /\ read.msg.state = "eReadingMask" /\ read.begin = << >>
    BY <1>7, <2>5, <2>6, FieldReadsBack DEF d
  <2> QED
    BY <2>7 DEF ReadsBack, read, m, head
<1>8. CASE ~(n < Longest)
  <2> DEFINE d == Bytes(Len64Bytes, n)
  <2>1. Len64Bytes \in Nat /\ Len64Bytes >= 3
    BY WebSocketAssumption
  <2>2. d \in Seq(Nat)
    BY SMTT(30), <2>1, BigEndianOfBytes
  <2>3. ~(n < 126)
    BY <1>1, <1>8, SMT DEF Longest
  <2>4. head = <<127>> \o d
    BY <1>1, <1>4, <1>8, <2>3
  <2> HIDE DEF d
  <2>5. head[1] = 127 /\ Tail(head) = d
    BY <1>5, <2>2, <2>4
  <2>6. m = [h EXCEPT !.state = "eReadingLen64"]
    BY <1>2, <2>5
  <2>7. m.state = "eReadingLen64" /\ m.buf = << >> /\ m \in MsgRecords
    <3>1. m = [state |-> "eReadingLen64", buf |-> << >>, opcode |-> 0, len |-> 0, mask |-> << >>,
               content |-> << >>]
      BY <1>3, <2>6
    <3>2. "eReadingLen64" \in States /\ << >> \in Seq(Nat) /\ 0 \in Nat
      BY DEF States
    <3> QED
      BY <3>1, <3>2 DEF MsgRecords
  <2>8. read = OnReadingLen(m, Len64Bytes, d)
    BY <2>5, <2>7
  <2> HIDE DEF read
  <2>9. read.msg.len = n /\ read.msg.state = "eReadingMask" /\ read.begin = << >>
    BY <2>1, <2>7, <2>8, FieldReadsBack DEF d
  <2> QED
    BY <2>9 DEF ReadsBack, read, m, head
<1>9. n < 126 \/ (n >= 126 /\ n < Longest) \/ ~(n < Longest)
  BY <1>1
<1> QED
  BY SMTT(30), <1>6, <1>7, <1>8, <1>9

LEMMA Lengths == LengthsReadBack
<1>1. {0, 125, 126, 127, 255, 256, 65535, 65536} \subseteq 0 .. Longest
  BY SMT DEF Longest
<1>2. \A n \in {0, 125, 126, 127, 255, 256, 65535, 65536} : ReadsBack(n)
  <2> DEFINE T == {0, 125, 126, 127, 255, 256, 65535, 65536}
  <2>1. T \subseteq 0 .. Longest
    BY <1>1
  <2> HIDE DEF T
  <2>2. \A n \in T : ReadsBack(n)
    BY <2>1, HeadReadsBack
  <2> QED
    BY <2>2 DEF T
<1> QED
  BY <1>2, SMT DEF LengthsReadBack

-----------------------------------------------------------------------------
(* The types. *)

Flags ==
  /\ pushed \in 0 .. MaxMsgs /\ conn \in {"open", "shutting", "closed"}
  /\ wake \in BOOLEAN /\ failed \in BOOLEAN

LEMMA FlagsStep == Flags /\ [Next]_vars => Flags'
<1> SUFFICES ASSUME Flags, [Next]_vars PROVE Flags'
  OBVIOUS
<1>1. pushed \in Nat /\ MaxMsgs \in Nat
  BY WebSocketAssumption DEF Flags
<1>2. ASSUME pushed < MaxMsgs, Push PROVE pushed' \in 0 .. MaxMsgs
  BY <1>1, <1>2 DEF Push
<1>3. ASSUME NEW f \in Frames, Send(f) PROVE Flags'
  BY <1>3 DEF Send, Flags, sending
<1>4. ASSUME NEW n \in 1 .. Len(inbox), Read(n) PROVE Flags'
  BY <1>4 DEF Read, Flags, sending
<1>5. CASE PeerCloses \/ OnCloseConnection \/ Upgrade
  BY <1>5 DEF PeerCloses, OnCloseConnection, Upgrade, Flags, sending
<1>6. CASE Parse
  BY <1>6 DEF Parse, Flags, sending
<1>7. CASE Check
  <2>1. conn' \in {conn, "shutting"} /\ UNCHANGED failed
    BY <1>7 DEF Check
  <2>2. \/ UNCHANGED <<pushed, wake>>
        \/ pushed < MaxMsgs /\ Push /\ wake' = TRUE
        \/ UNCHANGED <<pushed, wake>>
    BY <1>7 DEF Check, Callback
  <2> QED
    BY <1>2, <2>1, <2>2 DEF Flags
<1>8. ASSUME NEW w \in Workers, SendMsg(w) PROVE Flags'
  BY <1>2, <1>8 DEF SendMsg, Flags
<1>9. ASSUME NEW w \in Workers, WakeUp(w) PROVE Flags'
  BY <1>9 DEF WakeUp, Flags, sending
<1>10. CASE OnReadEvent
  BY <1>10 DEF OnReadEvent, Flags, sending
<1>11. CASE HandleWsReponse
  BY <1>11 DEF HandleWsReponse, PopSendMsg, Flags
<1>12. CASE UNCHANGED vars
  BY <1>12 DEF vars, Flags, sending
<1> QED
  BY <1>3, <1>4, <1>5, <1>6, <1>7, <1>8, <1>9, <1>10, <1>11, <1>12 DEF Next

LEMMA FlagsInvariance == Spec => []Flags
<1>1. Init => Flags
  <2>1. 0 \in 0 .. MaxMsgs
    BY WebSocketAssumption
  <2> QED
    BY <2>1 DEF Init, Flags
<1> QED
  BY <1>1, FlagsStep, PTL DEF Spec

(* mBufData holds a beginning of the part that is read. *)
LEMMA PartIsUnfinished ==
  ASSUME RInv
  PROVE  msg.buf = << >> \/ Len(msg.buf) < Needed(msg.state)
<1> DEFINE k == Len(got)
           f == sent[k + 1]
<1>1. /\ sent \in Seq(Frames) /\ k \in Nat /\ Len(sent) \in Nat /\ k <= Len(sent)
  BY DEF RInv, ReadTypes, Delivered
<1>2. CASE k = Len(sent)
  BY <1>2 DEF RInv, InTheMiddle, NewMsg
<1>3. CASE k # Len(sent)
  <2>1. k < Len(sent) /\ k + 1 \in 1 .. Len(sent)
    BY <1>1, <1>3
  <2>2. f \in Frames
    BY <1>1, <2>1
  <2>3. CASE Refused
    BY <2>3 DEF Refused
  <2>4. CASE Underway
    <3>1. PICK p \in 0 .. Len(f.bytes) : Parsed(f, p, msg)
      BY <2>4 DEF Underway
    <3> DEFINE b == f.bytes
               B == Len(b)
               F == FieldLength(f)
               H == HeadLength(f)
    <3>2. /\ b \in Seq(Nat) /\ B \in Nat /\ B >= 2 /\ F \in Nat /\ H = 2 + F + MaskBytes
          /\ b[2] = 126 => F = 2
          /\ b[2] = 127 => F = Len64Bytes
      BY <2>2, FrameFacts
    <3>3. MaskBytes \in Nat \ {0}
      BY WebSocketAssumption
    <3>4. p \in Nat /\ p <= Len(b)
      BY <3>2
    <3>5. msg.state \in States
      BY DEF RInv, ReadTypes, MsgRecords
    <3>6. CASE msg.state = "eReadingHead"
      <4>1. p < 2 /\ msg.buf = SubSeq(b, 0 + 1, p) /\ 0 <= p
        BY <3>1, <3>4, <3>6 DEF Parsed, NewMsg
      <4> HIDE DEF b
      <4>2. Len(msg.buf) = p - 0
        BY <3>2, <3>4, <4>1, Slice
      <4> QED
        BY <3>4, <3>6, <4>1, <4>2 DEF Needed
    <3>7. CASE msg.state \in {"eReadingLen16", "eReadingLen64"}
      <4>1. /\ p \in 2 .. 1 + F /\ msg.buf = SubSeq(b, 2 + 1, p)
            /\ msg.state = "eReadingLen16" => F = 2
            /\ msg.state = "eReadingLen64" => F = Len64Bytes
        BY <3>1, <3>2, <3>7 DEF Parsed
      <4>2. F = Needed(msg.state)
        BY <3>7, <4>1 DEF Needed
      <4> HIDE DEF b, F
      <4>3. 2 <= p /\ p - 2 < F
        BY <3>2, <3>4, <4>1
      <4>4. Len(msg.buf) = p - 2
        BY <3>2, <3>4, <4>1, <4>3, Slice
      <4> QED
        BY <4>2, <4>3, <4>4
    <3>8. CASE msg.state = "eReadingMask"
      <4> DEFINE s == 2 + F
      <4>1. p \in s .. H - 1 /\ msg.buf = SubSeq(b, s + 1, p)
        BY <3>1, <3>8 DEF Parsed
      <4>2. s \in Nat /\ H = s + MaskBytes
        BY <3>2
      <4> HIDE DEF b, F, s, H
      <4>3. s <= p /\ p - s < MaskBytes
        BY <3>3, <3>4, <4>1, <4>2
      <4>4. Len(msg.buf) = p - s
        BY <3>2, <3>4, <4>1, <4>2, <4>3, Slice
      <4> QED
        BY <3>8, <4>3, <4>4 DEF Needed
    <3>9. CASE msg.state \in {"eReadingPayload", "eNewMsg"}
      BY <3>1, <3>9 DEF Parsed
    <3>10. msg.state # "eError"
      BY <3>1 DEF Parsed
    <3> QED
      BY <3>5, <3>6, <3>7, <3>8, <3>9, <3>10 DEF States
  <2> QED
    BY <2>1, <2>3, <2>4 DEF RInv, InTheMiddle
<1> QED
  BY <1>2, <1>3

(* The types of the state, with mBufData never holding the whole of the    *)
(* part it gathers, the wake-up for every message that waits, and the      *)
(* lengths of both sides: for the code's eight bytes of the long form, and *)
(* for any other number that can hold them.                                *)
THEOREM ServerIsSound == Spec => []Inv
<1>1. IInv /\ RInv /\ Flags => Inv
  <2> SUFFICES ASSUME IInv, RInv, Flags PROVE Inv
    OBVIOUS
  <2>1. msg.state \in States
    BY DEF RInv, ReadTypes, MsgRecords
  <2>2. TypeOK
    BY <2>1, PartIsUnfinished
    DEF RInv, ReadTypes, IInv, SendingTypes, NothingBeforeUpgrade, Flags, TypeOK, States
  <2> QED
    BY <2>2, Lengths DEF IInv, Inv
<1> QED
  BY <1>1, Invariance, ReadInvariance, FlagsInvariance, PTL
=============================================================================
