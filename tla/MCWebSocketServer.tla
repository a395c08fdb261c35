-------------------------- MODULE MCWebSocketServer --------------------------
(* Frames with each form of the length, one of them longer than the mask,  *)
(* a close frame and a malformed one.                                      *)
EXTENDS WebSocketServer

Frame(opcode, length, mask, payload) ==
  [bytes |-> <<opcode>> \o length \o mask \o UnMasked(payload, mask), payload |-> payload]

SomeFrames ==
  { Frame(1, <<0>>, <<0, 0>>, << >>),
    Frame(1, <<126>> \o Bytes(2, 3), <<1, 0>>, <<1, 1, 0>>),
    Frame(2, <<127>> \o Bytes(Len64Bytes, 1), <<1, 1>>, <<1>>),
    Frame(8, <<0>>, <<0, 0>>, << >>),
    [bytes |-> <<3, 0>>, payload |-> << >>] }
=============================================================================
