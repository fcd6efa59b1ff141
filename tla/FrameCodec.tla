----------------------------- MODULE FrameCodec -----------------------------
(***************************************************************************)
(* The frames of the tunnel between gateway and agent, byte by byte: type, *)
(* stream id and payload length in big-endian order, payload               *)
(* (internal/proto/frame.go); and the messages of a WebSocket inside them  *)
(* (one byte of message type, then the data).  Every frame of the relay    *)
(* modules is sent through EncodeFrame and read through DecodeFrame; what  *)
(* DecodeFrame refuses is dropped by both read loops.                      *)
(***************************************************************************)
EXTENDS Naturals, Sequences

Byte == 0..255

headerBytes == 9
WebSocketFrameOverhead == headerBytes + 1

\* PutUint32: byte k = 1..4 of uint32(n), which drops all above 32 bits.
PutUint32(n, k) ==
  IF k = 1 THEN (n \div (256 * 256 * 256)) % 256
  ELSE IF k = 2 THEN (n \div (256 * 256)) % 256
  ELSE IF k = 3 THEN (n \div 256) % 256
  ELSE n % 256

\* Uint32 of the four bytes from i.
BigEndian(a, b, c, d) == a * (256 * 256 * 256) + b * (256 * 256) + c * 256 + d
Uint32(b, i) == BigEndian(b[i], b[i + 1], b[i + 2], b[i + 3])

EncodeFrame(t, stream, payload) ==
  [i \in 1..(headerBytes + Len(payload)) |->
     IF i = 1 THEN t
     ELSE IF i <= 5 THEN PutUint32(stream, i - 1)
     ELSE IF i <= headerBytes THEN PutUint32(Len(payload), i - 5)
     ELSE payload[i - headerBytes]]

\* DecodeFrame takes b; int is 64 bits wide, so that int(n) is not negative.
Decodes(b) == Len(b) >= headerBytes /\ Len(b) = headerBytes + Uint32(b, 6)

DecodeFrame(b) ==
  [type    |-> b[1],
   stream  |-> Uint32(b, 2),
   payload |-> [i \in 1..(Len(b) - headerBytes) |-> b[i + headerBytes]]]

\* append([]byte{byte(mt)}, data...), as TWsC2A and TWsA2C carry it.
WsPayload(mt, data) == [i \in 1..(Len(data) + 1) |-> IF i = 1 THEN mt ELSE data[i - 1]]

\* mt := int(f.Payload[0]), data := f.Payload[1:], of a payload that is not empty.
WsMessage(p) == [mt |-> p[1], data |-> [i \in 1..(Len(p) - 1) |-> p[i + 1]]]

=============================================================================
