-------------------------- MODULE FrameCodec_proofs --------------------------
(* What is sent through the tunnel is what is read, for all frames, and a    *)
(* message the one end may read fits through it.                             *)
EXTENDS FrameCodec, TLAPS

\* The numbers a uint32 holds.
IsUint32(n) == n \in Nat /\ n \div (256 * 256 * 256) < 256

\* Reading four bytes of a number in base 256 back.
LEMMA Digits ==
  ASSUME NEW n \in Nat, IsUint32(n)
  PROVE  BigEndian(PutUint32(n, 1), PutUint32(n, 2), PutUint32(n, 3), PutUint32(n, 4)) = n
<1> DEFINE q1 == n \div 256
           q2 == n \div (256 * 256)
           q3 == n \div (256 * 256 * 256)
<1>1. q1 \in Nat /\ q2 \in Nat /\ q3 \in Nat
  BY SMT
<1>2. n = 256 * q1 + (n % 256)
  BY SMT
<1>3. q1 = 256 * q2 + (q1 % 256)
  BY SMT
<1>4. q2 = 256 * q3 + (q2 % 256)
  BY SMT
<1>5. q3 % 256 = q3
  BY <1>1, SMT DEF IsUint32
<1> QED
  BY <1>1, <1>2, <1>3, <1>4, <1>5, SMT DEF PutUint32, BigEndian

\* Each of the four is a byte.
LEMMA DigitIsByte ==
  ASSUME NEW n \in Nat, NEW k \in 1..4
  PROVE  PutUint32(n, k) \in Byte
BY SMT DEF PutUint32, Byte

\* Writing four bytes that were read gives them back.
LEMMA DigitsBack ==
  ASSUME NEW a \in Byte, NEW b \in Byte, NEW c \in Byte, NEW d \in Byte
  PROVE  /\ BigEndian(a, b, c, d) \in Nat
         /\ PutUint32(BigEndian(a, b, c, d), 1) = a
         /\ PutUint32(BigEndian(a, b, c, d), 2) = b
         /\ PutUint32(BigEndian(a, b, c, d), 3) = c
         /\ PutUint32(BigEndian(a, b, c, d), 4) = d
<1> DEFINE n == BigEndian(a, b, c, d)
<1>0. n = a * (256 * 256 * 256) + b * (256 * 256) + c * 256 + d
  BY DEF BigEndian
<1> HIDE DEF n
<1>1. a \in Nat /\ b \in Nat /\ c \in Nat /\ d \in Nat /\ a < 256 /\ b < 256 /\ c < 256 /\ d < 256
  BY SMT DEF Byte
<1>2. n \in Nat
  BY <1>0, <1>1, SMT
<1>3. n \div (256 * 256 * 256) = a
  BY <1>0, <1>1, SMT
<1>4. n \div (256 * 256) = a * 256 + b
  BY <1>0, <1>1, SMT
<1>5. n \div 256 = a * (256 * 256) + b * 256 + c
  BY <1>0, <1>1, SMT
<1>6. a % 256 = a /\ (a * 256 + b) % 256 = b
  BY <1>1, SMT
<1>7. (a * (256 * 256) + b * 256 + c) % 256 = c /\ n % 256 = d
  BY <1>0, <1>1, SMT
<1> QED
  BY <1>1, <1>2, <1>3, <1>4, <1>5, <1>6, <1>7, SMT DEF PutUint32, n

\* The same for the two numbers in the header of a message f.
LEMMA HeaderNumbers ==
  ASSUME NEW f, f[2] \in Byte, f[3] \in Byte, f[4] \in Byte, f[5] \in Byte,
         f[6] \in Byte, f[7] \in Byte, f[8] \in Byte, f[9] \in Byte
  PROVE  /\ Uint32(f, 2) \in Nat /\ Uint32(f, 6) \in Nat
         /\ PutUint32(Uint32(f, 2), 1) = f[2] /\ PutUint32(Uint32(f, 2), 2) = f[3]
         /\ PutUint32(Uint32(f, 2), 3) = f[4] /\ PutUint32(Uint32(f, 2), 4) = f[5]
         /\ PutUint32(Uint32(f, 6), 1) = f[6] /\ PutUint32(Uint32(f, 6), 2) = f[7]
         /\ PutUint32(Uint32(f, 6), 3) = f[8] /\ PutUint32(Uint32(f, 6), 4) = f[9]
<1>1. /\ Uint32(f, 2) = BigEndian(f[2], f[3], f[4], f[5])
      /\ Uint32(f, 6) = BigEndian(f[6], f[7], f[8], f[9])
  BY DEF Uint32
<1>2. /\ Uint32(f, 2) \in Nat
      /\ PutUint32(Uint32(f, 2), 1) = f[2] /\ PutUint32(Uint32(f, 2), 2) = f[3]
      /\ PutUint32(Uint32(f, 2), 3) = f[4] /\ PutUint32(Uint32(f, 2), 4) = f[5]
  BY <1>1, DigitsBack
<1>3. /\ Uint32(f, 6) \in Nat
      /\ PutUint32(Uint32(f, 6), 1) = f[6] /\ PutUint32(Uint32(f, 6), 2) = f[7]
      /\ PutUint32(Uint32(f, 6), 3) = f[8] /\ PutUint32(Uint32(f, 6), 4) = f[9]
  BY <1>1, DigitsBack
<1> QED
  BY <1>2, <1>3

\* An encoded frame is a sequence of bytes as long as its header and payload.
LEMMA EncodedShape ==
  ASSUME NEW t \in Byte, NEW stream \in Nat, NEW payload \in Seq(Byte)
  PROVE  /\ EncodeFrame(t, stream, payload) \in Seq(Byte)
         /\ Len(EncodeFrame(t, stream, payload)) = headerBytes + Len(payload)
<1> DEFINE e == EncodeFrame(t, stream, payload)
           n == headerBytes + Len(payload)
<1>1. n \in Nat /\ Len(payload) \in Nat
  BY DEF headerBytes
<1>2. ASSUME NEW i \in 1..n PROVE e[i] \in Byte
  <2>1. CASE i = 1
    BY <2>1 DEF EncodeFrame
  <2>2. CASE i # 1 /\ i <= 5
    <3>1. e[i] = PutUint32(stream, i - 1) /\ i - 1 \in 1..4
      BY <1>1, <2>2 DEF EncodeFrame
    <3> QED BY <3>1, DigitIsByte
  <2>3. CASE i # 1 /\ ~(i <= 5) /\ i <= headerBytes
    <3>1. e[i] = PutUint32(Len(payload), i - 5) /\ i - 5 \in 1..4
      BY <1>1, <2>3 DEF EncodeFrame, headerBytes
    <3> QED BY <1>1, <3>1, DigitIsByte
  <2>4. CASE i # 1 /\ ~(i <= 5) /\ ~(i <= headerBytes)
    <3>1. e[i] = payload[i - headerBytes] /\ i - headerBytes \in 1..Len(payload)
      BY <1>1, <2>4 DEF EncodeFrame, headerBytes
    <3> QED BY <3>1
  <2> QED BY <2>1, <2>2, <2>3, <2>4
<1>3. e = [i \in 1..n |-> e[i]]
  BY DEF EncodeFrame
<1>4. e \in [1..n -> Byte]
  BY <1>2, <1>3
<1> QED
  BY <1>1, <1>4

\* DecodeFrame undoes EncodeFrame, for every type, every uint32 stream id and
\* every payload shorter than 2^32 bytes: no frame is lost, cut or given to
\* another stream by its encoding (frame.go:20-42).
THEOREM RoundTrip ==
  ASSUME NEW t \in Byte, NEW stream \in Nat, IsUint32(stream),
         NEW payload \in Seq(Byte), IsUint32(Len(payload))
  PROVE  LET b == EncodeFrame(t, stream, payload)
         IN  Decodes(b) /\ DecodeFrame(b) = [type |-> t, stream |-> stream, payload |-> payload]
<1> DEFINE b == EncodeFrame(t, stream, payload)
           n == Len(payload)
<1>1. n \in Nat /\ b \in Seq(Byte) /\ Len(b) = 9 + n
  BY EncodedShape DEF headerBytes
<1>2. b = [i \in 1..(9 + n) |-> IF i = 1 THEN t
                                ELSE IF i <= 5 THEN PutUint32(stream, i - 1)
                                ELSE IF i <= 9 THEN PutUint32(n, i - 5)
                                ELSE payload[i - 9]]
  BY DEF EncodeFrame, headerBytes
<1> HIDE DEF b
<1>3. /\ b[1] = t
      /\ b[2] = PutUint32(stream, 1) /\ b[3] = PutUint32(stream, 2)
      /\ b[4] = PutUint32(stream, 3) /\ b[5] = PutUint32(stream, 4)
      /\ b[6] = PutUint32(n, 1) /\ b[7] = PutUint32(n, 2)
      /\ b[8] = PutUint32(n, 3) /\ b[9] = PutUint32(n, 4)
  <2>1. \A i \in 1..9 : i \in 1..(9 + n)
    BY <1>1
  <2> QED BY <1>2, <2>1
<1>4. Uint32(b, 2) = stream
  BY <1>3, Digits DEF Uint32
<1>5. Uint32(b, 6) = n
  BY <1>1, <1>3, Digits DEF Uint32
<1>6. Decodes(b)
  BY <1>1, <1>5 DEF Decodes, headerBytes
<1>7. [i \in 1..(Len(b) - headerBytes) |-> b[i + headerBytes]] = payload
  <2>1. Len(b) - headerBytes = n
    BY <1>1 DEF headerBytes
  <2>2. ASSUME NEW i \in 1..n PROVE b[i + headerBytes] = payload[i]
    <3>1. i + 9 \in 1..(9 + n) /\ i + 9 # 1 /\ ~(i + 9 <= 5) /\ ~(i + 9 <= 9) /\ i + 9 - 9 = i
      BY <1>1
    <3> QED BY <1>2, <3>1 DEF headerBytes
  <2>3. payload = [i \in 1..n |-> payload[i]]
    OBVIOUS
  <2> QED BY <2>1, <2>2, <2>3
<1>8. DecodeFrame(b) = [type |-> t, stream |-> stream, payload |-> payload]
  BY <1>3, <1>4, <1>7 DEF DecodeFrame
<1> QED
  BY <1>6, <1>8 DEF b

\* What DecodeFrame takes is the encoding of what it returns: a message that is
\* cut, has bytes appended or has a wrong length is never taken for a frame
\* (frame.go:29-42).
THEOREM OnlyEncoded ==
  ASSUME NEW b \in Seq(Byte), Decodes(b)
  PROVE  LET f == DecodeFrame(b) IN EncodeFrame(f.type, f.stream, f.payload) = b
<1> DEFINE n == Len(b) - 9
           p == [i \in 1..n |-> b[i + 9]]
           s == Uint32(b, 2)
<1>1. Len(b) \in Nat /\ n \in Nat /\ Len(b) = 9 + n /\ n = Uint32(b, 6)
  <2>1. Len(b) \in Nat /\ Len(b) >= 9 /\ Len(b) = 9 + Uint32(b, 6)
    BY DEF Decodes, headerBytes
  <2>2. \A i \in 1..9 : b[i] \in Byte
    BY <2>1
  <2>3. Uint32(b, 6) \in Nat
    BY <2>2, HeaderNumbers
  <2> QED BY <2>1, <2>3
<1>2. \A i \in 1..9 : b[i] \in Byte
  BY <1>1
<1>3. p \in Seq(Byte) /\ Len(p) = n
  <2>1. ASSUME NEW i \in 1..n PROVE b[i + 9] \in Byte
    BY <1>1
  <2>2. p \in [1..n -> Byte]
    BY <2>1
  <2> QED BY <1>1, <2>2
<1>4. /\ PutUint32(s, 1) = b[2] /\ PutUint32(s, 2) = b[3]
      /\ PutUint32(s, 3) = b[4] /\ PutUint32(s, 4) = b[5]
  BY <1>2, HeaderNumbers
<1>5. /\ PutUint32(n, 1) = b[6] /\ PutUint32(n, 2) = b[7]
      /\ PutUint32(n, 3) = b[8] /\ PutUint32(n, 4) = b[9]
  <2> HIDE DEF n
  <2> QED BY <1>1, <1>2, HeaderNumbers
<1>6. DecodeFrame(b) = [type |-> b[1], stream |-> s, payload |-> p]
  BY DEF DecodeFrame, headerBytes
<1> HIDE DEF n, p, s
<1> DEFINE e == EncodeFrame(b[1], s, p)
<1>7. e = [i \in 1..(9 + n) |-> IF i = 1 THEN b[1]
                                ELSE IF i <= 5 THEN PutUint32(s, i - 1)
                                ELSE IF i <= 9 THEN PutUint32(n, i - 5)
                                ELSE p[i - 9]]
  BY <1>3 DEF EncodeFrame, headerBytes
<1> HIDE DEF e
<1>8. ASSUME NEW i \in 1..(9 + n) PROVE e[i] = b[i]
  <2>1. CASE i = 1
    BY <1>7, <2>1
  <2>2. CASE i # 1 /\ i <= 5
    <3>1. e[i] = PutUint32(s, i - 1) /\ i \in {2, 3, 4, 5}
      BY <1>1, <1>7, <2>2
    <3> QED BY <1>4, <3>1
  <2>3. CASE ~(i <= 5) /\ i <= 9
    <3>1. e[i] = PutUint32(n, i - 5) /\ i \in {6, 7, 8, 9}
      BY <1>1, <1>7, <2>3
    <3> QED BY <1>5, <3>1
  <2>4. CASE ~(i <= 9)
    <3>1. e[i] = p[i - 9] /\ i - 9 \in 1..n /\ (i - 9) + 9 = i
      BY <1>1, <1>7, <2>4
    <3>2. \A j \in 1..n : p[j] = b[j + 9]
      BY DEF p
    <3> QED BY <3>1, <3>2
  <2> QED BY <1>1, <2>1, <2>2, <2>3, <2>4
<1>9. e = b
  <2>1. b = [i \in 1..(9 + n) |-> b[i]]
    BY <1>1
  <2>2. e = [i \in 1..(9 + n) |-> e[i]]
    BY <1>7
  <2> QED BY <1>8, <2>1, <2>2
<1> QED
  BY <1>6, <1>9 DEF e

\* A WebSocket message that the read limit of one end lets in passes the tunnel,
\* whose limit is larger by the overhead, and comes out with its type and data:
\* the largest message does not take the connection of all streams down
\* (frame.go:8-12, server.go:405, 764, 807, agent.go:413, 761, 795).
THEOREM MessageFits ==
  ASSUME NEW limit \in Nat, NEW t \in Byte, NEW stream \in Nat, NEW mt \in Byte,
         NEW data \in Seq(Byte), Len(data) <= limit
  PROVE  LET p == WsPayload(mt, data)
         IN  /\ Len(EncodeFrame(t, stream, p)) <= limit + WebSocketFrameOverhead
             /\ WsMessage(p) = [mt |-> mt, data |-> data]
<1> DEFINE p == WsPayload(mt, data)
           n == Len(data)
<1>1. n \in Nat /\ n <= limit
  OBVIOUS
<1>2. p = [i \in 1..(n + 1) |-> IF i = 1 THEN mt ELSE data[i - 1]]
  BY DEF WsPayload
<1>3. p \in Seq(Byte) /\ Len(p) = n + 1
  <2>1. ASSUME NEW i \in 1..(n + 1) PROVE (IF i = 1 THEN mt ELSE data[i - 1]) \in Byte
    <3>1. CASE i = 1
      BY <3>1
    <3>2. CASE i # 1
      <4>1. i - 1 \in 1..n
        BY <1>1, <3>2
      <4> QED BY <3>2, <4>1
    <3> QED BY <3>1, <3>2
  <2>2. p \in [1..(n + 1) -> Byte]
    BY <1>2, <2>1
  <2> QED BY <1>1, <2>2
<1> HIDE DEF p
<1>4. Len(EncodeFrame(t, stream, p)) = 9 + (n + 1)
  BY <1>3, EncodedShape DEF headerBytes
<1>5. Len(EncodeFrame(t, stream, p)) <= limit + WebSocketFrameOverhead
  BY <1>1, <1>4 DEF WebSocketFrameOverhead, headerBytes
<1>6. p[1] = mt
  BY <1>1, <1>2
<1>7. [i \in 1..(Len(p) - 1) |-> p[i + 1]] = data
  <2>1. Len(p) - 1 = n
    BY <1>1, <1>3
  <2>2. ASSUME NEW i \in 1..n PROVE p[i + 1] = data[i]
    <3>1. i + 1 \in 1..(n + 1) /\ i + 1 # 1 /\ i + 1 - 1 = i
      BY <1>1
    <3> QED BY <1>2, <3>1
  <2>3. data = [i \in 1..n |-> data[i]]
    OBVIOUS
  <2> QED BY <2>1, <2>2, <2>3
<1>8. WsMessage(p) = [mt |-> mt, data |-> data]
  BY <1>6, <1>7 DEF WsMessage
<1> QED
  BY <1>5, <1>8 DEF p

=============================================================================
