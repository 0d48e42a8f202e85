--------------------------- MODULE Packet_proofs ----------------------------
(***************************************************************************)
(* The codec of packet headers, for every eight bytes, every width of a    *)
(* byte and every magic number, version, last type and set of flags.       *)
(***************************************************************************)
EXTENDS Packet, DataLemmas

-----------------------------------------------------------------------------
(* Numbers of two bytes *)

\* Both bytes of a number that was decoded are found again.
LEMMA EncodeDecoded ==
  ASSUME NEW x \in Byte, NEW y \in Byte
  PROVE  vr_encode_u16(x * ByteRange + y) = <<x, y>>
<1>1. ByteRange \in Nat /\ ByteRange > 0 /\ x \in Nat /\ y \in 0 .. ByteRange - 1
  BY PacketAssumption DEF Byte
<1>2. PICK n : n = x * ByteRange + y
  OBVIOUS
<1>3. n \in Nat /\ n = ByteRange * x + y
  BY <1>1, <1>2, ProductType
<1>4. n \div ByteRange = x /\ n % ByteRange = y
  BY <1>1, <1>3, DivModUnique
<1>5. x % ByteRange = x
  BY <1>1 DEF Byte
<1> QED BY <1>2, <1>4, <1>5 DEF vr_encode_u16

\* Two bytes are decoded as n exactly if they are n's.
LEMMA DecodesTo ==
  ASSUME NEW x \in Byte, NEW y \in Byte, NEW n \in Nat
  PROVE  x * ByteRange + y = n <=> x = n \div ByteRange /\ y = n % ByteRange
<1>1. ByteRange \in Nat /\ ByteRange > 0 /\ x \in Nat /\ y \in 0 .. ByteRange - 1
  BY PacketAssumption DEF Byte
<1>2. x * ByteRange = ByteRange * x
  BY <1>1
<1>3. ASSUME x * ByteRange + y = n
      PROVE  x = n \div ByteRange /\ y = n % ByteRange
  BY <1>1, <1>2, <1>3, DivModUnique
<1>4. ASSUME x = n \div ByteRange, y = n % ByteRange
      PROVE  x * ByteRange + y = n
  <2>1. PICK q \in Nat, r \in 0 .. ByteRange - 1 :
          q = n \div ByteRange /\ r = n % ByteRange /\ n = ByteRange * q + r
    BY <1>1, DivMod
  <2> QED BY <1>2, <1>4, <2>1
<1> QED BY <1>3, <1>4

-----------------------------------------------------------------------------
(* Headers *)

Bytes == [1 .. 8 -> Byte]

\* Eight bytes are a sequence.
LEMMA BytesAreSequence ==
  ASSUME NEW b \in Bytes
  PROVE  b \in Seq(Byte) /\ Len(b) = 8
<1>1. b \in Seq(Byte)
  BY SeqIsFunctions, Zenon DEF Bytes
<1>2. PICK n \in Nat, l \in Nat : n = 8 /\ l = Len(b)
  BY <1>1, LenFacts
<1>3. DOMAIN b = 1 .. n
  BY <1>2 DEF Bytes
<1>4. DOMAIN b = 1 .. l
  BY <1>1, <1>2, LenFacts
<1>5. n = l
  BY <1>3, <1>4
<1> QED BY <1>1, <1>2, <1>5, Zenon

\* What is decoded from eight bytes, field by field.
LEMMA Decoded ==
  ASSUME NEW b \in Bytes
  PROVE  vr_packet_header_deserialize(b)
           = [magic |-> b[1] * ByteRange + b[2], version |-> b[3],
              type |-> b[4], stream_id |-> b[5], flags |-> b[6],
              payload_len |-> b[7] * ByteRange + b[8]]
<1>1. b \in Seq(Byte) /\ Len(b) = 8
  BY BytesAreSequence
<1>2. PICK c, d : c = SubSeq(b, 1, 2) /\ d = SubSeq(b, 7, 8)
  BY Zenon
<1>3. c[1] = b[1] /\ c[2] = b[2] /\ d[1] = b[7] /\ d[2] = b[8]
  BY <1>1, <1>2
<1> QED BY <1>2, <1>3 DEF vr_packet_header_deserialize, vr_decode_u16

\* A header that was decoded is encoded as the bytes it came from.
LEMMA EncodeHeader ==
  ASSUME NEW b \in Bytes
  PROVE  vr_packet_serialize(vr_packet_header_deserialize(b)) = b
<1>1. \A i \in 1 .. 8 : b[i] \in Byte
  BY DEF Bytes
<1>2. PICK h : h = vr_packet_header_deserialize(b)
  OBVIOUS
<1>3. /\ h.magic = b[1] * ByteRange + b[2] /\ h.version = b[3] /\ h.type = b[4]
      /\ h.stream_id = b[5] /\ h.flags = b[6]
      /\ h.payload_len = b[7] * ByteRange + b[8]
  BY <1>2, Decoded
<1>4. vr_encode_u16(h.magic) = <<b[1], b[2]>>
  BY <1>1, <1>3, EncodeDecoded
<1>5. vr_encode_u16(h.payload_len) = <<b[7], b[8]>>
  BY <1>1, <1>3, EncodeDecoded
<1>6. h.type % ByteRange = b[4]
  <2>1. b[4] \in 0 .. ByteRange - 1 /\ ByteRange \in Nat
    BY <1>1, PacketAssumption DEF Byte
  <2>2. b[4] % ByteRange = b[4]
    BY <2>1
  <2> QED BY <1>3, <2>2
<1>7. vr_packet_serialize(h)
        = <<b[1], b[2]>> \o <<b[3], b[4], b[5], b[6]>> \o <<b[7], b[8]>>
  BY <1>3, <1>4, <1>5, <1>6, Zenon DEF vr_packet_serialize
<1>8. PICK x, y, z : /\ x = <<b[1], b[2]>> /\ y = <<b[3], b[4], b[5], b[6]>>
                     /\ z = <<b[7], b[8]>>
  BY Zenon
<1>9. /\ x \in Seq(Byte) /\ Len(x) = 2 /\ x[1] = b[1] /\ x[2] = b[2]
      /\ y \in Seq(Byte) /\ Len(y) = 4
      /\ y[1] = b[3] /\ y[2] = b[4] /\ y[3] = b[5] /\ y[4] = b[6]
      /\ z \in Seq(Byte) /\ Len(z) = 2 /\ z[1] = b[7] /\ z[2] = b[8]
  BY <1>1, <1>8
<1>10. PICK xy : xy = x \o y
  BY Zenon
<1>11. /\ xy \in Seq(Byte) /\ Len(xy) = 6
       /\ xy[1] = b[1] /\ xy[2] = b[2]
       /\ xy[3] = b[3] /\ xy[4] = b[4] /\ xy[5] = b[5] /\ xy[6] = b[6]
  <2>1. PICK m \in Nat, n \in Nat : m = 2 /\ n = 4
    OBVIOUS
  <2>2. x \in Seq(Byte) /\ Len(x) = m /\ y \in Seq(Byte) /\ Len(y) = n
    BY <1>9, <2>1
  <2>3. /\ xy \in Seq(Byte) /\ Len(xy) = m + n
        /\ \A i \in 1 .. m + n : xy[i] = IF i <= m THEN x[i] ELSE y[i - m]
    BY <1>10, <2>2, ConcatFacts, Zenon
  <2>4. /\ Len(xy) = 6 /\ xy[1] = x[1] /\ xy[2] = x[2]
        /\ xy[3] = y[1] /\ xy[4] = y[2] /\ xy[5] = y[3] /\ xy[6] = y[4]
    BY <2>1, <2>3
  <2> QED BY <1>9, <2>3, <2>4, Zenon
<1>12. PICK w : w = xy \o z
  BY Zenon
<1>13. /\ w \in Seq(Byte) /\ Len(w) = 8
       /\ w[1] = b[1] /\ w[2] = b[2] /\ w[3] = b[3] /\ w[4] = b[4]
       /\ w[5] = b[5] /\ w[6] = b[6] /\ w[7] = b[7] /\ w[8] = b[8]
  <2>1. PICK m \in Nat, n \in Nat : m = 6 /\ n = 2
    OBVIOUS
  <2>2. xy \in Seq(Byte) /\ Len(xy) = m /\ z \in Seq(Byte) /\ Len(z) = n
    BY <1>9, <1>11, <2>1
  <2>3. /\ w \in Seq(Byte) /\ Len(w) = m + n
        /\ \A i \in 1 .. m + n : w[i] = IF i <= m THEN xy[i] ELSE z[i - m]
    BY <1>12, <2>2, ConcatFacts, Zenon
  <2>4. /\ Len(w) = 8 /\ w[1] = xy[1] /\ w[2] = xy[2] /\ w[3] = xy[3]
        /\ w[4] = xy[4] /\ w[5] = xy[5] /\ w[6] = xy[6]
        /\ w[7] = z[1] /\ w[8] = z[2]
    BY <2>1, <2>3
  <2> QED BY <1>9, <1>11, <2>3, <2>4, Zenon
<1>14. \A i \in 1 .. 8 : w[i] = b[i]
  <2>1. \A i \in 1 .. 8 : i \in {1, 2, 3, 4, 5, 6, 7, 8}
    OBVIOUS
  <2> QED BY <1>13, <2>1, ZenonT(30)
<1>15. w = b
  BY <1>13, <1>14, BytesAreSequence, SameSeq, Zenon
<1> QED BY <1>2, <1>7, <1>8, <1>10, <1>12, <1>15

\* The first unit is good exactly if the magic number, version and type are.
LEMMA UnitsValidated ==
  ASSUME NEW b \in Bytes
  PROVE  Parser!validated(Abstract(b))
           <=> Validation(vr_packet_header_deserialize(b))
<1>1. \A i \in 1 .. 8 : b[i] \in Byte
  BY DEF Bytes
<1>2. PICK h, u : h = vr_packet_header_deserialize(b) /\ u = Abstract(b)
  OBVIOUS
<1>3. /\ h.magic = b[1] * ByteRange + b[2] /\ h.version = b[3] /\ h.type = b[4]
      /\ h.flags = b[6]
  BY <1>2, Decoded
<1>4. VR_MAGIC \in Nat
  BY PacketAssumption
<1>5. h.magic = VR_MAGIC
        <=> b[1] = VR_MAGIC \div ByteRange /\ b[2] = VR_MAGIC % ByteRange
  BY <1>1, <1>3, <1>4, DecodesTo
<1>6. b[4] \in 0 .. VR_PKT_ERROR <=> h.type <= VR_PKT_ERROR
  BY <1>1, <1>3, PacketAssumption DEF Byte
<1>7. b[6] \in 0 .. FlagRange - 1 <=> h.flags < FlagRange
  BY <1>1, <1>3, PacketAssumption DEF Byte
<1>8. u[1][1] = "A" <=> /\ h.magic = VR_MAGIC /\ h.version = VR_PROTOCOL_VERSION
                        /\ h.type <= VR_PKT_ERROR
  BY <1>2, <1>3, <1>5, <1>6 DEF Abstract
<1>9. u[2][1] = "B" <=> h.flags < FlagRange
  BY <1>2, <1>7 DEF Abstract
<1> QED BY <1>2, <1>8, <1>9 DEF Validation, Parser!validated

\* The units of a good header hold its type, stream and length.
LEMMA UnitsDecoded ==
  ASSUME NEW b \in Bytes, Parser!validated(Abstract(b))
  PROVE  LET h == vr_packet_header_deserialize(b)
         IN  Parser!vr_packet_header_deserialize(Abstract(b))
               = [type |-> h.type, stream_id |-> h.stream_id,
                  payload_len |-> h.payload_len]
<1>1. \A i \in 1 .. 8 : b[i] \in Byte
  BY DEF Bytes
<1>2. PICK h, u : h = vr_packet_header_deserialize(b) /\ u = Abstract(b)
  OBVIOUS
<1>3. /\ h.type = b[4] /\ h.stream_id = b[5]
      /\ h.payload_len = b[7] * ByteRange + b[8]
  BY <1>2, Decoded
<1>4. u[1][1] = "A" /\ u[2][1] = "B"
  BY <1>2 DEF Parser!validated
<1>5. /\ u[1] = <<"A", b[4]>>
      /\ u[2] = <<"B", b[5], ByteRange * b[7] + b[8]>>
  BY <1>2, <1>4 DEF Abstract
<1>6. ByteRange * b[7] + b[8] = b[7] * ByteRange + b[8]
  BY <1>1, PacketAssumption DEF Byte
<1>7. u[1][2] = h.type /\ u[2][2] = h.stream_id /\ u[2][3] = h.payload_len
  BY <1>3, <1>5, <1>6
<1> QED BY <1>2, <1>7 DEF Parser!vr_packet_header_deserialize

-----------------------------------------------------------------------------
(* Theorems *)

\* The header is what the bytes on the wire say.
IInv ==
  /\ wire \in Bytes
  /\ Polled => /\ header = vr_packet_header_deserialize(wire)
               /\ validated = Validation(header)

\* The invariant holds in every state of the program.
LEMMA IInvAlways == Spec => []IInv
<1>1. Init => IInv
  BY DEF Init, Arrives, IInv, Polled, Bytes
<1>2. IInv /\ [Next]_vars => IInv'
  BY DEF IInv, Next, PollHeader, Polled, vars
<1> QED BY <1>1, <1>2, PTL DEF Spec

\* No byte of a header is lost or moved by the codec.
THEOREM RoundTripCorrect == Spec => []RoundTrip
<1>1. IInv => RoundTrip
  BY EncodeHeader DEF IInv, RoundTrip
<1> QED BY <1>1, IInvAlways, PTL

\* The units of the parser model stand for what the code makes of the bytes:
\* what is proved of connections on units holds of every header on the wire.
THEOREM UnitsCorrect == Spec => []UnitsAgree
<1>1. IInv => UnitsAgree
  <2> SUFFICES ASSUME IInv, Polled PROVE UnitsAgree
    BY DEF UnitsAgree
  <2>1. /\ wire \in Bytes /\ header = vr_packet_header_deserialize(wire)
        /\ validated = Validation(header)
    BY DEF IInv
  <2>2. validated <=> Parser!validated(Abstract(wire))
    BY <2>1, UnitsValidated
  <2>3. validated => Parser!vr_packet_header_deserialize(Abstract(wire))
                       = [type |-> header.type, stream_id |-> header.stream_id,
                          payload_len |-> header.payload_len]
    BY <2>1, <2>2, UnitsDecoded
  <2> QED BY <2>2, <2>3 DEF UnitsAgree
<1> QED BY <1>1, IInvAlways, PTL
=============================================================================
