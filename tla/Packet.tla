------------------------------ MODULE Packet -------------------------------
(***************************************************************************)
(* The wire form of a packet header, byte by byte: the codec               *)
(* (src/src/protocol/packet.c) and the parser's validation of what it      *)
(* decodes (src/src/protocol/parser.c).                                    *)
(*                                                                         *)
(* ParserOps works on units of four bytes that say what the parser makes   *)
(* of them; Abstract below is the meaning of those units.                  *)
(***************************************************************************)
EXTENDS Integers, Sequences

CONSTANTS
  ByteRange,            \* 2^8
  VR_MAGIC,             \* 0x5789
  VR_PROTOCOL_VERSION,  \* 1
  VR_PKT_ERROR,         \* 9: the last of vr_packet_type_t, which starts at 1
  FlagRange             \* VR_PACKET_VALID_FLAGS + 1, a power of two

Byte == 0 .. ByteRange - 1

ASSUME PacketAssumption ==
  /\ ByteRange \in Nat /\ ByteRange > VR_PKT_ERROR
  /\ VR_MAGIC \in 0 .. ByteRange * ByteRange - 1
  /\ VR_PROTOCOL_VERSION \in Byte
  /\ VR_PKT_ERROR \in Nat
  /\ FlagRange \in 1 .. ByteRange

VARIABLES
  wire,      \* the bytes at the front of the read ring
  header,    \* parser->current_header
  validated

vars == <<wire, header, validated>>

-----------------------------------------------------------------------------
vr_encode_u16(value) ==
  <<(value \div ByteRange) % ByteRange, value % ByteRange>>

\* Mutant: the bytes of a number in the order of the machine.
decode_u16_host(b) == b[2] * ByteRange + b[1]

vr_decode_u16(b) == b[1] * ByteRange + b[2]

\* `type' is an enum of four bytes of which one is written.
vr_packet_serialize(h) ==
  vr_encode_u16(h.magic)
    \o <<h.version, h.type % ByteRange, h.stream_id, h.flags>>
    \o vr_encode_u16(h.payload_len)

vr_packet_header_deserialize(b) ==
  [magic |-> vr_decode_u16(SubSeq(b, 1, 2)), version |-> b[3],
   type |-> b[4], stream_id |-> b[5], flags |-> b[6],
   payload_len |-> vr_decode_u16(SubSeq(b, 7, 8))]

\* Mutant: one unknown flag is looked for, not any.
validation_flags(h) ==
  /\ h.magic = VR_MAGIC
  /\ h.version = VR_PROTOCOL_VERSION
  /\ h.type <= VR_PKT_ERROR
  /\ h.flags # FlagRange

\* flags & ~VR_PACKET_VALID_FLAGS: the valid flags are the low bits.
Validation(h) ==
  /\ h.magic = VR_MAGIC
  /\ h.version = VR_PROTOCOL_VERSION
  /\ h.type <= VR_PKT_ERROR
  /\ h.flags < FlagRange

-----------------------------------------------------------------------------
HeaderZero == [magic |-> 0, version |-> 0, type |-> 0, stream_id |-> 0,
               flags |-> 0, payload_len |-> 0]

\* A header has arrived and the parser has not looked at it.
Arrives(bytes) ==
  /\ wire = bytes
  /\ header = HeaderZero /\ validated = TRUE

Init == \E bytes \in [1 .. 8 -> Byte] : Arrives(bytes)

\* What vr_parser_poll() makes of a header that is complete.
PollHeader ==
  /\ header = HeaderZero
  /\ header' = vr_packet_header_deserialize(wire)
  /\ validated' = Validation(header')
  /\ UNCHANGED wire

Next == PollHeader

Spec == Init /\ [][Next]_vars

-----------------------------------------------------------------------------
(* Properties *)

Parser == INSTANCE ParserOps WITH HeaderSize <- 3

Polled == header # HeaderZero

\* The units that stand for eight bytes, read off the byte positions.
Abstract(b) ==
  <<IF /\ b[1] = VR_MAGIC \div ByteRange /\ b[2] = VR_MAGIC % ByteRange
       /\ b[3] = VR_PROTOCOL_VERSION /\ b[4] \in 0 .. VR_PKT_ERROR
    THEN <<"A", b[4]>> ELSE <<"X">>,
    IF b[6] \in 0 .. FlagRange - 1
    THEN <<"B", b[5], ByteRange * b[7] + b[8]>> ELSE <<"X">>>>

\* Nothing is lost or moved on the wire: a header that was decoded is
\* encoded as the bytes it came from, so that no two headers look alike to
\* the receiver and both sides agree on the byte order of the numbers.
RoundTrip == Polled => vr_packet_serialize(header) = wire

\* The parser model is right about bytes: ParserOps accepts the units of
\* eight bytes exactly when the code accepts the bytes, and finds the same
\* type, stream and length in them.
UnitsAgree ==
  Polled =>
    LET units == Abstract(wire)
    IN  /\ validated <=> Parser!validated(units)
        /\ validated =>
             Parser!vr_packet_header_deserialize(units)
               = [type |-> header.type, stream_id |-> header.stream_id,
                  payload_len |-> header.payload_len]
=============================================================================
