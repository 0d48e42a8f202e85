----------------------------- MODULE ParserOps -----------------------------
(***************************************************************************)
(* The incremental packet parser (src/src/protocol/parser.c) and the wire  *)
(* form of a packet (src/src/protocol/packet.c).                           *)
(*                                                                         *)
(* Streams are sequences of units of four bytes.  A header on the wire is  *)
(* two units, <<"A", type>> (magic, version, type) and                     *)
(* <<"B", stream_id, payload_len>> (stream_id, flags, payload_len, in      *)
(* units); <<"X">> is a unit whose magic, version, type or flags are bad,  *)
(* <<"D">> a unit of payload and <<"-">> one that nobody reads.            *)
(***************************************************************************)
EXTENDS Integers, Sequences

CONSTANT HeaderSize  \* 3: sizeof(vr_packet_header_t) is 12, its enum being 4

ASSUME HeaderAssumption == HeaderSize \in Nat /\ HeaderSize >= 2

NoHeader == [type |-> "NONE", stream_id |-> 0, payload_len |-> 0]

ParserZero == [state |-> "HEADER_WAIT", header |-> NoHeader]

Drop(q, n) == SubSeq(q, n + 1, Len(q))

-----------------------------------------------------------------------------
\* The eight bytes that vr_packet_serialize() writes.
vr_packet_serialize(pkt) ==
  <<<<"A", pkt.type>>, <<"B", pkt.stream_id, pkt.payload_len>>>>
    \o [i \in 1 .. pkt.payload_len |-> <<"D">>]

\* The validation of vr_parser_poll(): a type of 0 passes.
validated(q) == q[1][1] = "A" /\ q[2][1] = "B"

\* Eight of the HeaderSize units' bytes are looked at.
vr_packet_header_deserialize(q) ==
  [type |-> q[1][2], stream_id |-> q[2][2], payload_len |-> q[2][3]]

Polled(result, parser, q, pkt) ==
  [result |-> result, parser |-> parser, q |-> q, pkt |-> pkt]

\* Mutant: the state is not advanced before the early return.
poll_payload_forgets(header, q, mem) ==
  IF Len(q) < header.payload_len THEN Polled("EMPTY", ParserZero, q, NoHeader)
  ELSE IF header.payload_len > 0 /\ ~mem
  THEN Polled("ERROR", ParserZero, q, NoHeader)
  ELSE Polled("SUCCESS", ParserZero, Drop(q, header.payload_len), header)

\* PAYLOAD_WAIT: `mem' says whether the payload's malloc() succeeds.  A
\* packet without payload leaves the parser without coming here.
PollPayload(header, q, mem) ==
  IF Len(q) < header.payload_len
  THEN Polled("EMPTY", [state |-> "PAYLOAD_WAIT", header |-> header],
              q, NoHeader)
  ELSE IF header.payload_len > 0 /\ ~mem
  THEN Polled("ERROR", [state |-> "PAYLOAD_WAIT", header |-> header],
              q, NoHeader)
  ELSE Polled("SUCCESS", ParserZero, Drop(q, header.payload_len), header)

vr_parser_poll(parser, q, mem) ==
  IF parser.state = "PAYLOAD_WAIT" THEN PollPayload(parser.header, q, mem)
  ELSE IF Len(q) < HeaderSize THEN Polled("EMPTY", parser, q, NoHeader)
  ELSE IF ~validated(q)
  THEN Polled("ERROR", ParserZero, Drop(q, HeaderSize), NoHeader)
  ELSE PollPayload(vr_packet_header_deserialize(q), Drop(q, HeaderSize), mem)
=============================================================================
