------------------------------ MODULE Protocol -----------------------------
(***************************************************************************)
(* The protocol state of one connection under every sequence of packets    *)
(* the parser can emit.                                                    *)
(***************************************************************************)
EXTENDS ProtocolOps, FiniteSets

VARIABLES
  conn,       \* proto_state, active_streams, streams_bitmap
  response,   \* what the last packet was answered
  strayClose  \* history: some STREAM_CLOSE named a stream that was not open

vars == <<conn, response, strayClose>>

Packets == [type : PacketType, stream_id : StreamId]

Init == conn = ProtoZero /\ response = NoResponse /\ strayClose = FALSE

\* A STREAM_CLOSE for a stream that is not open.
Stray(pkt) ==
  /\ conn.proto_state = "ESTABLISHED"
  /\ pkt.type = "STREAM_CLOSE"
  /\ BitOf(pkt.stream_id) \notin conn.streams_bitmap

Receive(pkt) ==
  /\ conn' = vr_protocol_handle_packet(conn, pkt).conn
  /\ response' = vr_protocol_handle_packet(conn, pkt).response
  /\ strayClose' = (strayClose \/ Stray(pkt))

Next == \E pkt \in Packets : Receive(pkt)

Spec == Init /\ [][Next]_vars

-----------------------------------------------------------------------------
(* Properties *)

\* The protocol fields of vr_connection_t have their types.
TypeOK ==
  /\ conn.proto_state \in {"INIT", "CONNECTING", "ESTABLISHED", "CLOSED"}
  /\ conn.active_streams \in 0 .. UInt8Range - 1
  /\ conn.streams_bitmap \subseteq Word \X Bit
  /\ response.type \in PacketType \cup {"NO_RESPONSE"}
  /\ response.stream_id \in StreamId
  /\ strayClose \in BOOLEAN

\* As long as only open streams are closed, the separately kept counter and
\* the bitmap agree, also when all 256 streams are open and the uint8_t
\* counter has wrapped to 0, and the connection leaves ESTABLISHED exactly
\* when the last stream goes.
CountMatchesBitmap ==
  ~strayClose =>
    /\ conn.active_streams = Cardinality(conn.streams_bitmap) % UInt8Range
    /\ conn.proto_state = "ESTABLISHED" <=> conn.streams_bitmap # {}

\* Streams are handed out one at a time, each the lowest free one, and a
\* STREAM_OPEN is refused only when every stream of the bitmap is taken: a
\* client never gets a stream that somebody still holds.
OpenGivesFreshStream ==
  [][\A n \in StreamId :
       (/\ conn.proto_state = "ESTABLISHED"
        /\ Receive([type |-> "STREAM_OPEN", stream_id |-> n])) =>
         \/ /\ response'.type = "STREAM_OPEN_ACK"
            /\ LET id == response'.stream_id
               IN  /\ BitOf(id) \notin conn.streams_bitmap
                   /\ \A lower \in 0 .. id - 1 :
                        BitOf(lower) \in conn.streams_bitmap
                   /\ conn'.streams_bitmap
                        = conn.streams_bitmap \cup {BitOf(id)}
         \/ /\ response'.type = "ERROR"
            /\ \A id \in StreamId : BitOf(id) \in conn.streams_bitmap]_vars

\* README.md, "Streams": "When the last stream is removed, the protocol
\* state becomes VR_PROTO_CLOSED": in CLOSED no stream is left.
ClosedHasNoStream ==
  conn.proto_state = "CLOSED" => conn.streams_bitmap = {}
=============================================================================
