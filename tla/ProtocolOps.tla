---------------------------- MODULE ProtocolOps ----------------------------
(***************************************************************************)
(* The protocol handler (src/src/protocol/protocol.c): what a packet does  *)
(* to the protocol part of a connection, and the response it produces.     *)
(*                                                                         *)
(* streams_bitmap is the set of the <<word, bit>> pairs that are set.      *)
(***************************************************************************)
EXTENDS Integers

CONSTANTS
  Words,       \* 4: the words of streams_bitmap
  WordBits,    \* 64: the bits of a word
  UInt8Range   \* 2^8: active_streams and stream_id are uint8_t

\* 4 * 64 = 2^8: every stream_id names one bit.
ASSUME StreamAssumption ==
  /\ Words \in Nat \ {0}
  /\ WordBits \in Nat \ {0}
  /\ UInt8Range = Words * WordBits
  /\ UInt8Range > 1

Word == 0 .. Words - 1
Bit == 0 .. WordBits - 1
StreamId == 0 .. UInt8Range - 1

\* The values of vr_packet_type_t, and the 0 of a type nobody assigned.
PacketType == {"NONE", "CONNECT", "CONNECT_ACK", "PING", "PONG", "STREAM_OPEN",
               "STREAM_OPEN_ACK", "STREAM_CLOSE", "PUBLISH", "ERROR"}

NoResponse == [type |-> "NO_RESPONSE", stream_id |-> 0]

\* The protocol part of the zeroed vr_connection_t.
ProtoZero == [proto_state |-> "INIT", active_streams |-> 0,
              streams_bitmap |-> {}]

Reply(c, type, stream_id) ==
  [conn |-> c, response |-> [type |-> type, stream_id |-> stream_id]]
NoReply(c) == [conn |-> c, response |-> NoResponse]

-----------------------------------------------------------------------------
\* Mutant: the default stream is counted but not marked.
handle_init_unmarked(c, pkt) ==
  IF pkt.type = "CONNECT"
  THEN Reply([c EXCEPT !.proto_state = "ESTABLISHED", !.active_streams = 1],
             "CONNECT_ACK", 0)
  ELSE NoReply(c)

HandleInit(c, pkt) ==
  IF pkt.type = "CONNECT"
  THEN Reply([proto_state |-> "ESTABLISHED", active_streams |-> 1,
              streams_bitmap |-> c.streams_bitmap \cup {<<0, 0>>}],
             "CONNECT_ACK", 0)
  ELSE NoReply(c)

HandleConnecting(c, pkt) ==
  NoReply([c EXCEPT !.proto_state =
             IF pkt.type = "CONNECT_ACK" THEN "ESTABLISHED" ELSE @])

\* The scan of the words and __builtin_ctzll() of the first that has room.
FreeBits(c) == (Word \X Bit) \ c.streams_bitmap

\* Mutant: any word's first free bit, not the first word's.
first_free_bit(c) ==
  CHOOSE s \in FreeBits(c) :
    \A t \in FreeBits(c) : s[2] < t[2] \/ (s[2] = t[2] /\ s[1] <= t[1])

FirstFree(c) ==
  CHOOSE s \in FreeBits(c) :
    \A t \in FreeBits(c) : s[1] < t[1] \/ (s[1] = t[1] /\ s[2] <= t[2])

\* Mutant: the counter does not wrap.
stream_open_wide(c, pkt) ==
  IF FreeBits(c) = {} THEN Reply(c, "ERROR", pkt.stream_id)
  ELSE LET s == FirstFree(c)
       IN  Reply([c EXCEPT !.streams_bitmap = @ \cup {s},
                           !.active_streams = @ + 1],
                 "STREAM_OPEN_ACK", WordBits * s[1] + s[2])

StreamOpen(c, pkt) ==
  IF FreeBits(c) = {} THEN Reply(c, "ERROR", pkt.stream_id)
  ELSE LET s == FirstFree(c)
       IN  Reply([c EXCEPT !.streams_bitmap = @ \cup {s},
                           !.active_streams = (@ + 1) % UInt8Range],
                 "STREAM_OPEN_ACK", WordBits * s[1] + s[2])

BitOf(stream_id) == <<stream_id \div WordBits, stream_id % WordBits>>

\* Whether the stream was open is not looked at.  A close that is not the
\* last is answered with the zeroed type of the calloc()ed response.
StreamClose(c, pkt) ==
  LET active == (c.active_streams - 1) % UInt8Range
      closed == [proto_state |-> IF active = 0 THEN "CLOSED"
                                 ELSE c.proto_state,
                 active_streams |-> active,
                 streams_bitmap |-> c.streams_bitmap \ {BitOf(pkt.stream_id)}]
  IN  IF active = 0 THEN NoReply(closed)
      ELSE Reply(closed, "NONE", pkt.stream_id)

HandleEstablished(c, pkt) ==
  CASE pkt.type = "PING"         -> Reply(c, "PONG", pkt.stream_id)
    [] pkt.type = "STREAM_OPEN"  -> StreamOpen(c, pkt)
    [] pkt.type = "STREAM_CLOSE" -> StreamClose(c, pkt)
    [] pkt.type \in {"PUBLISH", "ERROR"} -> NoReply(c)
    [] OTHER                     -> Reply(c, "ERROR", pkt.stream_id)

\* The default branch is taken in VR_PROTO_CLOSED.
HandleOther(c) == NoReply([c EXCEPT !.proto_state = "INIT"])

\* Whether the handler allocates a response for the packet.
allocates(c, pkt) ==
  \/ c.proto_state = "INIT" /\ pkt.type = "CONNECT"
  \/ c.proto_state = "ESTABLISHED"

vr_protocol_handle_packet(c, pkt) ==
  CASE c.proto_state = "INIT"        -> HandleInit(c, pkt)
    [] c.proto_state = "CONNECTING"  -> HandleConnecting(c, pkt)
    [] c.proto_state = "ESTABLISHED" -> HandleEstablished(c, pkt)
    [] OTHER                         -> HandleOther(c)
=============================================================================
