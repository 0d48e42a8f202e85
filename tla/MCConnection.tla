---------------------------- MODULE MCConnection ---------------------------
(***************************************************************************)
(* Scripts for the model checker: what the client of Connection sends.     *)
(***************************************************************************)
EXTENDS Connection, TLC

Pkt(type, payload_len) ==
  [type |-> type, stream_id |-> 0, payload_len |-> payload_len]

\* Every packet is answered; the answers outgrow the write ring.
Pipelined == {<<Pkt("CONNECT", 0), Pkt("PING", 0), Pkt("PING", 2),
                Pkt("STREAM_OPEN", 0), Pkt("PING", 0)>>}

\* The same for small rings: one response fills them.
Answered == {<<Pkt("CONNECT", 0), Pkt("PING", 1), Pkt("PING", 0), Pkt("PING", 0)>>}

\* A packet without an answer, and one that is not valid.
Mixed == {<<Pkt("CONNECT", 0), Pkt("PUBLISH", 1), Pkt("PING", 0)>>,
          <<Pkt("PUBLISH", 0), Pkt("CONNECT", 0)>>,
          <<Pkt("CONNECT", 0), Pkt("BAD", 0), Pkt("PING", 0)>>}

Traffic == Pipelined \cup Mixed

\* What the README documents a client to send, and a packet whose payload
\* has the largest length a header can announce.
Documented == {<<Pkt("CONNECT", 0), Pkt("PING", 0)>>}

Large == {<<Pkt("CONNECT", 0), Pkt("PING", MaxSize - 1)>>}
=============================================================================
