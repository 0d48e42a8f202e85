----------------------------- MODULE MCPacket ------------------------------
(***************************************************************************)
(* The headers for the model checker, at the real widths: a PING header in *)
(* which two neighbouring bytes take all their values.                     *)
(***************************************************************************)
EXTENDS Packet

Ping == <<87, 137, 1, 3, 0, 0, 0, 0>>

MCInit ==
  \E i \in {1, 3, 5, 7}, x \in Byte, y \in Byte :
    Arrives([Ping EXCEPT ![i] = x, ![i + 1] = y])

MCSpec == MCInit /\ [][Next]_vars
=============================================================================
