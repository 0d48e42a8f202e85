--------------------------- MODULE MCRingBuffer ----------------------------
(* RingBuffer for TLC.                                                      *)
EXTENDS RingBuffer, TLC

Symmetry == Permutations(Byte)
=============================================================================
