--------------------------- MODULE MCConnManager ---------------------------
(* ConnManager for TLC.                                                     *)
EXTENDS ConnManager

=============================================================================
