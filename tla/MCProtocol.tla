----------------------------- MODULE MCProtocol ----------------------------
(* Protocol for TLC: the constants are given in the configurations.         *)
EXTENDS Protocol
=============================================================================
