----------------------------- MODULE MCReactor -----------------------------
(* Reactor for TLC: which clients and addresses are interchangeable.        *)
EXTENDS Reactor, TLC

Symmetry == Permutations(Client) \cup Permutations(Conn)
=============================================================================
