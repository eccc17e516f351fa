---------------------------- MODULE MCSocketTable ----------------------------
(* SocketTable for TLC: clients of the streaming port are interchangeable. *)
EXTENDS SocketTable, TLC

Symmetry == Permutations(Client)
=============================================================================
