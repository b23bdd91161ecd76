------------------------------ MODULE MCHostGate ------------------------------
(* HostGate on small instances. *)
EXTENDS HostGate, TLC

Alike == Permutations(Client)
=============================================================================
