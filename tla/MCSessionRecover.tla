-------------------------- MODULE MCSessionRecover --------------------------
EXTENDS SessionRecover, TLC

(* Rows and servers are interchangeable. *)
Symmetry == Permutations(Rows) \cup Permutations(Servers)
=============================================================================
