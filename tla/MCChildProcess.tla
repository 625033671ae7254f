---------------------------- MODULE MCChildProcess ----------------------------
(* Instances of ChildProcess for TLC. *)
EXTENDS ChildProcess

=============================================================================
