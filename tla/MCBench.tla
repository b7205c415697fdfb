------------------------------- MODULE MCBench -------------------------------
(* Instances of Bench for TLC. *)
EXTENDS Bench

=============================================================================
