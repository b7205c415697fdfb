---------------------------- MODULE MCTimeCommand ----------------------------
(* Instances of TimeCommand for TLC. *)
EXTENDS TimeCommand, TLC

\* Thread ids but the root's are interchangeable.
Symmetry == Permutations(Tids \ {Root})
=============================================================================
