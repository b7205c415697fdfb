------------------------------ MODULE MCFsCache ------------------------------
(* Instances of FsCache for TLC. *)
EXTENDS FsCache, TLC

\* Full keys of one static key and shape: the same sources and declared inputs
\* with different input contents.  "k3" is a unit of another static key.
SlotOf == [k \in Keys |-> IF k = "k3" THEN "s2" ELSE "s1"]

\* libfoo.rlib and libfoo.rmeta share the temporary name libfoo.tmp, as
\* with_extension("tmp") maps every extension of a stem to one name.
SharedTmp == [a \in Artifacts |-> "lib.tmp"]

\* Units of two files, of one file, and one for which target/ holds no file.
TwoOneNone == [k \in Keys |-> CASE k = "k1" -> <<"lib.rlib", "lib.rmeta">>
                                [] k = "k2" -> <<"lib.rmeta">>
                                [] k = "k3" -> <<>>]

Symmetry == Permutations(Procs) \cup Permutations(Builds)
=============================================================================
