------------------------------ MODULE MCKvCache -----------------------------
(* Instances of KvCache for TLC: k1 and k2 are two contents of one static key  *)
(* and shape, k3 is another unit, k4 has no files to store.                    *)
EXTENDS KvCache, TLC

CONSTANTS k1, k2, k3, k4, s1, s2, a1, a2

UnitOf == [k \in Keys |-> IF k = k3 THEN s2 ELSE s1]
Bundles == [k \in Keys |-> CASE k = k1 -> <<a1, a2>>
                             [] k = k2 -> <<a1>>
                             [] k = k3 -> <<a2>>
                             [] k = k4 -> <<>>]

Symmetry == Permutations(Procs) \cup Permutations(Builds)
=============================================================================
