---------------------------- MODULE MCUnitWalks ----------------------------
(* Instances of UnitWalks for TLC: all graphs over 1..4 with dependencies that  *)
(* have higher numbers, hence up to renaming all acyclic ones.                  *)
EXTENDS UnitWalks

Dags == {g \in [Units -> SUBSET Units] : \A u \in Units : \A d \in g[u] : u < d}
=============================================================================
