------------------------------ MODULE UnitCache ------------------------------
(***************************************************************************)
(* What every cache backend of cargo-zb promises the build driver (the     *)
(* trait CacheBackend): under a unit's full key there is either nothing or *)
(* one bundle, the bundle appears in one step, all its files come from one *)
(* build of the unit, and it never changes again.                          *)
(*                                                                         *)
(* The concrete backends (FsCache, KvCache) are shown to implement this    *)
(* specification through a refinement mapping for `bundle`.                *)
(***************************************************************************)
CONSTANTS
    Keys,        \* full keys of units (hash::CacheKey)
    Artifacts,   \* relative paths of artifact files
    Builds,      \* identities of compilations that produced a bundle
    NoBundle     \* "nothing stored under this key"

VARIABLE bundle  \* bundle[k]: the files stored under k, with the build of each

\* A bundle whose files all come from build b.
BundleFrom(files, b) == [a \in files |-> b]

Init == bundle = [k \in Keys |-> NoBundle]

\* finalize_unit: the bundle becomes visible, whole.
Publish(k) ==
    /\ bundle[k] = NoBundle
    /\ \E files \in SUBSET Artifacts, b \in Builds :
          bundle' = [bundle EXCEPT ![k] = BundleFrom(files, b)]

Next == \E k \in Keys : Publish(k)

Spec == Init /\ [][Next]_bundle

\* What is left of the promise where nothing keeps two builds of a unit apart:
\* another whole bundle may take the place of the first.
Replace(k) ==
    /\ bundle[k] # NoBundle
    /\ \E files \in SUBSET Artifacts, b \in Builds :
          bundle' = [bundle EXCEPT ![k] = BundleFrom(files, b)]

NextReplacing == Next \/ \E k \in Keys : Replace(k)
=============================================================================
