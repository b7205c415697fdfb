----------------------------- MODULE CachedBuild -----------------------------
(***************************************************************************)
(* run_cached_build (cargo-zb/src/main.rs): the three phases of a build    *)
(* over a unit graph, with the keys of cargo-zb/src/hash.rs, the dynamic   *)
(* inputs of cargo-zb/src/cache/mod.rs and cargo-zb/src/harvest.rs, while  *)
(* a developer edits inputs, cleans target/ and kills builds.              *)
(*                                                                         *)
(*   lookup   units in topological order: restore what a recorded          *)
(*            dynamic-inputs manifest proves to be in the cache            *)
(*   build    cargo rebuilds what its own mtime check finds out of date    *)
(*   harvest  record dynamic inputs and store the bundles of the misses    *)
(*                                                                         *)
(* Hashes are taken to be collision free: a key is the term that is        *)
(* hashed.  An artifact is the term of everything it was compiled from.    *)
(* The cache is the one UnitCache promises: bundles are published whole.   *)
(***************************************************************************)
EXTENDS Naturals, Sequences

CONSTANTS
    Units,         \* the unit graph of the workspace
    Order,         \* its units, dependencies first (topo_order)
    Deps,          \* Deps[u]: direct dependencies of u
    Inputs,        \* files and environment variables
    Contents,      \* what an input can hold, its absence included
    Sources,       \* Sources[u]: the *.rs files of u's package
    Opened(_, _),  \* Opened(u, w): other inputs compiling u in w reads
    Dropped,       \* Dropped[u]: inputs among them that harvest_unit leaves out
    Harvested,     \* units with dep-info or build script output to harvest
    Collected,     \* units for which collect_unit_artifacts finds files
    NoArt, NoKey,
    MaxUpsets,     \* bound on edits, cleans and failed runs, taken together
    EditsMidRun    \* TRUE: the developer also edits while a build runs

VARIABLES
    world,    \* world[f]: current contents of input f
    upsets,   \* number of edits, cleans and failed runs so far
    dyn,      \* recorded manifests: <<static key, shape>>
    bundles,  \* stored bundles: [key, art]
    target,   \* target[u]: artifact of u in target/, with its fingerprint
    newer,    \* newer[u]: inputs and dependencies changed since target[u] was put
    phase,    \* "idle", "lookup", "build", "harvest" or "store"
    pos,      \* position in Order
    statics,  \* static keys, computed when the run starts
    full,     \* full keys known so far (hits, then also harvested units)
    quiet,    \* no edit since the run started
    fresh,    \* the last run succeeded, was quiet, and nothing changed since
    built     \* worlds in which a quiet run has succeeded

cache == <<dyn, bundles>>
run == <<phase, pos, statics, full>>
vars == <<world, upsets, dyn, bundles, target, newer,
          phase, pos, statics, full, quiet, fresh, built>>

Worlds == [Inputs -> Contents]

ASSUME GraphAssumption ==
    /\ Order \in Seq(Units)
    /\ \A u \in Units : \E i \in 1..Len(Order) : Order[i] = u
    /\ \A i, j \in 1..Len(Order) : Order[j] \in Deps[Order[i]] => j < i
    /\ Deps \in [Units -> SUBSET Units]
    /\ Sources \in [Units -> SUBSET Inputs]
    /\ Dropped \in [Units -> SUBSET Inputs]
    /\ \A u \in Units, w \in Worlds : Opened(u, w) \subseteq Inputs \ Sources[u]
    /\ Harvested \subseteq Units /\ Collected \subseteq Units
    /\ MaxUpsets \in Nat /\ EditsMidRun \in BOOLEAN

\* What a compilation opens depends on nothing but what it has read.
ASSUME ReadsAssumption ==
    \A u \in Units : \A v, w \in Worlds :
        (\A f \in Sources[u] \cup Opened(u, w) : v[f] = w[f]) => Opened(u, v) = Opened(u, w)
-----------------------------------------------------------------------------
(* Keys. *)

View(w, S) == [f \in S |-> w[f]]

\* compute_cache_keys
StaticKeys(w) ==
    LET key[u \in Units] == [unit |-> u,
                             src  |-> View(w, Sources[u]),
                             deps |-> {key[d] : d \in Deps[u]}]
    IN  key

\* Mutant of FullKey: the full keys of the dependencies are left out.
FullKeyNoDeps(static, shape, w, depKeys) ==
    [static |-> static, content |-> View(w, shape), deps |-> {}]

\* content_hash over the inputs named by shape, folded by combine_full_key with
\* the static key and the full keys of the dependencies.
FullKey(static, shape, w, depKeys) ==
    [static |-> static, content |-> View(w, shape), deps |-> depKeys]

\* The inputs harvest_unit names for u: rustc's dep-info or the build script's
\* rerun-if lines, without what the static key covers already.
Shape(u, opened) == opened \ Dropped[u]

ContainsUnit(key) == \E e \in bundles : e.key = key
-----------------------------------------------------------------------------
(* cargo. *)

\* Compiling u, with the artifacts of its dependencies that are in target/.
Compile(u, w, arts) ==
    [unit |-> u,
     view |-> View(w, Sources[u] \cup Opened(u, w)),
     deps |-> {arts[d] : d \in Deps[u]}]

\* What compiling everything from scratch in world w gives.
Ideal(w) ==
    LET art[u \in Units] == [unit |-> u,
                             view |-> View(w, Sources[u] \cup Opened(u, w)),
                             deps |-> {art[d] : d \in Deps[u]}]
    IN  art

\* cargo's fingerprint check: some input of the unit, or the artifact of a
\* dependency, has a younger mtime than the unit's own artifact.
Dirty(u) ==
    \/ target[u] = NoArt
    \/ newer[u] \cap (DOMAIN target[u].view \cup Deps[u]) # {}

\* The artifact of u is written to target/: it is now the youngest there.
Put(u, art) ==
    /\ target' = [target EXCEPT ![u] = art]
    /\ newer' = [v \in Units |-> IF v = u THEN {}
                                 ELSE IF u \in Deps[v] THEN newer[v] \cup {u}
                                 ELSE newer[v]]
-----------------------------------------------------------------------------
Init ==
    /\ world \in Worlds
    /\ upsets = 0
    /\ dyn = {} /\ bundles = {}
    /\ target = [u \in Units |-> NoArt]
    /\ newer = [u \in Units |-> {}]
    /\ phase = "idle" /\ pos = 1
    /\ statics = [u \in Units |-> NoKey]
    /\ full = [u \in Units |-> NoKey]
    /\ quiet = TRUE /\ fresh = FALSE
    /\ built = {}

Here == Order[pos]
More == pos <= Len(Order)
\* Mutant of DepKeys: dependencies without a full key are skipped.
DepKeysKnown(u) == {full[d] : d \in Deps[u]} \ {NoKey}

DepKeys(u) == {full[d] : d \in Deps[u]}

\* The run is over: what it kept in memory is gone.
Reset ==
    /\ phase' = "idle" /\ pos' = 1
    /\ statics' = [u \in Units |-> NoKey]
    /\ full' = [u \in Units |-> NoKey]

Succeed ==
    /\ Reset
    /\ fresh' = quiet
    /\ built' = IF quiet THEN built \cup {world} ELSE built

\* Setup: all static keys are computed before anything else.
Start ==
    /\ phase = "idle"
    /\ phase' = "lookup" /\ pos' = 1
    /\ statics' = StaticKeys(world)
    /\ quiet' = TRUE
    /\ UNCHANGED <<world, upsets, cache, target, newer, full, fresh, built>>

\* Mutant of Candidates: only one of the recorded manifests is tried.
CandidatesOfOne(u) ==
    LET recorded == {x \in dyn : x[1] = statics[u]}
    IN  IF NoKey \in DepKeys(u) \/ recorded = {} THEN {}
        ELSE {FullKey(statics[u], (CHOOSE x \in recorded : TRUE)[2], world, DepKeys(u))}

\* The keys under which phase 1 looks for u.
Candidates(u) ==
    IF NoKey \in DepKeys(u) THEN {}
    ELSE {FullKey(statics[u], m[2], world, DepKeys(u)) :
             m \in {x \in dyn : x[1] = statics[u]}}

\* A manifest leads to a stored bundle: it is restored to target/, unless the run
\* dies on the way (CrashRestoring).
Hit ==
    /\ phase = "lookup" /\ More
    /\ \E e \in bundles :
          /\ e.key \in Candidates(Here)
          /\ full' = [full EXCEPT ![Here] = e.key]
          /\ Put(Here, e.art)
    /\ pos' = pos + 1
    /\ UNCHANGED <<world, upsets, cache, phase, statics, quiet, fresh, built>>

Miss ==
    /\ phase = "lookup" /\ More
    /\ \A e \in bundles : e.key \notin Candidates(Here)
    /\ pos' = pos + 1
    /\ UNCHANGED <<world, upsets, cache, target, newer, phase, statics, full,
                   quiet, fresh, built>>

\* Without misses the run ends here, before cargo has been called.
EndLookup ==
    /\ phase = "lookup" /\ ~More
    /\ \/ /\ \A u \in Units : full[u] # NoKey
          /\ Succeed
       \/ /\ \E u \in Units : full[u] = NoKey
          /\ phase' = "build" /\ pos' = 1
          /\ UNCHANGED <<statics, full, fresh, built>>
    /\ UNCHANGED <<world, upsets, cache, target, newer, quiet>>

\* execute_build, one unit after the other; a failing build is a Crash.
BuildUnit ==
    /\ phase = "build" /\ More
    /\ IF Dirty(Here) THEN Put(Here, Compile(Here, world, target))
                      ELSE UNCHANGED <<target, newer>>
    /\ pos' = pos + 1
    /\ UNCHANGED <<world, upsets, cache, phase, statics, full, quiet, fresh, built>>

EndBuild ==
    /\ phase = "build" /\ ~More
    /\ phase' = "harvest" /\ pos' = 1
    /\ UNCHANGED <<world, upsets, cache, target, newer, statics, full, quiet, fresh, built>>

\* A unit that hit, or one without anything to harvest, or with a dependency
\* whose full key is not known, is passed over.
PassOver ==
    /\ phase = "harvest" /\ More
    /\ \/ full[Here] # NoKey
       \/ Here \notin Harvested
       \/ NoKey \in DepKeys(Here)
    /\ pos' = pos + 1
    /\ UNCHANGED <<world, upsets, cache, target, newer, phase, statics, full,
                   quiet, fresh, built>>

\* Mutant of HarvestShape: a manifest recorded earlier is used again.
HarvestShapeOld(u) ==
    LET recorded == {x \in dyn : x[1] = statics[u]}
    IN  IF recorded # {} THEN (CHOOSE x \in recorded : TRUE)[2]
        ELSE Shape(u, DOMAIN target[u].view \ Sources[u])

\* The manifest harvested of what is in target/.
HarvestShape(u) == Shape(u, DOMAIN target[u].view \ Sources[u])

\* Mutant of Record: no manifest is recorded.
RecordNothing(u, shape) == dyn

\* put_dynamic_inputs
Record(u, shape) == dyn \cup {<<statics[u], shape>>}

\* Full key from the static key of the start of the run, the inputs the artifact
\* was compiled from, by name, and their contents now.
Harvest ==
    /\ phase = "harvest" /\ More
    /\ full[Here] = NoKey /\ Here \in Harvested /\ NoKey \notin DepKeys(Here)
    /\ LET shape == HarvestShape(Here)
           key   == FullKey(statics[Here], shape, world, DepKeys(Here))
       IN  /\ full' = [full EXCEPT ![Here] = key]
           /\ \/ /\ ContainsUnit(key)
                 /\ dyn' = Record(Here, shape)
                 /\ pos' = pos + 1
                 /\ UNCHANGED phase
              \/ /\ ~ContainsUnit(key) /\ Here \notin Collected
                 /\ pos' = pos + 1
                 /\ UNCHANGED <<dyn, phase>>
              \/ /\ ~ContainsUnit(key) /\ Here \in Collected
                 /\ dyn' = Record(Here, shape)
                 /\ phase' = "store"
                 /\ UNCHANGED pos
    /\ UNCHANGED <<world, upsets, bundles, target, newer, statics,
                   quiet, fresh, built>>

\* Mutant of Store: the bundle is stored under the static key.
StoreStatic ==
    /\ phase = "store"
    /\ bundles' = bundles \cup {[key |-> statics[Here], art |-> target[Here]]}
    /\ phase' = "harvest" /\ pos' = pos + 1
    /\ UNCHANGED <<world, upsets, dyn, target, newer, statics, full,
                   quiet, fresh, built>>

\* store_unit (see FsCache)
Store ==
    /\ phase = "store"
    /\ bundles' = bundles \cup {[key |-> full[Here], art |-> target[Here]]}
    /\ phase' = "harvest" /\ pos' = pos + 1
    /\ UNCHANGED <<world, upsets, dyn, target, newer, statics, full,
                   quiet, fresh, built>>

EndHarvest ==
    /\ phase = "harvest" /\ ~More
    /\ Succeed
    /\ UNCHANGED <<world, upsets, cache, target, newer, quiet>>

\* The build fails or is killed.
Crash ==
    /\ upsets < MaxUpsets
    /\ phase # "idle"
    /\ Reset
    /\ upsets' = upsets + 1
    /\ fresh' = FALSE
    /\ UNCHANGED <<world, cache, target, newer, quiet, built>>

\* Some files of u are replaced by those of art, some are not: no artifact of any
\* compilation.  What cargo makes of it depends on which: it misses a file, or goes by
\* the new fingerprint or the old one, and sees or does not see that dependents are
\* older.
Torn(art) == [art EXCEPT !.deps = {NoArt}]

Tear(u, art) ==
    \E mark \in SUBSET {v \in Units : u \in Deps[v]} :
        /\ \/ /\ target' = [target EXCEPT ![u] = NoArt]
              /\ newer' = [v \in Units |-> newer[v] \cup IF v \in mark THEN {u} ELSE {}]
           \/ /\ target' = [target EXCEPT ![u] = Torn(art)]
              /\ newer' = [v \in Units |-> IF v = u THEN {}
                                           ELSE newer[v] \cup IF v \in mark THEN {u} ELSE {}]
           \/ /\ target[u] # NoArt
              /\ target' = [target EXCEPT ![u] = Torn(target[u])]
              /\ newer' = [v \in Units |-> newer[v] \cup IF v \in mark THEN {u} ELSE {}]

\* The run fails or is killed while restore_unit copies one file after the other.
CrashRestoring ==
    /\ upsets < MaxUpsets
    /\ phase = "lookup" /\ More
    /\ \E e \in bundles : e.key \in Candidates(Here) /\ Tear(Here, e.art)
    /\ Reset
    /\ upsets' = upsets + 1
    /\ fresh' = FALSE
    /\ UNCHANGED <<world, cache, quiet, built>>

Edit(f, c) ==
    /\ upsets < MaxUpsets
    /\ phase = "idle" \/ EditsMidRun
    /\ world[f] # c
    /\ world' = [world EXCEPT ![f] = c]
    /\ newer' = [u \in Units |-> newer[u] \cup {f}]
    /\ upsets' = upsets + 1
    /\ quiet' = FALSE /\ fresh' = FALSE
    /\ UNCHANGED <<cache, target, run, built>>

\* cargo clean, or a new checkout: target/ is gone, the cache is not.
Clean ==
    /\ upsets < MaxUpsets
    /\ phase = "idle"
    /\ target' = [u \in Units |-> NoArt]
    /\ newer' = [u \in Units |-> {}]
    /\ upsets' = upsets + 1
    /\ fresh' = FALSE
    /\ UNCHANGED <<world, cache, run, quiet, built>>

\* What cargo-zb does, apart from failing.
Progress ==
    \/ Start \/ Hit \/ Miss \/ EndLookup
    \/ BuildUnit \/ EndBuild
    \/ PassOver \/ Harvest \/ Store \/ EndHarvest

Next ==
    \/ Progress
    \/ Crash \/ CrashRestoring
    \/ \E f \in Inputs, c \in Contents : Edit(f, c)
    \/ Clean

Spec == Init /\ [][Next]_vars

\* A developer who keeps building, and a run that does not hang.
FairSpec == Spec /\ WF_vars(Progress)
-----------------------------------------------------------------------------
\* Among the rest, a key names one bundle, whatever happens during a run: what is
\* found under it by contains_unit is neither stored again nor replaced.
TypeOK ==
    /\ world \in Worlds
    /\ upsets \in 0..MaxUpsets
    /\ phase \in {"idle", "lookup", "build", "harvest", "store"}
    /\ pos \in 1..Len(Order) + 1
    /\ DOMAIN target = Units /\ DOMAIN newer = Units /\ DOMAIN full = Units
    /\ \A u \in Units : newer[u] \subseteq Inputs \cup Units
    /\ quiet \in BOOLEAN /\ fresh \in BOOLEAN
    /\ built \subseteq Worlds
    /\ \A e, f \in bundles : e.key = f.key => e.art = f.art

\* The key a unit ought to have in world w.
IdealKeys(w) ==
    LET key[u \in Units] == FullKey(StaticKeys(w)[u], Shape(u, Opened(u, w)), w,
                                    {key[d] : d \in Deps[u]})
    IN  key

ASSUME NoKeyAssumption == \A w \in Worlds, u \in Units : IdealKeys(w)[u] # NoKey
ASSUME NoArtAssumption == \A w \in Worlds, u \in Units : Ideal(w)[u] # NoArt

\* What compiling the inputs a key stands for gives, for every key.
SoundBundles ==
    {[key |-> IdealKeys(w)[u], art |-> Ideal(w)[u]] : w \in Worlds, u \in Units}

\* Every stored bundle is what compiling the inputs its key stands for gives:
\* nothing stale, and nothing of another world, is ever stored by phase 3.
CacheSound == bundles \subseteq SoundBundles

\* After a successful run target/ holds what a clean build of the current inputs
\* would: no hit restores an artifact of other inputs, and cargo rebuilds
\* whatever the restored files do not match.
RunCorrect == fresh => target = Ideal(world)

\* Inputs that were built once hit in every unit from then on, however they were
\* edited in between: the keys of phase 1 are those of phase 3.
BuiltWorldsHit ==
    quiet /\ world \in built => phase \notin {"build", "harvest", "store"}

\* However the inputs were edited before, a developer who stops editing and keeps
\* building ends with runs that restore everything and never call cargo.
Warms == <>[](phase \notin {"build", "harvest", "store"})
=============================================================================
