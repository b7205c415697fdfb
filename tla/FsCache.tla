------------------------------- MODULE FsCache -------------------------------
(***************************************************************************)
(* The file-system cache backend (cargo-zb/src/cache/fs.rs) under the      *)
(* store and restore loops of cargo-zb/src/artifacts.rs, as driven by      *)
(* run_cached_build (cargo-zb/src/main.rs) for one unit at a time.         *)
(*                                                                         *)
(* A cargo-zb process looks its unit up, restores it on a hit, and on a    *)
(* miss builds it and stores dynamic inputs, artifacts and manifest, in    *)
(* this order, each by "create <name>.tmp; write; rename".  Any number of  *)
(* processes share the cache directory; a process may die between any two  *)
(* system calls and leave its files behind.                                *)
(*                                                                         *)
(* No file has two names, so a file is identified by the path that names   *)
(* it now: a writer whose temporary file is renamed under it has the       *)
(* renamed file open, and keeps writing into it.                           *)
(***************************************************************************)
EXTENDS Naturals, Sequences

CONSTANTS
    Procs,        \* cargo-zb processes sharing the cache directory
    Keys,         \* full keys
    Slots,        \* (static key, shape hash) pairs: names of dynamic/*.json files
    Slot,         \* Slot[k]: the manifest slot from which full key k is derived
    Artifacts,    \* artifact names inside a bundle
    TmpNames,     \* names of temporary files next to artifacts
    TmpName,      \* TmpName[a]: Path::with_extension("tmp") of artifact a
    BundleOf,     \* BundleOf[k]: the sorted files collect_unit_artifacts finds
    Builds,       \* distinguishable outcomes of building a unit
    NoKey, NoBuild, NoPath,
    Absent,       \* no file of this name
    Partial,      \* a file created or truncated, and not completely written
    NoBundle,     \* see UnitCache
    Corrupt,      \* the abstract view of a file that is not what its name says
    Exclusive     \* TRUE: no two processes work on the same slot at once, and
                  \* none changes in target/ what another one stores

VARIABLES
    files,   \* files[path]: Absent, Partial or a whole Content
    pc,      \* where process p is in run_cached_build
    io,      \* which system call of a file write comes next
    key,     \* the full key process p works on
    build,   \* the build whose artifacts p stores
    todo,    \* store_unit: files still to store, in order
    listed,  \* store_unit: files stored so far (the manifest vector)
    fd,      \* the path naming the file p has open for writing (NoPath: none)
    left,    \* restore_unit: files still to restore
    got      \* restore_unit: what was written to target/ for each file

vars == <<files, pc, io, key, build, todo, listed, fd, left, got>>
process == <<pc, io, key, build, todo, listed, fd, left, got>>
-----------------------------------------------------------------------------
(* Paths below the cache root. *)

DynPath(s)  == <<"dynamic", s, "json">>
DynTmp(s)   == <<"dynamic", s, "tmp">>
ManPath(k)  == <<"units", k, "json">>
ManTmp(k)   == <<"units", k, "tmp">>
ArtPath(k, n) == <<"artifacts", k, n>>

Paths ==
    {DynPath(s) : s \in Slots} \cup {DynTmp(s) : s \in Slots}
    \cup {ManPath(k) : k \in Keys} \cup {ManTmp(k) : k \in Keys}
    \cup {ArtPath(k, n) : k \in Keys, n \in Artifacts \cup TmpNames}

\* What a completely written file holds: the path it was written for, the build
\* it came from (artifacts only) and the artifacts it lists (manifests only).
Content == [dest : Paths, build : Builds \cup {NoBuild}, list : SUBSET Artifacts]

ASSUME ConstantsAssumption ==
    /\ Slot \in [Keys -> Slots]
    /\ TmpName \in [Artifacts -> TmpNames]
    /\ BundleOf \in [Keys -> Seq(Artifacts)]
    /\ Exclusive \in BOOLEAN
    /\ NoKey \notin Keys
    /\ NoBuild \notin Builds
    /\ NoPath \notin Paths
    /\ Absent \notin Content \cup {Partial}
    /\ Partial \notin Content
    /\ \A S \in SUBSET Artifacts, b \in Builds : NoBundle # [a \in S |-> b]

Writing == {"touch", "dyn", "art", "manifest"}

\* The file process p is writing and the temporary file it goes through.
Dest(p) ==
    CASE pc[p] \in {"touch", "dyn"} -> DynPath(Slot[key[p]])
      [] pc[p] = "art"              -> ArtPath(key[p], Head(todo[p]))
      [] pc[p] = "manifest"         -> ManPath(key[p])

\* Mutant of Tmp: files are written in place.
TmpInPlace(p) == Dest(p)

Tmp(p) ==
    CASE pc[p] \in {"touch", "dyn"} -> DynTmp(Slot[key[p]])
      [] pc[p] = "art"              -> ArtPath(key[p], TmpName[Head(todo[p])])
      [] pc[p] = "manifest"         -> ManTmp(key[p])

Payload(p) ==
    [dest  |-> Dest(p),
     build |-> IF pc[p] = "art" THEN build[p] ELSE NoBuild,
     list  |-> IF pc[p] = "manifest" THEN listed[p] ELSE {}]

Exists(path) == files[path] # Absent

\* contains_unit: manifest.json exists
ContainsUnit(k) == Exists(ManPath(k))

-----------------------------------------------------------------------------
Init ==
    /\ files = [path \in Paths |-> Absent]
    /\ pc = [p \in Procs |-> "idle"]
    /\ io = [p \in Procs |-> "create"]
    /\ key = [p \in Procs |-> NoKey]
    /\ build = [p \in Procs |-> NoBuild]
    /\ todo = [p \in Procs |-> <<>>]
    /\ listed = [p \in Procs |-> {}]
    /\ fd = [p \in Procs |-> NoPath]
    /\ left = [p \in Procs |-> {}]
    /\ got = [p \in Procs |-> {}]

\* The run of p is over and its memory is gone.
Forget(p) ==
    /\ pc' = [pc EXCEPT ![p] = "idle"]
    /\ io' = [io EXCEPT ![p] = "create"]
    /\ key' = [key EXCEPT ![p] = NoKey]
    /\ build' = [build EXCEPT ![p] = NoBuild]
    /\ todo' = [todo EXCEPT ![p] = <<>>]
    /\ listed' = [listed EXCEPT ![p] = {}]
    /\ left' = [left EXCEPT ![p] = {}]
    /\ got' = [got EXCEPT ![p] = {}]

\* ... and its open file is closed.
Halt(p) == Forget(p) /\ fd' = [fd EXCEPT ![p] = NoPath]

Goto(p, label) == pc' = [pc EXCEPT ![p] = label]
-----------------------------------------------------------------------------
(* Phase 1: lookup and restore. *)

\* list_dynamic_inputs.  A recorded entry leads to the full key; without one, or
\* when a dependency missed, the unit is a miss.  An entry that does not parse
\* makes the whole run fail before it changes anything.
Begin(p, k) ==
    /\ pc[p] = "idle"
    /\ Exclusive => \A q \in Procs : pc[q] # "idle" => Slot[key[q]] # Slot[k]
    /\ files[DynPath(Slot[k])] # Partial
    /\ \/ Exists(DynPath(Slot[k])) /\ Goto(p, "probe")
       \/ Goto(p, "build")
    /\ key' = [key EXCEPT ![p] = k]
    /\ UNCHANGED <<files, io, build, todo, listed, fd, left, got>>

Probe(p) ==
    /\ pc[p] = "probe"
    /\ Goto(p, IF ContainsUnit(key[p]) THEN "list" ELSE "build")
    /\ UNCHANGED <<files, io, key, build, todo, listed, fd, left, got>>

\* Mutant of Listed: the directory of the bundle is listed, not its manifest.
ListedDirectory(k) == {n \in Artifacts \cup TmpNames : Exists(ArtPath(k, n))}

\* list_artifacts: the names in manifest.json, none if there is no such file.
Listed(k) == IF ContainsUnit(k) THEN files[ManPath(k)].list ELSE {}

\* restore_unit reads the manifest; a torn one is a parse error (see Crash).
ListArtifacts(p) ==
    /\ pc[p] = "list"
    /\ files[ManPath(key[p])] # Partial
    /\ left' = [left EXCEPT ![p] = Listed(key[p])]
    /\ Goto(p, "restore")
    /\ UNCHANGED <<files, io, key, build, todo, listed, fd, got>>

\* restore_artifact: a file that is not there is only warned about.
RestoreArtifact(p) ==
    /\ pc[p] = "restore"
    /\ \E a \in left[p] :
          LET path == ArtPath(key[p], a) IN
          /\ left' = [left EXCEPT ![p] = @ \ {a}]
          /\ got' = [got EXCEPT ![p] = @ \cup {<<a, files[path]>>}]
    /\ UNCHANGED <<files, pc, io, key, build, todo, listed, fd>>

RestoreDone(p) ==
    /\ pc[p] = "restore"
    /\ left[p] = {}
    /\ Halt(p)
    /\ UNCHANGED files
-----------------------------------------------------------------------------
(* Phases 2 and 3: build, then harvest. *)

Build(p) ==
    /\ pc[p] = "build"
    /\ \E b \in Builds : build' = [build EXCEPT ![p] = b]
    /\ Goto(p, "check")
    /\ UNCHANGED <<files, io, key, todo, listed, fd, left, got>>

\* Mutant of CheckStored: the unit is stored without asking contains_unit.
CheckStoredBlind(p) ==
    /\ pc[p] = "check"
    /\ \/ /\ BundleOf[key[p]] # <<>>
          /\ Goto(p, "dyn")
          /\ todo' = [todo EXCEPT ![p] = BundleOf[key[p]]]
          /\ UNCHANGED <<io, key, build, listed, fd, left, got>>
       \/ BundleOf[key[p]] = <<>> /\ Halt(p)
    /\ UNCHANGED files

\* Mutant of CheckStored: put_dynamic_inputs is forgotten before store_unit.
CheckStoredNoInputs(p) ==
    /\ pc[p] = "check"
    /\ \/ /\ ~ContainsUnit(key[p]) /\ BundleOf[key[p]] # <<>>
          /\ Goto(p, "art")
          /\ todo' = [todo EXCEPT ![p] = BundleOf[key[p]]]
          /\ UNCHANGED <<io, key, build, listed, fd, left, got>>
       \/ /\ ContainsUnit(key[p]) \/ BundleOf[key[p]] = <<>>
          /\ Halt(p)
    /\ UNCHANGED files

\* The unit may be in the cache already, if it was rebuilt because a dependency
\* missed or was published since Probe: then only the snapshot of its dynamic
\* inputs is refreshed.  A unit without files is not stored at all.
CheckStored(p) ==
    /\ pc[p] = "check"
    /\ \/ /\ ContainsUnit(key[p])
          /\ Goto(p, "touch")
          /\ UNCHANGED <<io, key, build, todo, listed, fd, left, got>>
       \/ /\ ~ContainsUnit(key[p])
          /\ BundleOf[key[p]] # <<>>
          /\ Goto(p, "dyn")
          /\ todo' = [todo EXCEPT ![p] = BundleOf[key[p]]]
          /\ UNCHANGED <<io, key, build, listed, fd, left, got>>
       \/ /\ ~ContainsUnit(key[p])
          /\ BundleOf[key[p]] = <<>>
          /\ Halt(p)
    /\ UNCHANGED files

\* File::create on the temporary path: a new file, or the old one truncated.  Where
\* copy_file_range does not work the copy begins again, with another File::create.
CreateTmp(p) ==
    /\ pc[p] \in Writing /\ (io[p] = "create" \/ (pc[p] = "art" /\ io[p] = "fill"))
    /\ files' = [files EXCEPT ![Tmp(p)] = Partial]
    /\ fd' = [fd EXCEPT ![p] = Tmp(p)]
    /\ io' = [io EXCEPT ![p] = "fill"]
    /\ UNCHANGED <<pc, key, build, todo, listed, left, got>>

\* What a write leaves in the file: the payload, or less if an artifact is cut short
\* in target/ while it is copied, which copy_file_range takes for its end.
Written(p) == {Payload(p)} \cup (IF pc[p] = "art" /\ ~Exclusive THEN {Partial} ELSE {})

\* The write, or the copy_file_range loop, goes to the open file, whatever its
\* name is by now; it is lost if the file was replaced and has no name.
FillTmp(p) ==
    /\ pc[p] \in Writing /\ io[p] = "fill"
    /\ \E data \in Written(p) :
          files' = IF fd[p] = NoPath THEN files ELSE [files EXCEPT ![fd[p]] = data]
    /\ fd' = [fd EXCEPT ![p] = NoPath]
    /\ io' = [io EXCEPT ![p] = "rename"]
    /\ UNCHANGED <<pc, key, build, todo, listed, left, got>>

\* store_unit's loop goes on to the next file, or to finalize_unit.
NextArtifact(p, stored) ==
    /\ Goto(p, IF Tail(todo[p]) = <<>> THEN "manifest" ELSE "art")
    /\ todo' = [todo EXCEPT ![p] = Tail(@)]
    /\ listed' = [listed EXCEPT ![p] = @ \cup stored]
    /\ io' = [io EXCEPT ![p] = "create"]
    /\ UNCHANGED <<key, build, left, got>>

\* What follows a file that is in place: the run ends after a refreshed
\* snapshot or the manifest of the bundle, otherwise store_unit goes on.
AfterWrite(p) ==
    \/ pc[p] \in {"touch", "manifest"} /\ Forget(p)
    \/ /\ pc[p] = "dyn"
       /\ Goto(p, "art")
       /\ io' = [io EXCEPT ![p] = "create"]
       /\ UNCHANGED <<key, build, todo, listed, left, got>>
    \/ pc[p] = "art" /\ NextArtifact(p, {Head(todo[p])})

\* rename(tmp, dest) works on names: it moves the file that is called tmp by
\* now, together with the handles open on it, and unlinks the old dest.
RenameTmp(p) ==
    /\ pc[p] \in Writing /\ io[p] = "rename"
    /\ Exists(Tmp(p))
    /\ IF Tmp(p) = Dest(p) THEN UNCHANGED <<files, fd>>
       ELSE /\ files' = [files EXCEPT ![Dest(p)] = files[Tmp(p)], ![Tmp(p)] = Absent]
            /\ fd' = [q \in Procs |-> CASE fd[q] = Tmp(p)  -> Dest(p)
                                        [] fd[q] = Dest(p) -> NoPath
                                        [] OTHER           -> fd[q]]
    /\ AfterWrite(p)

\* rename fails when another process already moved the temporary file.
RenameFails(p) ==
    /\ pc[p] \in Writing /\ io[p] = "rename"
    /\ ~Exists(Tmp(p))
    /\ Halt(p)
    /\ UNCHANGED files

\* store_unit skips a file that vanished from target/ in the meantime.
SkipVanished(p) ==
    /\ pc[p] = "art" /\ io[p] = "create"
    /\ NextArtifact(p, {})
    /\ UNCHANGED <<files, fd>>

\* The process is killed, cargo's build fails, or an error is returned.
Crash(p) ==
    /\ pc[p] # "idle"
    /\ Halt(p)
    /\ UNCHANGED files

Step(p) ==
    \/ Probe(p) \/ ListArtifacts(p) \/ RestoreArtifact(p) \/ RestoreDone(p)
    \/ Build(p) \/ CheckStored(p)
    \/ CreateTmp(p) \/ FillTmp(p) \/ RenameTmp(p) \/ RenameFails(p)
    \/ SkipVanished(p)

Next ==
    \E p \in Procs :
       \/ \E k \in Keys : Begin(p, k)
       \/ Step(p)
       \/ Crash(p)

Spec == Init /\ [][Next]_vars
-----------------------------------------------------------------------------
\* Among the rest, a restore goes through artifacts only, and not through what a crash
\* has left beside them.
TypeOK ==
    /\ files \in [Paths -> Content \cup {Absent, Partial}]
    /\ pc \in [Procs -> {"idle", "probe", "list", "restore", "build", "check"}
                         \cup Writing]
    /\ io \in [Procs -> {"create", "fill", "rename"}]
    /\ key \in [Procs -> Keys \cup {NoKey}]
    /\ build \in [Procs -> Builds \cup {NoBuild}]
    /\ todo \in [Procs -> Seq(Artifacts)]
    /\ listed \in [Procs -> SUBSET Artifacts]
    /\ fd \in [Procs -> Paths \cup {NoPath}]
    /\ left \in [Procs -> SUBSET Artifacts]
    /\ got \in [Procs -> SUBSET (Artifacts \X (Content \cup {Absent, Partial}))]

\* The path names a complete file that was written for this very path.
Whole(path) ==
    /\ Exists(path)
    /\ files[path] # Partial
    /\ files[path].dest = path

\* A unit the cache claims to contain has a readable manifest, and every
\* artifact its manifest lists is there, complete, and the one it names: the
\* order store_unit / finalize_unit and the tmp-and-rename of every file.
PublishedWhole ==
    \A k \in Keys : ContainsUnit(k) =>
        /\ Whole(ManPath(k))
        /\ \A a \in files[ManPath(k)].list : Whole(ArtPath(k, a))

\* The artifacts of a contained unit all come from the same compilation: the
\* contains_unit check before store_unit keeps a second build from mixing in.
PublishedCoherent ==
    \A k \in Keys : ContainsUnit(k) /\ files[ManPath(k)] # Partial =>
        \E b \in Builds : \A a \in files[ManPath(k)].list :
            /\ files[ArtPath(k, a)] \notin {Absent, Partial}
            /\ files[ArtPath(k, a)].build = b

\* A contained unit can be found again: put_dynamic_inputs precedes store_unit,
\* so whenever a bundle is visible the manifest that leads to it is too, and
\* parses.
PublishedReachable ==
    \A k \in Keys : ContainsUnit(k) => Whole(DynPath(Slot[k]))

\* put_dynamic_inputs leaves an entry that list_dynamic_inputs can parse: a torn
\* one makes every later run with that static key fail.
InputsReadable == \A s \in Slots : files[DynPath(s)] # Partial

\* Whatever restore_unit wrote to target/ is, file by file, a complete artifact
\* of the unit, and all of it from one compilation.
RestoreFaithful ==
    \A p \in Procs :
        /\ \A g \in got[p] : /\ g[2] \notin {Absent, Partial}
                             /\ g[2].dest = ArtPath(key[p], g[1])
        /\ \A g, h \in got[p] : g[2].build = h[2].build

\* What is left when processes do race on a unit: no file a manifest promises is
\* ever missing, neither the dynamic inputs nor a listed artifact, whatever the
\* state of its contents.
NothingMissing ==
    \A k \in Keys : ContainsUnit(k) =>
        /\ Exists(DynPath(Slot[k]))
        /\ files[ManPath(k)] # Partial =>
              \A a \in files[ManPath(k)].list : Exists(ArtPath(k, a))

\* The abstract bundle of k: for each listed artifact the build it is from.
FileBuild(k, a) ==
    IF ~Exists(ArtPath(k, a)) THEN NoBuild
    ELSE IF files[ArtPath(k, a)] = Partial THEN Corrupt
    ELSE IF files[ArtPath(k, a)].dest # ArtPath(k, a) THEN Corrupt
    ELSE files[ArtPath(k, a)].build

ViewOf(k) ==
    IF ~ContainsUnit(k) THEN NoBundle
    ELSE IF files[ManPath(k)] = Partial THEN [a \in {} |-> Corrupt]
    ELSE [a \in files[ManPath(k)].list |-> FileBuild(k, a)]

BundleView == [k \in Keys |-> ViewOf(k)]

UC == INSTANCE UnitCache WITH bundle <- BundleView

\* The file-system backend implements the abstract cache: a bundle appears in
\* one step (the rename of manifest.json), whole, and never changes.
ImplementsUnitCache == UC!Spec
-----------------------------------------------------------------------------
(* Why the properties hold when processes take turns on a slot and no artifact *)
(* is named like a temporary file: the inductive invariant StoreInv.           *)

NoTmpClash == \A a, b \in Artifacts : TmpName[a] # b

FinalPaths ==
    {DynPath(s) : s \in Slots} \cup {ManPath(k) : k \in Keys}
    \cup {ArtPath(k, a) : k \in Keys, a \in Artifacts}

\* What each program point knows of the local variables.
ControlInv ==
    \A p \in Procs :
        /\ pc[p] # "idle" => key[p] \in Keys
        /\ pc[p] \in Writing \cup {"check"} => build[p] \in Builds
        /\ pc[p] \in {"dyn", "art"} => todo[p] # <<>>
        /\ pc[p] \notin {"art", "manifest"} => listed[p] = {}
        /\ pc[p] # "restore" => got[p] = {}
        /\ io[p] # "create" => pc[p] \in Writing

TakeTurns ==
    \A p, q \in Procs :
        p # q /\ pc[p] # "idle" /\ pc[q] # "idle" => Slot[key[p]] # Slot[key[q]]

\* Only temporary files are ever incomplete or hold what belongs elsewhere.
FinalWhole == \A path \in FinalPaths : Exists(path) => Whole(path)

\* A writer's handle is on its own temporary file, and what it renames is whole.
OwnTmp(p) ==
    /\ fd[p] = IF io[p] = "fill" THEN Tmp(p) ELSE NoPath
    /\ io[p] = "rename" => files[Tmp(p)] = Payload(p)

\* The artifacts S of k are in place and come from build b.
InPlace(k, S, b) ==
    \A a \in S : Exists(ArtPath(k, a)) /\ files[ArtPath(k, a)].build = b

\* A bundle under construction is invisible, its inputs are recorded, and the
\* files stored so far come from the build at hand.
Unpublished(p) ==
    pc[p] \in {"dyn", "art", "manifest"} =>
        /\ ~ContainsUnit(key[p])
        /\ pc[p] # "dyn" => Exists(DynPath(Slot[key[p]]))
        /\ InPlace(key[p], listed[p], build[p])

\* A visible bundle can be found, and is complete.
Published(k) ==
    ContainsUnit(k) =>
        /\ Exists(DynPath(Slot[k]))
        /\ \E b \in Builds : InPlace(k, files[ManPath(k)].list, b)

\* What is read back belongs to a visible bundle, which does not change.
Restoring(p) ==
    /\ pc[p] \in {"list", "restore"} => ContainsUnit(key[p])
    /\ pc[p] = "restore" => left[p] \subseteq Listed(key[p])
    /\ \A g \in got[p] : /\ g[1] \in Listed(key[p])
                         /\ g[2] = files[ArtPath(key[p], g[1])]

StoreInv ==
    /\ TypeOK /\ ControlInv /\ TakeTurns /\ FinalWhole
    /\ \A p \in Procs : OwnTmp(p) /\ Unpublished(p) /\ Restoring(p)
    /\ \A k \in Keys : Published(k)
-----------------------------------------------------------------------------
(* Why nothing is missing even when they race: the inductive invariant        *)
(* RaceInv.                                                                   *)

\* A handle that was renamed away still is on a file of the same unit (or
\* static key) and of the same kind.
HandleKind(p) ==
    fd[p] # NoPath => /\ io[p] = "fill"
                      /\ fd[p][1] = Dest(p)[1]
                      /\ fd[p][2] = Dest(p)[2]

Recorded(p) ==
    pc[p] \in {"art", "manifest"} =>
        /\ Exists(DynPath(Slot[key[p]]))
        /\ \A a \in listed[p] : Exists(ArtPath(key[p], a))

\* Every manifest, in place or still temporary, lists files that exist.
ListsExisting(path, k) ==
    files[path] \notin {Absent, Partial} =>
        \A a \in files[path].list : Exists(ArtPath(k, a))

RaceInv ==
    /\ TypeOK /\ ControlInv
    /\ \A p \in Procs : HandleKind(p) /\ Recorded(p)
    /\ \A k \in Keys :
          /\ ListsExisting(ManPath(k), k)
          /\ ListsExisting(ManTmp(k), k)
          /\ ContainsUnit(k) => Exists(DynPath(Slot[k]))
=============================================================================
