------------------------------- MODULE KvCache -------------------------------
(***************************************************************************)
(* The two key-value backends of cargo-zb, cache/lmdb.rs and               *)
(* cache/tikv.rs, under the same driver as FsCache: a cargo-zb process     *)
(* looks a unit up, restores it on a hit, and on a miss builds it and      *)
(* stores dynamic inputs, artifacts and manifest.                          *)
(*                                                                         *)
(*   lmdb  put_artifact only collects; finalize_unit writes what was       *)
(*         collected and the manifest in one transaction                   *)
(*   tikv  every operation is a request of its own to a server; a request  *)
(*         of a process that died or timed out may still arrive later      *)
(*                                                                         *)
(* Any number of processes share the database and any of them may die      *)
(* between two operations.                                                 *)
(***************************************************************************)
EXTENDS Naturals, Sequences, FiniteSets

CONSTANTS
    Procs,        \* cargo-zb processes sharing the database
    Keys,         \* full keys
    Slots,        \* (static key, shape hash) pairs
    Slot,         \* Slot[k]: the slot of the inputs from which k is derived
    Artifacts,    \* artifact names inside a bundle
    BundleOf,     \* BundleOf[k]: the sorted files collect_unit_artifacts finds
    Builds,       \* distinguishable outcomes of building a unit
    Backends,     \* backends looked at: a subset of {"lmdb", "tikv"}
    NoKey, NoBuild,
    Absent,       \* no entry of this name
    NoBundle,     \* see UnitCache
    MaxLate,      \* bound on requests under way without a process waiting
    Exclusive     \* TRUE: no two processes work on the same slot at once

VARIABLES
    backend,  \* the backend in use
    db,       \* db[name]: the value under that name, or Absent
    late,     \* tikv: writes <<name, value>> whose sender is gone
    pending,  \* lmdb: pending[p]: writes collected for the next transaction
    pc,       \* where process p is in run_cached_build
    key,      \* the full key p works on
    build,    \* the build whose artifacts p stores
    todo,     \* store_unit: files still to store, in order
    listed,   \* store_unit: files stored so far (the manifest vector)
    left,     \* restore_unit: files still to restore
    got       \* restore_unit: what was written to target/ for each file

unit == <<key, build, todo, listed, left, got>>
vars == <<backend, db, late, pending, pc, unit>>
-----------------------------------------------------------------------------
(* Names in the database, and what is stored under them. *)

ManName(k)    == <<"m", k>>
ArtName(k, a) == <<"a", k, a>>
DynName(s)    == <<"d", s>>

ManNames == {ManName(k) : k \in Keys}
ArtNames == {ArtName(k, a) : k \in Keys, a \in Artifacts}
DynNames == {DynName(s) : s \in Slots}
Names == ManNames \cup ArtNames \cup DynNames

\* A manifest lists artifacts, an artifact comes from a build, and a snapshot of
\* dynamic inputs holds the contents that lead to some full key.
Values == [list : SUBSET Artifacts] \cup Builds \cup Keys

\* Writes are functions from some names to values; a later one wins.
IsWrites(puts) == /\ DOMAIN puts \subseteq Names
                  /\ puts \in [DOMAIN puts -> Values]
NoWrites == [n \in {} |-> Absent]
Adding(puts, name, value) ==
    [n \in DOMAIN puts \cup {name} |-> IF n = name THEN value ELSE puts[n]]

\* The database after the writes.
After(puts) == [n \in Names |-> IF n \in DOMAIN puts THEN puts[n] ELSE db[n]]

Has(name) == db[name] # Absent

ASSUME KvAssumption ==
    /\ Slot \in [Keys -> Slots]
    /\ BundleOf \in [Keys -> Seq(Artifacts)]
    /\ Backends \subseteq {"lmdb", "tikv"}
    /\ MaxLate \in Nat
    /\ Exclusive \in BOOLEAN
    /\ NoKey \notin Keys
    /\ NoBuild \notin Builds
    /\ Absent \notin Values
    /\ \A S \in SUBSET Artifacts, b \in Builds : NoBundle # [a \in S |-> b]

Lmdb == backend = "lmdb"
Tikv == backend = "tikv"
-----------------------------------------------------------------------------
Init ==
    /\ backend \in Backends
    /\ db = [n \in Names |-> Absent]
    /\ late = {}
    /\ pending = [p \in Procs |-> NoWrites]
    /\ pc = [p \in Procs |-> "idle"]
    /\ key = [p \in Procs |-> NoKey]
    /\ build = [p \in Procs |-> NoBuild]
    /\ todo = [p \in Procs |-> <<>>]
    /\ listed = [p \in Procs |-> {}]
    /\ left = [p \in Procs |-> {}]
    /\ got = [p \in Procs |-> {}]

Goto(p, label) == pc' = [pc EXCEPT ![p] = label]

\* p is done with its unit.  What `pending` holds outlives the unit.
Leave(p) ==
    /\ Goto(p, "idle")
    /\ key' = [key EXCEPT ![p] = NoKey]
    /\ build' = [build EXCEPT ![p] = NoBuild]
    /\ todo' = [todo EXCEPT ![p] = <<>>]
    /\ listed' = [listed EXCEPT ![p] = {}]
    /\ left' = [left EXCEPT ![p] = {}]
    /\ got' = [got EXCEPT ![p] = {}]

\* The slot a name belongs to.
SlotOf(name) == IF name[1] = "d" THEN name[2] ELSE Slot[name[2]]
-----------------------------------------------------------------------------
(* Phase 1: lookup and restore. *)

\* list_dynamic_inputs: an entry leads to the full key; without one, or when a
\* dependency missed, the unit is a miss.
Begin(p, k) ==
    /\ pc[p] = "idle"
    /\ Exclusive => /\ \A q \in Procs : pc[q] # "idle" => Slot[key[q]] # Slot[k]
                    /\ \A w \in late : SlotOf(w[1]) # Slot[k]
    /\ \/ Has(DynName(Slot[k])) /\ Goto(p, "probe")
       \/ Goto(p, "build")
    /\ key' = [key EXCEPT ![p] = k]
    /\ UNCHANGED <<backend, db, late, pending, build, todo, listed, left, got>>

\* contains_unit
ContainsUnit(k) == Has(ManName(k))

Probe(p) ==
    /\ pc[p] = "probe"
    /\ Goto(p, IF ContainsUnit(key[p]) THEN "list" ELSE "build")
    /\ UNCHANGED <<backend, db, late, pending, unit>>

\* list_artifacts
Listed(k) == IF ContainsUnit(k) THEN db[ManName(k)].list ELSE {}

ListArtifacts(p) ==
    /\ pc[p] = "list"
    /\ left' = [left EXCEPT ![p] = Listed(key[p])]
    /\ Goto(p, "restore")
    /\ UNCHANGED <<backend, db, late, pending, key, build, todo, listed, got>>

\* restore_artifact, a transaction or request for each file; one that is not
\* there is only warned about.
RestoreArtifact(p) ==
    /\ pc[p] = "restore"
    /\ \E a \in left[p] :
          /\ left' = [left EXCEPT ![p] = @ \ {a}]
          /\ got' = [got EXCEPT ![p] = @ \cup {<<a, db[ArtName(key[p], a)]>>}]
    /\ UNCHANGED <<backend, db, late, pending, pc, key, build, todo, listed>>

RestoreDone(p) ==
    /\ pc[p] = "restore"
    /\ left[p] = {}
    /\ Leave(p)
    /\ UNCHANGED <<backend, db, late, pending>>
-----------------------------------------------------------------------------
(* Phases 2 and 3: build, then store. *)

\* Mutant of Build: the run goes on as if cargo had been called.
BuildSkipped(p) ==
    /\ pc[p] = "build"
    /\ Goto(p, "check")
    /\ UNCHANGED <<backend, db, late, pending, unit>>

Build(p) ==
    /\ pc[p] = "build"
    /\ \E b \in Builds : build' = [build EXCEPT ![p] = b]
    /\ Goto(p, "check")
    /\ UNCHANGED <<backend, db, late, pending, key, todo, listed, left, got>>

\* Mutant of CheckStored: the unit is stored without asking contains_unit.
CheckStoredBlind(p) ==
    /\ pc[p] = "check"
    /\ IF BundleOf[key[p]] = <<>>
       THEN Leave(p)
       ELSE /\ Goto(p, "dyn")
            /\ todo' = [todo EXCEPT ![p] = BundleOf[key[p]]]
            /\ UNCHANGED <<key, build, listed, left, got>>
    /\ UNCHANGED <<backend, db, late, pending>>

\* Mutant of CheckStored: put_dynamic_inputs is forgotten before store_unit.
CheckStoredNoInputs(p) ==
    /\ pc[p] = "check"
    /\ IF ContainsUnit(key[p]) \/ BundleOf[key[p]] = <<>>
       THEN Leave(p)
       ELSE /\ Goto(p, "art")
            /\ todo' = [todo EXCEPT ![p] = BundleOf[key[p]]]
            /\ UNCHANGED <<key, build, listed, left, got>>
    /\ UNCHANGED <<backend, db, late, pending>>

\* A unit that is stored already has its inputs refreshed, one without files is
\* not stored at all.
CheckStored(p) ==
    /\ pc[p] = "check"
    /\ \/ /\ ContainsUnit(key[p])
          /\ Goto(p, "touch")
          /\ UNCHANGED unit
       \/ /\ ~ContainsUnit(key[p]) /\ BundleOf[key[p]] # <<>>
          /\ Goto(p, "dyn")
          /\ todo' = [todo EXCEPT ![p] = BundleOf[key[p]]]
          /\ UNCHANGED <<key, build, listed, left, got>>
       \/ /\ ~ContainsUnit(key[p]) /\ BundleOf[key[p]] = <<>>
          /\ Leave(p)
    /\ UNCHANGED <<backend, db, late, pending>>

\* What follows put_dynamic_inputs.
InputsPut(p) ==
    \/ pc[p] \in {"touch", "touch_put"} /\ Leave(p)
    \/ pc[p] \in {"dyn", "dyn_put"} /\ Goto(p, "art") /\ UNCHANGED unit

\* put_dynamic_inputs of tikv first asks for the entry, and keeps an old one.
PeekInputs(p) ==
    /\ Tikv
    /\ pc[p] \in {"touch", "dyn"}
    /\ \/ Has(DynName(Slot[key[p]])) /\ InputsPut(p)
       \/ /\ ~Has(DynName(Slot[key[p]]))
          /\ Goto(p, IF pc[p] = "touch" THEN "touch_put" ELSE "dyn_put")
          /\ UNCHANGED unit
    /\ UNCHANGED <<backend, db, late, pending>>

\* put_dynamic_inputs of lmdb overwrites, in a transaction of its own.
PuttingInputs(p) ==
    pc[p] \in IF Lmdb THEN {"touch", "dyn"} ELSE {"touch_put", "dyn_put"}

\* Mutant of InputsWritten: lmdb keeps an old entry, too.
InputsWrittenOnce(p) ==
    IF Has(DynName(Slot[key[p]])) THEN NoWrites
    ELSE Adding(NoWrites, DynName(Slot[key[p]]), key[p])

InputsWritten(p) == Adding(NoWrites, DynName(Slot[key[p]]), key[p])

PutInputs(p) ==
    /\ PuttingInputs(p)
    /\ db' = After(InputsWritten(p))
    /\ InputsPut(p)
    /\ UNCHANGED <<backend, late, pending>>

\* store_unit's loop goes on to the next file, or to finalize_unit.
NextArtifact(p, stored) ==
    /\ Goto(p, IF Tail(todo[p]) = <<>> THEN "finalize" ELSE "art")
    /\ todo' = [todo EXCEPT ![p] = Tail(@)]
    /\ listed' = [listed EXCEPT ![p] = @ \cup stored]
    /\ UNCHANGED <<key, build, left, got>>

\* The artifact at hand.
ArtifactWritten(p) ==
    Adding(NoWrites, ArtName(key[p], Head(todo[p])), build[p])

\* Mutant of PutArtifact: lmdb writes artifacts as they come.
PutArtifactThrough(p) ==
    /\ pc[p] = "art"
    /\ db' = After(ArtifactWritten(p))
    /\ NextArtifact(p, {Head(todo[p])})
    /\ UNCHANGED <<backend, late, pending>>

\* put_artifact
PutArtifact(p) ==
    /\ pc[p] = "art"
    /\ \/ /\ Lmdb
          /\ pending' = [pending EXCEPT ![p] =
                 Adding(@, ArtName(key[p], Head(todo[p])), build[p])]
          /\ UNCHANGED db
       \/ Tikv /\ db' = After(ArtifactWritten(p)) /\ UNCHANGED pending
    /\ NextArtifact(p, {Head(todo[p])})
    /\ UNCHANGED <<backend, late>>

\* store_unit skips a file that vanished from target/ in the meantime.
SkipVanished(p) ==
    /\ pc[p] = "art"
    /\ NextArtifact(p, {})
    /\ UNCHANGED <<backend, db, late, pending>>

\* Mutant of FinalWrites: the manifest lists the files that vanished, too.
FinalWritesAll(p) ==
    Adding(pending[p], ManName(key[p]),
           [list |-> {BundleOf[key[p]][i] : i \in 1..Len(BundleOf[key[p]])}])

\* What finalize_unit writes: the manifest, together with what lmdb collected.
FinalWrites(p) == Adding(pending[p], ManName(key[p]), [list |-> listed[p]])

\* Mutant of Finalize: the collected writes are cloned, not taken.
FinalizeClone(p) ==
    /\ pc[p] = "finalize"
    /\ db' = After(FinalWrites(p))
    /\ Leave(p)
    /\ UNCHANGED <<backend, late, pending>>

\* finalize_unit
Finalize(p) ==
    /\ pc[p] = "finalize"
    /\ db' = After(FinalWrites(p))
    /\ pending' = [pending EXCEPT ![p] = NoWrites]
    /\ Leave(p)
    /\ UNCHANGED <<backend, late>>
-----------------------------------------------------------------------------
(* Failure. *)

\* The process is killed, cargo's build fails, or an error is returned: also of
\* finalize_unit, when a name is too long for lmdb or its map is full.
Crash(p) ==
    /\ pc[p] # "idle"
    /\ Leave(p)
    /\ pending' = [pending EXCEPT ![p] = NoWrites]
    /\ UNCHANGED <<backend, db, late>>

\* The write p waits for when its tikv request is under way.
UnderWay(p) ==
    CASE pc[p] \in {"touch_put", "dyn_put"} -> <<DynName(Slot[key[p]]), key[p]>>
      [] pc[p] = "art" -> <<ArtName(key[p], Head(todo[p])), build[p]>>
      [] pc[p] = "finalize" -> <<ManName(key[p]), [list |-> listed[p]]>>

\* p is killed, or gives up, while its write is under way.
CrashWaiting(p) ==
    /\ Tikv
    /\ pc[p] \in {"touch_put", "dyn_put", "art", "finalize"}
    /\ Cardinality(late) < MaxLate
    /\ late' = late \cup {UnderWay(p)}
    /\ Leave(p)
    /\ UNCHANGED <<backend, db, pending>>

\* The write of a process that is gone is executed ...
Arrive(w) ==
    /\ w \in late
    /\ db' = After(Adding(NoWrites, w[1], w[2]))
    /\ late' = late \ {w}
    /\ UNCHANGED <<backend, pending, pc, unit>>

\* ... or lost.
Lose(w) ==
    /\ w \in late
    /\ late' = late \ {w}
    /\ UNCHANGED <<backend, db, pending, pc, unit>>

Step(p) ==
    \/ Probe(p) \/ ListArtifacts(p) \/ RestoreArtifact(p) \/ RestoreDone(p)
    \/ Build(p) \/ CheckStored(p)
    \/ PeekInputs(p) \/ PutInputs(p)
    \/ PutArtifact(p) \/ SkipVanished(p) \/ Finalize(p)

Next ==
    \/ \E p \in Procs :
          \/ \E k \in Keys : Begin(p, k)
          \/ Step(p)
          \/ Crash(p) \/ CrashWaiting(p)
    \/ \E w \in late : Arrive(w) \/ Lose(w)

Spec == Init /\ [][Next]_vars
-----------------------------------------------------------------------------
TypeOK ==
    /\ backend \in Backends
    /\ db \in [Names -> Values \cup {Absent}]
    /\ late \subseteq Names \X Values
    /\ DOMAIN pending = Procs /\ \A p \in Procs : IsWrites(pending[p])
    /\ pc \in [Procs -> {"idle", "probe", "list", "restore", "build", "check",
                         "touch", "touch_put", "dyn", "dyn_put", "art", "finalize"}]
    /\ key \in [Procs -> Keys \cup {NoKey}]
    /\ build \in [Procs -> Builds \cup {NoBuild}]
    /\ todo \in [Procs -> Seq(Artifacts)]
    /\ listed \in [Procs -> SUBSET Artifacts]
    /\ left \in [Procs -> SUBSET Artifacts]
    /\ got \in [Procs -> SUBSET (Artifacts \X (Values \cup {Absent}))]

\* The abstract bundle of k: for each listed artifact the build it is from.
ViewOf(k) ==
    IF ContainsUnit(k) THEN [a \in db[ManName(k)].list |-> db[ArtName(k, a)]]
    ELSE NoBundle

BundleView == [k \in Keys |-> ViewOf(k)]

UC == INSTANCE UnitCache WITH bundle <- BundleView

\* Processes that take turns on a unit: both backends implement the abstract
\* cache.  A bundle appears in one step, with the manifest, all its files from
\* one compilation, and never changes: tikv because finalize_unit comes last
\* and contains_unit keeps a second build out, lmdb by the transaction.
ImplementsUnitCache == UC!Spec

\* lmdb even with racing processes: the bundle of a unit is at most replaced by
\* another whole one, in one step (finalize_unit's transaction).
ReplacedWhole == UC!Init /\ [][Lmdb => UC!NextReplacing]_BundleView

\* Whatever restore_unit wrote to target/ is there and from one compilation.
RestoreFaithful ==
    \A p \in Procs : \A g, h \in got[p] : g[2] # Absent /\ g[2] = h[2]

\* An lmdb run that fails, at any point, leaves no artifact behind that no
\* manifest can ever lead to; nothing would ever remove it.
NothingLeaked ==
    Lmdb => \A k \in Keys, a \in Artifacts : Has(ArtName(k, a)) => ContainsUnit(k)

\* While lmdb stores a unit, the recorded snapshot is that of
\* the inputs at hand, also if other contents had the same shape before ("so
\* per-entry snapshots stay current", cache/mod.rs:239).
SnapshotCurrent ==
    Lmdb => \A p \in Procs : pc[p] \in {"art", "finalize"} =>
               db[DynName(Slot[key[p]])] = key[p]

\* Racing processes, dying ones, late requests: a visible bundle can always be
\* found through its inputs, and has every file its manifest promises.
NothingMissing ==
    \A k \in Keys : ContainsUnit(k) =>
        /\ Has(DynName(Slot[k]))
        /\ \A a \in db[ManName(k)].list : Has(ArtName(k, a))
=============================================================================
