# Verification of opendagz in TLA+

opendagz is two Rust programs:

* **cargo-zb** (`cargo-zb/`): `cargo zb build` wraps the cargo library. It
  restores compilation units from a content-addressed cache, lets cargo build
  the rest, and stores what cargo built.
* **zb time** (`cmd/`): runs a command under ptrace and prints the tree of
  every command it executed, with CPU time and other metrics.

This directory holds TLA+ models of both, TLC configurations that check them on
small instances, and TLAPS proofs about the cache backends. Paths below are
relative to the repository's source root.

## 1. Inventory

### cargo-zb

| Component | State it keeps | Operations | Correct when |
|---|---|---|---|
| build driver `run_cached_build`, `cargo-zb/src/main.rs:356-603` | per run: static keys, full keys, position in the topological order; outside: `target/`, the cache | phase 1 lookup and restore, phase 2 cargo build, phase 3 harvest and store | after a run `target/` is what a clean build gives; nothing stale is stored; what was built once hits again |
| keys, `hash.rs` | none (pure) | `compute_cache_keys`, `combine_full_key` | a key stands for everything the artifact depends on, and lookup computes the key of the store |
| dynamic inputs, `cache/mod.rs:23-201` | none (pure) | `shape_hash`, `content_hash`, `diff_current` | same manifest and same contents give the same hash, anything else another |
| harvest, `harvest.rs` | reads dep-info files and build script outputs in `target/` | `harvest_unit` | the manifest names every input cargo itself would watch |
| artifacts, `artifacts.rs` | reads and writes `target/` | `collect_unit_artifacts`, `store_unit`, `restore_unit` | a restored unit is complete and from one compilation |
| backend contract, `cache/mod.rs` | - | trait `CacheBackend` | a bundle is published whole, in one step, and never changes |
| fs backend, `cache/fs.rs` | files under the cache root, shared by all processes | `contains_unit`, `list_artifacts`, `get_artifact`, `put_artifact`, `finalize_unit`, `put/list_dynamic_inputs`, `restore_artifacts` | implements the contract though each file takes three system calls and processes die between any two |
| lmdb backend, `cache/lmdb.rs` | a database shared by all processes; per process the artifacts collected for the next transaction | same; `put_artifact` collects, `finalize_unit` writes all in one transaction | implements the contract, and a run that fails leaves nothing behind |
| tikv backend, `cache/tikv.rs` | a remote key-value store | same, one request each; cannot be selected by `open_cache` today | implements the contract although requests may be lost, or executed after their sender died |
| cargo interop, `cargo_interop.rs` | none | workspace setup, `topo_order`, `execute_build` | dependencies come before dependents, each unit once |
| LTO modes, `lto_vendored.rs` | a map from units to LTO modes, during one call | `generate` walks the unit graph down from the roots and merges what the parents of a unit ask for | each unit gets the join over all its parents, in whatever order they come; the walk ends |
| bench, `bench.rs` | `results.json` and the whole cache directory, shared by all projects; the project's `target/` | clean and wipe, timed builds, `load_results`, `save_result` | a row measures what its label says; results of other projects are kept |

How they interact: the driver calls the other parts in one thread. Concurrency
comes from *several cargo-zb processes* sharing one cache directory, and from
the developer, cargo, and the driver all writing to one `target/` without
holding a lock together. Nothing is ever fsynced or locked by the fs backend:
ordering of renames is all there is. lmdb has transactions, but looks up, checks and
commits in different ones; tikv has single requests. The bench deletes what
all of them share.

### zb time

| Component | State it keeps | Operations | Correct when |
|---|---|---|---|
| event loop, `cmd/src/time_command.rs` | deadline, root's end, terminate flag (set by a signal handler) | one handler per ptrace event, around a blocking `wait4(-1)` | every event is handled in whatever order it comes, and the report comes after the command's end |
| thread tracker, `cmd/src/thread_tracker.rs` | spans (a thread from its start, or from an exec, to the next exec or its end), a span for each thread id, the root | `handle_spawn`, `handle_first_exec`, `handle_exec`, `finish_thread` | spans form a tree; each has the right end reason and its own CPU time |
| command tree, `cmd/src/command_tree.rs` | built once from the spans | `compile_tree`, `print_tree` | every command executed is there, below the one that executed it |

Hard here: the kernel delivers events of different threads in any order, so a
child can start, exec and die before the fork event of its parent is seen;
SIGKILL, and an exec or exit of another thread of the process, take a stopped thread
away together with its event; the loop continues a thread before it reads what
`/proc` says of it; it sleeps in `wait4` while a deadline runs; thread ids change
hands, by an exec of a thread that is not the leader or by being used again.

The hazards of the code, each at its line and with the properties that would
catch it, are listed in `PROJECT.json`.

## 2. Modules

| Module | Models | Used by |
|---|---|---|
| `UnitCache` | the abstract cache: a map from full keys to bundles; `Publish` puts a whole bundle of one build in one step; `Replace`, of the weaker `NextReplacing`, puts another in its place | refined by `FsCache` and `KvCache` |
| `FsCache` | `cache/fs.rs` under `store_unit`/`restore_unit` and one unit's path through the driver, for any number of processes | `MCFsCache`, `FsCacheProofs` |
| `KvCache` | `cache/lmdb.rs` and `cache/tikv.rs` under the same driver | `MCKvCache`, `KvCacheProofs` |
| `CachedBuild` | the three phases over a unit graph, keys, harvest, cargo's own rebuilding, a developer | `MCCachedBuild`, `CachedBuildProofs` |
| `UnitWalks` | `topo_order`, `compute_cache_keys`' walk and `lto_vendored.rs`, call by call, on any unit graph | `MCUnitWalks`, `UnitWalksProofs` |
| `ThreadTracker` | the tracker's handlers and `compile_tree`, as operators on a tracker record | `TimeCommand`, `ThreadTrackerProofs` |
| `TimeCommand` | the event loop and the traced threads | `MCTimeCommand`, `TimeCommandProofs`, `TimeReportProofs` |
| `Bench` | `bench.rs`: the script of cleans, timed builds and the save of the results | `MCBench`, `BenchProofs` |
| `...Proofs` | theorems about the module of that name | - |

`MC*` modules give graphs and names to the constants. Definitions marked
`Mutant of X` are plausible bugs in X that make some property fail; they are
part of no specification.

The cut between `CachedBuild` and the two backends is `UnitCache`: `CachedBuild`
assumes a cache in which bundles appear whole, `FsCache` and `KvCache` show what of
that each backend gives. `CachedBuild` in turn takes its units in the order of
which `UnitWalks` shows that dependencies come first.

### FsCache

`files` maps every path below the cache root to absent, partly written, or a
whole content; the other variables are the local state of the processes. A
file's bytes are abstracted to the path they were written for, the build they
come from and the list they hold. One file write is `CreateTmp` (create or
truncate `<name>.tmp`), `FillTmp`, `RenameTmp`, so that a process can be overtaken
or die between any two of these. `with_extension("tmp")` is the constant
`TmpName`: artifacts of one stem share a temporary file. A file handle follows the
file through a rename: who still holds it writes into the renamed file. Where
`copy_file_range` does not work the copy begins again by name, with another `CreateTmp`; and
what `FillTmp` writes (`Written`) is less than the artifact if that is cut short while it is copied,
since a read that returns nothing is taken for its end.
`Crash` is possible at every point and leaves the files as they are.

| Action | Code |
|---|---|
| `Begin`, `Probe` | `list_dynamic_inputs` and `contains_unit` in phase 1 |
| `ListArtifacts`, `RestoreArtifact`, `RestoreDone` | `restore_unit`, one file after the other |
| `Build` | cargo made the artifacts; nothing in the cache changes |
| `CheckStored` | the second `contains_unit` (`main.rs:568`): a unit found there has only its inputs recorded again |
| `CreateTmp`, `FillTmp`, `RenameTmp`, `RenameFails` | `atomic_write` and `put_artifact`; a rename fails if another process renamed the temporary file first |
| `SkipVanished` | `store_unit` passes over a file gone from `target/` |

`Exclusive` is an assumption about the environment and not about the code:
when TRUE, no two processes work on units of one static key at the same time, and nobody changes in
`target/` what another is storing. It is what separates what the code guarantees for builds that take turns from what
it guarantees always; both are checked.

### KvCache

`db` maps names (of manifests, artifacts, snapshots of dynamic inputs) to values; a
byte string is abstracted to the artifact list, the build, or the full key its
contents lead to. `backend` is chosen once, in `Init`, so each run looks at both.

* **lmdb**: `PutArtifact` only adds to `pending[p]`, `Finalize` writes `pending[p]` and
  the manifest in one step and empties it. Each lookup, check and read is a
  transaction of its own, and so is `put_dynamic_inputs`. An error that ends the run
  is a `Crash`, also one of the transaction itself, which then writes nothing.
* **tikv**: every operation is one request. `CrashWaiting` leaves the write that was
  under way in `late`, from where it is executed (`Arrive`) or lost (`Lose`) at any
  later time: the request of a process that was killed, or that gave up waiting.
  `put_dynamic_inputs` asks first (`PeekInputs`) and keeps an entry that it finds.

The actions of the driver have the names they have in `FsCache`. `Exclusive` means the
same, and includes the writes that are still under way.

### CachedBuild

Hashes are taken to be collision free: a key *is* the term that is hashed, an
artifact the term of everything it was compiled from. The cache is the one
`UnitCache` promises. `newer[u]` stands for cargo's comparison of mtimes: what
changed since `u`'s artifact was put. One action per step of `run_cached_build`:
`Start`, `Hit`/`Miss`, `EndLookup`, `BuildUnit`, `EndBuild`, `PassOver`,
`Harvest`, `Store`, `EndHarvest`. `Edit`, `Clean` and `Crash` are the developer's; they share the bound
`MaxUpsets`. `Hit` stands for a restore that comes to its end. `restore_unit` copies one file after the
other, so a run can also die on the way: `CrashRestoring` leaves in `target/` some files of the bundle
and some of what was there (`Torn`), of which cargo may miss one, or go by the new fingerprint or by the old
one, and may or may not see that the dependents are older (`Tear`). What a run finds in the middle of its own
restore is read by nobody, as phase 1 looks at `target/` no further.

Units without harvestable output, units for which no
artifact is found, and inputs that harvest leaves out are the constants
`Harvested`, `Collected` and `Dropped`. `Opened` is a function of the world: which files a
build script reads can depend on what it has read. As in the code, the `*.rs` files of a
path package are in the static key of each of its units, its build script included.

Kept constant and so left out of the keys: compiler version, profile, features,
flags. Left out because no state depends on it: the classification of misses,
`diff_current`, the summary. `target/` is the outputs of the units; what cargo
links or copies from them into `target/<profile>/` is left out.

### UnitWalks

The recursion is explicit: `stack` holds the calls of `visit`, then of
`calculate`, each with the dependencies it has not looked at. Roots and dependencies
are taken in any order. `Visit` and `Leave` are entry and end of `visit`; `Calculate`
is the entry of `calculate` with its early return when the merge changes nothing;
`ModeUnder` and `Merge` are its two `match`es, `RootMode` is `generate`'s. After the
walk for the order, `BeginLto` chooses the kinds of targets and the profile.

`Join` and `Wanted` are the reference: the least mode that serves several parents,
and for each unit the join over what its parents ask for, computed from the top.
They are defined from the graph only, without an order.

### ThreadTracker and TimeCommand

The tracker is a record of `threads` (span of each thread id), `spans` and
`root`; each handler is an operator from tracker to tracker, and the actions
`SeeStart`, `SeeSpawn`, `SeeExec`, `SeeExit`, `SeeDead` of the loop apply them to an event. `SeeSignal`
continues a thread with the signal it was to get; `SeeUnknown` and `NoChildren` are the two ways in which the wait fails
(`time_command.rs:203-212`).
The environment is the kernel: `Spawn`, `DoExec`, `Exit` stop a thread with its
event until the loop has seen it. A thread uses one tick of CPU time before each exec
and before its end, so that double counting shows.

The loop continues a thread *before* it handles the event. For forks and exits that
makes no difference to what is read. For execs it does: the command line and the
CPU time come from `/proc`, and the thread may by then have executed again, be on its
way out, or be dead. So an exec takes two steps, `SeeExec` and `RecordExec`, and
the thread moves between them; `Cmdline` says what is read of it.

The constant `Faults` names what else may happen, once each:

| Fault | What happens |
|---|---|
| `kill` | SIGKILL to a process, stopped threads included |
| `zap` | an exec or exit of a process takes its other threads away |
| `late` | with an exit event of those taken away, that comes after the rest |
| `term` | a termination signal to `zb time`, which sets the deadline |
| `thread_exec` | a thread that is not the leader executes, and takes over the leader's thread id |
| `reuse` | the kernel gives the id of a dead thread to a new one |
| `signal` | a signal other than SIGKILL is to be delivered to a thread, which stops: one that nix knows, or a real-time signal, of which `WaitStatus::from_raw` makes EINVAL |

Left out: the second termination signal (it ends `zb time` at once), signals to the command before its
first exec, signals that stop a process or end it (the end is `kill`), the values of
exit codes, the metrics other than CPU time, the layout of the report.

### Bench

`Script` is `run_bench` with sccache; `at[p]` is the position in it. `cache[j]` is
what the cache directory holds of project `j`: everything, nothing, or a part, which is what
`remove_dir_all` leaves when it is killed or another process looks meanwhile.
`results.json` is replaced as a file is written: `LoadResults`, `CreateResults`, `WriteResults`,
`RenameResults`. `DevRun` is the developer's own `cargo zb` in another project.
The results of the cleans are ignored by the code, so `CleaningFails` goes on with
the next step. `Alone` is to benches what `Exclusive` is to builds.

## 3. Runs

| Run | Shows | Size |
|---|---|---|
| `fs_serial` | with processes that take turns, the fs backend implements `UnitCache`; published bundles are whole and of one build; dynamic inputs parse; restores are faithful; `StoreInv` | 585k states |
| `fs_races` | with processes that race, no file a manifest promises is missing; `RaceInv` | 869k states |
| `kv_serial` | with processes that take turns, both key-value backends implement `UnitCache`; restores are faithful; lmdb's snapshots are current | 643k states, a minute |
| `kv_races` | with processes that race and writes that come late, nothing a manifest promises is missing; lmdb replaces bundles only whole, and a run of it that fails leaves nothing | 3.9M states, a minute and a half |
| `cb_quiet` | inputs edited and reverted between runs, cleans, runs that fail or die in the middle of a restore: a key names one bundle, the cache stays sound, `target/` is right after each successful run, a world once built hits, and who keeps building ends with runs that restore everything | 601k states |
| `cb_partial` | units that cannot be harvested or collected keep those above them out of the cache | 59k states |
| `cb_midrun` | (violation) an edit during the build poisons the cache | - |
| `unit_walks` | every graph of four units, every kind of target: dependencies first, each unit once; LTO modes equal the reference whatever the order of the walk, and each library has the code its parents link | 9.3M states, a minute |
| `time_tracker` | events in any order, kills and zaps: the spans form a tree; commands are reported in place and under their names; ends, CPU times and their totals are right | 3.6M states, two minutes |
| `time_odd` | every fault, with two threads: where the report may fail and what it says of the command, no stop is left uncontinued, the report follows the last death | 634k states |
| `time_background` | (violation) a quiet background process keeps the report from coming | - |
| `bench` | benches of two projects one after the other, killed anywhere, beside the developer: rows are honest, the results of other projects are kept | 859k states |

The two violations are disagreements between the code and its own documents or
comments, quoted in `PROJECT.json` under `findings`.

### Bounds, and why they are enough

* `FsCache`: two processes. Every interaction is between a writer and one other
  process, which may crash and start again without limit. `fs_serial` has a unit of two
  files that share their temporary name and one of one file, behind one
  dynamic-inputs file, and two builds, so that mixing is visible; `fs_races` replaces the second unit
  by one without files in a slot of its own, and needs one build only because it does
  not look at contents. Nothing is
  counted, so there is no bound on time. The theorems remove the bounds on sets.
* `KvCache`: the same two processes, two full keys behind one snapshot, and a third
  unit (`kv_serial`: of another slot; `kv_races`: without files). `MaxLate = 1` write
  under way without a sender at a time is enough for it to meet every step of a live
  process. `KvCacheProofs` has no such bound.
* `CachedBuild`: a chain of three units in which the first reads inputs that
  depend on an input, and a second graph in which one unit has two
  dependencies. Two contents per input allow an edit and its reversal. With
  `MaxUpsets = 4` (3 in `cb_midrun`) there is room for an edit, a run that is killed
  in the middle of a restore, another edit and a clean, with any number of runs in between.
* `UnitWalks`: all graphs over 1..4 with dependencies of higher number, that is all
  acyclic ones up to names. Four units are enough for a diamond, and for a unit that
  is reached again, by a longer way, with another one below it. `Members`: units that are roots although
  others depend on them, none or one of two.
* `TimeCommand`: three threads allow a chain of three
  and two children of one parent; `MaxExecs = 2` execs after the first let one
  thread execute twice or two threads once. `time_odd` has two threads because
  every fault is about one thread and one other, and because of liveness.
* `Bench`: two benches and two projects, one measured and one not; `MaxMishaps = 3` allows a
  kill in the middle of the wipe, a failing clean and a failing run in one behaviour.

Processes, builds and the threads other than the root are symmetric in the runs
that declare SYMMETRY (`fs_*`, `kv_*`, `time_tracker`); none of these runs checks liveness.
`ImplementsUnitCache` and `ReplacedWhole`
are safety properties in which no process or build is singled out.

`CHECK_DEADLOCK FALSE` appears where the system may really stop: `zb time` ends;
and where processes race, a torn dynamic-inputs file makes every later run fail at
its first lookup (`fs_races`). `UnitWalks` ends with the stutter `Finished`
instead, so that a walk which gets stuck is a deadlock.

### Fairness

`CachedBuild!FairSpec` has weak fairness of `Progress`: a run that has begun goes on
unless it fails, and the developer keeps starting runs. `Crash` and `Edit` are not fair
and bounded, so `Warms` speaks of what follows the last of them. `TimeCommand!Spec` has
weak fairness of the tracer and of the clock and none of the traced threads: the
kernel schedules `zb time` and time passes, whereas a traced process may do
nothing forever. Under it `Resumed` (who is stopped is continued, or tracing ends) and
`ReportFollows` (when all that was traced is dead the report follows) hold, and
`EndsAfterRoot` does not. `Resumed` needs no fairness between threads because their
number and that of their execs are bounded here: only finitely many events can come before
one's own. That `wait4` lets no thread starve is the kernel's affair.

## 4. Proofs

The theorems are about `Spec` and hold for every value of the constants that satisfies the
named assumptions of the module, which TLC evaluates on the instances of the runs. Each
inductive invariant was checked with TLC on such an instance before it was proved.

### FsCacheProofs

For all sets of processes, keys, artifacts, builds, all bundles and any assignment
of temporary names.

| Theorem | States | Needs |
|---|---|---|
| `TypeCorrect` | `Spec => []TypeOK` | - |
| `StoreInvariant` | `Spec => []StoreInv` | `Exclusive`, `NoTmpClash` |
| `WholeBundles` | `Spec => []PublishedWhole` | same |
| `CoherentBundles` | published bundles are coherent, and reachable | same |
| `ReadableInputs` | `Spec => []InputsReadable` | same |
| `FaithfulRestore` | `Spec => []RestoreFaithful` | same |
| `Refinement` | `Spec => ImplementsUnitCache` | same |
| `RaceInvariant` | `Spec => []RaceInv` | `NoTmpClash` |
| `NothingIsMissing` | `Spec => []NothingMissing` | `NoTmpClash` |

`NoTmpClash` says that no artifact has the name of another's temporary file.
It is needed: with `out.txt` and `out.tmp` in one bundle, storing the second
destroys the first. `Exclusive` is needed: with `Exclusive = FALSE`, TLC finds
`PublishedWhole`, `PublishedCoherent` and `InputsReadable` violated.

**Why `StoreInv`.** That a published bundle is whole is not inductive: it says nothing of a
process that has a file open. The strengthening adds, process by process, what its
program point knows: its handle is on its own temporary file, and what it is
about to rename is complete (`OwnTmp`); from `put_dynamic_inputs` to
`finalize_unit` the bundle is invisible, its inputs are recorded and the files so far come
from the build at hand (`Unpublished`); what is being restored belongs to a
visible bundle (`Restoring`). `FinalWhole`, that only temporary files are ever incomplete, follows from
`OwnTmp` at each rename. `TakeTurns` gives non-interference: the files a process
touches belong to its slot, and nobody else is in it (the `Keeps...`
lemmas). The step `Published` needs is the rename of
`manifest.json`; it is also the only step that is not a stutter of `UnitCache`.

**Why `RaceInv`.** Files are only ever added or overwritten under their final
names, never removed. What remains is that each manifest, also one still in a temporary file, lists
files that exist (`ListsExisting`), and that a handle renamed away under its writer still is on a
file of the same kind and unit (`HandleKind`), so that writing through it cannot forge
another unit's manifest.

### KvCacheProofs

For all sets, both backends and any number of late writes.

| Theorem | States | Needs |
|---|---|---|
| `RaceInvariant` | `Spec => []RaceInv` | - |
| `TypeCorrect` | `Spec => []TypeOK` | - |
| `NothingIsMissing` | `Spec => []NothingMissing` | - |
| `NothingIsLeaked` | `Spec => []NothingLeaked` | - |
| `WholeReplacement` | `Spec => ReplacedWhole` | - |
| `TurnsInvariant` | `Spec => []TurnsInv` | `Exclusive` |
| `KvImplementsUnitCache` | `Spec => ImplementsUnitCache` | `Exclusive` |
| `RestoresFaithfully` | `Spec => []RestoreFaithful` | `Exclusive` |
| `SnapshotIsCurrent` | `Spec => []SnapshotCurrent` | `Exclusive` |

**Why its `RaceInv`.** That nothing is missing says nothing of manifests on
their way. First, no step removes an entry (`Grows`), so what a manifest
promised once stays. Second, the promise must be true when the manifest is
written, by whoever wrote it: `ManifestInv` says so of the manifests in the database
and of those under way. Third, that it is true then comes from the storing
process: `Collected` says that what it has listed waits in `pending`, to be written in the same
transaction (lmdb), or is in the database already (tikv), and `Recorded` that
the inputs are. `Collected` also says that `pending` holds nothing else, which is
what makes `Finalize` show a bundle of one build, `WholeReplacement`, and leaves no artifact
without a manifest, `NothingLeaked`.

**Why `TurnsInv`.** With `Exclusive`, at most one process or one late write is at a slot
(`Turns`), and who gets there first finds out whether the unit is there: from then on
what it stores belongs to a unit nobody can see, and what it restores to one nobody
changes (`ProcInv`). A write that outlives its process keeps the slot until it
arrives or is lost; until then its unit is invisible too, and a late manifest lists
files of one build (`LateInv`). So the only steps that make a bundle visible are
`Finalize` and the arrival of a late manifest, and both show one whole build, which is the step
of `UnitCache`; every other step writes names of units that stay invisible.

### CachedBuildProofs

For all unit graphs, inputs, contents and bounds on upsets.

| Theorem | States | Needs |
|---|---|---|
| `TypeCorrect` | `Spec => []TypeOK` | - |
| `KeysTellArtifacts` | of any two worlds, equal full keys stand for equal artifacts | `NothingLeftOut` |
| `BundlesSound` | `Spec => []CacheSound` | `NothingLeftOut`, `~EditsMidRun` |
| `RunsCorrect` | `Spec => []RunCorrect` | same |
| `BuiltWorldsAreHits` | `Spec => []BuiltWorldsHit` | same, `EverythingKept` |

`NothingLeftOut` (`Dropped[u] = {}`) says that harvest records all a unit reads.
`~EditsMidRun` says that no input changes during a run; with such edits TLC finds `CacheSound` and
`RunCorrect` violated (`cb_midrun`). `EverythingKept` says that harvest and collection find
something of every unit; without it the unit misses for ever (`cb_partial`).
Three assumptions on constants are about what the code relies on: `ReadsAssumption`, that a
compilation whose inputs are the same opens the same files, and
`NoKeyAssumption` and `NoArtAssumption`, that no key is the absence of a key and no artifact that of an artifact.

`TypeOK` says, among the rest, that bundles of one key have one artifact. That is inductive with the fact that in phase
"store" there is no bundle yet under the key at hand (`Shapes`), which is what the second `contains_unit`
(`main.rs:568`) found. It holds also when inputs are edited while a build runs, where neither
`CacheSound` nor `RunCorrect` does.

**The argument.** `KeysTellArtifacts` is an induction over the graph. `StaticKeys`, `Ideal` and
`IdealKeys` are recursive functions over it; that a function with such an equation exists, so
that the one TLA+ chooses satisfies it, is proved once (`TermExists`) for the shape the three share,
by induction over the order of the units (`NumberInduction`). Full keys contain the content of every
input opened and the keys of the dependencies, so equal keys have equal views, and equal
artifacts below. `ArtsTellKeys` is the converse.

`CacheSound` is not inductive, since what is stored comes from `target/`. `BuildInv` adds what cargo's mtimes
know (`MtimesTell`: the inputs not newer than an artifact hold what it was
compiled from, and an artifact no dependency is newer than was compiled with those that are there, if all of them are
whole), that a known full key is the ideal one and its unit's artifact the ideal one
(`KnownFull`), and what each phase has achieved (`PhaseInv`). A hit then restores
the ideal artifact because the bundle under that key is sound; a build replaces
what the mtimes show to be stale and nothing else; and harvest computes ideal keys because
`target/` is ideal by then.

What the mtimes may not show is that a restore was broken off and left a unit with files of two artifacts.
`MixedFound` says why cargo never gets to see such a unit: if its fingerprint fits the inputs and its dependencies are whole
and not newer, then these are the dependencies of the world in which it was being restored, and of that world the cache has recorded
and stored the unit and all it depends on (`Found`), for nothing is ever removed from the cache. By the time cargo
comes to the unit, its dependencies are those of the current inputs; so, by `ArtsTellKeys`, the current inputs lead to the same keys, and
phase 1 of this run has found the unit (`LookupInv`) and restored it (`KnownFull`), so that it is not mixed.
`MixedStep` keeps this: what is put makes the dependents older than it (`MixedPut`), and what is broken off was found by
the run that broke off (`RestoringBreaks`). It is a fact about `main.rs:467-489`, where a unit is looked up
after all that it depends on: without it such a mixture would be linked.

`WarmInv` adds that what was built is recorded and stored, but for the unit about to be
stored, and that a quiet lookup of a built world has found every unit so far.

### UnitWalksProofs

For every finite acyclic graph, any set of further roots, any kinds of targets and
each profile; no hypotheses.

| Theorem | States |
|---|---|
| `WalkInvariant` | `Spec => []WalkInv` |
| `TypeCorrect` | `Spec => []TypeOK` |
| `OrderCorrect` | `Spec => []TopoOrder` |
| `LinksCorrect` | `Spec => []LinksWhatItNeeds` |
| `ModesAgree` | `Spec => []LtoAgrees` |

**Why `WalkInv`.** `StackInv`: calls go down the graph, so ranks grow along the
stack; no unit is below itself, and the depth is bounded by the number of
units. `TopoInv`: what `visit` entered is listed or on the stack, never both, and what a call has
passed over is listed or is the call above it. That a unit is listed after its dependencies
(`OrderInv`) follows at each `Leave`.

`LtoInv` states both halves of a least fixed point. From below, what a unit's mode asks of a
dependency is covered by that one's mode, or a call that has yet to go there is on the
stack (`Asks`): when the mode of a unit that has been visited changes, the new call goes through its
dependencies again. From above, a unit has no more than what some parent or `generate` asks for
(`Justified`). This needs that `Merge` is a join for the order `Covers` and that `ModeUnder` is
monotone in it, which holds only of the modes a kind of target can have
(`ModesOf`): a `Run`, of binaries, never has anything merged into it. With the stack empty, the two
halves give `lto = Wanted` by induction over the ranks.

### BenchProofs

For any processes, projects and number of mishaps.

| Theorem | States | Needs |
|---|---|---|
| `TypeCorrect` | `Spec => []TypeOK` | - |
| `BenchInvariant` | `Spec => []BenchInv` | `Alone` |
| `HonestRows` | `Spec => []RowsHonest` | `Alone` |
| `KeptResults` | `Spec => ResultsKept` | `Alone` |

Without `Alone` both properties fail: one bench wipes what another has just stored, and both write one
`results.tmp`. `BenchInv` says of the bench under way, if none of its cleans failed, what
each position of `Script` relies on (`WorldOf`): `target/` is clean before each
run, the cache is empty before the first and whole from then on, sccache knows
the project exactly between its two runs; and that the rows so far are the honest ones (`Honest`). That the
cache stays whole uses that a developer works in other projects only.
`SaveInv` says that between load and rename the rows loaded are those of `results.json`, and that
what is renamed is these with the one entry replaced, whatever a killed bench had left in
`results.tmp`.

### ThreadTrackerProofs, TimeCommandProofs and TimeReportProofs

For any finite set of thread ids, any bound on execs, and all faults.

| Theorem | States | Needs |
|---|---|---|
| `ChainedIsTree` | a tracker that is `Chained`, with an unspawned root, is a tree | - |
| `TreeAddsUp` | over a tree with all spans, `TreeCpu` at the root and the `SelfCpu` of all commands are the sum of all usages | - |
| `TrackInvariant` | `Spec => []TrackInv` | - |
| `TypeCorrect` | `Spec => []TypeOK` | - |
| `TreeIsSound` | `Spec => []TreeSound` | - |
| `EndsRight` | `Spec => []EndReasons` | - |
| `NamesShown` | `Spec => []NamesRight` | - |
| `CpuSharedOut` | `Spec => []CpuOfOneExec` | - |
| `PrintsReport` | `Spec => []ReportPrints` | - |
| `CommandsReported` | `Spec => []Reported` | - |
| `TotalIsShared` | `Spec => []TotalCpu` | - |

The last seven, and of `TypeOK` that usage is never negative, say something while `Stable`, as long as
no thread id has changed hands (the faults `thread_exec` and `reuse`).

**The argument.** `ThreadTrackerProofs` says of each handler what it does to the spans. Links
between spans have two sources, told apart by the thread ids at their ends: an exec puts a span below
the one before it of the same thread (`Followed`), a spawn event puts a span below one of
another thread (`Bound`). `Chained` says that the first lead from older to newer spans, with one
predecessor each, and that among all spans of a thread one at most is bound, once. This does
not depend on the order in which events come: a spawn seen late may bind the middle of
a chain. It is a tree because a span that is reached and has two parents would have one of each kind,
and then its predecessor is not reached: nothing but the bound span of a thread can lead there
(`ChainedIsTree`; that `Reached` is what it seems is an induction over its steps).

`TrackInv` relates the tracker to the threads. That each thread is bound once needs that its
spawn is still to be seen when it is (`Awaited`, `LinkInv`), and that nobody is spawned twice (`SpawnInv`); that
the root is not bound needs that it is never spawned. `RootInv` makes the first span
the root's. `EndReasons` is `EndInv` for the dead; of the living it says that their span is open or
was ended by an exit event, so that the only later end that counts is that of a signal. `NameInv` lists what can
lie between a span and its own name: an exec that is being handled or pending, a kill
seen or under way, and a death without exit event. That an exec stands in the way of nothing else needs
`ExecInv`: a thread that executes has outlived its process's others, so no exec or exit of those takes
it away. `UsageInv` bounds what a span is charged by what its thread had used; it makes the
difference taken at the next end non-negative, with the CPU time of the whole process
being at least that of the thread (`GroupTime`).

`CpuInv` (`TimeReportProofs`) follows the spans of one thread. While the last one is open its initial usage is
what the one before it was charged (`Begins`); once its end has been sampled the two add up to the thread's
CPU time (`Amounts`), and an end seen later changes the reason only, never the usage. Both say
this of threads with one or two spans; with more, the shares overlap. What the sum over such a set of spans is follows
from the facts about sums below (`SumOfTwo`).

`ReportInv` has what the report and `update_parent` take for granted.
`update_parent` climbs from a span to the top of its chain of parents and asserts that each one on
the way began with an exec. Parents are set in two places, so `ExecsAbove` says of
every thread whose spawn has not been seen: a span of it with a parent began with an exec, and the parent
is an older span of the same thread. The climb therefore ends, within the spans of that
thread, and the assertion holds (`BindsFirst`); the one spawn event of a thread that can come binds the top and
keeps `ExecsAbove` (`SpawnAbove`). That the recursive functions `Top` and `CanBind` exist, over
whatever spans, is `TopExists` and `BindExists`. That the loop ends otherwise only after a deadline, or at a thread that the wait has failed at and that stays stopped
(`WaitFailed`), is `FailInv`; until then `root_end` is the end of the command, if it has one (`RootEndInv`). When the loop ends without children, every thread is reaped, its
last span has the thread's end by `EndInv`, and `OneOpen` says that the spans before it were ended by
the exec that left them: no command is without an end. That no span is borrowed twice is once more the shape of the tree: what
lies below a span forms a part of the tree that the root is not in (`BorrowedOnce`). The root
keeps beginning with an exec because spawn events, which overwrite how a span began,
are never the root's.

`AboveInv` is about the commands in the report. What is reached is closed under going down
(`ReachedClosed`: each step down that is not the last adds a span, so as many steps as there are spans are
enough), the function that finds the nearest command above a span exists (`AboveExists`), and in a tree
it gives a child what its parent has (`AboveIs`). Each handler leaves the spans that are reached where they
are (`Continued`; a spawn event overwrites how a span began, but only one that was not reached),
so they stay reached, below the same commands (`AboveSame`). The invariant then says that a thread in `bound`
stands on a reached span, that what it executed is reached and began with an exec (`ShownInv`), and that the nearest command
above the thread is the one the kernel would name (`CmdInv`). This is false of a thread
whose command was executed too early, by itself before its spawn was seen or by an ancestor, so it is claimed only when that command counts itself;
`ForkInv` carries it over from the spawner, which waits, to the child whose spawn is pending,
and `HandInv` keeps that spawner from being in the middle of an exec.

`TotalIsShared` puts these together. Sums over finite sets come first, in
`ThreadTrackerProofs`: `SumOf` is the community modules' `MapThenSumSet` applied to a function. The
recursive function in that definition exists and is unique (`SumsExist`, `SumsUnique`, by induction over the
subsets of a finite set), the sum does not depend on which element is taken first (`SumTake`), and the sum over disjoint
sets is the sum of their sums (`SumFamily`). `TreeCpu` and `SelfCpu` are one shape of recursion
(`AddsUp`): each span adds to its usage what the function gives for those of its children that are of certain
kinds. It exists because the spans of a tree have a depth (`DepthExists`, `AddsUpExists`), and, whatever the kinds are, what it gives
for the spans that are nobody's such child sums up to all usages (`AddsUpToAll`). For `TreeCpu` these
are the root alone, as every span below another is known to have been spawned or executed (`Kinded`); for
`SelfCpu` they are the commands (`TreeAddsUp`).
What is left is that the tree has every span and that the spans make up the threads. `WholeInv` gives the first: a span that its
thread has left behind is reached, unless an exec was recorded too early (`PastInv`), and the span a thread in `bound` stands on is reached by
`PlaceInv`. The second is `CpuShared`, thread by thread, and `SumFamily` over the threads (`ThreadsAddUp`).

### What is only model-checked

Liveness (`Warms`, `Resumed`, `ReportFollows`, `EndsAfterRoot`) is outside what the prover can
do. Every other property of a passing run is stated by one of the theorems above.

Recursive functions over a well-founded order can be reasoned about (see
`CachedBuildProofs` and `ThreadTrackerProofs`), but the library's induction and recursion theorems that take an
operator as a parameter cannot be used, so each shape of recursion has its own proof that the function
exists.

## 5. What the checks say about the code

Violations (`findings`):

* Keys are sound if no input changes while a run is under way; the content hash taken at harvest
  (`main.rs:564`) is what breaks otherwise (`cb_midrun`).
* `zb time` looks at its deadline only between two blocking waits, so a quiet background
  process keeps the report from coming (`time_background`).

What holds, and why one might doubt it:

* Taking turns, all backends keep the contract across crashes at any point,
  whatever leftovers they meet. Racing, none of them ever promises a file that is
  missing. Of lmdb a bundle is whole and of one build even then.
* Recording the manifest again for a unit that is in the cache already (`main.rs:569`)
  is more than an optimisation: were a manifest lost, this heals the cache. (The mutant that
  records none breaks `BuiltWorldsHit`.)
* The LTO walk visits units again and again, and still ends, with the same modes in
  whatever order it goes.
* The tracker's tree, names, ends and CPU times survive events in any order, kills, and
  execs whose thread runs on, but for what is listed next.

Known limits, which the properties exclude in their wording or the runs by their constants:

* fs: racing, it can publish torn or mixed files, since
  the temporary names are not unique (`fs.rs:96`).
* lmdb: each file of a restore is read in a transaction of its own (`lmdb.rs:106`), so a bundle
  replaced meanwhile comes out mixed.
* tikv: keeps an old snapshot of the same shape (`tikv.rs:120`); the late write of a dead
  process can put another build's artifact into a published bundle (`tikv.rs:78`).
* Harvest: what a build script reads without declaring it is in no key
  (`harvest.rs:131`), and relative paths of dep-info files are taken relative to the
  current directory (`harvest.rs:99`). Both are inputs in `Dropped`.
* If every unit hits, cargo is not called, so nothing links or copies the final binary
  after a clean (`main.rs:499`).
* Tracker: a command executed before its thread's spawn was seen is lost
  (`thread_tracker.rs:279`); a thread that executes twice is charged twice for its first part
  (`thread_tracker.rs:308`); when a thread id changes hands the tree may lose its shape or an assertion fails
  (`thread_tracker.rs:186`, `thread_tracker.rs:305`).
* The report panics without a root span, or with a command that still runs after the deadline
  (`command_tree.rs:149`).
* A real-time signal to any traced thread ends the loop of `zb time`: `WaitStatus::from_raw` knows no such signal, the wait counts
  as failed (`time_command.rs:203-212`), and the command as ended with exit code 2 though it runs. No deadline is set, and the report
  panics at the missing end of the command. glibc uses such signals to cancel threads and for `setuid` in programs with threads.
  `ReportPrints` names this case (`WaitFailed`), `time_odd` reaches it.
* fs: an artifact that is cut short in `target/` while it is copied is stored short (`fs.rs:194`).
* Bench: failing cleans are ignored (`bench.rs:206`), two benches at once lose a row of
  results (`bench.rs:45`), and every bench deletes the cache of all projects (`bench.rs:209`).

## 6. Not modelled, and why

* Command line parsing and printing (no state), `workload_sim` (a test program).
* The cargo library and rustc: external, modelled only as `Compile`, `Dirty` and `Put`.
* The parsing of dep-info lines and of build script outputs, and the path rules of
  `collect_unit_artifacts`: which files they find is a constant of the models.
* tikv's scan limit of 1024, lmdb's limits on the sizes of names and of the map: an error of
  the transaction is a `Crash`, and no more is said of when it comes.
* `diff_current`, the classification of misses and the summaries: they change no state.
* Signals to the command before its first exec, and job control: of signals to what is traced there are SIGKILL, those
  a thread is continued with, and real-time ones.
* The second termination signal, exit status, layout and groups of the report, memory
  and I/O figures; of bench the metrics, the dropping of the page cache and the printed table.

## 7. Plan

1. Harvest: dep-info lines (`harvest.rs:178-279`) as operators on abstract lines; the
   classification of misses against what really changed.
