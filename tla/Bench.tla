-------------------------------- MODULE Bench --------------------------------
(***************************************************************************)
(* cargo-zb bench (cargo-zb/src/bench.rs): one project is built again and  *)
(* again, between cleaning target/ and wiping the cache directory, and     *)
(* every timed run becomes a row of the project's entry in results.json.   *)
(*                                                                         *)
(* The cache directory and results.json are shared: with the developer's   *)
(* own cargo-zb runs in other projects, which go on meanwhile, with what   *)
(* a killed bench left behind, and, unless Alone, with other benches.      *)
(***************************************************************************)
EXTENDS Naturals, Sequences, FiniteSets

CONSTANTS
    Procs,       \* bench processes
    Projects,
    NoProject,
    Missing,     \* no file of this name
    Torn,        \* a file that is not completely written
    MaxMishaps,  \* bound on failing cleans, failing runs and killed benches
    Alone        \* TRUE: one bench at a time

VARIABLES
    cache,    \* cache[j]: what the cache directory holds of project j
    sccache,  \* projects sccache has compiled, in its own directory
    target,   \* target[j]: j is built in its target directory
    results,  \* results[j]: the rows saved for j (<<>>: no entry)
    tmp,      \* results.tmp
    at,       \* at[p]: position in Script (0: no bench)
    project,  \* the project p measures
    rows,     \* rows measured so far
    loaded,   \* what load_results read
    dirty,    \* a clean or a wipe of p failed, which is ignored
    mishaps

shared == <<cache, sccache, target, results, tmp>>
local == <<at, project, rows, loaded, dirty>>
vars == <<shared, local, mishaps>>

ASSUME BenchAssumption ==
    /\ NoProject \notin Projects
    /\ Missing # Torn
    /\ MaxMishaps \in Nat
    /\ Alone \in BOOLEAN

\* Mutant of Script: the cache is never wiped.
ScriptNoWipe ==
    << "clean", "baseline", "clean", "first", "clean", "cold", "clean", "warm",
       "clean", "forget", "sccold", "clean", "scwarm", "forget",
       "load", "write", "rename" >>

\* run_bench, with sccache.
Script ==
    << "clean", "wipe", "baseline", "clean", "wipe", "first",
       "clean", "cold", "clean", "warm",
       "clean", "forget", "sccold", "clean", "scwarm", "forget",
       "load", "write", "rename" >>

CargoRuns == {"baseline"}
ZbRuns == {"first", "cold", "warm"}
SccacheRuns == {"sccold", "scwarm"}

\* What every row claims to have measured.
Claim == [baseline |-> "compiled", first |-> "stored", cold |-> "restored",
          warm |-> "restored", sccold |-> "compiled", scwarm |-> "cached"]

Rows == Seq([label : DOMAIN Claim, did : {"compiled", "stored", "restored",
                                          "mixed", "cached", "nothing"}])

NoResults == [j \in Projects |-> <<>>]
Saved == [Projects -> Rows]

\* A file that is missing or torn does not parse.
ASSUME FilesAssumption == Missing \notin Saved /\ Torn \notin Saved
-----------------------------------------------------------------------------
Init ==
    /\ cache \in [Projects -> {"none", "whole"}]
    /\ sccache = {}
    /\ target \in [Projects -> BOOLEAN]
    /\ results = NoResults
    /\ tmp = Missing
    /\ at = [p \in Procs |-> 0]
    /\ project = [p \in Procs |-> NoProject]
    /\ rows = [p \in Procs |-> <<>>]
    /\ loaded = [p \in Procs |-> NoResults]
    /\ dirty = [p \in Procs |-> FALSE]
    /\ mishaps = 0

At(p, ops) == at[p] > 0 /\ Script[at[p]] \in ops
Forward(p) == at' = [at EXCEPT ![p] = @ + 1]

Stop(p) ==
    /\ at' = [at EXCEPT ![p] = 0]
    /\ project' = [project EXCEPT ![p] = NoProject]
    /\ rows' = [rows EXCEPT ![p] = <<>>]
    /\ loaded' = [loaded EXCEPT ![p] = NoResults]
    /\ dirty' = [dirty EXCEPT ![p] = FALSE]

Start(p, j) ==
    /\ at[p] = 0
    /\ Alone => \A q \in Procs : at[q] = 0
    /\ \A q \in Procs : project[q] # j
    /\ at' = [at EXCEPT ![p] = 1]
    /\ project' = [project EXCEPT ![p] = j]
    /\ UNCHANGED <<shared, rows, loaded, dirty, mishaps>>

\* cargo clean
Clean(p) ==
    /\ At(p, {"clean"})
    /\ target' = [target EXCEPT ![project[p]] = FALSE]
    /\ Forward(p)
    /\ UNCHANGED <<cache, sccache, results, tmp, project, rows, loaded, dirty, mishaps>>

\* remove_dir_all of the cache directory deletes one file after the other, of
\* all projects, ...
WipeSome(p) ==
    /\ At(p, {"wipe"})
    /\ \E j \in Projects : cache[j] = "whole" /\ cache' = [cache EXCEPT ![j] = "part"]
    /\ UNCHANGED <<sccache, target, results, tmp, local, mishaps>>

\* ... sccache's directory below it, too.
Wipe(p) ==
    /\ At(p, {"wipe"})
    /\ cache' = [j \in Projects |-> "none"]
    /\ sccache' = {}
    /\ Forward(p)
    /\ UNCHANGED <<target, results, tmp, project, rows, loaded, dirty, mishaps>>

\* remove_dir_all of sccache's directory.
Forget(p) ==
    /\ At(p, {"forget"})
    /\ sccache' = {}
    /\ Forward(p)
    /\ UNCHANGED <<cache, target, results, tmp, project, rows, loaded, dirty, mishaps>>

\* The result of any of these is thrown away: the bench goes on.
CleaningFails(p) ==
    /\ mishaps < MaxMishaps
    /\ At(p, {"clean", "wipe", "forget"})
    /\ Forward(p)
    /\ dirty' = [dirty EXCEPT ![p] = TRUE]
    /\ mishaps' = mishaps + 1
    /\ UNCHANGED <<shared, project, rows, loaded>>

\* Mutant of Measured: the row is labelled after the step that follows.
MeasuredLate(p, did) ==
    /\ rows' = [rows EXCEPT ![p] = Append(@, [label |-> Script[at[p] + 1], did |-> did])]
    /\ Forward(p)
    /\ UNCHANGED <<project, loaded, dirty>>

\* timed_run succeeded: one more row.
Measured(p, did) ==
    /\ rows' = [rows EXCEPT ![p] = Append(@, [label |-> Script[at[p]], did |-> did])]
    /\ Forward(p)
    /\ UNCHANGED <<project, loaded, dirty>>

\* cargo build
CargoBuild(p) ==
    LET j == project[p] IN
    /\ At(p, CargoRuns)
    /\ target' = [target EXCEPT ![j] = TRUE]
    /\ Measured(p, IF target[j] THEN "nothing" ELSE "compiled")
    /\ UNCHANGED <<cache, sccache, results, tmp, mishaps>>

\* What a cargo zb run leaves of j in the cache: of a bundle that lost files but
\* not its manifest nothing is stored again.
AfterZb(j) == IF cache[j] = "part" THEN {"part", "whole"} ELSE {"whole"}

\* cargo zb: what the cache has of the project is restored, the rest is built
\* and stored.
ZbBuild(p) ==
    LET j == project[p] IN
    /\ At(p, ZbRuns)
    /\ target' = [target EXCEPT ![j] = TRUE]
    /\ \E c \in AfterZb(j) : cache' = [cache EXCEPT ![j] = c]
    /\ Measured(p, CASE cache[j] = "whole" -> "restored"
                     [] cache[j] = "part"  -> "mixed"
                     [] cache[j] = "none"  -> IF target[j] THEN "nothing" ELSE "stored")
    /\ UNCHANGED <<sccache, results, tmp, mishaps>>

\* cargo build under RUSTC_WRAPPER=sccache
SccacheBuild(p) ==
    LET j == project[p] IN
    /\ At(p, SccacheRuns)
    /\ target' = [target EXCEPT ![j] = TRUE]
    /\ sccache' = sccache \cup {j}
    /\ Measured(p, IF target[j] THEN "nothing"
                   ELSE IF j \in sccache THEN "cached" ELSE "compiled")
    /\ UNCHANGED <<cache, results, tmp, mishaps>>

\* A failing run ends the bench before anything is saved, one under sccache only
\* lacks its row.
RunFails(p) ==
    /\ mishaps < MaxMishaps
    /\ mishaps' = mishaps + 1
    /\ \/ At(p, CargoRuns \cup ZbRuns) /\ Stop(p)
       \/ /\ At(p, SccacheRuns)
          /\ Forward(p)
          /\ dirty' = [dirty EXCEPT ![p] = TRUE]
          /\ UNCHANGED <<project, rows, loaded>>
    /\ UNCHANGED shared

\* load_results; a file that does not parse ends the bench (see Kill).
LoadResults(p) ==
    /\ At(p, {"load"})
    /\ results # Torn
    /\ loaded' = [loaded EXCEPT ![p] = results]
    /\ Forward(p)
    /\ UNCHANGED <<shared, project, rows, dirty, mishaps>>

\* fs::write of results.tmp: the file is created or truncated, ...
CreateResults(p) ==
    /\ At(p, {"write"}) /\ tmp # Torn
    /\ tmp' = Torn
    /\ UNCHANGED <<cache, sccache, target, results, local, mishaps>>

\* Mutant of WriteResults: results.json is written in place.
WriteResultsInPlace(p) ==
    /\ At(p, {"write"})
    /\ \/ /\ results # Torn /\ results' = Torn /\ UNCHANGED <<tmp, at>>
       \/ /\ results = Torn
          /\ results' = [loaded[p] EXCEPT ![project[p]] = rows[p]]
          /\ tmp' = results' /\ Forward(p)
    /\ UNCHANGED <<cache, sccache, target, project, rows, loaded, dirty, mishaps>>

\* ... then filled; the entry of the project is replaced or added.
WriteResults(p) ==
    /\ At(p, {"write"}) /\ tmp = Torn
    /\ tmp' = [loaded[p] EXCEPT ![project[p]] = rows[p]]
    /\ Forward(p)
    /\ UNCHANGED <<cache, sccache, target, results, project, rows, loaded, dirty, mishaps>>

\* rename of results.tmp; the bench is over.
RenameResults(p) ==
    /\ At(p, {"rename"})
    /\ IF tmp = Missing THEN UNCHANGED <<results, tmp>>
       ELSE results' = tmp /\ tmp' = Missing
    /\ Stop(p)
    /\ UNCHANGED <<cache, sccache, target, mishaps>>

\* The bench is killed, or an error ends it.
Kill(p) ==
    /\ mishaps < MaxMishaps
    /\ at[p] # 0
    /\ Stop(p)
    /\ mishaps' = mishaps + 1
    /\ UNCHANGED shared

\* The developer's own cargo zb, in a project that is not being measured.
DevRun(j) ==
    /\ \A p \in Procs : project[p] # j
    /\ \E c \in AfterZb(j) : cache' = [cache EXCEPT ![j] = c]
    /\ target' = [target EXCEPT ![j] = TRUE]
    /\ UNCHANGED <<sccache, results, tmp, local, mishaps>>

Step(p) ==
    \/ Clean(p) \/ WipeSome(p) \/ Wipe(p) \/ Forget(p) \/ CleaningFails(p)
    \/ CargoBuild(p) \/ ZbBuild(p) \/ SccacheBuild(p) \/ RunFails(p)
    \/ LoadResults(p) \/ CreateResults(p) \/ WriteResults(p) \/ RenameResults(p)
    \/ Kill(p)

Next ==
    \/ \E p \in Procs, j \in Projects : Start(p, j)
    \/ \E p \in Procs : Step(p)
    \/ \E j \in Projects : DevRun(j)

Spec == Init /\ [][Next]_vars
-----------------------------------------------------------------------------
TypeOK ==
    /\ cache \in [Projects -> {"none", "part", "whole"}]
    /\ sccache \subseteq Projects
    /\ target \in [Projects -> BOOLEAN]
    /\ results = Torn \/ results \in Saved
    /\ tmp \in {Missing, Torn} \/ tmp \in Saved
    /\ at \in [Procs -> 0..Len(Script)]
    /\ project \in [Procs -> Projects \cup {NoProject}]
    /\ rows \in [Procs -> Rows] /\ loaded \in [Procs -> Saved]
    /\ dirty \in [Procs -> BOOLEAN]

Labels == <<"baseline", "first", "cold", "warm", "sccold", "scwarm">>

\* Every row measured what its label says and all rows are there when the entry
\* is written, whatever an earlier bench, killed anywhere, left in target/ and in
\* the cache, and whatever is built in other projects meanwhile; provided that
\* none of the bench's own cleans failed, which it does not notice.
RowsHonest ==
    \A p \in Procs : ~dirty[p] =>
        /\ \A i \in 1..Len(rows[p]) : rows[p][i].did = Claim[rows[p][i].label]
        /\ At(p, {"write", "rename"}) =>
              [i \in 1..Len(rows[p]) |-> rows[p][i].label] = Labels

\* save_result: results.json can always be read, whenever a bench is killed, and
\* saving the rows of one project changes no other project's entry.
ResultsKept ==
    [][/\ results' # Torn
       /\ \A j \in Projects : results'[j] # results[j] =>
             \E p \in Procs : project[p] = j /\ results'[j] = rows[p]]_results
=============================================================================
