----------------------------- MODULE BenchProofs -----------------------------
(***************************************************************************)
(* What a bench measures and saves (Bench), for any processes, projects    *)
(* and number of mishaps: types, and, of benches that run one at a time,   *)
(* that every row measured what its label says and that results.json is    *)
(* never lost.                                                             *)
(***************************************************************************)
EXTENDS Bench, TLAPS

(***************************************************************************)
(* What a bench knows at each position of its script.                      *)
(***************************************************************************)
\* An idle process holds nothing; a bench has a project of its own.
Roles ==
    \A p \in Procs :
        /\ at[p] = 0 => /\ project[p] = NoProject /\ rows[p] = <<>>
                        /\ ~dirty[p]
        /\ at[p] # 0 => project[p] \in Projects

Shapes == TypeOK /\ Roles

OneBench == \A p, q \in Procs : at[p] # 0 /\ at[q] # 0 => p = q

\* Rows measured before position i.
Done(i) == CASE i \in 0..3   -> 0
             [] i \in 4..6   -> 1
             [] i \in 7..8   -> 2
             [] i \in 9..10  -> 3
             [] i \in 11..13 -> 4
             [] i \in 14..15 -> 5
             [] i \in 16..19 -> 6

\* The rows of a bench whose first n measurements all did what they claim.
Honest(n) == [k \in 1..n |-> [label |-> Labels[k], did |-> Claim[Labels[k]]]]

\* Positions at which target/ was cleaned and not yet built into.
Cleaned == {2, 3, 5, 6, 8, 10, 12, 13, 15}

\* What the bench p has made of its project's share of the world.
WorldOf(p) ==
    LET j == project[p] IN
    /\ at[p] \in Cleaned => ~target[j]
    /\ at[p] \in {3, 6} => cache[j] = "none"
    /\ at[p] \in 7..19 => cache[j] = "whole"
    /\ at[p] = 13 => j \notin sccache
    /\ at[p] \in 14..15 => j \in sccache

Progress ==
    \A p \in Procs : ~dirty[p] /\ at[p] # 0 =>
        rows[p] = Honest(Done(at[p])) /\ WorldOf(p)

\* results.json parses, and the bench that is about to save holds all of it.
SaveInv ==
    /\ results \in Saved
    /\ \A p \in Procs :
          /\ at[p] \in 18..19 => loaded[p] = results
          /\ at[p] = 19 => tmp = [results EXCEPT ![project[p]] = rows[p]]

BenchInv == Shapes /\ OneBench /\ Progress /\ SaveInv
-----------------------------------------------------------------------------
(***************************************************************************)
(* The script.                                                             *)
(***************************************************************************)

\* Where run_bench does what.
LEMMA Places ==
    /\ Len(Script) = 19
    /\ \A i \in 1..19 :
          /\ Script[i] \in {"clean", "wipe", "forget"} <=>
                i \in {1, 2, 4, 5, 7, 9, 11, 12, 14, 16}
          /\ Script[i] = "clean" <=> i \in {1, 4, 7, 9, 11, 14}
          /\ Script[i] = "wipe" <=> i \in {2, 5}
          /\ Script[i] = "forget" <=> i \in {12, 16}
          /\ Script[i] \in CargoRuns <=> i = 3
          /\ Script[i] \in ZbRuns <=> i \in {6, 8, 10}
          /\ Script[i] \in SccacheRuns <=> i \in {13, 15}
          /\ Script[i] \in CargoRuns \cup ZbRuns <=> i \in {3, 6, 8, 10}
          /\ Script[i] = "load" <=> i = 17
          /\ Script[i] = "write" <=> i = 18
          /\ Script[i] = "rename" <=> i = 19
  BY DEF Script, CargoRuns, ZbRuns, SccacheRuns

\* The runs that are measured, in order.
LEMMA Measurements ==
    /\ Script[3] = "baseline" /\ Script[6] = "first" /\ Script[8] = "cold"
    /\ Script[10] = "warm" /\ Script[13] = "sccold" /\ Script[15] = "scwarm"
  BY DEF Script

\* A process at one of these operations is at one of their positions.
LEMMA AtPlace ==
  ASSUME Shapes, NEW p \in Procs
  PROVE  /\ at[p] \in 0..19
         /\ At(p, {"clean", "wipe", "forget"}) =>
                at[p] \in {1, 2, 4, 5, 7, 9, 11, 12, 14, 16}
         /\ At(p, {"clean"}) => at[p] \in {1, 4, 7, 9, 11, 14}
         /\ At(p, {"wipe"}) => at[p] \in {2, 5}
         /\ At(p, {"forget"}) => at[p] \in {12, 16}
         /\ At(p, CargoRuns) => at[p] = 3
         /\ At(p, ZbRuns) => at[p] \in {6, 8, 10}
         /\ At(p, SccacheRuns) => at[p] \in {13, 15}
         /\ At(p, CargoRuns \cup ZbRuns) => at[p] \in {3, 6, 8, 10}
         /\ At(p, {"load"}) => at[p] = 17
         /\ At(p, {"write"}) => at[p] = 18
         /\ At(p, {"rename"}) => at[p] = 19
         /\ At(p, {"write", "rename"}) => at[p] \in 18..19
  <1>1. at[p] \in 0..19
    BY Places DEF Shapes, TypeOK
  <1>2. at[p] > 0 => at[p] \in 1..19
    BY <1>1
  <1> HIDE DEF Script
  <1> QED
    BY <1>1, <1>2, Places DEF At

-----------------------------------------------------------------------------
(***************************************************************************)
(* Steps of one bench.                                                     *)
(***************************************************************************)

\* A bench goes on to the next position.
LEMMA Forwarded ==
  ASSUME Shapes, NEW p \in Procs, at[p] \in 1..18, Forward(p)
  PROVE  /\ at' \in [Procs -> 0..Len(Script)]
         /\ at'[p] = at[p] + 1
         /\ \A q \in Procs : q # p => at'[q] = at[q]
  <1>1. at \in [Procs -> 0..19]
    BY Places DEF Shapes, TypeOK
  <1>2. at' = [at EXCEPT ![p] = at[p] + 1]
    BY DEF Forward
  <1>3. at' \in [Procs -> 0..19]
    BY <1>1, <1>2
  <1> QED
    BY <1>1, <1>2, <1>3, Places

\* A bench that goes on and keeps its project.
LEMMA Going ==
  ASSUME Shapes, NEW p \in Procs, at[p] \in 1..18, Forward(p),
         project' = project, rows' \in [Procs -> Rows],
         \A q \in Procs : q # p => rows'[q] = rows[q] /\ dirty'[q] = dirty[q]
  PROVE  Roles'
  <1>1. Roles
    BY DEF Shapes
  <1>2. at'[p] \in 2..19 /\ \A q \in Procs : q # p => at'[q] = at[q]
    BY Forwarded
  <1>3. p \in Procs /\ at'[p] # 0 /\ project[p] \in Projects
    BY <1>1, <1>2 DEF Roles
  <1> QED
    BY <1>1, <1>2, <1>3 DEF Roles

\* What timed_run did.
Dids == {"compiled", "stored", "restored", "mixed", "cached", "nothing"}

\* A measured run leaves a row more.
LEMMA RowAdded ==
  ASSUME Shapes, NEW p \in Procs, at[p] \in {3, 6, 8, 10, 13, 15},
         NEW did \in Dids, Measured(p, did)
  PROVE  /\ at' \in [Procs -> 0..Len(Script)]
         /\ at'[p] = at[p] + 1
         /\ \A q \in Procs : q # p => at'[q] = at[q] /\ rows'[q] = rows[q]
         /\ rows' \in [Procs -> Rows]
         /\ rows'[p] = Append(rows[p], [label |-> Script[at[p]], did |-> did])
         /\ UNCHANGED <<project, loaded, dirty>>
         /\ Roles'
  <1> DEFINE row == [label |-> Script[at[p]], did |-> did]
             S == [label : DOMAIN Claim, did : Dids]
  <1>1. Script[at[p]] \in DOMAIN Claim
    BY Measurements DEF Claim
  <1>2. row \in S
    BY <1>1
  <1>3. rows \in [Procs -> Seq(S)] /\ Rows = Seq(S)
    BY DEF Shapes, TypeOK, Rows, Dids
  <1>4. rows' = [rows EXCEPT ![p] = Append(rows[p], row)] /\ Forward(p)
        /\ UNCHANGED <<project, loaded, dirty>>
    BY DEF Measured
  <1>5. Append(rows[p], row) \in Seq(S)
    <2> HIDE DEF row, S
    <2> QED BY <1>2, <1>3
  <1>6. /\ rows' \in [Procs -> Rows]
        /\ rows'[p] = Append(rows[p], row)
        /\ \A q \in Procs : q # p => rows'[q] = rows[q]
    <2> HIDE DEF row, S
    <2> QED BY <1>3, <1>4, <1>5
  <1>7. /\ at' \in [Procs -> 0..Len(Script)]
        /\ at'[p] = at[p] + 1
        /\ \A q \in Procs : q # p => at'[q] = at[q]
    BY <1>4, Forwarded
  <1>8. Roles'
    BY <1>4, <1>6, Going
  <1> QED
    BY <1>4, <1>6, <1>7, <1>8

\* A bench that is over holds nothing.
LEMMA Stopped ==
  ASSUME Shapes, NEW p \in Procs, Stop(p)
  PROVE  /\ at' \in [Procs -> 0..Len(Script)]
         /\ project' \in [Procs -> Projects \cup {NoProject}]
         /\ rows' \in [Procs -> Rows] /\ loaded' \in [Procs -> Saved]
         /\ dirty' \in [Procs -> BOOLEAN]
         /\ Roles'
         /\ at'[p] = 0
         /\ \A q \in Procs : q # p =>
               /\ at'[q] = at[q] /\ project'[q] = project[q]
               /\ rows'[q] = rows[q] /\ loaded'[q] = loaded[q]
               /\ dirty'[q] = dirty[q]
  <1>1. <<>> \in Rows /\ NoResults \in Saved
    BY DEF Rows, NoResults, Saved
  <1>2. TypeOK /\ Roles
    BY DEF Shapes
  <1>3. /\ at \in [Procs -> 0..Len(Script)]
        /\ project \in [Procs -> Projects \cup {NoProject}]
        /\ rows \in [Procs -> Rows] /\ loaded \in [Procs -> Saved]
        /\ dirty \in [Procs -> BOOLEAN]
    BY <1>2 DEF TypeOK
  <1>4. Len(Script) = 19
    BY Places
  <1> HIDE DEF Script
  <1>5. /\ at' = [at EXCEPT ![p] = 0]
        /\ project' = [project EXCEPT ![p] = NoProject]
        /\ rows' = [rows EXCEPT ![p] = <<>>]
        /\ loaded' = [loaded EXCEPT ![p] = NoResults]
        /\ dirty' = [dirty EXCEPT ![p] = FALSE]
    BY DEF Stop
  <1>6. at' \in [Procs -> 0..Len(Script)]
    BY <1>3, <1>4, <1>5
  <1>7. /\ project' \in [Procs -> Projects \cup {NoProject}]
        /\ rows' \in [Procs -> Rows] /\ loaded' \in [Procs -> Saved]
    BY <1>1, <1>3, <1>5
  <1>8. dirty' \in [Procs -> BOOLEAN] /\ dirty'[p] = FALSE
    BY <1>3, <1>5, Zenon
  <1>9. \A q \in Procs : q # p => dirty'[q] = dirty[q]
    BY <1>3, <1>5, Zenon
  <1>10. /\ at'[p] = 0 /\ project'[p] = NoProject /\ rows'[p] = <<>>
         /\ \A q \in Procs : q # p =>
               /\ at'[q] = at[q] /\ project'[q] = project[q]
               /\ rows'[q] = rows[q] /\ loaded'[q] = loaded[q]
    BY <1>3, <1>5
  <1>11. Roles'
    BY <1>2, <1>8, <1>9, <1>10 DEF Roles
  <1> QED
    BY <1>6, <1>7, <1>8, <1>9, <1>10, <1>11

-----------------------------------------------------------------------------
(***************************************************************************)
(* Types.                                                                  *)
(***************************************************************************)

\* At first no bench is under way.
LEMMA InitShapes == Init => Shapes
  <1> SUFFICES ASSUME Init PROVE Shapes
    OBVIOUS
  <1>1. <<>> \in Rows
    BY DEF Rows
  <1>2. NoResults \in Saved
    BY <1>1 DEF NoResults, Saved
  <1>3. TypeOK
    BY <1>1, <1>2, Places DEF TypeOK, Init
  <1>4. Roles
    BY DEF Roles, Init
  <1> QED
    BY <1>3, <1>4 DEF Shapes

\* What a cargo-zb run may leave of a bundle.
LEMMA ZbLeaves ==
  ASSUME Shapes, NEW j \in Projects, NEW c \in AfterZb(j)
  PROVE  c \in {"none", "part", "whole"}
  BY DEF AfterZb

\* Every step keeps types and roles.
LEMMA ShapesStep == Shapes /\ [Next]_vars => Shapes'
  <1> SUFFICES ASSUME Shapes, [Next]_vars PROVE Shapes'
    OBVIOUS
  <1>1. TypeOK /\ Roles
    BY DEF Shapes
  <1>2. Len(Script) = 19
    BY Places
  <1> HIDE DEF Script
  <1>3. CASE UNCHANGED vars
    BY <1>1, <1>3 DEF Shapes, TypeOK, Roles, vars, shared, local, At
  <1>4. ASSUME NEW p \in Procs, NEW j \in Projects, Start(p, j)
        PROVE  Shapes'
    <2>1. at' = [at EXCEPT ![p] = 1] /\ project' = [project EXCEPT ![p] = j]
          /\ UNCHANGED <<shared, rows, loaded, dirty>>
      BY <1>4 DEF Start
    <2>2. at' \in [Procs -> 0..Len(Script)]
      BY <1>1, <1>2, <2>1 DEF TypeOK
    <2>3. project' \in [Procs -> Projects \cup {NoProject}]
      BY <1>1, <2>1 DEF TypeOK
    <2>4. TypeOK'
      BY <1>1, <2>1, <2>2, <2>3 DEF TypeOK, shared
    <2>5. Roles'
      BY <1>1, <2>1 DEF Roles, TypeOK
    <2> QED
      BY <2>4, <2>5 DEF Shapes
  <1>5. ASSUME NEW p \in Procs, Step(p)
        PROVE  Shapes'
    <2>1. CASE Clean(p)
      <3>1. at[p] \in 1..18 /\ Forward(p)
        BY <2>1, AtPlace DEF Clean
      <3>2. target' \in [Projects -> BOOLEAN]
        BY <1>1, <2>1, Zenon DEF Clean, TypeOK
      <3>3. TypeOK'
        BY <1>1, <2>1, <3>1, <3>2, Forwarded DEF Clean, TypeOK
      <3>4. Roles'
        BY <1>1, <2>1, <3>1, Going DEF Clean, TypeOK
      <3> QED
        BY <3>3, <3>4 DEF Shapes
    <2>2. CASE WipeSome(p)
      <3>1. TypeOK'
        BY <1>1, <2>2 DEF WipeSome, TypeOK, local
      <3>2. Roles'
        BY <1>1, <2>2 DEF WipeSome, Roles, local
      <3> QED
        BY <3>1, <3>2 DEF Shapes
    <2>3. CASE Wipe(p)
      <3>1. at[p] \in 1..18 /\ Forward(p)
        BY <2>3, AtPlace DEF Wipe
      <3>2. TypeOK'
        BY <1>1, <2>3, <3>1, Forwarded DEF Wipe, TypeOK
      <3>3. Roles'
        BY <1>1, <2>3, <3>1, Going DEF Wipe, TypeOK
      <3> QED
        BY <3>2, <3>3 DEF Shapes
    <2>4. CASE Forget(p)
      <3>1. at[p] \in 1..18 /\ Forward(p)
        BY <2>4, AtPlace DEF Forget
      <3>2. TypeOK'
        BY <1>1, <2>4, <3>1, Forwarded DEF Forget, TypeOK
      <3>3. Roles'
        BY <1>1, <2>4, <3>1, Going DEF Forget, TypeOK
      <3> QED
        BY <3>2, <3>3 DEF Shapes
    <2>5. CASE CleaningFails(p)
      <3>1. at[p] \in 1..18 /\ Forward(p)
        BY <2>5, AtPlace DEF CleaningFails
      <3>2. dirty' \in [Procs -> BOOLEAN]
        BY <1>1, <2>5, Zenon DEF CleaningFails, TypeOK
      <3>3. TypeOK'
        BY <1>1, <2>5, <3>1, <3>2, Forwarded DEF CleaningFails, TypeOK, shared
      <3>4. \A q \in Procs : q # p => dirty'[q] = dirty[q]
        BY <1>1, <2>5, Zenon DEF CleaningFails, TypeOK
      <3>5. project' = project /\ rows' = rows /\ rows \in [Procs -> Rows]
        BY <1>1, <2>5 DEF CleaningFails, TypeOK
      <3>6. Roles'
        BY <3>1, <3>4, <3>5, Going
      <3> QED
        BY <3>3, <3>6 DEF Shapes
    <2>6. CASE CargoBuild(p)
      <3> DEFINE did == IF target[project[p]] THEN "nothing" ELSE "compiled"
      <3>1. at[p] = 3 /\ did \in Dids /\ Measured(p, did)
        BY <2>6, AtPlace DEF CargoBuild, Dids
      <3>2. target' \in [Projects -> BOOLEAN]
        BY <1>1, <2>6, Zenon DEF CargoBuild, TypeOK
      <3> HIDE DEF did
      <3>3. /\ at' \in [Procs -> 0..Len(Script)]
            /\ rows' \in [Procs -> Rows]
            /\ UNCHANGED <<project, loaded, dirty>> /\ Roles'
        BY <3>1, RowAdded
      <3>4. TypeOK'
        BY <1>1, <2>6, <3>2, <3>3 DEF CargoBuild, TypeOK
      <3> QED
        BY <3>3, <3>4 DEF Shapes
    <2>7. CASE ZbBuild(p)
      <3> DEFINE j == project[p]
                 did == CASE cache[j] = "whole" -> "restored"
                          [] cache[j] = "part"  -> "mixed"
                          [] cache[j] = "none"  -> IF target[j] THEN "nothing"
                                                                ELSE "stored"
      <3>1. at[p] \in {6, 8, 10} /\ Measured(p, did)
        BY <2>7, AtPlace DEF ZbBuild
      <3>2. j \in Projects
        BY <1>1, <3>1 DEF Roles
      <3>3. cache[j] \in {"none", "part", "whole"}
        BY <1>1, <3>2 DEF TypeOK
      <3>4. did \in Dids
        BY <3>3 DEF Dids
      <3>5. target' \in [Projects -> BOOLEAN]
        BY <1>1, <2>7, Zenon DEF ZbBuild, TypeOK
      <3>6. PICK c \in AfterZb(j) : cache' = [cache EXCEPT ![j] = c]
        BY <2>7 DEF ZbBuild
      <3>7. cache' \in [Projects -> {"none", "part", "whole"}]
        BY <1>1, <3>2, <3>6, ZbLeaves DEF TypeOK
      <3> HIDE DEF did
      <3>8. /\ at' \in [Procs -> 0..Len(Script)]
            /\ rows' \in [Procs -> Rows]
            /\ UNCHANGED <<project, loaded, dirty>> /\ Roles'
        BY <3>1, <3>4, RowAdded
      <3>9. TypeOK'
        BY <1>1, <2>7, <3>5, <3>7, <3>8 DEF ZbBuild, TypeOK
      <3> QED
        BY <3>8, <3>9 DEF Shapes
    <2>8. CASE SccacheBuild(p)
      <3> DEFINE j == project[p]
                 did == IF target[j] THEN "nothing"
                        ELSE IF j \in sccache THEN "cached" ELSE "compiled"
      <3>1. at[p] \in {13, 15} /\ did \in Dids /\ Measured(p, did)
        BY <2>8, AtPlace DEF SccacheBuild, Dids
      <3>2. j \in Projects
        BY <1>1, <3>1 DEF Roles
      <3>3. target' \in [Projects -> BOOLEAN]
        BY <1>1, <2>8, Zenon DEF SccacheBuild, TypeOK
      <3>4. sccache' \subseteq Projects
        BY <1>1, <2>8, <3>2 DEF SccacheBuild, TypeOK
      <3> HIDE DEF did
      <3>5. /\ at' \in [Procs -> 0..Len(Script)]
            /\ rows' \in [Procs -> Rows]
            /\ UNCHANGED <<project, loaded, dirty>> /\ Roles'
        BY <3>1, RowAdded
      <3>6. TypeOK'
        BY <1>1, <2>8, <3>3, <3>4, <3>5 DEF SccacheBuild, TypeOK
      <3> QED
        BY <3>5, <3>6 DEF Shapes
    <2>9. CASE RunFails(p)
      <3>1. CASE Stop(p)
        BY <1>1, <2>9, <3>1, Stopped DEF RunFails, TypeOK, shared, Shapes
      <3>2. CASE /\ At(p, SccacheRuns) /\ Forward(p)
                 /\ dirty' = [dirty EXCEPT ![p] = TRUE]
                 /\ UNCHANGED <<project, rows, loaded>>
        <4>1. at[p] \in 1..18
          BY <3>2, AtPlace
        <4>2. /\ dirty' \in [Procs -> BOOLEAN]
              /\ \A q \in Procs : q # p => dirty'[q] = dirty[q]
          BY <1>1, <3>2, Zenon DEF TypeOK
        <4>3. TypeOK'
          BY <1>1, <2>9, <3>2, <4>1, <4>2, Forwarded DEF RunFails, TypeOK, shared
        <4>4. project' = project /\ rows' = rows /\ rows \in [Procs -> Rows]
          BY <1>1, <3>2 DEF TypeOK
        <4>5. Roles'
          BY <3>2, <4>1, <4>2, <4>4, Going
        <4> QED
          BY <4>3, <4>5 DEF Shapes
      <3> QED
        BY <2>9, <3>1, <3>2 DEF RunFails
    <2>10. CASE LoadResults(p)
      <3>1. at[p] \in 1..18 /\ Forward(p)
        BY <2>10, AtPlace DEF LoadResults
      <3>2. loaded' \in [Procs -> Saved]
        BY <1>1, <2>10 DEF LoadResults, TypeOK
      <3>3. TypeOK'
        BY <1>1, <2>10, <3>1, <3>2, Forwarded DEF LoadResults, TypeOK, shared
      <3>4. Roles'
        BY <1>1, <2>10, <3>1, Going DEF LoadResults, TypeOK
      <3> QED
        BY <3>3, <3>4 DEF Shapes
    <2>11. CASE CreateResults(p)
      <3>1. TypeOK'
        BY <1>1, <2>11 DEF CreateResults, TypeOK, local
      <3>2. Roles'
        BY <1>1, <2>11 DEF CreateResults, Roles, local
      <3> QED
        BY <3>1, <3>2 DEF Shapes
    <2>12. CASE WriteResults(p)
      <3>1. at[p] \in 1..18 /\ Forward(p)
        BY <2>12, AtPlace DEF WriteResults
      <3>2. tmp' \in Saved
        <4>1. loaded[p] \in Saved /\ rows[p] \in Rows
          BY <1>1 DEF TypeOK
        <4>2. tmp' = [loaded[p] EXCEPT ![project[p]] = rows[p]]
          BY <2>12 DEF WriteResults
        <4> QED
          BY <4>1, <4>2 DEF Saved
      <3>3. TypeOK'
        BY <1>1, <2>12, <3>1, <3>2, Forwarded DEF WriteResults, TypeOK
      <3>4. Roles'
        BY <1>1, <2>12, <3>1, Going DEF WriteResults, TypeOK
      <3> QED
        BY <3>3, <3>4 DEF Shapes
    <2>13. CASE RenameResults(p)
      <3>1. Stop(p) /\ UNCHANGED <<cache, sccache, target>>
        BY <2>13 DEF RenameResults
      <3>2. (results' = Torn \/ results' \in Saved)
            /\ (tmp' \in {Missing, Torn} \/ tmp' \in Saved)
        BY <1>1, <2>13 DEF RenameResults, TypeOK
      <3>3. TypeOK'
        BY <1>1, <3>1, <3>2, Stopped DEF TypeOK
      <3> QED
        BY <3>1, <3>3, Stopped DEF Shapes
    <2>14. CASE Kill(p)
      <3>1. Stop(p) /\ UNCHANGED shared
        BY <2>14 DEF Kill
      <3>2. TypeOK'
        BY <1>1, <3>1, Stopped DEF TypeOK, shared
      <3> QED
        BY <3>1, <3>2, Stopped DEF Shapes
    <2> QED
      BY <1>5, <2>1, <2>2, <2>3, <2>4, <2>5, <2>6, <2>7, <2>8, <2>9, <2>10,
         <2>11, <2>12, <2>13, <2>14 DEF Step
  <1>6. ASSUME NEW j \in Projects, DevRun(j)
        PROVE  Shapes'
    <2>1. PICK c \in AfterZb(j) : cache' = [cache EXCEPT ![j] = c]
      BY <1>6 DEF DevRun
    <2>2. cache' \in [Projects -> {"none", "part", "whole"}]
      BY <1>1, <2>1, ZbLeaves DEF TypeOK
    <2>3. target' \in [Projects -> BOOLEAN]
      BY <1>1, <1>6, Zenon DEF DevRun, TypeOK
    <2>4. TypeOK'
      BY <1>1, <1>6, <2>2, <2>3 DEF DevRun, TypeOK, local
    <2>5. Roles'
      BY <1>1, <1>6 DEF DevRun, Roles, local
    <2> QED
      BY <2>4, <2>5 DEF Shapes
  <1> QED
    BY <1>3, <1>4, <1>5, <1>6 DEF Next

\* Every variable keeps its type, and a run that is under way its project,
\* whatever several benches, killed anywhere, do to each other.
THEOREM TypeCorrect == Spec => []TypeOK
  <1>1. Spec => []Shapes
    BY InitShapes, ShapesStep, PTL DEF Spec
  <1>2. Shapes => TypeOK
    BY DEF Shapes
  <1> QED
    BY <1>1, <1>2, PTL

-----------------------------------------------------------------------------
(***************************************************************************)
(* Benches that run one at a time: what they measure.                      *)
(***************************************************************************)

\* Whether a bench is under way is changed by its start and its own steps.
LEMMA Moves ==
  ASSUME Shapes
  PROVE  /\ \A p \in Procs, j \in Projects : Start(p, j) =>
               /\ at[p] = 0 /\ at'[p] = 1 /\ project'[p] = j
               /\ \A q \in Procs : q # p => at'[q] = at[q]
         /\ \A p \in Procs : Step(p) =>
               /\ at[p] # 0
               /\ \A q \in Procs : q # p => at'[q] = at[q]
         /\ \A j \in Projects : DevRun(j) => at' = at
  <1>1. at \in [Procs -> 0..19] /\ Len(Script) = 19
        /\ project \in [Procs -> Projects \cup {NoProject}]
    BY Places DEF Shapes, TypeOK
  <1>2. ASSUME NEW p \in Procs, NEW j \in Projects, Start(p, j)
        PROVE  /\ at[p] = 0 /\ at'[p] = 1 /\ project'[p] = j
               /\ \A q \in Procs : q # p => at'[q] = at[q]
    BY <1>1, <1>2 DEF Start
  <1>3. ASSUME NEW p \in Procs, Step(p)
        PROVE  /\ at[p] # 0
               /\ \A q \in Procs : q # p => at'[q] = at[q]
    <2>1. ASSUME Forward(p) PROVE \A q \in Procs : q # p => at'[q] = at[q]
      BY <1>1, <2>1 DEF Forward
    <2>2. ASSUME Stop(p) PROVE \A q \in Procs : q # p => at'[q] = at[q]
      BY <1>1, <2>2 DEF Stop
    <2>3. at[p] # 0
      <3> HIDE DEF Script
      <3> QED
        BY <1>1, <1>3 DEF Step, At, Clean, WipeSome, Wipe, Forget, CleaningFails,
           CargoBuild, ZbBuild, SccacheBuild, RunFails, LoadResults,
           CreateResults, WriteResults, RenameResults, Kill
    <2>4. Forward(p) \/ Stop(p) \/ at' = at
      <3> HIDE DEF Script
      <3> QED
        BY <1>3 DEF Step, Clean, WipeSome, Wipe, Forget, CleaningFails,
           CargoBuild, ZbBuild, SccacheBuild, RunFails, LoadResults,
           CreateResults, WriteResults, RenameResults, Kill, Measured, local
    <2> QED
      BY <2>1, <2>2, <2>3, <2>4
  <1>4. ASSUME NEW j \in Projects, DevRun(j) PROVE at' = at
    BY <1>4 DEF DevRun, local
  <1> QED
    BY <1>2, <1>3, <1>4

\* A bench starts when no other is under way.
LEMMA OneBenchStep ==
  ASSUME Alone, Shapes, OneBench, [Next]_vars
  PROVE  OneBench'
  <1>1. CASE UNCHANGED vars
    BY <1>1 DEF OneBench, vars, local
  <1>2. ASSUME NEW p \in Procs, NEW j \in Projects, Start(p, j) PROVE OneBench'
    <2>1. \A q \in Procs : at[q] = 0
      BY <1>2 DEF Start
    <2> QED
      BY <1>2, <2>1, Moves DEF OneBench
  <1>3. ASSUME NEW p \in Procs, Step(p) PROVE OneBench'
    BY <1>3, Moves DEF OneBench
  <1>4. ASSUME NEW j \in Projects, DevRun(j) PROVE OneBench'
    BY <1>4, Moves DEF OneBench
  <1> QED
    BY <1>1, <1>2, <1>3, <1>4 DEF Next

\* Progress, of one process.
OwnProgress(p) ==
    ~dirty[p] /\ at[p] # 0 => rows[p] = Honest(Done(at[p])) /\ WorldOf(p)

\* With one bench under way the others have nothing to show.
LEMMA OnlyMine ==
  ASSUME Shapes, OneBench, NEW p \in Procs, at[p] # 0,
         \A q \in Procs : q # p => at'[q] = at[q],
         OwnProgress(p)'
  PROVE  Progress'
  BY DEF OneBench, Progress, OwnProgress

\* The number of rows at each position.
LEMMA DoneAt ==
  /\ \A i \in 1..18 : i \notin {3, 6, 8, 10, 13, 15} => Done(i + 1) = Done(i)
  /\ Done(1) = 0 /\ Done(3) = 0 /\ Done(4) = 1 /\ Done(6) = 1 /\ Done(7) = 2
  /\ Done(8) = 2 /\ Done(9) = 3 /\ Done(10) = 3 /\ Done(11) = 4
  /\ Done(13) = 4 /\ Done(14) = 5 /\ Done(15) = 5 /\ Done(16) = 6
  /\ Done(18) = 6 /\ Done(19) = 6
  BY DEF Done

\* The next row of an honest bench.
LEMMA NextRow ==
  /\ Honest(0) = <<>>
  /\ \A n \in 0..5 :
        Append(Honest(n), [label |-> Labels[n + 1],
                           did |-> Claim[Labels[n + 1]]]) = Honest(n + 1)
  <1>1. ASSUME NEW n \in 0..5
        PROVE  Append(Honest(n), [label |-> Labels[n + 1],
                                  did |-> Claim[Labels[n + 1]]]) = Honest(n + 1)
    <2> DEFINE row(k) == [label |-> Labels[k], did |-> Claim[Labels[k]]]
    <2> HIDE DEF row
    <2>1. Append([k \in 1..n |-> row(k)], row(n + 1)) = [k \in 1..(n + 1) |-> row(k)]
      OBVIOUS
    <2> QED
      BY <2>1 DEF Honest, row
  <1>2. Honest(0) = <<>>
    BY DEF Honest
  <1> QED
    BY <1>1, <1>2

\* What is measured at the positions of timed runs.
LEMMA RowAt ==
  ASSUME NEW i \in {3, 6, 8, 10, 13, 15}, NEW did,
         did = Claim[Script[i]]
  PROVE  Append(Honest(Done(i)), [label |-> Script[i], did |-> did])
            = Honest(Done(i + 1))
  <1>1. /\ Labels[1] = "baseline" /\ Labels[2] = "first" /\ Labels[3] = "cold"
        /\ Labels[4] = "warm" /\ Labels[5] = "sccold" /\ Labels[6] = "scwarm"
    BY DEF Labels
  <1>2. Done(i) \in 0..5 /\ Done(i + 1) = Done(i) + 1
        /\ Script[i] = Labels[Done(i) + 1]
    BY <1>1, DoneAt, Measurements
  <1> HIDE DEF Script, Labels, Done, Honest, Claim
  <1> QED
    BY <1>2, NextRow

\* A step that measures nothing keeps the rows it owes.
LEMMA Unmeasured ==
  ASSUME Shapes, Progress, NEW p \in Procs,
         at[p] \in 1..18, at[p] \notin {3, 6, 8, 10, 13, 15},
         Forward(p), rows' = rows, dirty' = dirty, ~dirty[p]
  PROVE  rows'[p] = Honest(Done(at'[p]))
  <1>1. at'[p] = at[p] + 1
    BY Forwarded
  <1>2. Done(at[p] + 1) = Done(at[p])
    BY DoneAt
  <1>3. rows[p] = Honest(Done(at[p]))
    BY DEF Progress
  <1> QED
    BY <1>1, <1>2, <1>3

\* A clean bench at position at[p] has its rows and its world.
LEMMA Owed ==
  ASSUME Progress, NEW p \in Procs, ~dirty[p], at[p] # 0
  PROVE  rows[p] = Honest(Done(at[p])) /\ WorldOf(p)
  BY DEF Progress

\* Every step of a bench leaves it what its next position relies on: a clean
\* target/ before each run, an empty or a whole cache, as it needs it.
LEMMA ProgressStep ==
  ASSUME Shapes, OneBench, Progress, [Next]_vars, Alone
  PROVE  Progress'
  <1>1. TypeOK /\ Roles
    BY DEF Shapes
  <1>2. /\ at \in [Procs -> 0..19]
        /\ target \in [Projects -> BOOLEAN]
        /\ cache \in [Projects -> {"none", "part", "whole"}]
    BY <1>1, Places DEF TypeOK
  <1> HIDE DEF Script, Honest, Done
  <1>3. CASE UNCHANGED vars
    BY <1>3 DEF Progress, WorldOf, vars, shared, local
  <1>4. ASSUME NEW p \in Procs, NEW j \in Projects, Start(p, j)
        PROVE  Progress'
    <2>1. \A q \in Procs : q # p => at'[q] = 0
      BY <1>4, Moves DEF Start
    <2>2. at'[p] = 1 /\ rows'[p] = <<>>
      BY <1>1, <1>4, Moves DEF Start, Roles
    <2>3. WorldOf(p)'
      BY <2>2 DEF WorldOf, Cleaned
    <2>4. rows'[p] = Honest(Done(at'[p]))
      BY <2>2, DoneAt, NextRow
    <2> QED
      BY <2>1, <2>3, <2>4 DEF Progress
  <1>5. ASSUME NEW p \in Procs, Step(p)
        PROVE  Progress'
    <2>1. at[p] # 0 /\ \A q \in Procs : q # p => at'[q] = at[q]
      BY <1>5, Moves
    <2> DEFINE j == project[p]
    <2>2. j \in Projects
      BY <1>1, <2>1 DEF Roles
    <2> HIDE DEF j
    <2> SUFFICES ASSUME ~dirty'[p], at'[p] # 0
                 PROVE  rows'[p] = Honest(Done(at'[p])) /\ WorldOf(p)'
      BY <2>1, OnlyMine DEF OwnProgress
    <2>3. CASE Clean(p)
      <3>1. /\ at[p] \in {1, 4, 7, 9, 11, 14} /\ Forward(p)
            /\ rows' = rows /\ dirty' = dirty /\ ~dirty[p]
        BY <2>3, AtPlace DEF Clean
      <3>2. at'[p] = at[p] + 1
        BY <3>1, Forwarded
      <3>3. rows'[p] = Honest(Done(at'[p]))
        BY <3>1, Unmeasured
      <3>4. WorldOf(p)
        BY <2>1, <3>1, Owed
      <3>5. target'[j] = FALSE /\ project'[p] = j
            /\ cache' = cache /\ sccache' = sccache
        BY <1>2, <2>2, <2>3, Zenon DEF Clean, j
      <3>6. WorldOf(p)'
        BY <3>1, <3>2, <3>4, <3>5 DEF WorldOf, Cleaned, j
      <3> QED
        BY <3>3, <3>6
    <2>4. CASE WipeSome(p)
      <3>1. at[p] \in {2, 5}
        BY <2>4, AtPlace DEF WipeSome
      <3>2. ~dirty[p] /\ UNCHANGED <<sccache, target, local>>
        BY <2>4 DEF WipeSome, local
      <3>3. WorldOf(p) /\ rows[p] = Honest(Done(at[p]))
        BY <2>1, <3>2, Owed
      <3> QED
        BY <3>1, <3>2, <3>3 DEF WorldOf, Cleaned, local
    <2>5. CASE Wipe(p)
      <3>1. /\ at[p] \in {2, 5} /\ Forward(p)
            /\ rows' = rows /\ dirty' = dirty /\ ~dirty[p]
        BY <2>5, AtPlace DEF Wipe
      <3>2. at'[p] = at[p] + 1
        BY <3>1, Forwarded
      <3>3. rows'[p] = Honest(Done(at'[p]))
        BY <3>1, Unmeasured
      <3>4. WorldOf(p)
        BY <2>1, <3>1, Owed
      <3>5. cache'[j] = "none" /\ project'[p] = j /\ target' = target
        BY <2>2, <2>5 DEF Wipe, j
      <3>6. WorldOf(p)'
        BY <3>1, <3>2, <3>4, <3>5 DEF WorldOf, Cleaned, j
      <3> QED
        BY <3>3, <3>6
    <2>6. CASE Forget(p)
      <3>1. /\ at[p] \in {12, 16} /\ Forward(p)
            /\ rows' = rows /\ dirty' = dirty /\ ~dirty[p]
        BY <2>6, AtPlace DEF Forget
      <3>2. at'[p] = at[p] + 1
        BY <3>1, Forwarded
      <3>3. rows'[p] = Honest(Done(at'[p]))
        BY <3>1, Unmeasured
      <3>4. WorldOf(p)
        BY <2>1, <3>1, Owed
      <3>5. sccache' = {} /\ project' = project /\ target' = target
            /\ cache' = cache
        BY <2>6 DEF Forget
      <3>6. WorldOf(p)'
        BY <3>1, <3>2, <3>4, <3>5 DEF WorldOf, Cleaned
      <3> QED
        BY <3>3, <3>6
    <2>7. CASE CleaningFails(p)
      <3>1. dirty'[p] = TRUE
        BY <1>1, <2>7, Zenon DEF CleaningFails, TypeOK
      <3> QED
        BY <3>1
    <2>8. CASE CargoBuild(p)
      <3> DEFINE did == IF target[j] THEN "nothing" ELSE "compiled"
      <3>1. at[p] = 3 /\ did \in Dids /\ Measured(p, did)
        BY <2>8, AtPlace DEF CargoBuild, Dids, j
      <3>2. did \in Dids => /\ at'[p] = 4 /\ project'[p] = j /\ ~dirty[p]
            /\ rows'[p] = Append(rows[p], [label |-> Script[at[p]], did |-> did])
        <4> HIDE DEF did
        <4> QED BY <3>1, RowAdded DEF j
      <3>3. WorldOf(p) /\ rows[p] = Honest(Done(at[p]))
        BY <2>1, <3>1, <3>2, Owed
      <3>4. ~target[j]
        BY <3>1, <3>3 DEF WorldOf, Cleaned, j
      <3>5. did = Claim[Script[3]]
        BY <3>4, Measurements DEF Claim
      <3>6. rows'[p] = Honest(Done(at'[p]))
        <4> HIDE DEF did
        <4>1. rows'[p] = Append(Honest(Done(3)), [label |-> Script[3], did |-> did])
          BY <3>1, <3>2, <3>3
        <4>2. Append(Honest(Done(3)), [label |-> Script[3], did |-> did]) = Honest(Done(3 + 1))
          BY <3>5, RowAt
        <4> QED BY <3>1, <3>2, <4>1, <4>2
      <3>7. WorldOf(p)'
        BY <3>1, <3>2 DEF WorldOf, Cleaned
      <3> QED
        BY <3>6, <3>7
    <2>9. CASE ZbBuild(p)
      <3> DEFINE did == CASE cache[j] = "whole" -> "restored"
                          [] cache[j] = "part"  -> "mixed"
                          [] cache[j] = "none"  -> IF target[j] THEN "nothing"
                                                                ELSE "stored"
      <3>1. at[p] \in {6, 8, 10} /\ Measured(p, did)
        BY <2>9, AtPlace DEF ZbBuild, j
      <3>2. did \in Dids
        BY <1>2, <2>2 DEF Dids
      <3>3. /\ at'[p] = at[p] + 1 /\ project'[p] = j /\ ~dirty[p]
            /\ rows'[p] = Append(rows[p], [label |-> Script[at[p]], did |-> did])
        <4> HIDE DEF did
        <4> QED BY <3>1, <3>2, RowAdded DEF j
      <3>4. WorldOf(p) /\ rows[p] = Honest(Done(at[p]))
        BY <2>1, <3>1, <3>3, Owed
      <3>5. ~target[j] /\ (at[p] = 6 => cache[j] = "none")
            /\ (at[p] # 6 => cache[j] = "whole")
        BY <3>1, <3>4 DEF WorldOf, Cleaned, j
      <3>6. did = Claim[Script[at[p]]]
        BY <3>1, <3>5, Measurements DEF Claim
      <3>7. rows'[p] = Honest(Done(at'[p]))
        <4> HIDE DEF did
        <4> QED BY <3>1, <3>3, <3>4, <3>6, RowAt
      <3>8. PICK c \in AfterZb(j) : cache' = [cache EXCEPT ![j] = c]
        BY <2>9 DEF ZbBuild, j
      <3>9. cache'[j] = "whole"
        BY <1>2, <2>2, <3>5, <3>8 DEF AfterZb
      <3>10. WorldOf(p)'
        BY <3>1, <3>3, <3>9 DEF WorldOf, Cleaned
      <3> QED
        BY <3>7, <3>10
    <2>10. CASE SccacheBuild(p)
      <3> DEFINE did == IF target[j] THEN "nothing"
                        ELSE IF j \in sccache THEN "cached" ELSE "compiled"
      <3>1. at[p] \in {13, 15} /\ did \in Dids /\ Measured(p, did)
            /\ sccache' = sccache \cup {j} /\ cache' = cache
        BY <2>10, AtPlace DEF SccacheBuild, Dids, j
      <3>2. did \in Dids => /\ at'[p] = at[p] + 1 /\ project'[p] = j /\ ~dirty[p]
            /\ rows'[p] = Append(rows[p], [label |-> Script[at[p]], did |-> did])
        <4> HIDE DEF did
        <4> QED BY <3>1, RowAdded DEF j
      <3>3. WorldOf(p) /\ rows[p] = Honest(Done(at[p]))
        BY <2>1, <3>1, <3>2, Owed
      <3>4. ~target[j] /\ (j \in sccache <=> at[p] = 15)
        BY <3>1, <3>3 DEF WorldOf, Cleaned, j
      <3>5. did = Claim[Script[at[p]]]
        BY <3>1, <3>4, Measurements DEF Claim
      <3>6. rows'[p] = Honest(Done(at'[p]))
        <4> HIDE DEF did
        <4> QED BY <3>1, <3>2, <3>3, <3>5, RowAt
      <3>7. WorldOf(p)'
        BY <3>1, <3>2, <3>3 DEF WorldOf, Cleaned, j
      <3> QED
        BY <3>6, <3>7
    <2>11. CASE RunFails(p)
      <3>1. CASE Stop(p)
        BY <3>1, Stopped
      <3>2. CASE dirty' = [dirty EXCEPT ![p] = TRUE]
        <4>1. dirty'[p] = TRUE
          BY <1>1, <3>2, Zenon DEF TypeOK
        <4> QED
          BY <4>1
      <3> QED
        BY <2>11, <3>1, <3>2 DEF RunFails
    <2>12. CASE LoadResults(p)
      <3>1. /\ at[p] = 17 /\ Forward(p) /\ UNCHANGED <<shared, project>>
            /\ rows' = rows /\ dirty' = dirty /\ ~dirty[p]
        BY <2>12, AtPlace DEF LoadResults
      <3>2. at'[p] = 18
        BY <3>1, Forwarded
      <3>3. rows'[p] = Honest(Done(at'[p]))
        BY <3>1, Unmeasured
      <3>4. WorldOf(p)
        BY <2>1, <3>1, Owed
      <3>5. WorldOf(p)'
        BY <3>1, <3>2, <3>4 DEF WorldOf, Cleaned, shared
      <3> QED
        BY <3>3, <3>5
    <2>13. CASE CreateResults(p)
      <3>1. ~dirty[p] /\ UNCHANGED <<cache, sccache, target, local>>
        BY <2>13 DEF CreateResults, local
      <3>2. WorldOf(p) /\ rows[p] = Honest(Done(at[p]))
        BY <2>1, <3>1, Owed
      <3> QED
        BY <3>1, <3>2 DEF WorldOf, local
    <2>14. CASE WriteResults(p)
      <3>1. /\ at[p] = 18 /\ Forward(p) /\ UNCHANGED <<cache, sccache, target, project>>
            /\ rows' = rows /\ dirty' = dirty /\ ~dirty[p]
        BY <2>14, AtPlace DEF WriteResults
      <3>2. at'[p] = 19
        BY <3>1, Forwarded
      <3>3. rows'[p] = Honest(Done(at'[p]))
        BY <3>1, Unmeasured
      <3>4. WorldOf(p)
        BY <2>1, <3>1, Owed
      <3>5. WorldOf(p)'
        BY <3>1, <3>2, <3>4 DEF WorldOf, Cleaned
      <3> QED
        BY <3>3, <3>5
    <2>15. CASE RenameResults(p)
      BY <2>15, Stopped DEF RenameResults
    <2>16. CASE Kill(p)
      BY <2>16, Stopped DEF Kill
    <2> QED
      BY <1>5, <2>3, <2>4, <2>5, <2>6, <2>7, <2>8, <2>9, <2>10, <2>11, <2>12,
         <2>13, <2>14, <2>15, <2>16 DEF Step
  <1>6. ASSUME NEW j \in Projects, DevRun(j)
        PROVE  Progress'
    <2>1. PICK c \in AfterZb(j) : cache' = [cache EXCEPT ![j] = c]
      BY <1>6 DEF DevRun
    <2>2. UNCHANGED <<sccache, local>> /\ \A p \in Procs : project[p] # j
      BY <1>6 DEF DevRun
    <2>3. \A k \in Projects : k # j => cache'[k] = cache[k]
      BY <1>2, <2>1
    <2>4. \A k \in Projects : k # j => target'[k] = target[k]
      BY <1>2, <1>6, Zenon DEF DevRun
    <2> SUFFICES ASSUME NEW p \in Procs, ~dirty[p], at[p] # 0
                 PROVE  rows[p] = Honest(Done(at[p])) /\ WorldOf(p)'
      BY <2>2 DEF Progress, local
    <2>5. project[p] \in Projects /\ project[p] # j
      BY <1>1, <2>2 DEF Roles
    <2>6. WorldOf(p) /\ rows[p] = Honest(Done(at[p]))
      BY Owed
    <2> QED
      BY <2>2, <2>3, <2>4, <2>5, <2>6 DEF WorldOf, local
  <1> QED
    BY <1>3, <1>4, <1>5, <1>6 DEF Next

-----------------------------------------------------------------------------
(***************************************************************************)
(* Benches that run one at a time: what they save.                         *)
(***************************************************************************)

\* Until the rename nobody else writes results.json, and nobody results.tmp.
LEMMA SaveStep ==
  ASSUME Alone, Shapes, OneBench, SaveInv, [Next]_vars
  PROVE  SaveInv'
  <1>1. TypeOK /\ Roles
    BY DEF Shapes
  <1>2. at \in [Procs -> 0..19] /\ loaded \in [Procs -> Saved]
    BY <1>1, Places DEF TypeOK
  <1> HIDE DEF Script
  <1>3. CASE UNCHANGED vars
    BY <1>3 DEF SaveInv, vars, shared, local
  <1>4. ASSUME NEW p \in Procs, NEW j \in Projects, Start(p, j)
        PROVE  SaveInv'
    <2>1. at'[p] = 1 /\ \A q \in Procs : q # p => at'[q] = 0
      BY <1>4, Moves DEF Start
    <2>2. results' = results
      BY <1>4 DEF Start, shared
    <2> QED
      BY <2>1, <2>2 DEF SaveInv
  <1>5. ASSUME NEW p \in Procs, Step(p)
        PROVE  SaveInv'
    <2>1. at[p] # 0 /\ \A q \in Procs : q # p => at'[q] = 0
      BY <1>5, Moves DEF OneBench
    <2> SUFFICES /\ results' \in Saved
                 /\ at'[p] \in 18..19 => loaded'[p] = results'
                 /\ at'[p] = 19 =>
                       tmp' = [results' EXCEPT ![project'[p]] = rows'[p]]
      BY <2>1 DEF SaveInv
    <2>2. ASSUME at[p] \in 1..16, results' = results, Forward(p) \/ at' = at
          PROVE  results' \in Saved /\ at'[p] \notin 18..19
      BY <2>2, Forwarded DEF SaveInv
    <2>3. CASE \/ Clean(p) \/ WipeSome(p) \/ Wipe(p) \/ Forget(p)
               \/ CleaningFails(p) \/ CargoBuild(p) \/ ZbBuild(p)
               \/ SccacheBuild(p)
      <3>1. at[p] \in 1..16
        BY <2>3, AtPlace DEF Clean, WipeSome, Wipe, Forget, CleaningFails,
           CargoBuild, ZbBuild, SccacheBuild
      <3>2. results' = results /\ (Forward(p) \/ at' = at)
        BY <2>3 DEF Clean, WipeSome, Wipe, Forget, CleaningFails, CargoBuild,
           ZbBuild, SccacheBuild, Measured, shared, local
      <3> QED
        BY <2>2, <3>1, <3>2
    <2>4. CASE RunFails(p)
      <3>1. results' = results
        BY <2>4 DEF RunFails, shared
      <3>2. CASE Stop(p)
        BY <3>1, <3>2, Stopped DEF SaveInv
      <3>3. CASE At(p, SccacheRuns) /\ Forward(p)
        BY <2>2, <3>1, <3>3, AtPlace
      <3> QED
        BY <2>4, <3>2, <3>3 DEF RunFails
    <2>5. CASE LoadResults(p)
      <3>1. at[p] = 17 /\ Forward(p) /\ results' = results
            /\ loaded' = [loaded EXCEPT ![p] = results]
        BY <2>5, AtPlace DEF LoadResults, shared
      <3>2. at'[p] = 18 /\ loaded'[p] = results
        BY <1>2, <3>1, Forwarded
      <3> QED
        BY <3>1, <3>2 DEF SaveInv
    <2>6. CASE CreateResults(p)
      <3>1. at[p] = 18 /\ UNCHANGED <<results, at, loaded>>
        BY <2>6, AtPlace DEF CreateResults, local
      <3> QED
        BY <3>1 DEF SaveInv
    <2>7. CASE WriteResults(p)
      <3>1. /\ at[p] = 18 /\ Forward(p)
            /\ tmp' = [loaded[p] EXCEPT ![project[p]] = rows[p]]
            /\ UNCHANGED <<results, project, rows, loaded>>
        BY <2>7, AtPlace DEF WriteResults
      <3>2. loaded[p] = results
        BY <3>1 DEF SaveInv
      <3> QED
        BY <3>1, <3>2 DEF SaveInv
    <2>8. CASE RenameResults(p)
      <3>1. at[p] = 19 /\ Stop(p)
        BY <2>8, AtPlace DEF RenameResults
      <3>2. tmp = [results EXCEPT ![project[p]] = rows[p]] /\ results \in Saved
        BY <3>1 DEF SaveInv
      <3>3. tmp \in Saved
        <4>1. rows[p] \in Rows
          BY <1>1 DEF TypeOK
        <4> QED
          BY <3>2, <4>1 DEF Saved
      <3>4. results' \in Saved
        BY <2>8, <3>2, <3>3 DEF RenameResults
      <3> QED
        BY <3>1, <3>4, Stopped
    <2>9. CASE Kill(p)
      <3>1. Stop(p) /\ results' = results
        BY <2>9 DEF Kill, shared
      <3> QED
        BY <3>1, Stopped DEF SaveInv
    <2> QED
      BY <1>5, <2>3, <2>4, <2>5, <2>6, <2>7, <2>8, <2>9 DEF Step
  <1>6. ASSUME NEW j \in Projects, DevRun(j)
        PROVE  SaveInv'
    BY <1>6 DEF DevRun, SaveInv, local
  <1> QED
    BY <1>3, <1>4, <1>5, <1>6 DEF Next

-----------------------------------------------------------------------------
(***************************************************************************)
(* The theorems.                                                           *)
(***************************************************************************)

\* There is nothing to show or to save when no bench is under way.
LEMMA InitBench == Init => BenchInv
  <1> SUFFICES ASSUME Init PROVE BenchInv
    OBVIOUS
  <1>1. \A p \in Procs : at[p] = 0
    BY DEF Init
  <1>2. results \in Saved
    BY DEF Init, NoResults, Saved, Rows
  <1>3. OneBench /\ Progress /\ SaveInv
    BY <1>1, <1>2 DEF OneBench, Progress, SaveInv
  <1> QED
    BY <1>3, InitShapes DEF BenchInv

\* Of benches that run one at a time, what each has measured, finds in target/
\* and in the caches, and is about to save, at every position of its script.
THEOREM BenchInvariant ==
  ASSUME Alone
  PROVE  Spec => []BenchInv
  <1>1. BenchInv /\ [Next]_vars => BenchInv'
    BY ShapesStep, OneBenchStep, ProgressStep, SaveStep DEF BenchInv
  <1> QED
    BY <1>1, InitBench, PTL DEF Spec

\* Every row a bench shows measured what its label says, and all six are there
\* when it saves them, unless one of its cleans failed: no run finds in target/
\* or in the caches what an earlier one, of this or of a killed bench, left.
THEOREM HonestRows ==
  ASSUME Alone
  PROVE  Spec => []RowsHonest
  <1>1. BenchInv => RowsHonest
    <2> SUFFICES ASSUME BenchInv, NEW p \in Procs, ~dirty[p]
                 PROVE  /\ \A i \in 1..Len(rows[p]) :
                              rows[p][i].did = Claim[rows[p][i].label]
                        /\ At(p, {"write", "rename"}) =>
                              [i \in 1..Len(rows[p]) |-> rows[p][i].label] = Labels
      BY DEF RowsHonest
    <2>1. Shapes /\ Progress /\ Roles
      BY DEF BenchInv, Shapes
    <2>2. at[p] \in 0..19
      BY <2>1, AtPlace
    <2>3. PICK n \in 0..6 : rows[p] = Honest(n) /\ (at[p] \in 18..19 => n = 6)
      <3>1. CASE at[p] = 0
        BY <2>1, <3>1, NextRow DEF Roles
      <3>2. CASE at[p] # 0
        <4>1. rows[p] = Honest(Done(at[p]))
          BY <2>1, <3>2, Owed
        <4>2. Done(at[p]) \in 0..6 /\ (at[p] \in 18..19 => Done(at[p]) = 6)
          BY <2>2 DEF Done
        <4> QED
          BY <4>1, <4>2
      <3> QED
        BY <3>1, <3>2
    <2>4. Len(rows[p]) = n
      BY <2>3 DEF Honest
    <2>5. \A i \in 1..n : rows[p][i] = [label |-> Labels[i],
                                        did |-> Claim[Labels[i]]]
      BY <2>3 DEF Honest
    <2>6. \A i \in 1..n : /\ rows[p][i].label = Labels[i]
                          /\ rows[p][i].did = Claim[Labels[i]]
      <3> SUFFICES ASSUME NEW i \in 1..n
                   PROVE  /\ rows[p][i].label = Labels[i]
                          /\ rows[p][i].did = Claim[Labels[i]]
        OBVIOUS
      <3> DEFINE row == rows[p][i]
      <3>1. row = [label |-> Labels[i], did |-> Claim[Labels[i]]]
        BY <2>5
      <3> HIDE DEF row
      <3>2. row.label = Labels[i] /\ row.did = Claim[Labels[i]]
        BY <3>1
      <3> QED
        BY <3>2 DEF row
    <2>7. ASSUME At(p, {"write", "rename"})
          PROVE  [i \in 1..Len(rows[p]) |-> rows[p][i].label] = Labels
      <3>1. n = 6
        BY <2>1, <2>3, <2>7, AtPlace
      <3>2. Labels = [i \in 1..6 |-> Labels[i]]
        BY DEF Labels
      <3>3. [i \in 1..Len(rows[p]) |-> rows[p][i].label] = [i \in 1..6 |-> Labels[i]]
        BY <2>4, <2>6, <3>1
      <3> QED
        BY <3>2, <3>3
    <2> QED
      BY <2>4, <2>6, <2>7
  <1> QED
    BY <1>1, BenchInvariant, PTL

\* results.json parses at all times and saving a project's rows changes no other
\* project's entry, whenever a bench is killed and whatever it leaves in
\* results.tmp.
THEOREM KeptResults ==
  ASSUME Alone
  PROVE  Spec => ResultsKept
  <1> DEFINE Kept ==
        /\ results' # Torn
        /\ \A j \in Projects : results'[j] # results[j] =>
              \E p \in Procs : project[p] = j /\ results'[j] = rows[p]
  <1>1. BenchInv /\ [Next]_vars => [Kept]_results
    <2> SUFFICES ASSUME BenchInv, [Next]_vars, results' # results
                 PROVE  Kept
      OBVIOUS
    <2>1. Shapes /\ SaveInv
      BY DEF BenchInv
    <2>2. PICK p \in Procs : RenameResults(p)
      BY DEF Next, Step, vars, shared, local, Start, DevRun, Clean, WipeSome,
         Wipe, Forget, CleaningFails, CargoBuild, ZbBuild, SccacheBuild,
         RunFails, LoadResults, CreateResults, WriteResults, Kill
    <2>3. at[p] = 19 /\ results' = tmp
      BY <2>1, <2>2, AtPlace DEF RenameResults
    <2>4. tmp = [results EXCEPT ![project[p]] = rows[p]] /\ results \in Saved
      BY <2>1, <2>3 DEF SaveInv
    <2>5. project[p] \in Projects
      BY <2>1, <2>3 DEF Shapes, Roles
    <2>6. rows[p] \in Rows
      BY <2>1 DEF Shapes, TypeOK
    <2>7. results' \in Saved
      BY <2>3, <2>4, <2>6 DEF Saved
    <2>8. results' # Torn
      BY <2>7, FilesAssumption
    <2>9. \A j \in Projects : j # project[p] => results'[j] = results[j]
      BY <2>3, <2>4 DEF Saved
    <2>10. results'[project[p]] = rows[p]
      BY <2>3, <2>4, <2>5 DEF Saved
    <2> QED
      BY <2>8, <2>9, <2>10
  <1>2. BenchInv /\ [Next]_vars => [Kept]_results
    BY <1>1
  <1> QED
    BY <1>2, BenchInvariant, PTL DEF Spec, ResultsKept

=============================================================================
