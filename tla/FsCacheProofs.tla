---------------------------- MODULE FsCacheProofs ----------------------------
(***************************************************************************)
(* Theorems about the file-system backend, for every set of processes,     *)
(* keys, artifacts and builds.                                             *)
(***************************************************************************)
EXTENDS FsCache, SequenceTheorems, TLAPS

TypeInv == TypeOK /\ ControlInv

USE DEF Exists
-----------------------------------------------------------------------------
(* Lemmas about the files a process writes. *)

LEMMA HeadTodo ==
    ASSUME TypeInv, NEW p \in Procs, pc[p] \in {"dyn", "art"}
    PROVE  Head(todo[p]) \in Artifacts /\ Tail(todo[p]) \in Seq(Artifacts)
<1>1. todo[p] \in Seq(Artifacts) /\ todo[p] # <<>>
  BY DEF TypeInv, TypeOK, ControlInv
<1> QED  BY <1>1, HeadTailProperties

LEMMA WriterPaths ==
    ASSUME TypeInv, NEW p \in Procs, pc[p] \in Writing
    PROVE  /\ Dest(p) \in FinalPaths
           /\ Dest(p) \in Paths
           /\ Tmp(p) \in Paths
           /\ Payload(p) \in Content
<1>1. key[p] \in Keys /\ Slot[key[p]] \in Slots
  BY ConstantsAssumption DEF TypeInv, ControlInv, Writing
<1>2. Dest(p) \in FinalPaths /\ Dest(p) \in Paths /\ Tmp(p) \in Paths
  <2>1. CASE pc[p] \in {"touch", "dyn"}
    BY <1>1, <2>1 DEF Dest, Tmp, FinalPaths, Paths
  <2>2. CASE pc[p] = "art"
    BY <1>1, <2>2, HeadTodo, ConstantsAssumption DEF Dest, Tmp, FinalPaths, Paths
  <2>3. CASE pc[p] = "manifest"
    BY <1>1, <2>3 DEF Dest, Tmp, FinalPaths, Paths
  <2> QED  BY <2>1, <2>2, <2>3 DEF Writing
<1>3. Payload(p) \in Content
  BY <1>2 DEF Payload, Content, TypeInv, TypeOK
<1> QED  BY <1>2, <1>3

\* What a write leaves: the payload, or a cut artifact when processes race.
LEMMA WrittenData ==
    ASSUME NEW p, NEW data \in Written(p)
    PROVE  /\ data \in {Payload(p), Partial}
           /\ Exclusive \/ pc[p] # "art" => data = Payload(p)
  BY DEF Written
-----------------------------------------------------------------------------
(* Type correctness. *)

LEMMA InitTypeInv == Init => TypeInv
  BY DEF Init, TypeInv, TypeOK, ControlInv, Writing

LEMMA ForgetTypeInv ==
    ASSUME TypeInv, NEW p \in Procs, Forget(p),
           files' \in [Paths -> Content \cup {Absent, Partial}],
           fd' \in [Procs -> Paths \cup {NoPath}]
    PROVE  TypeInv'
<1>1. TypeOK'
  <2>1. pc' \in [Procs -> {"idle", "probe", "list", "restore", "build", "check"} \cup Writing]
    BY DEF Forget, TypeInv, TypeOK, Writing
  <2>2. io' \in [Procs -> {"create", "fill", "rename"}]
    BY DEF Forget, TypeInv, TypeOK
  <2>3. key' \in [Procs -> Keys \cup {NoKey}] /\ build' \in [Procs -> Builds \cup {NoBuild}]
    BY DEF Forget, TypeInv, TypeOK
  <2>4. todo' \in [Procs -> Seq(Artifacts)]
    BY DEF Forget, TypeInv, TypeOK
  <2>5. listed' \in [Procs -> SUBSET Artifacts] /\ left' \in [Procs -> SUBSET Artifacts]
    BY DEF Forget, TypeInv, TypeOK
  <2>6. got' \in [Procs -> SUBSET (Artifacts \X (Content \cup {Absent, Partial}))]
    BY DEF Forget, TypeInv, TypeOK
  <2> QED BY <2>1, <2>2, <2>3, <2>4, <2>5, <2>6 DEF TypeOK
<1>2. ControlInv'
  BY DEF Forget, TypeInv, TypeOK, ControlInv, Writing
<1> QED  BY <1>1, <1>2 DEF TypeInv

LEMMA NextArtifactTypeInv ==
    ASSUME TypeInv, NEW p \in Procs, pc[p] = "art",
           NEW S \in SUBSET Artifacts, NextArtifact(p, S),
           files' \in [Paths -> Content \cup {Absent, Partial}],
           fd' \in [Procs -> Paths \cup {NoPath}]
    PROVE  TypeInv'
<1>1. Tail(todo[p]) \in Seq(Artifacts)
  BY HeadTodo
<1>2. TypeOK'
  BY <1>1 DEF NextArtifact, Goto, TypeInv, TypeOK, Writing
<1>3. ControlInv'
  BY <1>1 DEF NextArtifact, Goto, TypeInv, TypeOK, ControlInv, Writing
<1> QED  BY <1>2, <1>3 DEF TypeInv

LEMMA StepTypeInv == TypeInv /\ [Next]_vars => TypeInv'
<1> SUFFICES ASSUME TypeInv, [Next]_vars
             PROVE  TypeInv'
  OBVIOUS
<1> USE DEF Goto
<1>1. ASSUME NEW p \in Procs, NEW k \in Keys, Begin(p, k)
      PROVE  TypeInv'
  BY <1>1 DEF Begin, TypeInv, TypeOK, ControlInv, Writing
<1>2. ASSUME NEW p \in Procs, Probe(p)
      PROVE  TypeInv'
  BY <1>2 DEF Probe, TypeInv, TypeOK, ControlInv, Writing
<1>3. ASSUME NEW p \in Procs, ListArtifacts(p)
      PROVE  TypeInv'
  <2>1. ManPath(key[p]) \in Paths
    BY <1>3 DEF ListArtifacts, TypeInv, ControlInv, Paths
  <2>2. Listed(key[p]) \in SUBSET Artifacts
    BY <1>3, <2>1 DEF ListArtifacts, Listed, TypeInv, TypeOK, Content, ContainsUnit
  <2> QED  BY <1>3, <2>2 DEF ListArtifacts, TypeInv, TypeOK, ControlInv, Writing
<1>4. ASSUME NEW p \in Procs, RestoreArtifact(p)
      PROVE  TypeInv'
  <2>1. PICK a \in left[p] :
           /\ left' = [left EXCEPT ![p] = @ \ {a}]
           /\ got' = [got EXCEPT ![p] = @ \cup {<<a, files[ArtPath(key[p], a)]>>}]
    BY <1>4 DEF RestoreArtifact
  <2>2. a \in Artifacts /\ ArtPath(key[p], a) \in Paths
    <3>1. left[p] \in SUBSET Artifacts
      BY DEF TypeInv, TypeOK
    <3>2. a \in Artifacts
      BY <2>1, <3>1
    <3>3. key[p] \in Keys
      BY <1>4 DEF RestoreArtifact, TypeInv, ControlInv
    <3> QED  BY <3>2, <3>3 DEF Paths
  <2>3. <<a, files[ArtPath(key[p], a)]>>
           \in Artifacts \X (Content \cup {Absent, Partial})
    BY <2>2 DEF TypeInv, TypeOK
  <2> QED  BY <1>4, <2>1, <2>3 DEF RestoreArtifact, TypeInv, TypeOK, ControlInv, Writing
<1>5. ASSUME NEW p \in Procs, RestoreDone(p) \/ RenameFails(p) \/ Crash(p)
      PROVE  TypeInv'
  BY <1>5, ForgetTypeInv
     DEF RestoreDone, RenameFails, Crash, Halt, TypeInv, TypeOK
<1>6. ASSUME NEW p \in Procs, Build(p)
      PROVE  TypeInv'
  BY <1>6 DEF Build, TypeInv, TypeOK, ControlInv, Writing
<1>7. ASSUME NEW p \in Procs, CheckStored(p)
      PROVE  TypeInv'
  <2>1. CASE BundleOf[key[p]] # <<>> /\ ~ContainsUnit(key[p])
    <3>1. BundleOf[key[p]] \in Seq(Artifacts)
      BY <1>7, ConstantsAssumption DEF CheckStored, TypeInv, ControlInv
    <3> QED  BY <1>7, <2>1, <3>1 DEF CheckStored, TypeInv, TypeOK, ControlInv, Writing
  <2>2. CASE ContainsUnit(key[p])
    BY <1>7, <2>2 DEF CheckStored, TypeInv, TypeOK, ControlInv, Writing
  <2>3. CASE BundleOf[key[p]] = <<>> /\ ~ContainsUnit(key[p])
    BY <1>7, <2>3, ForgetTypeInv DEF CheckStored, Halt, TypeInv, TypeOK
  <2> QED  BY <2>1, <2>2, <2>3
<1>8. ASSUME NEW p \in Procs, CreateTmp(p)
      PROVE  TypeInv'
  BY <1>8, WriterPaths DEF CreateTmp, TypeInv, TypeOK, ControlInv
<1>9. ASSUME NEW p \in Procs, FillTmp(p)
      PROVE  TypeInv'
  <2>1. \A data \in Written(p) : data \in Content \cup {Partial}
    BY <1>9, WriterPaths, WrittenData DEF FillTmp
  <2> QED  BY <1>9, <2>1 DEF FillTmp, TypeInv, TypeOK, ControlInv
<1>10. ASSUME NEW p \in Procs, RenameTmp(p)
       PROVE  TypeInv'
  <2>1. /\ files' \in [Paths -> Content \cup {Absent, Partial}]
        /\ fd' \in [Procs -> Paths \cup {NoPath}]
    BY <1>10, WriterPaths DEF RenameTmp, TypeInv, TypeOK
  <2>2. CASE pc[p] \in {"touch", "manifest"}
    BY <1>10, <2>1, <2>2, ForgetTypeInv DEF RenameTmp, AfterWrite
  <2>3. CASE pc[p] = "dyn"
    BY <1>10, <2>1, <2>3 DEF RenameTmp, AfterWrite, TypeInv, TypeOK, ControlInv, Writing
  <2>4. CASE pc[p] = "art"
    BY <1>10, <2>1, <2>4, HeadTodo, NextArtifactTypeInv DEF RenameTmp, AfterWrite
  <2> QED  BY <1>10, <2>2, <2>3, <2>4 DEF RenameTmp, Writing
<1>11. ASSUME NEW p \in Procs, SkipVanished(p)
       PROVE  TypeInv'
  BY <1>11, NextArtifactTypeInv DEF SkipVanished, TypeInv, TypeOK
<1>12. CASE UNCHANGED vars
  BY <1>12 DEF vars, TypeInv, TypeOK, ControlInv
<1> QED
  BY <1>1, <1>2, <1>3, <1>4, <1>5, <1>6, <1>7, <1>8, <1>9, <1>10, <1>11, <1>12
     DEF Next, Step

\* Type correctness: whatever the processes do, race or crash, every variable
\* stays within its type and every program point finds the locals it needs.
THEOREM TypeCorrect == Spec => [](TypeOK /\ ControlInv)
<1>1. Init => TypeInv
  BY InitTypeInv
<1>2. TypeInv /\ [Next]_vars => TypeInv'
  BY StepTypeInv
<1>3. TypeInv => TypeOK /\ ControlInv
  BY DEF TypeInv
<1> QED  BY <1>1, <1>2, <1>3, PTL DEF Spec
-----------------------------------------------------------------------------
(* Processes that take turns: the parts of StoreInv a step leaves alone.      *)

\* Everything but the locals of p is as before.
OthersKept(p) ==
    \A q \in Procs \ {p} :
        /\ pc'[q] = pc[q] /\ io'[q] = io[q] /\ key'[q] = key[q]
        /\ build'[q] = build[q] /\ todo'[q] = todo[q] /\ listed'[q] = listed[q]
        /\ fd'[q] = fd[q] /\ left'[q] = left[q] /\ got'[q] = got[q]

LEMMA TmpNotFinal ==
    ASSUME TypeInv, NoTmpClash, NEW p \in Procs, pc[p] \in Writing
    PROVE  Tmp(p) \notin FinalPaths
<1>1. CASE pc[p] \in {"touch", "dyn"}
  BY <1>1 DEF Tmp, FinalPaths, DynTmp, DynPath, ManPath, ArtPath
<1>2. CASE pc[p] = "art"
  <2>1. Head(todo[p]) \in Artifacts
    BY <1>2, HeadTodo
  <2>2. Tmp(p) = <<"artifacts", key[p], TmpName[Head(todo[p])]>>
    BY <1>2 DEF Tmp, ArtPath
  <2> QED  BY <2>1, <2>2 DEF FinalPaths, DynPath, ManPath, ArtPath, NoTmpClash
<1>3. CASE pc[p] = "manifest"
  BY <1>3 DEF Tmp, FinalPaths, ManTmp, DynPath, ManPath, ArtPath
<1> QED  BY <1>1, <1>2, <1>3 DEF Writing

LEMMA Apart ==
    ASSUME TypeInv, TakeTurns, NEW p \in Procs, NEW q \in Procs, p # q,
           pc[p] \in Writing, pc[q] \in Writing
    PROVE  Tmp(p) # Tmp(q)
<1>1. Slot[key[p]] # Slot[key[q]] /\ key[p] # key[q]
  BY DEF TakeTurns, Writing
<1>2. /\ pc[p] \in {"touch", "dyn"} => Tmp(p) = <<"dynamic", Slot[key[p]], "tmp">>
      /\ pc[p] = "art" => Tmp(p) = <<"artifacts", key[p], TmpName[Head(todo[p])]>>
      /\ pc[p] = "manifest" => Tmp(p) = <<"units", key[p], "tmp">>
  BY DEF Tmp, DynTmp, ArtPath, ManTmp
<1>3. /\ pc[q] \in {"touch", "dyn"} => Tmp(q) = <<"dynamic", Slot[key[q]], "tmp">>
      /\ pc[q] = "art" => Tmp(q) = <<"artifacts", key[q], TmpName[Head(todo[q])]>>
      /\ pc[q] = "manifest" => Tmp(q) = <<"units", key[q], "tmp">>
  BY DEF Tmp, DynTmp, ArtPath, ManTmp
<1> QED  BY <1>1, <1>2, <1>3 DEF Writing

\* The published files of k are as before, and its inputs stay recorded.
KeepsUnit(k) ==
    /\ files'[ManPath(k)] = files[ManPath(k)]
    /\ \A a \in Artifacts : files'[ArtPath(k, a)] = files[ArtPath(k, a)]
    /\ Exists(DynPath(Slot[k])) => files'[DynPath(Slot[k])] # Absent

LEMMA UnitPaths ==
    ASSUME NEW k \in Keys
    PROVE  /\ Slot[k] \in Slots
           /\ ManPath(k) \in FinalPaths
           /\ DynPath(Slot[k]) \in FinalPaths
           /\ \A a \in Artifacts : ArtPath(k, a) \in FinalPaths
  BY ConstantsAssumption DEF FinalPaths

LEMMA ListedArtifacts ==
    ASSUME TypeInv, FinalWhole, NEW k \in Keys
    PROVE  /\ Listed(k) \subseteq Artifacts
           /\ ContainsUnit(k) => files[ManPath(k)].list \subseteq Artifacts
<1>1. ManPath(k) \in Paths /\ ManPath(k) \in FinalPaths
  BY DEF Paths, FinalPaths
<1>2. files[ManPath(k)] \in Content \cup {Absent, Partial}
  BY <1>1 DEF TypeInv, TypeOK
<1>3. ContainsUnit(k) => files[ManPath(k)] \in Content
  BY <1>1, <1>2 DEF FinalWhole, Whole, ContainsUnit
<1> QED  BY <1>3 DEF Listed, Content

LEMMA KeptUnit ==
    ASSUME TypeInv, FinalWhole, NEW k \in Keys, KeepsUnit(k), Published(k)
    PROVE  Published(k)'
<1> SUFFICES ASSUME ContainsUnit(k)
             PROVE  /\ Exists(DynPath(Slot[k]))'
                    /\ \E b \in Builds : InPlace(k, files[ManPath(k)].list, b)'
  BY DEF Published, ContainsUnit, KeepsUnit
<1>1. PICK b \in Builds : InPlace(k, files[ManPath(k)].list, b)
  BY DEF Published
<1>2. files[ManPath(k)].list \subseteq Artifacts
  BY ListedArtifacts
<1>3. InPlace(k, files[ManPath(k)].list, b)'
  BY <1>1, <1>2 DEF InPlace, KeepsUnit
<1> QED  BY <1>3 DEF Published, KeepsUnit

LEMMA KeptProcess ==
    ASSUME StoreInv, NEW q \in Procs,
           pc'[q] = pc[q], io'[q] = io[q], key'[q] = key[q], build'[q] = build[q],
           todo'[q] = todo[q], listed'[q] = listed[q], fd'[q] = fd[q],
           left'[q] = left[q], got'[q] = got[q],
           pc[q] # "idle" => KeepsUnit(key[q]),
           pc[q] \in Writing => files'[Tmp(q)] = files[Tmp(q)]
    PROVE  OwnTmp(q)' /\ Unpublished(q)' /\ Restoring(q)'
<1>1. TypeInv /\ FinalWhole
  BY DEF StoreInv, TypeInv
<1>2. OwnTmp(q)'
  <2>1. Tmp(q)' = Tmp(q) /\ Payload(q)' = Payload(q)
    BY DEF Tmp, Dest, Payload
  <2>2. io[q] = "rename" => pc[q] \in Writing
    BY <1>1 DEF TypeInv, ControlInv
  <2> QED  BY <2>1, <2>2 DEF StoreInv, OwnTmp
<1>3. Unpublished(q)'
  <2> SUFFICES ASSUME pc[q] \in {"dyn", "art", "manifest"}
               PROVE  /\ ~ContainsUnit(key[q])'
                      /\ pc[q] # "dyn" => Exists(DynPath(Slot[key[q]]))'
                      /\ InPlace(key[q], listed[q], build[q])'
    BY DEF Unpublished
  <2>1. KeepsUnit(key[q]) /\ listed[q] \subseteq Artifacts
    BY <1>1 DEF TypeInv, TypeOK
  <2> QED  BY <2>1 DEF StoreInv, Unpublished, KeepsUnit, InPlace, ContainsUnit
<1>4. Restoring(q)'
  <2>1. CASE pc[q] \notin {"list", "restore"}
    BY <1>1, <2>1 DEF Restoring, TypeInv, ControlInv
  <2>2. CASE pc[q] \in {"list", "restore"}
    <3>1. KeepsUnit(key[q]) /\ key[q] \in Keys
      BY <1>1, <2>2 DEF TypeInv, ControlInv
    <3>2. Listed(key[q]) \subseteq Artifacts /\ Listed(key[q])' = Listed(key[q])
      BY <1>1, <3>1, ListedArtifacts DEF KeepsUnit, Listed, ContainsUnit
    <3>3. ContainsUnit(key[q])' <=> ContainsUnit(key[q])
      BY <3>1 DEF KeepsUnit, ContainsUnit
    <3> QED  BY <3>1, <3>2, <3>3 DEF StoreInv, Restoring, KeepsUnit
  <2> QED  BY <2>1, <2>2
<1> QED  BY <1>2, <1>3, <1>4

LEMMA LocalStep ==
    ASSUME StoreInv, TypeInv', NEW p \in Procs, OthersKept(p), files' = files,
           \A q \in Procs \ {p} :
              pc'[p] # "idle" /\ pc[q] # "idle" => Slot[key'[p]] # Slot[key[q]],
           OwnTmp(p)', Unpublished(p)', Restoring(p)'
    PROVE  StoreInv'
<1>1. TypeInv /\ FinalWhole /\ TakeTurns
  BY DEF StoreInv, TypeInv
<1>2. \A k \in Keys : KeepsUnit(k)
  BY DEF KeepsUnit
<1>3. \A k \in Keys : Published(k)'
  BY <1>1, <1>2, KeptUnit DEF StoreInv
<1>4. \A q \in Procs \ {p} : OwnTmp(q)' /\ Unpublished(q)' /\ Restoring(q)'
  <2> TAKE q \in Procs \ {p}
  <2>1. pc[q] # "idle" => KeepsUnit(key[q])
    BY DEF KeepsUnit
  <2> QED  BY <2>1, KeptProcess DEF OthersKept
<1>5. TakeTurns'
  BY <1>1 DEF TakeTurns, OthersKept
<1>6. FinalWhole'
  BY <1>1 DEF FinalWhole, Whole
<1> QED  BY <1>3, <1>4, <1>5, <1>6 DEF StoreInv, TypeInv

\* A run that ends, or a process that dies, leaves its files behind.
LEMMA HaltStep ==
    ASSUME StoreInv, NEW p \in Procs, Halt(p), files' = files
    PROVE  StoreInv'
<1>1. TypeInv
  BY DEF StoreInv, TypeInv
<1>2. TypeInv'
  BY <1>1, ForgetTypeInv DEF Halt, TypeInv, TypeOK
<1>3. OthersKept(p) /\ pc'[p] = "idle" /\ fd'[p] = NoPath /\ io'[p] = "create" /\ got'[p] = {}
  BY <1>1 DEF Halt, Forget, OthersKept, TypeInv, TypeOK
<1>4. OwnTmp(p)' /\ Unpublished(p)' /\ Restoring(p)'
  BY <1>3 DEF OwnTmp, Unpublished, Restoring
<1> QED  BY <1>2, <1>3, <1>4, LocalStep

LEMMA LookupStep ==
    ASSUME StoreInv, Exclusive, NEW p \in Procs, NEW k \in Keys,
           Begin(p, k) \/ Probe(p) \/ ListArtifacts(p) \/ RestoreArtifact(p)
           \/ Build(p), TypeInv'
    PROVE  StoreInv'
<1>1. TypeInv /\ TakeTurns /\ FinalWhole /\ OwnTmp(p) /\ Unpublished(p) /\ Restoring(p)
  BY DEF StoreInv, TypeInv
<1>2. /\ pc[p] \in {"idle", "probe", "list", "restore", "build"}
      /\ files' = files
      /\ io' = io /\ fd' = fd
      /\ OthersKept(p)
  BY <1>1 DEF Begin, Probe, ListArtifacts, RestoreArtifact, Build, Goto, OthersKept,
              TypeInv, TypeOK
<1>3. io[p] = "create"
  BY <1>1, <1>2 DEF TypeInv, TypeOK, ControlInv, Writing
<1>4. OwnTmp(p)'
  BY <1>1, <1>2, <1>3 DEF OwnTmp
<1>5. Unpublished(p)'
  BY <1>1 DEF Begin, Probe, ListArtifacts, RestoreArtifact, Build, Goto, Unpublished,
              TypeInv, TypeOK
<1>6. \A q \in Procs \ {p} :
         pc'[p] # "idle" /\ pc[q] # "idle" => Slot[key'[p]] # Slot[key[q]]
  BY <1>1 DEF Begin, Probe, ListArtifacts, RestoreArtifact, Build, Goto, TakeTurns,
              TypeInv, TypeOK
<1>7. Restoring(p)'
  <2>1. CASE Begin(p, k) \/ Build(p)
    BY <1>1, <2>1 DEF Begin, Build, Goto, Restoring, TypeInv, TypeOK, ControlInv
  <2>2. CASE Probe(p)
    BY <1>1, <2>2 DEF Probe, Goto, Restoring, ContainsUnit, TypeInv, TypeOK, ControlInv
  <2>3. CASE ListArtifacts(p)
    BY <1>1, <2>3 DEF ListArtifacts, Goto, Restoring, ContainsUnit, Listed,
                      TypeInv, TypeOK, ControlInv
  <2>4. CASE RestoreArtifact(p)
    <3>1. PICK a \in left[p] :
             /\ left' = [left EXCEPT ![p] = @ \ {a}]
             /\ got' = [got EXCEPT ![p] = @ \cup {<<a, files[ArtPath(key[p], a)]>>}]
      BY <2>4 DEF RestoreArtifact
    <3>2. /\ pc[p] = "restore" /\ pc' = pc /\ key' = key
          /\ left'[p] = left[p] \ {a}
          /\ got'[p] = got[p] \cup {<<a, files[ArtPath(key[p], a)]>>}
          /\ a \in Listed(key[p])
          /\ Listed(key[p])' = Listed(key[p])
      BY <1>1, <1>2, <2>4, <3>1
         DEF RestoreArtifact, Restoring, TypeInv, TypeOK, Listed, ContainsUnit
    <3> QED  BY <1>1, <1>2, <3>2 DEF Restoring, ContainsUnit
  <2> QED  BY <2>1, <2>2, <2>3, <2>4
<1> QED  BY <1>2, <1>4, <1>5, <1>6, <1>7, LocalStep

LEMMA CheckStep ==
    ASSUME StoreInv, NEW p \in Procs, CheckStored(p), TypeInv'
    PROVE  StoreInv'
<1>1. TypeInv /\ TakeTurns /\ OwnTmp(p)
  BY DEF StoreInv, TypeInv
<1>2. CASE ~ContainsUnit(key[p]) /\ BundleOf[key[p]] = <<>>
  BY <1>2, HaltStep DEF CheckStored
<1>3. CASE ContainsUnit(key[p]) \/ BundleOf[key[p]] # <<>>
  <2>1. /\ files' = files /\ OthersKept(p)
        /\ io' = io /\ fd' = fd /\ key' = key /\ listed' = listed /\ got' = got
    BY <1>1, <1>3 DEF CheckStored, Goto, OthersKept, TypeInv, TypeOK
  <2>2. /\ io[p] = "create" /\ listed[p] = {} /\ got[p] = {} /\ pc[p] = "check"
        /\ pc'[p] \in {"touch", "dyn"}
        /\ pc'[p] = "dyn" => ~ContainsUnit(key[p])
    BY <1>1, <1>3 DEF CheckStored, Goto, TypeInv, TypeOK, ControlInv, Writing
  <2>3. OwnTmp(p)' /\ Unpublished(p)' /\ Restoring(p)'
    BY <1>1, <2>1, <2>2 DEF OwnTmp, Unpublished, Restoring, InPlace, ContainsUnit
  <2> QED  BY <1>1, <2>1, <2>2, <2>3, LocalStep DEF TakeTurns
<1> QED  BY <1>2, <1>3

LEMMA SkipStep ==
    ASSUME StoreInv, NEW p \in Procs, SkipVanished(p), TypeInv'
    PROVE  StoreInv'
<1>1. TypeInv /\ TakeTurns /\ OwnTmp(p) /\ Unpublished(p)
  BY DEF StoreInv, TypeInv
<1>2. /\ files' = files /\ OthersKept(p)
      /\ io'[p] = "create" /\ fd' = fd /\ key' = key /\ build' = build /\ got' = got
      /\ listed'[p] = listed[p]
      /\ io[p] = "create" /\ got[p] = {} /\ pc[p] = "art"
      /\ pc'[p] \in {"art", "manifest"}
  BY <1>1 DEF SkipVanished, NextArtifact, Goto, OthersKept, TypeInv, TypeOK, ControlInv
<1>3. OwnTmp(p)' /\ Unpublished(p)' /\ Restoring(p)'
  BY <1>1, <1>2 DEF OwnTmp, Unpublished, Restoring, InPlace, ContainsUnit
<1> QED  BY <1>1, <1>2, <1>3, LocalStep DEF TakeTurns

\* Writing a temporary file leaves everything that has a final name alone.
LEMMA TmpStep ==
    ASSUME Exclusive, StoreInv, NoTmpClash,
           NEW p \in Procs, CreateTmp(p) \/ FillTmp(p), TypeInv'
    PROVE  StoreInv'
<1>1. TypeInv /\ TakeTurns /\ FinalWhole /\ OwnTmp(p) /\ Unpublished(p) /\ Restoring(p)
  BY DEF StoreInv, TypeInv
<1>2. /\ pc[p] \in Writing /\ OthersKept(p)
      /\ pc' = pc /\ key' = key /\ build' = build /\ todo' = todo
      /\ listed' = listed /\ left' = left /\ got' = got
  BY <1>1 DEF CreateTmp, FillTmp, OthersKept, TypeInv, TypeOK
<1>3. Tmp(p) \in Paths /\ Tmp(p) # NoPath
  BY <1>1, <1>2, WriterPaths, ConstantsAssumption
<1>4. \A path \in Paths \ {Tmp(p)} : files'[path] = files[path]
  BY <1>1, <1>3 DEF CreateTmp, FillTmp, OwnTmp, TypeInv, TypeOK
<1>5. FinalPaths \subseteq Paths \ {Tmp(p)}
  BY <1>1, <1>2, TmpNotFinal DEF FinalPaths, Paths
<1>6. \A k \in Keys : KeepsUnit(k)
  BY <1>4, <1>5, UnitPaths DEF KeepsUnit
<1>7. \A k \in Keys : Published(k)'
  BY <1>1, <1>6, KeptUnit DEF StoreInv
<1>8. FinalWhole'
  BY <1>1, <1>4, <1>5 DEF FinalWhole, Whole
<1>9. \A q \in Procs \ {p} : OwnTmp(q)' /\ Unpublished(q)' /\ Restoring(q)'
  <2> TAKE q \in Procs \ {p}
  <2>1. pc[q] # "idle" => KeepsUnit(key[q])
    BY <1>1, <1>6 DEF TypeInv, ControlInv
  <2>2. pc[q] \in Writing => files'[Tmp(q)] = files[Tmp(q)]
    BY <1>1, <1>2, <1>4, Apart, WriterPaths
  <2> QED  BY <1>2, <2>1, <2>2, KeptProcess DEF OthersKept
<1>10. OwnTmp(p)'
  <2>1. Tmp(p)' = Tmp(p) /\ Payload(p)' = Payload(p)
    BY <1>2 DEF Tmp, Dest, Payload
  <2>2. CASE CreateTmp(p)
    BY <1>1, <2>1, <2>2 DEF CreateTmp, OwnTmp, TypeInv, TypeOK
  <2>3. CASE FillTmp(p)
    <3>1. Written(p) = {Payload(p)}
      BY DEF Written
    <3> QED  BY <1>1, <1>3, <2>1, <2>3, <3>1 DEF FillTmp, OwnTmp, TypeInv, TypeOK
  <2> QED  BY <2>2, <2>3
<1>11. Unpublished(p)' /\ Restoring(p)'
  <2>1. KeepsUnit(key[p]) /\ listed[p] \subseteq Artifacts /\ got[p] = {}
        /\ pc[p] \notin {"list", "restore"}
    BY <1>1, <1>2, <1>6 DEF TypeInv, TypeOK, ControlInv, Writing
  <2>2. Unpublished(p)'
    BY <1>1, <1>2, <2>1 DEF Unpublished, KeepsUnit, InPlace, ContainsUnit
  <2>3. Restoring(p)'
    BY <1>2, <2>1 DEF Restoring
  <2> QED  BY <2>2, <2>3
<1>12. TakeTurns'
  BY <1>1, <1>2 DEF TakeTurns
<1> QED  BY <1>7, <1>8, <1>9, <1>10, <1>11, <1>12 DEF StoreInv, TypeInv

\* Which files a rename changes: its destination, now the payload, and the
\* temporary file, now gone.  Nobody has either of them open.
LEMMA RenameEffect ==
    ASSUME StoreInv, NoTmpClash, NEW p \in Procs, RenameTmp(p)
    PROVE  /\ pc[p] \in Writing /\ OthersKept(p)
           /\ fd'[p] = NoPath
           /\ Dest(p) \in FinalPaths /\ Tmp(p) \notin FinalPaths
           /\ Payload(p) \in Content
           /\ files'[Dest(p)] = Payload(p)
           /\ \A path \in Paths \ {Dest(p), Tmp(p)} : files'[path] = files[path]
<1>1. TypeInv /\ TakeTurns /\ OwnTmp(p)
  BY DEF StoreInv, TypeInv
<1>2. pc[p] \in Writing /\ io[p] = "rename" /\ files[Tmp(p)] = Payload(p)
  BY <1>1 DEF RenameTmp, OwnTmp
<1>3. /\ Dest(p) \in FinalPaths /\ Tmp(p) \notin FinalPaths
      /\ Dest(p) \in Paths /\ Tmp(p) \in Paths
      /\ Payload(p) \in Content
  BY <1>1, <1>2, WriterPaths, TmpNotFinal
<1>4. \A q \in Procs : fd[q] # Tmp(p) /\ fd[q] # Dest(p)
  <2> TAKE q \in Procs
  <2>1. OwnTmp(q) /\ (io[q] = "fill" => pc[q] \in Writing)
    BY <1>1 DEF StoreInv, TypeInv, ControlInv
  <2>2. CASE io[q] # "fill"
    BY <1>3, <2>1, <2>2, ConstantsAssumption DEF OwnTmp
  <2>3. CASE io[q] = "fill"
    <3>1. fd[q] = Tmp(q) /\ Tmp(q) \notin FinalPaths /\ p # q
      BY <1>1, <1>2, <2>1, <2>3, TmpNotFinal DEF OwnTmp
    <3> QED  BY <1>1, <1>2, <1>3, <2>1, <2>3, <3>1, Apart
  <2> QED  BY <2>2, <2>3
<1>5. \A q \in Procs : fd'[q] = fd[q]
  BY <1>3, <1>4 DEF RenameTmp
<1>6. OthersKept(p)
  BY <1>1, <1>2, <1>5
     DEF RenameTmp, AfterWrite, Forget, NextArtifact, Goto, OthersKept, TypeInv, TypeOK, Writing
<1>7. fd'[p] = NoPath
  BY <1>1, <1>2, <1>5 DEF OwnTmp
<1>8. files' = [files EXCEPT ![Dest(p)] = files[Tmp(p)], ![Tmp(p)] = Absent]
  BY <1>3 DEF RenameTmp
<1>9. /\ files'[Dest(p)] = Payload(p)
      /\ \A path \in Paths \ {Dest(p), Tmp(p)} : files'[path] = files[path]
  BY <1>1, <1>2, <1>3, <1>8 DEF TypeInv, TypeOK
<1> QED  BY <1>2, <1>3, <1>6, <1>7, <1>9

\* The bundles other processes use or build are not touched by p's rename.
LEMMA RenameKeeps ==
    ASSUME StoreInv, NoTmpClash, NEW p \in Procs, RenameTmp(p), NEW k \in Keys,
           k # key[p] \/ pc[p] \in {"touch", "dyn"}
    PROVE  KeepsUnit(k)
<1>1. TypeInv
  BY DEF StoreInv, TypeInv
<1>2. FinalPaths \subseteq Paths
  BY DEF FinalPaths, Paths
<1>3. \A path \in FinalPaths : path # Dest(p) => files'[path] = files[path]
  BY <1>2, RenameEffect
<1>4. Payload(p) # Absent
  BY RenameEffect, ConstantsAssumption
<1>5. Dest(p) # ManPath(k) /\ \A a \in Artifacts : Dest(p) # ArtPath(k, a)
  BY RenameEffect DEF Dest, DynPath, ManPath, ArtPath, Writing
<1>6. Exists(DynPath(Slot[k])) => files'[DynPath(Slot[k])] # Absent
  BY <1>3, <1>4, UnitPaths, RenameEffect
<1> QED  BY <1>3, <1>5, <1>6, UnitPaths DEF KeepsUnit

LEMMA RenameStep ==
    ASSUME StoreInv, NoTmpClash, NEW p \in Procs, RenameTmp(p), TypeInv'
    PROVE  StoreInv'
<1>1. TypeInv /\ TakeTurns /\ FinalWhole /\ Unpublished(p) /\ pc[p] \in Writing
      /\ key[p] \in Keys
  BY RenameEffect DEF StoreInv, TypeInv, ControlInv, Writing
<1>2. OthersKept(p)
  BY RenameEffect
<1>3. FinalPaths \subseteq Paths
  BY DEF FinalPaths, Paths
<1>4. \A path \in FinalPaths : path # Dest(p) => files'[path] = files[path]
  BY <1>3, RenameEffect
<1>5. Payload(p) \notin {Absent, Partial}
  BY RenameEffect, ConstantsAssumption
<1>6. /\ files'[Dest(p)].dest = Dest(p)
      /\ pc[p] = "art" => files'[Dest(p)].build = build[p]
      /\ pc[p] = "manifest" => files'[Dest(p)].list = listed[p]
  <2>1. files'[Dest(p)] = Payload(p)
    BY RenameEffect
  <2> QED  BY <2>1 DEF Payload
<1>7. FinalWhole'
  BY <1>1, <1>4, <1>5, <1>6, RenameEffect DEF FinalWhole, Whole
<1>8. \A q \in Procs \ {p} : OwnTmp(q)' /\ Unpublished(q)' /\ Restoring(q)'
  <2> TAKE q \in Procs \ {p}
  <2>1. pc[q] # "idle" => key[q] # key[p] /\ key[q] \in Keys
    BY <1>1 DEF TakeTurns, Writing, TypeInv, ControlInv
  <2>2. pc[q] # "idle" => KeepsUnit(key[q])
    BY <2>1, RenameKeeps
  <2>3. pc[q] \in Writing => files'[Tmp(q)] = files[Tmp(q)]
    BY <1>1, Apart, WriterPaths, TmpNotFinal, RenameEffect
  <2> QED  BY <1>2, <2>2, <2>3, KeptProcess DEF OthersKept
<1>9. \A k \in Keys : Published(k)'
  <2> TAKE k \in Keys
  <2>1. CASE k # key[p] \/ pc[p] \in {"touch", "dyn"}
    BY <1>1, <2>1, RenameKeeps, KeptUnit DEF StoreInv
  <2>2. CASE k = key[p] /\ pc[p] = "art"
    <3>1. Dest(p) # ManPath(k) /\ ~ContainsUnit(k)
      BY <1>1, <2>2 DEF Dest, ManPath, ArtPath, Unpublished
    <3> QED  BY <1>4, <3>1, UnitPaths DEF Published, ContainsUnit
  <2>3. CASE k = key[p] /\ pc[p] = "manifest"
    <3>1. Dest(p) = ManPath(k)
      BY <2>3 DEF Dest
    <3>2. files'[ManPath(k)].list = listed[p]
      BY <1>6, <2>3, <3>1
    <3>3. ManPath(k) # DynPath(Slot[k]) /\ \A a \in Artifacts : ManPath(k) # ArtPath(k, a)
      BY DEF ManPath, DynPath, ArtPath
    <3>4. /\ Exists(DynPath(Slot[k])) /\ InPlace(k, listed[p], build[p])
          /\ listed[p] \subseteq Artifacts /\ build[p] \in Builds
      BY <1>1, <2>3 DEF Unpublished, TypeInv, TypeOK, ControlInv, Writing
    <3>5. /\ files'[DynPath(Slot[k])] # Absent
          /\ \A a \in listed[p] : /\ files'[ArtPath(k, a)] # Absent
                                  /\ files'[ArtPath(k, a)].build = build[p]
      <4>1. files'[DynPath(Slot[k])] = files[DynPath(Slot[k])]
        BY <1>4, <3>1, <3>3, UnitPaths
      <4>2. \A a \in Artifacts : files'[ArtPath(k, a)] = files[ArtPath(k, a)]
        BY <1>4, <3>1, <3>3, UnitPaths
      <4> QED  BY <3>4, <4>1, <4>2 DEF InPlace
    <3> QED  BY <3>2, <3>4, <3>5 DEF Published, InPlace
  <2> QED  BY <1>1, <2>1, <2>2, <2>3 DEF Writing
<1>10. io'[p] = "create" /\ got'[p] = {} /\ pc'[p] \in {"idle", "art", "manifest"}
  BY <1>1 DEF RenameTmp, AfterWrite, Forget, NextArtifact, Goto, Writing,
              TypeInv, TypeOK, ControlInv
<1>11. OwnTmp(p)' /\ Restoring(p)'
  BY <1>10, RenameEffect DEF OwnTmp, Restoring
<1>12. Unpublished(p)'
  <2>1. CASE pc[p] \in {"touch", "manifest"}
    BY <1>1, <2>1 DEF RenameTmp, AfterWrite, Forget, Unpublished, TypeInv, TypeOK
  <2>2. CASE pc[p] = "dyn"
    <3>1. /\ pc'[p] = "art" /\ key' = key /\ listed' = listed /\ listed[p] = {}
      BY <1>1, <2>2 DEF RenameTmp, AfterWrite, Goto, TypeInv, TypeOK, ControlInv
    <3>2. Dest(p) = DynPath(Slot[key[p]]) /\ Dest(p) # ManPath(key[p])
      BY <2>2 DEF Dest, DynPath, ManPath
    <3>3. files'[ManPath(key[p])] = Absent
      BY <1>1, <1>4, <2>2, <3>2, UnitPaths DEF Unpublished, ContainsUnit
    <3> QED  BY <1>5, <3>1, <3>2, <3>3, RenameEffect DEF Unpublished, ContainsUnit, InPlace
  <2>3. CASE pc[p] = "art"
    <3> DEFINE a == Head(todo[p])
    <3>1. /\ key' = key /\ build' = build /\ listed'[p] = listed[p] \cup {a}
          /\ a \in Artifacts /\ listed[p] \subseteq Artifacts
      BY <1>1, <2>3, HeadTodo DEF RenameTmp, AfterWrite, NextArtifact, Goto, TypeInv, TypeOK
    <3>2. /\ Dest(p) = ArtPath(key[p], a)
          /\ Dest(p) # ManPath(key[p]) /\ Dest(p) # DynPath(Slot[key[p]])
      BY <2>3 DEF Dest, DynPath, ManPath, ArtPath
    <3>3. /\ files'[ManPath(key[p])] = Absent
          /\ files'[DynPath(Slot[key[p]])] # Absent
      BY <1>1, <1>4, <2>3, <3>2, UnitPaths DEF Unpublished, ContainsUnit
    <3>4. \A x \in listed[p] \cup {a} :
             files'[ArtPath(key[p], x)] # Absent /\ files'[ArtPath(key[p], x)].build = build[p]
      <4> TAKE x \in listed[p] \cup {a}
      <4>1. CASE ArtPath(key[p], x) = Dest(p)
        BY <1>5, <1>6, <2>3, <4>1, RenameEffect
      <4>2. CASE ArtPath(key[p], x) # Dest(p)
        <5>1. x \in listed[p]
          BY <3>2, <4>2
        <5>2. files'[ArtPath(key[p], x)] = files[ArtPath(key[p], x)]
          BY <1>1, <1>4, <3>1, <4>2, <5>1, UnitPaths
        <5> QED  BY <1>1, <2>3, <5>1, <5>2 DEF Unpublished, InPlace
      <4> QED  BY <4>1, <4>2
    <3> QED  BY <3>1, <3>3, <3>4 DEF Unpublished, ContainsUnit, InPlace
  <2> QED  BY <1>1, <2>1, <2>2, <2>3 DEF Writing
<1>13. TakeTurns'
  <2>1. pc'[p] # "idle" => key'[p] = key[p]
    BY <1>1 DEF RenameTmp, AfterWrite, Forget, NextArtifact, Goto, TypeInv, TypeOK, Writing
  <2> QED  BY <1>1, <1>2, <2>1 DEF TakeTurns, OthersKept, Writing
<1> QED  BY <1>7, <1>8, <1>9, <1>11, <1>12, <1>13 DEF StoreInv, TypeInv
-----------------------------------------------------------------------------
(* Safety. *)

LEMMA StoreInvStep ==
    ASSUME Exclusive, NoTmpClash, StoreInv, [Next]_vars
    PROVE  StoreInv'
<1>1. TypeInv'
  BY StepTypeInv DEF StoreInv, TypeInv
<1>2. ASSUME NEW p \in Procs, NEW k \in Keys, Begin(p, k)
      PROVE  StoreInv'
  BY <1>1, <1>2, LookupStep
<1>3. ASSUME NEW p \in Procs, Probe(p) \/ ListArtifacts(p) \/ RestoreArtifact(p) \/ Build(p)
      PROVE  StoreInv'
  <2>1. key[p] \in Keys
    BY <1>3 DEF Probe, ListArtifacts, RestoreArtifact, Build, StoreInv, ControlInv
  <2> QED  BY <1>1, <1>3, <2>1, LookupStep
<1>4. ASSUME NEW p \in Procs, RestoreDone(p) \/ RenameFails(p) \/ Crash(p)
      PROVE  StoreInv'
  BY <1>4, HaltStep DEF RestoreDone, RenameFails, Crash
<1>5. ASSUME NEW p \in Procs, CheckStored(p)
      PROVE  StoreInv'
  BY <1>1, <1>5, CheckStep
<1>6. ASSUME NEW p \in Procs, CreateTmp(p) \/ FillTmp(p)
      PROVE  StoreInv'
  BY <1>1, <1>6, TmpStep
<1>7. ASSUME NEW p \in Procs, RenameTmp(p)
      PROVE  StoreInv'
  BY <1>1, <1>7, RenameStep
<1>8. ASSUME NEW p \in Procs, SkipVanished(p)
      PROVE  StoreInv'
  BY <1>1, <1>8, SkipStep
<1>9. CASE UNCHANGED vars
  <2>1. TypeInv /\ FinalWhole /\ TakeTurns
    BY DEF StoreInv, TypeInv
  <2>2. \A k : KeepsUnit(k)
    BY <1>9 DEF vars, KeepsUnit
  <2>3. \A p \in Procs : OwnTmp(p)' /\ Unpublished(p)' /\ Restoring(p)'
    BY <1>9, <2>2, KeptProcess DEF vars
  <2>4. \A k \in Keys : Published(k)'
    BY <2>1, <2>2, KeptUnit DEF StoreInv
  <2>5. TakeTurns' /\ FinalWhole'
    BY <1>9, <2>1 DEF vars, TakeTurns, FinalWhole, Whole
  <2> QED  BY <1>1, <2>3, <2>4, <2>5 DEF StoreInv, TypeInv
<1> QED
  BY <1>2, <1>3, <1>4, <1>5, <1>6, <1>7, <1>8, <1>9 DEF Next, Step

\* The inductive invariant: when processes take turns on a slot and no artifact
\* has the name of a temporary file, bundles under construction are invisible
\* and visible ones are complete, through any number of crashes and retries.
THEOREM StoreInvariant ==
    ASSUME Exclusive, NoTmpClash
    PROVE  Spec => []StoreInv
<1>1. Init => StoreInv
  <2> SUFFICES ASSUME Init
               PROVE  StoreInv
    OBVIOUS
  <2>1. TypeOK /\ ControlInv
    BY InitTypeInv DEF TypeInv
  <2>2. \A path \in Paths : files[path] = Absent
    BY DEF Init
  <2>3. FinalPaths \subseteq Paths
    BY DEF FinalPaths, Paths
  <2>4. FinalWhole /\ \A k \in Keys : ~ContainsUnit(k)
    BY <2>2, <2>3, UnitPaths DEF FinalWhole, ContainsUnit
  <2>5. TakeTurns /\ \A p \in Procs : OwnTmp(p) /\ Unpublished(p) /\ Restoring(p)
    BY DEF Init, TakeTurns, OwnTmp, Unpublished, Restoring
  <2> QED  BY <2>1, <2>4, <2>5 DEF StoreInv, Published
<1>2. StoreInv /\ [Next]_vars => StoreInv'
  BY StoreInvStep
<1> QED  BY <1>1, <1>2, PTL DEF Spec

LEMMA StoreInvImplies ==
    StoreInv => /\ PublishedWhole /\ PublishedCoherent /\ PublishedReachable
                /\ RestoreFaithful
<1> SUFFICES ASSUME StoreInv
             PROVE  /\ PublishedWhole /\ PublishedCoherent /\ PublishedReachable
                    /\ RestoreFaithful
  OBVIOUS
<1>1. TypeInv /\ FinalWhole
  BY DEF StoreInv, TypeInv
<1>2. ASSUME NEW k \in Keys, ContainsUnit(k)
      PROVE  /\ Whole(ManPath(k)) /\ Whole(DynPath(Slot[k]))
             /\ \E b \in Builds : \A a \in files[ManPath(k)].list :
                   Whole(ArtPath(k, a)) /\ files[ArtPath(k, a)].build = b
  <2>1. files[ManPath(k)].list \subseteq Artifacts
    BY <1>1, <1>2, ListedArtifacts
  <2>2. Exists(DynPath(Slot[k]))
    BY <1>2 DEF StoreInv, Published
  <2>3. PICK b \in Builds : InPlace(k, files[ManPath(k)].list, b)
    BY <1>2 DEF StoreInv, Published
  <2>4. \A a \in files[ManPath(k)].list :
           Whole(ArtPath(k, a)) /\ files[ArtPath(k, a)].build = b
    BY <1>1, <2>1, <2>3, UnitPaths DEF InPlace, FinalWhole
  <2> QED  BY <1>1, <1>2, <2>2, <2>4, UnitPaths DEF FinalWhole, ContainsUnit
<1>3. PublishedWhole /\ PublishedReachable
  BY <1>2 DEF PublishedWhole, PublishedReachable
<1>4. PublishedCoherent
  BY <1>2 DEF PublishedCoherent, Whole
<1>5. RestoreFaithful
  <2> SUFFICES ASSUME NEW p \in Procs, NEW g \in got[p], NEW h \in got[p]
               PROVE  /\ g[2] \notin {Absent, Partial}
                      /\ g[2].dest = ArtPath(key[p], g[1])
                      /\ g[2].build = h[2].build
    BY DEF RestoreFaithful
  <2>1. pc[p] = "restore" /\ key[p] \in Keys
    BY <1>1 DEF TypeInv, ControlInv
  <2>2. /\ ContainsUnit(key[p])
        /\ g[1] \in files[ManPath(key[p])].list /\ g[2] = files[ArtPath(key[p], g[1])]
        /\ h[1] \in files[ManPath(key[p])].list /\ h[2] = files[ArtPath(key[p], h[1])]
    BY <2>1 DEF StoreInv, Restoring, Listed
  <2> QED  BY <1>2, <2>1, <2>2 DEF Whole
<1> QED  BY <1>3, <1>4, <1>5

\* A unit the cache claims to contain has every file of its manifest, complete.
THEOREM WholeBundles ==
    ASSUME Exclusive, NoTmpClash
    PROVE  Spec => []PublishedWhole
  BY StoreInvariant, StoreInvImplies, PTL

\* Its files come from one compilation, and the next lookup finds it.
THEOREM CoherentBundles ==
    ASSUME Exclusive, NoTmpClash
    PROVE  Spec => [](PublishedCoherent /\ PublishedReachable)
  BY StoreInvariant, StoreInvImplies, PTL

\* put_dynamic_inputs never leaves an entry that list_dynamic_inputs cannot parse,
\* whatever crashed before.
THEOREM ReadableInputs ==
    ASSUME Exclusive, NoTmpClash
    PROVE  Spec => []InputsReadable
<1>1. StoreInv => InputsReadable
  <2> SUFFICES ASSUME FinalWhole, NEW s \in Slots
               PROVE  files[DynPath(s)] # Partial
    BY DEF StoreInv, InputsReadable
  <2>1. DynPath(s) \in FinalPaths
    BY DEF FinalPaths
  <2> QED  BY <2>1, ConstantsAssumption DEF FinalWhole, Whole
<1> QED  BY <1>1, StoreInvariant, PTL

\* restore_unit writes complete artifacts of one compilation into target/.
THEOREM FaithfulRestore ==
    ASSUME Exclusive, NoTmpClash
    PROVE  Spec => []RestoreFaithful
  BY StoreInvariant, StoreInvImplies, PTL
-----------------------------------------------------------------------------
(* Refinement. *)

LEMMA KeptView ==
    ASSUME StoreInv, NEW k \in Keys, KeepsUnit(k)
    PROVE  ViewOf(k)' = ViewOf(k)
<1>1. ContainsUnit(k) => files[ManPath(k)].list \subseteq Artifacts
  BY ListedArtifacts DEF StoreInv, TypeInv
<1>2. \A a \in Artifacts : FileBuild(k, a)' = FileBuild(k, a)
  BY DEF KeepsUnit, FileBuild
<1> QED  BY <1>1, <1>2 DEF ViewOf, KeepsUnit, ContainsUnit

\* Only the rename of a manifest changes what the cache shows, and it shows a
\* bundle of one build where there was nothing.
LEMMA RenameView ==
    ASSUME StoreInv, StoreInv', NoTmpClash, NEW p \in Procs, RenameTmp(p)
    PROVE  UC!Next \/ BundleView' = BundleView
<1>1. /\ TypeInv /\ pc[p] \in Writing /\ key[p] \in Keys /\ Unpublished(p)
      /\ listed[p] \subseteq Artifacts /\ build[p] \in Builds
  BY RenameEffect DEF StoreInv, TypeInv, TypeOK, ControlInv, Writing
<1>2. CASE pc[p] \in {"touch", "dyn"}
  <2>1. \A k \in Keys : ViewOf(k)' = ViewOf(k)
    BY <1>2, RenameKeeps, KeptView
  <2> QED  BY <2>1 DEF BundleView
<1>3. PICK u \in Keys : u = key[p]
  BY <1>1
<1>4. \A k \in Keys \ {u} : ViewOf(k)' = ViewOf(k)
  BY <1>3, RenameKeeps, KeptView
<1>5. /\ FinalPaths \subseteq Paths
      /\ Dest(p) \in FinalPaths /\ Tmp(p) \notin FinalPaths
      /\ files'[Dest(p)] = Payload(p)
      /\ \A path \in Paths \ {Dest(p), Tmp(p)} : files'[path] = files[path]
  BY RenameEffect DEF FinalPaths, Paths
<1>6. CASE pc[p] = "art"
  <2>1. Dest(p) # ManPath(u)
    BY <1>6 DEF Dest, ManPath, ArtPath
  <2>2. files'[ManPath(u)] = files[ManPath(u)]
    BY <1>5, <2>1, UnitPaths
  <2>3. ~ContainsUnit(u) /\ ~ContainsUnit(u)'
    BY <1>1, <1>3, <1>6, <2>2 DEF ContainsUnit, Unpublished
  <2>4. ViewOf(u)' = ViewOf(u)
    BY <2>3 DEF ViewOf
  <2> QED  BY <1>4, <2>4 DEF BundleView
<1>7. CASE pc[p] = "manifest"
  <2>1. Dest(p) = ManPath(u) /\ \A a \in Artifacts : ManPath(u) # ArtPath(u, a)
    BY <1>3, <1>7 DEF Dest, ManPath, ArtPath
  <2>2. files'[ManPath(u)].list = listed[p]
    <3>1. files'[ManPath(u)] = Payload(p)
      BY <1>5, <2>1
    <3> QED  BY <1>7, <3>1 DEF Payload
  <2>3. files'[ManPath(u)] \notin {Absent, Partial}
    BY <1>5, <2>1, RenameEffect, ConstantsAssumption
  <2>4. \A a \in listed[p] : FileBuild(u, a)' = build[p]
    <3> TAKE a \in listed[p]
    <3>1. a \in Artifacts /\ files'[ArtPath(u, a)] = files[ArtPath(u, a)]
      BY <1>1, <1>5, <2>1, UnitPaths
    <3>2. /\ Exists(ArtPath(u, a)) /\ files[ArtPath(u, a)].build = build[p]
          /\ Whole(ArtPath(u, a))
      BY <1>1, <1>3, <1>7, <3>1, UnitPaths DEF Unpublished, InPlace, StoreInv, FinalWhole
    <3> QED  BY <3>1, <3>2 DEF FileBuild, Whole
  <2>5. ViewOf(u)' = [a \in listed[p] |-> build[p]]
    BY <2>2, <2>3, <2>4 DEF ViewOf, ContainsUnit
  <2>6. ViewOf(u) = NoBundle
    BY <1>1, <1>3, <1>7 DEF ViewOf, Unpublished
  <2>7. BundleView' = [BundleView EXCEPT ![u] = [a \in listed[p] |-> build[p]]]
    BY <1>4, <2>5 DEF BundleView
  <2>8. BundleView[u] = NoBundle
    BY <2>6 DEF BundleView
  <2>9. UC!Publish(u)
    BY <1>1, <2>7, <2>8 DEF UC!Publish, UC!BundleFrom
  <2> QED  BY <2>9 DEF UC!Next
<1> QED  BY <1>1, <1>2, <1>6, <1>7 DEF Writing

LEMMA StepView ==
    ASSUME StoreInv, StoreInv', NoTmpClash, [Next]_vars
    PROVE  UC!Next \/ BundleView' = BundleView
<1>1. ASSUME \A k \in Keys : KeepsUnit(k)
      PROVE  BundleView' = BundleView
  <2>1. \A k \in Keys : ViewOf(k)' = ViewOf(k)
    BY <1>1, KeptView
  <2> QED  BY <2>1 DEF BundleView
<1>2. CASE files' = files
  BY <1>1, <1>2 DEF KeepsUnit
<1>3. ASSUME NEW p \in Procs, CreateTmp(p) \/ FillTmp(p)
      PROVE  BundleView' = BundleView
  <2>1. pc[p] \in Writing /\ TypeInv /\ OwnTmp(p)
    BY <1>3 DEF CreateTmp, FillTmp, StoreInv, TypeInv
  <2>2. Tmp(p) \in Paths /\ Tmp(p) # NoPath /\ Tmp(p) \notin FinalPaths
    BY <2>1, WriterPaths, TmpNotFinal, ConstantsAssumption
  <2>3. \A path \in Paths \ {Tmp(p)} : files'[path] = files[path]
    BY <1>3, <2>1, <2>2 DEF CreateTmp, FillTmp, OwnTmp, TypeInv, TypeOK
  <2>4. FinalPaths \subseteq Paths \ {Tmp(p)}
    BY <2>2 DEF FinalPaths, Paths
  <2>5. \A k \in Keys : KeepsUnit(k)
    BY <2>3, <2>4, UnitPaths DEF KeepsUnit
  <2> QED  BY <1>1, <2>5
<1>4. files' = files \/ \E p \in Procs : CreateTmp(p) \/ FillTmp(p) \/ RenameTmp(p)
  BY DEF Next, Step, vars, Begin, Probe, ListArtifacts, RestoreArtifact, RestoreDone,
         Build, CheckStored, RenameFails, SkipVanished, Crash
<1> QED  BY <1>2, <1>3, <1>4, RenameView

\* The file-system backend implements the abstract unit cache, for processes
\* that take turns on a slot: under a key appears one bundle of one build, in
\* one step and whole, and it never changes.
THEOREM Refinement ==
    ASSUME Exclusive, NoTmpClash
    PROVE  Spec => ImplementsUnitCache
<1>1. Init => UC!Init
  <2> SUFFICES ASSUME Init
               PROVE  UC!Init
    OBVIOUS
  <2>1. \A k \in Keys : ManPath(k) \in Paths
    BY DEF Paths
  <2>2. \A k \in Keys : ViewOf(k) = NoBundle
    BY <2>1 DEF Init, ViewOf, ContainsUnit
  <2> QED  BY <2>2 DEF UC!Init, BundleView
<1>2. StoreInv /\ StoreInv' /\ [Next]_vars => [UC!Next]_BundleView
  BY StepView
<1> QED  BY <1>1, <1>2, StoreInvariant, PTL DEF Spec, UC!Spec, ImplementsUnitCache
-----------------------------------------------------------------------------
(* Races: what holds without turns. *)

\* A final name, once taken, stays taken.
Grows == \A path \in FinalPaths : Exists(path) => files'[path] # Absent

LEMMA FinalPathsGrow ==
    ASSUME TypeInv, NoTmpClash, [Next]_vars
    PROVE  Grows
<1>1. CASE files' = files
  BY <1>1 DEF Grows
<1>2. ASSUME NEW p \in Procs, CreateTmp(p) \/ FillTmp(p) \/ RenameTmp(p)
      PROVE  Grows
  <2>1. pc[p] \in Writing
    BY <1>2 DEF CreateTmp, FillTmp, RenameTmp
  <2>2. /\ Payload(p) # Absent /\ Partial # Absent /\ Tmp(p) \in Paths
        /\ Dest(p) \in Paths /\ Tmp(p) \notin FinalPaths
    BY <2>1, WriterPaths, TmpNotFinal, ConstantsAssumption
  <2>3. FinalPaths \subseteq Paths
    BY DEF FinalPaths, Paths
  <2>4. \A data \in Written(p) : data # Absent
    BY <2>2, WrittenData
  <2> QED  BY <1>2, <2>2, <2>3, <2>4 DEF CreateTmp, FillTmp, RenameTmp, Grows, TypeInv, TypeOK
<1>3. files' = files \/ \E p \in Procs : CreateTmp(p) \/ FillTmp(p) \/ RenameTmp(p)
  BY DEF Next, Step, vars, Begin, Probe, ListArtifacts, RestoreArtifact, RestoreDone,
         Build, CheckStored, RenameFails, SkipVanished, Crash, Halt
<1> QED  BY <1>1, <1>2, <1>3

\* Manifests of k hold nothing but what a writer of k's manifest put there.
LEMMA ManifestWrites ==
    ASSUME TypeInv, NoTmpClash, \A q \in Procs : HandleKind(q), [Next]_vars,
           NEW k \in Keys, NEW path \in {ManPath(k), ManTmp(k)}
    PROVE  \/ files'[path] \in {Absent, Partial, files[path], files[ManTmp(k)]}
           \/ \E p \in Procs : /\ pc[p] = "manifest" /\ key[p] = k
                               /\ files'[path] = Payload(p)
<1>0. path \in Paths /\ path[1] = "units" /\ path[2] = k
  BY DEF Paths, ManPath, ManTmp
<1>1. CASE files' = files
  BY <1>1
<1>2. ASSUME NEW p \in Procs, pc[p] \in Writing
      PROVE  /\ Tmp(p) \in Paths /\ Dest(p) \in Paths /\ Tmp(p) # Dest(p)
             /\ pc[p] # "manifest" => Dest(p)[1] # "units" /\ Tmp(p)[1] # "units"
             /\ pc[p] = "manifest" => Dest(p) = ManPath(key[p]) /\ Tmp(p) = ManTmp(key[p])
  BY <1>2, WriterPaths, TmpNotFinal
     DEF Dest, Tmp, DynPath, DynTmp, ArtPath, Writing
<1>3. ASSUME NEW p \in Procs, CreateTmp(p)
      PROVE  files'[path] \in {Partial, files[path]}
  BY <1>0, <1>2, <1>3 DEF CreateTmp, TypeInv, TypeOK
<1>4. ASSUME NEW p \in Procs, FillTmp(p), files'[path] # files[path]
      PROVE  pc[p] = "manifest" /\ key[p] = k /\ files'[path] = Payload(p)
  <2>1. pc[p] \in Writing /\ fd[p] = path /\ files'[path] \in Written(p)
    BY <1>0, <1>4 DEF FillTmp, TypeInv, TypeOK
  <2>2. path # NoPath
    BY <1>0, ConstantsAssumption
  <2>3. Dest(p)[1] = "units" /\ Dest(p)[2] = k
    BY <1>0, <2>1, <2>2 DEF HandleKind
  <2>4. pc[p] = "manifest" /\ key[p] = k
    BY <1>2, <2>1, <2>3 DEF ManPath
  <2>5. files'[path] = Payload(p)
    BY <2>1, <2>4, WrittenData
  <2> QED  BY <2>4, <2>5
<1>5. ASSUME NEW p \in Procs, RenameTmp(p)
      PROVE  files'[path] \in {Absent, files[path], files[ManTmp(k)]}
  <2>1. pc[p] \in Writing
    BY <1>5 DEF RenameTmp
  <2>2. files' = [files EXCEPT ![Dest(p)] = files[Tmp(p)], ![Tmp(p)] = Absent]
    BY <1>2, <1>5, <2>1 DEF RenameTmp
  <2>3. CASE path # Dest(p)
    BY <1>0, <1>2, <2>1, <2>2, <2>3 DEF TypeInv, TypeOK
  <2>4. CASE path = Dest(p)
    <3>1. pc[p] = "manifest" /\ Dest(p) = ManPath(key[p]) /\ Tmp(p) = ManTmp(key[p])
      BY <1>0, <1>2, <2>1, <2>4
    <3>2. key[p] = k
      BY <1>0, <2>4, <3>1 DEF ManPath
    <3> QED  BY <1>0, <1>2, <2>1, <2>2, <2>4, <3>1, <3>2 DEF TypeInv, TypeOK
  <2> QED  BY <2>3, <2>4
<1>6. files' = files \/ \E p \in Procs : CreateTmp(p) \/ FillTmp(p) \/ RenameTmp(p)
  BY DEF Next, Step, vars, Begin, Probe, ListArtifacts, RestoreArtifact, RestoreDone,
         Build, CheckStored, RenameFails, SkipVanished, Crash, Halt
<1> QED  BY <1>1, <1>3, <1>4, <1>5, <1>6

LEMMA HandlesStep ==
    ASSUME TypeInv, \A q \in Procs : HandleKind(q), [Next]_vars, NEW q \in Procs
    PROVE  HandleKind(q)'
<1>1. io[q] = "fill" => pc[q] \in Writing
  BY DEF TypeInv, ControlInv
<1>2. ASSUME NEW p \in Procs, RenameTmp(p)
      PROVE  HandleKind(q)'
  <2>1. /\ pc[p] \in Writing /\ io[p] = "rename"
        /\ Tmp(p)[1] = Dest(p)[1] /\ Tmp(p)[2] = Dest(p)[2]
    BY <1>2 DEF RenameTmp, Tmp, Dest, DynTmp, DynPath, ManTmp, ManPath, ArtPath, Writing
  <2>2. Tmp(p) # NoPath
    BY <2>1, WriterPaths, ConstantsAssumption
  <2>3. fd'[q] \in {fd[q], NoPath, Dest(p)} /\ (fd'[q] # fd[q] => fd[q] = Tmp(p) \/ fd'[q] = NoPath)
    BY <1>2 DEF RenameTmp, TypeInv, TypeOK
  <2>4. CASE p = q
    <3>1. fd[q] = NoPath
      BY <2>1, <2>4 DEF HandleKind
    <3> QED  BY <2>2, <2>3, <3>1 DEF HandleKind
  <2>5. CASE p # q
    <3>1. pc'[q] = pc[q] /\ io'[q] = io[q] /\ key'[q] = key[q] /\ todo'[q] = todo[q]
      BY <1>2, <2>1, <2>5
         DEF RenameTmp, AfterWrite, Forget, NextArtifact, Goto, TypeInv, TypeOK, Writing
    <3>2. Dest(q)' = Dest(q)
      BY <3>1 DEF Dest
    <3> QED  BY <2>1, <2>2, <2>3, <3>1, <3>2 DEF HandleKind
  <2> QED  BY <2>4, <2>5
<1>3. ASSUME NEW p \in Procs, FillTmp(p)
      PROVE  HandleKind(q)'
  <2>1. Dest(q)' = Dest(q)
    BY <1>3 DEF FillTmp, Dest
  <2> QED  BY <1>3, <2>1 DEF FillTmp, HandleKind, TypeInv, TypeOK
<1>4. ASSUME NEW p \in Procs, CreateTmp(p)
      PROVE  HandleKind(q)'
  <2>1. Dest(q)' = Dest(q) /\ Tmp(p)[1] = Dest(p)[1] /\ Tmp(p)[2] = Dest(p)[2]
    BY <1>4 DEF CreateTmp, Tmp, Dest, DynTmp, DynPath, ManTmp, ManPath, ArtPath, Writing
  <2> QED  BY <1>4, <2>1 DEF CreateTmp, HandleKind, TypeInv, TypeOK
<1>5. ASSUME NEW p \in Procs, Halt(p)
      PROVE  HandleKind(q)'
  <2>1. p # q => Dest(q)' = Dest(q)
    BY <1>5 DEF Halt, Forget, Dest, TypeInv, TypeOK
  <2> QED  BY <1>5, <2>1 DEF Halt, Forget, HandleKind, TypeInv, TypeOK
<1>6. ASSUME NEW p \in Procs, pc[p] \notin Writing \/ io[p] # "fill", fd' = fd,
             p # q => /\ pc'[q] = pc[q] /\ io'[q] = io[q]
                      /\ key'[q] = key[q] /\ todo'[q] = todo[q]
      PROVE  HandleKind(q)'
  <2>1. p # q => Dest(q)' = Dest(q)
    BY <1>6 DEF Dest
  <2> QED  BY <1>1, <1>6, <2>1 DEF HandleKind
<1>7. ASSUME NEW p \in Procs, NEW k \in Keys, Begin(p, k)
      PROVE  HandleKind(q)'
  BY <1>6, <1>7 DEF Begin, Goto, Writing, TypeInv, TypeOK
<1>8. ASSUME NEW p \in Procs,
             Probe(p) \/ ListArtifacts(p) \/ RestoreArtifact(p) \/ Build(p)
             \/ CheckStored(p) \/ SkipVanished(p)
      PROVE  HandleKind(q)'
  BY <1>5, <1>6, <1>8 DEF Probe, ListArtifacts, RestoreArtifact, Build, CheckStored,
     SkipVanished, NextArtifact, Goto, Writing, TypeInv, TypeOK
<1>9. CASE UNCHANGED vars
  <2>1. Dest(q)' = Dest(q)
    BY <1>9 DEF vars, Dest
  <2> QED  BY <1>9, <2>1 DEF vars, HandleKind
<1> QED
  BY <1>2, <1>3, <1>4, <1>5, <1>7, <1>8, <1>9
     DEF Next, Step, RestoreDone, RenameFails, Crash

LEMMA RecordedStep ==
    ASSUME TypeInv, NoTmpClash, Grows, [Next]_vars, NEW q \in Procs, Recorded(q)
    PROVE  Recorded(q)'
<1>1. ASSUME pc'[q] \notin {"art", "manifest"}
      PROVE  Recorded(q)'
  BY <1>1 DEF Recorded
<1>2. ASSUME pc[q] \in {"art", "manifest"}, key'[q] = key[q], listed'[q] = listed[q]
      PROVE  Recorded(q)'
  <2>1. key[q] \in Keys /\ listed[q] \subseteq Artifacts
    BY <1>2 DEF TypeInv, TypeOK, ControlInv
  <2>2. /\ files'[DynPath(Slot[key[q]])] # Absent
        /\ \A a \in listed[q] : files'[ArtPath(key[q], a)] # Absent
    BY <1>2, <2>1, UnitPaths DEF Recorded, Grows
  <2> QED  BY <1>2, <2>2 DEF Recorded
<1>3. ASSUME NEW p \in Procs, RenameTmp(p), p = q
      PROVE  Recorded(q)'
  <2>1. /\ pc[q] \in Writing /\ key[q] \in Keys /\ Exists(Tmp(q))
        /\ Dest(q) \in FinalPaths /\ Dest(q) \in Paths /\ Tmp(q) \notin FinalPaths
        /\ Tmp(q) \in Paths
    BY <1>3, WriterPaths, TmpNotFinal DEF RenameTmp, TypeInv, ControlInv, Writing
  <2>2. files'[Dest(q)] # Absent
    BY <1>3, <2>1 DEF RenameTmp, TypeInv, TypeOK
  <2>3. CASE pc[q] \in {"touch", "manifest"}
    BY <1>1, <1>3, <2>3 DEF RenameTmp, AfterWrite, Forget, TypeInv, TypeOK
  <2>4. CASE pc[q] = "dyn"
    <3>1. key' = key /\ listed'[q] = {}
      BY <1>3, <2>4 DEF RenameTmp, AfterWrite, TypeInv, ControlInv
    <3>2. Dest(q) = DynPath(Slot[key[q]])
      BY <2>4 DEF Dest
    <3> QED  BY <2>2, <3>1, <3>2 DEF Recorded
  <2>5. CASE pc[q] = "art"
    <3> DEFINE a == Head(todo[q])
    <3>1. key' = key /\ listed'[q] = listed[q] \cup {a} /\ listed[q] \subseteq Artifacts
      BY <1>3, <2>5 DEF RenameTmp, AfterWrite, NextArtifact, TypeInv, TypeOK
    <3>2. Dest(q) = ArtPath(key[q], a)
      BY <2>5 DEF Dest
    <3>3. /\ files'[DynPath(Slot[key[q]])] # Absent
          /\ \A x \in listed[q] : files'[ArtPath(key[q], x)] # Absent
      BY <2>1, <2>5, <3>1, UnitPaths DEF Recorded, Grows
    <3> QED  BY <2>2, <3>1, <3>2, <3>3 DEF Recorded
  <2> QED  BY <2>1, <2>3, <2>4, <2>5 DEF Writing
<1>4. ASSUME NEW p \in Procs, RenameTmp(p), p # q
      PROVE  Recorded(q)'
  <2>1. pc'[q] = pc[q] /\ key'[q] = key[q] /\ listed'[q] = listed[q]
    BY <1>4 DEF RenameTmp, AfterWrite, Forget, NextArtifact, Goto, TypeInv, TypeOK, Writing
  <2> QED  BY <1>1, <1>2, <2>1
<1>5. ASSUME NEW p \in Procs, SkipVanished(p)
      PROVE  Recorded(q)'
  <2>1. /\ key' = key /\ listed'[q] = listed[q]
        /\ p # q => pc'[q] = pc[q]
        /\ p = q => pc[q] = "art"
    BY <1>5 DEF SkipVanished, NextArtifact, Goto, TypeInv, TypeOK
  <2> QED  BY <1>1, <1>2, <2>1
<1>6. ASSUME NEW p \in Procs, NEW k \in Keys,
             Begin(p, k) \/ Probe(p) \/ ListArtifacts(p) \/ RestoreArtifact(p)
             \/ Build(p) \/ Halt(p) \/ CreateTmp(p) \/ FillTmp(p) \/ CheckStored(p)
      PROVE  Recorded(q)'
  <2>1. \/ pc'[q] \notin {"art", "manifest"}
        \/ pc'[q] = pc[q] /\ key'[q] = key[q] /\ listed'[q] = listed[q]
    BY <1>6 DEF Begin, Probe, ListArtifacts, RestoreArtifact, Build, Halt, Forget,
       CreateTmp, FillTmp, CheckStored, Goto, TypeInv, TypeOK
  <2> QED  BY <1>1, <1>2, <2>1
<1>7. CASE UNCHANGED vars
  BY <1>1, <1>2, <1>7 DEF vars
<1>8. ASSUME NEW p \in Procs, Step(p) \/ Crash(p), ~RenameTmp(p), ~SkipVanished(p)
      PROVE  Recorded(q)'
  <2>1. PICK k \in Keys : k = key[p]
    BY <1>8 DEF Step, Probe, ListArtifacts, RestoreArtifact, RestoreDone, Build,
       CheckStored, CreateTmp, FillTmp, RenameFails, Crash, TypeInv, ControlInv, Writing
  <2> QED  BY <1>6, <1>8, <2>1 DEF Step, RestoreDone, RenameFails, Crash
<1> QED  BY <1>3, <1>4, <1>5, <1>6, <1>7, <1>8 DEF Next, Step

LEMMA ManifestStep ==
    ASSUME RaceInv, NoTmpClash, Grows, [Next]_vars, NEW k \in Keys,
           NEW path \in {ManPath(k), ManTmp(k)}
    PROVE  ListsExisting(path, k)'
<1>1. /\ TypeInv /\ \A q \in Procs : HandleKind(q) /\ Recorded(q)
      /\ ListsExisting(path, k) /\ ListsExisting(ManTmp(k), k)
  <2>1. ListsExisting(ManPath(k), k) /\ ListsExisting(ManTmp(k), k)
    BY DEF RaceInv
  <2>2. path = ManPath(k) \/ path = ManTmp(k)
    OBVIOUS
  <2> QED  BY <2>1, <2>2 DEF RaceInv, TypeInv
<1>2. CASE files'[path] \in {Absent, Partial}
  BY <1>2 DEF ListsExisting
<1>3. ASSUME NEW old \in {path, ManTmp(k)}, files'[path] = files[old],
             files'[path] \notin {Absent, Partial}
      PROVE  ListsExisting(path, k)'
  <2>1. old \in Paths
    BY DEF Paths
  <2>2. files[old].list \subseteq Artifacts
    BY <1>1, <1>3, <2>1 DEF TypeInv, TypeOK, Content
  <2>3. \A a \in files[old].list : Exists(ArtPath(k, a))
    BY <1>1, <1>3 DEF ListsExisting
  <2> QED  BY <1>3, <2>2, <2>3, UnitPaths DEF ListsExisting, Grows
<1>4. ASSUME NEW p \in Procs, pc[p] = "manifest", key[p] = k, files'[path] = Payload(p)
      PROVE  ListsExisting(path, k)'
  <2>1. files'[path].list = listed[p]
    BY <1>4 DEF Payload
  <2>2. listed[p] \subseteq Artifacts /\ \A a \in listed[p] : Exists(ArtPath(k, a))
    BY <1>1, <1>4 DEF Recorded, TypeInv, TypeOK
  <2> QED  BY <2>1, <2>2, UnitPaths DEF ListsExisting, Grows
<1> QED  BY <1>1, <1>2, <1>3, <1>4, ManifestWrites

\* A manifest becomes visible only by the rename of a process that stored k.
LEMMA ManifestAppears ==
    ASSUME TypeInv, NoTmpClash, \A q \in Procs : HandleKind(q), [Next]_vars,
           NEW k \in Keys, ~ContainsUnit(k), ContainsUnit(k)'
    PROVE  \E p \in Procs : pc[p] = "manifest" /\ key[p] = k
<1>1. ManPath(k) \in Paths /\ ManPath(k) \in FinalPaths /\ files'[ManPath(k)] # files[ManPath(k)]
  BY UnitPaths DEF Paths, ContainsUnit
<1>2. ASSUME NEW p \in Procs, CreateTmp(p)
      PROVE  FALSE
  BY <1>1, <1>2, TmpNotFinal DEF CreateTmp, TypeInv, TypeOK
<1>3. ASSUME NEW p \in Procs, FillTmp(p)
      PROVE  pc[p] = "manifest" /\ key[p] = k
  <2>1. pc[p] \in Writing /\ fd[p] = ManPath(k) /\ fd[p] # NoPath
    BY <1>1, <1>3, ConstantsAssumption DEF FillTmp, TypeInv, TypeOK
  <2>2. HandleKind(p) /\ ManPath(k)[1] = "units" /\ ManPath(k)[2] = k
    BY DEF ManPath
  <2>3. Dest(p)[1] = "units" /\ Dest(p)[2] = k
    BY <2>1, <2>2 DEF HandleKind
  <2> QED  BY <2>1, <2>3 DEF Dest, DynPath, ArtPath, ManPath, Writing
<1>4. ASSUME NEW p \in Procs, RenameTmp(p)
      PROVE  pc[p] = "manifest" /\ key[p] = k
  <2>1. pc[p] \in Writing /\ Tmp(p) \notin FinalPaths
    BY <1>4, TmpNotFinal DEF RenameTmp
  <2>2. Dest(p) = ManPath(k)
    BY <1>1, <1>4, <2>1 DEF RenameTmp, TypeInv, TypeOK
  <2> QED  BY <2>1, <2>2 DEF Dest, DynPath, ArtPath, ManPath, Writing
<1>5. files' = files \/ \E p \in Procs : CreateTmp(p) \/ FillTmp(p) \/ RenameTmp(p)
  BY DEF Next, Step, vars, Begin, Probe, ListArtifacts, RestoreArtifact, RestoreDone,
         Build, CheckStored, RenameFails, SkipVanished, Crash, Halt
<1> QED  BY <1>1, <1>2, <1>3, <1>4, <1>5

\* Without turns: whatever processes race, no name that a manifest or a lookup
\* relies on is missing, although the file behind it may be torn.
THEOREM RaceInvariant ==
    ASSUME NoTmpClash
    PROVE  Spec => []RaceInv
<1>1. Init => RaceInv
  <2> SUFFICES ASSUME Init
               PROVE  RaceInv
    OBVIOUS
  <2>1. TypeOK /\ ControlInv
    BY InitTypeInv DEF TypeInv
  <2>2. \A p \in Procs : HandleKind(p) /\ Recorded(p)
    BY DEF Init, HandleKind, Recorded
  <2>3. \A k \in Keys : files[ManPath(k)] = Absent /\ files[ManTmp(k)] = Absent
    BY DEF Init, Paths
  <2> QED  BY <2>1, <2>2, <2>3 DEF RaceInv, ListsExisting, ContainsUnit
<1>2. RaceInv /\ [Next]_vars => RaceInv'
  <2> SUFFICES ASSUME RaceInv, [Next]_vars
               PROVE  RaceInv'
    OBVIOUS
  <2>1. TypeInv /\ TypeInv' /\ Grows
    BY StepTypeInv, FinalPathsGrow DEF RaceInv, TypeInv
  <2>2. \A p \in Procs : HandleKind(p)' /\ Recorded(p)'
    BY <2>1, HandlesStep, RecordedStep DEF RaceInv
  <2>3. \A k \in Keys : ListsExisting(ManPath(k), k)' /\ ListsExisting(ManTmp(k), k)'
    BY <2>1, ManifestStep
  <2>4. ASSUME NEW k \in Keys, ContainsUnit(k)'
        PROVE  files'[DynPath(Slot[k])] # Absent
    <3>1. CASE ContainsUnit(k)
      BY <2>1, <3>1, UnitPaths DEF RaceInv, Grows
    <3>2. CASE ~ContainsUnit(k)
      <4>1. PICK p \in Procs : pc[p] = "manifest" /\ key[p] = k
        BY <2>1, <2>4, <3>2, ManifestAppears DEF RaceInv
      <4> QED  BY <2>1, <4>1, UnitPaths DEF RaceInv, Recorded, Grows
    <3> QED  BY <3>1, <3>2
  <2> QED  BY <2>1, <2>2, <2>3, <2>4 DEF RaceInv, TypeInv
<1> QED  BY <1>1, <1>2, PTL DEF Spec

\* A listed artifact and the dynamic inputs of a visible bundle are never
\* missing, with or without races.
THEOREM NothingIsMissing ==
    ASSUME NoTmpClash
    PROVE  Spec => []NothingMissing
<1>1. RaceInv => NothingMissing
  <2> SUFFICES ASSUME RaceInv, NEW k \in Keys, ContainsUnit(k)
               PROVE  /\ Exists(DynPath(Slot[k]))
                      /\ files[ManPath(k)] # Partial =>
                            \A a \in files[ManPath(k)].list : Exists(ArtPath(k, a))
    BY DEF NothingMissing
  <2> QED  BY DEF RaceInv, ListsExisting, ContainsUnit
<1> QED  BY <1>1, RaceInvariant, PTL
=============================================================================
