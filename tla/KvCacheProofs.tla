----------------------------- MODULE KvCacheProofs -----------------------------
(***************************************************************************)
(* Theorems about the key-value backends, for every set of processes,      *)
(* keys, artifacts and builds, whether processes take turns or race, die   *)
(* or are survived by their writes.                                        *)
(***************************************************************************)
EXTENDS KvCache, SequenceTheorems, TLAPS

Storing(p) == pc[p] \in {"art", "finalize"}

Stores == {"check", "touch", "touch_put", "dyn", "dyn_put", "art", "finalize"}

\* What the program points know of their locals.
ControlInv ==
    \A p \in Procs :
        /\ pc[p] # "idle" => key[p] \in Keys
        /\ pc[p] \in Stores => build[p] \in Builds
        /\ pc[p] \in {"dyn", "dyn_put", "art"} => todo[p] # <<>>

\* Everything a manifest of k leads to, and what leads to it, is there.
Promises(k, manifest) ==
    /\ manifest \in [list : SUBSET Artifacts]
    /\ Has(DynName(Slot[k]))
    /\ \A a \in manifest.list : Has(ArtName(k, a))

\* A manifest, stored or under way, promises what is there already.
ManifestInv ==
    /\ \A k \in Keys : ContainsUnit(k) => Promises(k, db[ManName(k)])
    /\ \A w \in late, k \in Keys : w[1] = ManName(k) => Promises(k, w[2])

\* The inputs of what p stores are recorded.
Recorded(p) == Storing(p) => Has(DynName(Slot[key[p]]))

\* The names p has listed so far.
ListedNames(p) == {ArtName(key[p], a) : a \in listed[p]}

\* What p has listed so far waits for the transaction, or is stored already.
Collected(p) ==
    /\ ~Storing(p) => listed[p] = {}
    /\ Lmdb => /\ DOMAIN pending[p] = ListedNames(p)
               /\ \A n \in ListedNames(p) : pending[p][n] = build[p]
    /\ Tikv => /\ DOMAIN pending[p] = {}
               /\ \A n \in ListedNames(p) : Has(n)

\* What holds when processes race.  lmdb has nothing under way.
RaceInv ==
    /\ TypeOK /\ ControlInv
    /\ ManifestInv
    /\ Lmdb => late = {}
    /\ \A p \in Procs : Recorded(p) /\ Collected(p)
    /\ NothingLeaked

TypeInv == TypeOK /\ ControlInv
-----------------------------------------------------------------------------
(* Lemmas about names and writes. *)

LEMMA NamesApart ==
    /\ \A k \in Keys : ManName(k) \in Names
    /\ \A k \in Keys, a \in Artifacts : ArtName(k, a) \in Names
    /\ \A s \in Slots : DynName(s) \in Names
    /\ \A j, k : ManName(j) = ManName(k) => j = k
    /\ \A j, k, a, b : ArtName(j, a) = ArtName(k, b) => j = k /\ a = b
    /\ \A j, k, a : ManName(j) # ArtName(k, a)
    /\ \A j, s : ManName(j) # DynName(s)
    /\ \A k, a, s : ArtName(k, a) # DynName(s)
  BY DEF Names, ManNames, ArtNames, DynNames, ManName, ArtName, DynName

LEMMA NoWritesType == IsWrites(NoWrites) /\ DOMAIN NoWrites = {}
  BY DEF IsWrites, NoWrites

LEMMA AddingType ==
    ASSUME NEW puts, IsWrites(puts), NEW name \in Names, NEW value \in Values
    PROVE  /\ IsWrites(Adding(puts, name, value))
           /\ DOMAIN Adding(puts, name, value) = DOMAIN puts \cup {name}
           /\ Adding(puts, name, value)[name] = value
           /\ \A n \in DOMAIN puts \ {name} : Adding(puts, name, value)[n] = puts[n]
  BY DEF IsWrites, Adding

LEMMA OneWrite ==
    ASSUME NEW name \in Names, NEW value \in Values
    PROVE  /\ IsWrites(Adding(NoWrites, name, value))
           /\ DOMAIN Adding(NoWrites, name, value) = {name}
           /\ Adding(NoWrites, name, value)[name] = value
  BY DEF IsWrites, Adding, NoWrites

\* No write removes an entry.
LEMMA WritesLast ==
    ASSUME db \in [Names -> Values \cup {Absent}], NEW puts, IsWrites(puts),
           db' = After(puts)
    PROVE  /\ db' \in [Names -> Values \cup {Absent}]
           /\ \A n \in DOMAIN puts : db'[n] = puts[n] /\ db'[n] # Absent
           /\ \A n \in Names \ DOMAIN puts : db'[n] = db[n]
           /\ \A n \in Names : Has(n) => Has(n)'
  BY KvAssumption DEF After, IsWrites, Has

LEMMA ValueKinds ==
    /\ \A S \in SUBSET Artifacts : [list |-> S] \in Values
    /\ Builds \subseteq Values
    /\ Keys \subseteq Values
  BY DEF Values

LEMMA HeadTodo ==
    ASSUME TypeInv, NEW p \in Procs, pc[p] = "art"
    PROVE  Head(todo[p]) \in Artifacts /\ Tail(todo[p]) \in Seq(Artifacts)
<1>1. todo[p] \in Seq(Artifacts) /\ todo[p] # <<>>
  BY DEF TypeInv, TypeOK, ControlInv
<1> QED  BY <1>1, HeadTailProperties
-----------------------------------------------------------------------------
(* Type correctness. *)

LEMMA InitTypeInv == Init => TypeInv
  BY NoWritesType DEF Init, TypeInv, TypeOK, ControlInv, Stores

\* p has left its unit, and what it wrote and collected has the right types.
LEMMA LeaveTypeInv ==
    ASSUME TypeInv, NEW p \in Procs, Leave(p), backend' = backend,
           db' \in [Names -> Values \cup {Absent}],
           late' \subseteq Names \X Values,
           DOMAIN pending' = Procs, \A q \in Procs : IsWrites(pending[q])'
    PROVE  TypeInv'
<1>1. TypeOK'
  BY DEF Leave, Goto, TypeInv, TypeOK
<1>2. ControlInv'
  BY DEF Leave, Goto, TypeInv, TypeOK, ControlInv, Stores
<1> QED  BY <1>1, <1>2 DEF TypeInv

LEMMA InputsWrittenType ==
    ASSUME TypeInv, NEW p \in Procs, pc[p] # "idle"
    PROVE  /\ Slot[key[p]] \in Slots
           /\ IsWrites(InputsWritten(p))
           /\ DOMAIN InputsWritten(p) = {DynName(Slot[key[p]])}
<1>1. key[p] \in Keys /\ Slot[key[p]] \in Slots
  BY KvAssumption DEF TypeInv, ControlInv
<1>2. DynName(Slot[key[p]]) \in Names /\ key[p] \in Values
  BY <1>1, NamesApart, ValueKinds
<1> QED  BY <1>1, <1>2, OneWrite DEF InputsWritten

LEMMA ArtifactWrittenType ==
    ASSUME TypeInv, NEW p \in Procs, pc[p] = "art"
    PROVE  /\ key[p] \in Keys /\ build[p] \in Builds
           /\ ArtName(key[p], Head(todo[p])) \in Names
           /\ IsWrites(ArtifactWritten(p))
           /\ DOMAIN ArtifactWritten(p) = {ArtName(key[p], Head(todo[p]))}
<1>1. key[p] \in Keys /\ build[p] \in Builds /\ build[p] \in Values
  BY ValueKinds DEF TypeInv, ControlInv, Stores
<1>2. ArtName(key[p], Head(todo[p])) \in Names
  BY <1>1, HeadTodo, NamesApart
<1> QED  BY <1>1, <1>2, OneWrite DEF ArtifactWritten

LEMMA FinalWritesType ==
    ASSUME TypeInv, NEW p \in Procs, pc[p] = "finalize"
    PROVE  /\ key[p] \in Keys /\ ManName(key[p]) \in Names
           /\ IsWrites(FinalWrites(p))
           /\ DOMAIN FinalWrites(p) = DOMAIN pending[p] \cup {ManName(key[p])}
           /\ FinalWrites(p)[ManName(key[p])] = [list |-> listed[p]]
           /\ \A n \in DOMAIN pending[p] \ {ManName(key[p])} :
                 FinalWrites(p)[n] = pending[p][n]
<1>1. key[p] \in Keys /\ ManName(key[p]) \in Names
  BY NamesApart DEF TypeInv, ControlInv
<1>2. [list |-> listed[p]] \in Values /\ IsWrites(pending[p])
  BY ValueKinds DEF TypeInv, TypeOK
<1>3. LET puts == Adding(pending[p], ManName(key[p]), [list |-> listed[p]])
      IN  /\ IsWrites(puts)
          /\ DOMAIN puts = DOMAIN pending[p] \cup {ManName(key[p])}
          /\ puts[ManName(key[p])] = [list |-> listed[p]]
          /\ \A n \in DOMAIN pending[p] \ {ManName(key[p])} : puts[n] = pending[p][n]
  BY <1>1, <1>2, AddingType
<1> QED  BY <1>1, <1>3 DEF FinalWrites

LEMMA NextArtifactTypeInv ==
    ASSUME TypeInv, NEW p \in Procs, pc[p] = "art",
           NEW S \in SUBSET Artifacts, NextArtifact(p, S),
           backend' = backend, late' = late,
           db' \in [Names -> Values \cup {Absent}],
           DOMAIN pending' = Procs, \A q \in Procs : IsWrites(pending[q])'
    PROVE  TypeInv'
<1>1. Tail(todo[p]) \in Seq(Artifacts)
  BY HeadTodo
<1>2. TypeOK'
  BY <1>1 DEF NextArtifact, Goto, TypeInv, TypeOK
<1>3. ControlInv'
  BY <1>1 DEF NextArtifact, Goto, TypeInv, TypeOK, ControlInv, Stores
<1> QED  BY <1>2, <1>3 DEF TypeInv

LEMMA UnderWayType ==
    ASSUME TypeInv, NEW p \in Procs,
           pc[p] \in {"touch_put", "dyn_put", "art", "finalize"}
    PROVE  UnderWay(p) \in Names \X Values
<1>1. CASE pc[p] \in {"touch_put", "dyn_put"}
  <2>1. DynName(Slot[key[p]]) \in Names /\ key[p] \in Values
    BY <1>1, KvAssumption, NamesApart, ValueKinds DEF TypeInv, ControlInv
  <2> QED  BY <1>1, <2>1 DEF UnderWay
<1>2. CASE pc[p] = "art"
  BY <1>2, ArtifactWrittenType, ValueKinds DEF UnderWay
<1>3. CASE pc[p] = "finalize"
  <2>1. ManName(key[p]) \in Names /\ [list |-> listed[p]] \in Values
    BY <1>3, FinalWritesType, ValueKinds DEF TypeInv, TypeOK
  <2> QED  BY <1>3, <2>1 DEF UnderWay
<1> QED  BY <1>1, <1>2, <1>3

LEMMA StepTypeInv == TypeInv /\ ManifestInv /\ [Next]_vars => TypeInv'
<1> SUFFICES ASSUME TypeInv, ManifestInv, [Next]_vars
             PROVE  TypeInv'
  OBVIOUS
<1> USE DEF Goto, unit
<1>1. ASSUME NEW p \in Procs, NEW k \in Keys, Begin(p, k)
      PROVE  TypeInv'
  BY <1>1 DEF Begin, TypeInv, TypeOK, ControlInv, Stores
<1>2. ASSUME NEW p \in Procs, Probe(p)
      PROVE  TypeInv'
  BY <1>2 DEF Probe, TypeInv, TypeOK, ControlInv, Stores
<1>3. ASSUME NEW p \in Procs, ListArtifacts(p)
      PROVE  TypeInv'
  <2>1. Listed(key[p]) \in SUBSET Artifacts
    BY <1>3 DEF ListArtifacts, Listed, Promises, TypeInv, ControlInv, ManifestInv
  <2> QED  BY <1>3, <2>1 DEF ListArtifacts, TypeInv, TypeOK, ControlInv, Stores
<1>4. ASSUME NEW p \in Procs, RestoreArtifact(p)
      PROVE  TypeInv'
  <2>1. PICK a \in left[p] :
           /\ left' = [left EXCEPT ![p] = @ \ {a}]
           /\ got' = [got EXCEPT ![p] = @ \cup {<<a, db[ArtName(key[p], a)]>>}]
    BY <1>4 DEF RestoreArtifact
  <2>2. a \in Artifacts /\ key[p] \in Keys
    BY <1>4 DEF RestoreArtifact, TypeInv, TypeOK, ControlInv
  <2>3. ArtName(key[p], a) \in Names
    BY <2>2, NamesApart
  <2>4. <<a, db[ArtName(key[p], a)]>> \in Artifacts \X (Values \cup {Absent})
    BY <2>2, <2>3 DEF TypeInv, TypeOK
  <2> QED  BY <1>4, <2>1, <2>4 DEF RestoreArtifact, TypeInv, TypeOK, ControlInv, Stores
<1>5. ASSUME NEW p \in Procs, RestoreDone(p) \/ Crash(p)
      PROVE  TypeInv'
  BY <1>5, NoWritesType, LeaveTypeInv DEF RestoreDone, Crash, TypeInv, TypeOK
<1>6. ASSUME NEW p \in Procs, Build(p)
      PROVE  TypeInv'
  BY <1>6 DEF Build, TypeInv, TypeOK, ControlInv, Stores
<1>7. ASSUME NEW p \in Procs, CheckStored(p)
      PROVE  TypeInv'
  <2>1. CASE ContainsUnit(key[p])
    BY <1>7, <2>1 DEF CheckStored, TypeInv, TypeOK, ControlInv, Stores
  <2>2. CASE ~ContainsUnit(key[p]) /\ BundleOf[key[p]] # <<>>
    <3>1. BundleOf[key[p]] \in Seq(Artifacts)
      BY <1>7, KvAssumption DEF CheckStored, TypeInv, ControlInv
    <3> QED  BY <1>7, <2>2, <3>1 DEF CheckStored, TypeInv, TypeOK, ControlInv, Stores
  <2>3. CASE ~ContainsUnit(key[p]) /\ BundleOf[key[p]] = <<>>
    BY <1>7, <2>3, LeaveTypeInv DEF CheckStored, TypeInv, TypeOK
  <2> QED  BY <2>1, <2>2, <2>3
<1>8. ASSUME NEW p \in Procs, PeekInputs(p)
      PROVE  TypeInv'
  <2>1. CASE Leave(p)
    BY <1>8, <2>1, LeaveTypeInv DEF PeekInputs, TypeInv, TypeOK
  <2>2. CASE ~Leave(p)
    <3>1. /\ pc[p] \in {"touch", "dyn"}
          /\ \E label \in {"touch_put", "dyn_put", "art"} : pc' = [pc EXCEPT ![p] = label]
          /\ pc'[p] \in {"dyn_put", "art"} => todo[p] # <<>>
          /\ UNCHANGED <<backend, db, late, pending, key, build, todo, listed, left, got>>
      BY <1>8, <2>2 DEF PeekInputs, InputsPut, TypeInv, TypeOK, ControlInv
    <3> QED  BY <3>1 DEF TypeInv, TypeOK, ControlInv, Stores
  <2> QED  BY <2>1, <2>2
<1>9. ASSUME NEW p \in Procs, PutInputs(p)
      PROVE  TypeInv'
  <2>1. pc[p] \in {"touch", "dyn", "touch_put", "dyn_put"}
    BY <1>9 DEF PutInputs, PuttingInputs
  <2>2. db' \in [Names -> Values \cup {Absent}]
    BY <1>9, <2>1, InputsWrittenType, WritesLast DEF PutInputs, TypeInv, TypeOK
  <2>3. CASE Leave(p)
    BY <1>9, <2>2, <2>3, LeaveTypeInv DEF PutInputs, TypeInv, TypeOK
  <2>4. CASE ~Leave(p)
    <3>1. /\ pc[p] \in {"dyn", "dyn_put"}
          /\ pc' = [pc EXCEPT ![p] = "art"]
          /\ todo[p] # <<>>
          /\ UNCHANGED <<backend, late, pending, key, build, todo, listed, left, got>>
      BY <1>9, <2>1, <2>4 DEF PutInputs, InputsPut, TypeInv, ControlInv
    <3> QED  BY <2>2, <3>1 DEF TypeInv, TypeOK, ControlInv, Stores
  <2> QED  BY <2>3, <2>4
<1>10. ASSUME NEW p \in Procs, PutArtifact(p)
       PROVE  TypeInv'
  <2>1. pc[p] = "art" /\ backend' = backend /\ late' = late
    BY <1>10 DEF PutArtifact
  <2>2. {Head(todo[p])} \in SUBSET Artifacts /\ NextArtifact(p, {Head(todo[p])})
    BY <1>10, <2>1, HeadTodo DEF PutArtifact
  <2>3. CASE db' = db
    <3>1. pending' = [pending EXCEPT ![p] =
             Adding(@, ArtName(key[p], Head(todo[p])), build[p])] \/ pending' = pending
      BY <1>10 DEF PutArtifact
    <3>2. IsWrites(Adding(pending[p], ArtName(key[p], Head(todo[p])), build[p]))
      BY <2>1, ArtifactWrittenType, ValueKinds, AddingType DEF TypeInv, TypeOK
    <3>3. DOMAIN pending' = Procs /\ \A q \in Procs : IsWrites(pending'[q])
      BY <3>1, <3>2 DEF TypeInv, TypeOK
    <3>4. \A q \in Procs : IsWrites(pending[q])'
      BY <3>3 DEF IsWrites
    <3> QED  BY <2>1, <2>2, <2>3, <3>3, <3>4, NextArtifactTypeInv DEF TypeInv, TypeOK
  <2>4. CASE db' = After(ArtifactWritten(p)) /\ pending' = pending
    <3>1. db' \in [Names -> Values \cup {Absent}]
      BY <2>1, <2>4, ArtifactWrittenType, WritesLast DEF TypeInv, TypeOK
    <3>2. \A q \in Procs : IsWrites(pending[q])'
      BY <2>4 DEF IsWrites, TypeInv, TypeOK
    <3> QED  BY <2>1, <2>2, <2>4, <3>1, <3>2, NextArtifactTypeInv DEF TypeInv, TypeOK
  <2> QED  BY <1>10, <2>3, <2>4 DEF PutArtifact
<1>11. ASSUME NEW p \in Procs, SkipVanished(p)
       PROVE  TypeInv'
  <2>1. \A q \in Procs : IsWrites(pending[q])'
    BY <1>11 DEF SkipVanished, IsWrites, TypeInv, TypeOK
  <2> QED  BY <1>11, <2>1, NextArtifactTypeInv DEF SkipVanished, TypeInv, TypeOK
<1>12. ASSUME NEW p \in Procs, Finalize(p)
       PROVE  TypeInv'
  <2>1. db' \in [Names -> Values \cup {Absent}]
    BY <1>12, FinalWritesType, WritesLast DEF Finalize, TypeInv, TypeOK
  <2>2. DOMAIN pending' = Procs /\ \A q \in Procs : IsWrites(pending'[q])
    BY <1>12, NoWritesType DEF Finalize, TypeInv, TypeOK
  <2>3. \A q \in Procs : IsWrites(pending[q])'
    BY <2>2 DEF IsWrites
  <2> QED  BY <1>12, <2>1, <2>2, <2>3, LeaveTypeInv DEF Finalize, TypeInv, TypeOK
<1>13. ASSUME NEW p \in Procs, CrashWaiting(p)
       PROVE  TypeInv'
  <2>1. late' \subseteq Names \X Values
    BY <1>13, UnderWayType DEF CrashWaiting, TypeInv, TypeOK
  <2>2. \A q \in Procs : IsWrites(pending[q])'
    BY <1>13 DEF CrashWaiting, IsWrites, TypeInv, TypeOK
  <2> QED  BY <1>13, <2>1, <2>2, LeaveTypeInv DEF CrashWaiting, TypeInv, TypeOK
<1>14. ASSUME NEW w \in late, Arrive(w) \/ Lose(w)
       PROVE  TypeInv'
  <2>1. w[1] \in Names /\ w[2] \in Values
    BY DEF TypeInv, TypeOK
  <2>2. IsWrites(Adding(NoWrites, w[1], w[2]))
    BY <2>1, NoWritesType, AddingType
  <2>3. db' \in [Names -> Values \cup {Absent}]
    BY <1>14, <2>2, WritesLast DEF Arrive, Lose, TypeInv, TypeOK
  <2> QED  BY <1>14, <2>3 DEF Arrive, Lose, IsWrites, TypeInv, TypeOK, ControlInv, Stores
<1>15. CASE UNCHANGED vars
  BY <1>15 DEF vars, IsWrites, TypeInv, TypeOK, ControlInv, Stores
<1> QED
  BY <1>1, <1>2, <1>3, <1>4, <1>5, <1>6, <1>7, <1>8, <1>9, <1>10, <1>11, <1>12, <1>13,
     <1>14, <1>15 DEF Next, Step

-----------------------------------------------------------------------------
(* Processes that race. *)

\* What is in the database stays.
Grows == \A n \in Names : Has(n) => Has(n)'

LEMMA ArriveWrites ==
    ASSUME TypeInv, NEW w \in late, Arrive(w)
    PROVE  /\ w[1] \in Names /\ w[2] \in Values
           /\ db'[w[1]] = w[2]
           /\ \A n \in Names \ {w[1]} : db'[n] = db[n]
           /\ Grows
<1>1. w[1] \in Names /\ w[2] \in Values
  BY DEF TypeInv, TypeOK
<1>2. /\ db' = After(Adding(NoWrites, w[1], w[2]))
      /\ DOMAIN Adding(NoWrites, w[1], w[2]) = {w[1]}
      /\ IsWrites(Adding(NoWrites, w[1], w[2]))
      /\ Adding(NoWrites, w[1], w[2])[w[1]] = w[2]
  BY <1>1, OneWrite DEF Arrive
<1>3. db \in [Names -> Values \cup {Absent}]
  BY DEF TypeInv, TypeOK
<1>4. /\ \A n \in {w[1]} : db'[n] = Adding(NoWrites, w[1], w[2])[n]
      /\ \A n \in Names \ {w[1]} : db'[n] = db[n]
      /\ \A n \in Names : Has(n) => Has(n)'
  BY <1>2, <1>3, WritesLast
<1> QED  BY <1>1, <1>2, <1>4 DEF Grows

LEMMA PutInputsWrites ==
    ASSUME TypeInv, NEW p \in Procs, PutInputs(p)
    PROVE  /\ db'[DynName(Slot[key[p]])] # Absent
           /\ \A n \in Names \ {DynName(Slot[key[p]])} : db'[n] = db[n]
           /\ Grows
<1>1. pc[p] # "idle"
  BY DEF PutInputs, PuttingInputs
<1>2. /\ IsWrites(InputsWritten(p))
      /\ DOMAIN InputsWritten(p) = {DynName(Slot[key[p]])}
  BY <1>1, InputsWrittenType
<1> QED  BY <1>2, WritesLast DEF PutInputs, Grows, Has, TypeInv, TypeOK

LEMMA PutArtifactWrites ==
    ASSUME TypeInv, NEW p \in Procs, PutArtifact(p)
    PROVE  \/ Lmdb /\ db' = db
           \/ /\ Tikv /\ pending' = pending
              /\ db'[ArtName(key[p], Head(todo[p]))] # Absent
              /\ \A n \in Names \ {ArtName(key[p], Head(todo[p]))} : db'[n] = db[n]
              /\ Grows
<1>1. CASE Lmdb /\ db' = db
  BY <1>1
<1>2. CASE Tikv /\ db' = After(ArtifactWritten(p)) /\ pending' = pending
  <2>1. /\ IsWrites(ArtifactWritten(p))
        /\ DOMAIN ArtifactWritten(p) = {ArtName(key[p], Head(todo[p]))}
    BY ArtifactWrittenType DEF PutArtifact
  <2> QED  BY <1>2, <2>1, WritesLast DEF Grows, Has, TypeInv, TypeOK
<1> QED  BY <1>1, <1>2 DEF PutArtifact

LEMMA FinalizeWrites ==
    ASSUME TypeInv, NEW p \in Procs, Collected(p), Finalize(p)
    PROVE  /\ key[p] \in Keys
           /\ db'[ManName(key[p])] = [list |-> listed[p]]
           /\ db'[ManName(key[p])] # Absent
           /\ \A n \in ListedNames(p) : db'[n] # Absent /\ (Lmdb => db'[n] = build[p])
           /\ Lmdb => \A n \in Names \ (ListedNames(p) \cup {ManName(key[p])}) : db'[n] = db[n]
           /\ Tikv => \A n \in Names \ {ManName(key[p])} : db'[n] = db[n]
           /\ Grows
<1>1. /\ key[p] \in Keys /\ ManName(key[p]) \in Names
      /\ IsWrites(FinalWrites(p))
      /\ DOMAIN FinalWrites(p) = DOMAIN pending[p] \cup {ManName(key[p])}
      /\ FinalWrites(p)[ManName(key[p])] = [list |-> listed[p]]
      /\ \A n \in DOMAIN pending[p] \ {ManName(key[p])} : FinalWrites(p)[n] = pending[p][n]
  BY FinalWritesType DEF Finalize
<1>2. /\ \A n \in DOMAIN FinalWrites(p) : db'[n] = FinalWrites(p)[n] /\ db'[n] # Absent
      /\ \A n \in Names \ DOMAIN FinalWrites(p) : db'[n] = db[n]
      /\ Grows
  BY <1>1, WritesLast DEF Finalize, Grows, TypeInv, TypeOK
<1>3. ManName(key[p]) \notin ListedNames(p) /\ ListedNames(p) \subseteq Names
  BY <1>1, NamesApart DEF ListedNames, TypeInv, TypeOK
<1>4. backend \in {"lmdb", "tikv"}
  BY KvAssumption DEF TypeInv, TypeOK
<1>5. CASE Lmdb
  BY <1>1, <1>2, <1>3, <1>5 DEF Collected, Lmdb, Tikv, Has
<1>6. CASE Tikv
  BY <1>1, <1>2, <1>3, <1>6 DEF Collected, Lmdb, Tikv, Has, Grows
<1> QED  BY <1>4, <1>5, <1>6 DEF Lmdb, Tikv

LEMMA StepGrows == TypeInv /\ (\A p \in Procs : Collected(p)) /\ [Next]_vars => Grows
<1> SUFFICES ASSUME TypeInv, \A p \in Procs : Collected(p), [Next]_vars
             PROVE  Grows
  OBVIOUS
<1>1. CASE db' = db
  BY <1>1 DEF Grows, Has
<1>2. ASSUME NEW p \in Procs, PutInputs(p) \/ PutArtifact(p) \/ Finalize(p)
      PROVE  Grows
  BY <1>1, <1>2, PutInputsWrites, PutArtifactWrites, FinalizeWrites
<1>3. ASSUME NEW w \in late, Arrive(w)
      PROVE  Grows
  BY <1>3, ArriveWrites
<1>4. CASE UNCHANGED vars
  BY <1>1, <1>4 DEF vars
<1> QED
  BY <1>1, <1>2, <1>3, <1>4
     DEF Next, Step, Begin, Probe, ListArtifacts, RestoreArtifact, RestoreDone, Build,
         CheckStored, PeekInputs, SkipVanished, Crash, CrashWaiting, Lose

\* Everything the manifest promises is there after the step.
Keeps(k, manifest) ==
    /\ manifest \in [list : SUBSET Artifacts]
    /\ db'[DynName(Slot[k])] # Absent
    /\ \A a \in manifest.list : db'[ArtName(k, a)] # Absent

LEMMA GrowsKeeps ==
    ASSUME Grows, NEW k \in Keys, NEW manifest, Promises(k, manifest)
    PROVE  Keeps(k, manifest)
<1>1. Slot[k] \in Slots /\ DynName(Slot[k]) \in Names
  BY KvAssumption, NamesApart
<1>2. \A a \in manifest.list : ArtName(k, a) \in Names
  BY NamesApart DEF Promises
<1> QED  BY <1>1, <1>2 DEF Grows, Has, Promises, Keeps

LEMMA ManifestStep ==
    ASSUME ManifestInv, Grows,
           \A k \in Keys : db'[ManName(k)] # Absent =>
              db'[ManName(k)] = db[ManName(k)] \/ Keeps(k, db'[ManName(k)]),
           \A w \in late', k \in Keys : w[1] = ManName(k) => w \in late \/ Keeps(k, w[2])
    PROVE  ManifestInv'
<1>1. \A k \in Keys : db'[ManName(k)] # Absent => Keeps(k, db'[ManName(k)])
  <2> SUFFICES ASSUME NEW k \in Keys, db'[ManName(k)] # Absent, db'[ManName(k)] = db[ManName(k)]
               PROVE  Keeps(k, db'[ManName(k)])
    OBVIOUS
  <2>1. Promises(k, db[ManName(k)])
    BY DEF ManifestInv, ContainsUnit, Has
  <2> QED  BY <2>1, GrowsKeeps
<1>2. \A w \in late', k \in Keys : w[1] = ManName(k) => Keeps(k, w[2])
  BY GrowsKeeps DEF ManifestInv
<1> QED  BY <1>1, <1>2 DEF ManifestInv, ContainsUnit, Has, Promises, Keeps

LEMMA StepManifestInv == RaceInv /\ Grows /\ [Next]_vars => ManifestInv'
<1> SUFFICES ASSUME RaceInv, Grows, [Next]_vars
             PROVE  ManifestInv'
  OBVIOUS
<1>1. TypeInv /\ ManifestInv /\ \A p \in Procs : Recorded(p) /\ Collected(p)
  BY DEF RaceInv, TypeInv
<1>2. CASE db' = db /\ late' \subseteq late
  BY <1>1, <1>2, ManifestStep
<1>3. ASSUME NEW p \in Procs, PutInputs(p)
      PROVE  ManifestInv'
  <2>1. \A k \in Keys : db'[ManName(k)] = db[ManName(k)]
    BY <1>1, <1>3, PutInputsWrites, NamesApart
  <2> QED  BY <1>1, <1>3, <2>1, ManifestStep DEF PutInputs
<1>4. ASSUME NEW p \in Procs, PutArtifact(p)
      PROVE  ManifestInv'
  <2>1. \A k \in Keys : db'[ManName(k)] = db[ManName(k)]
    BY <1>1, <1>4, PutArtifactWrites, NamesApart
  <2> QED  BY <1>1, <1>4, <2>1, ManifestStep DEF PutArtifact
<1>5. ASSUME NEW p \in Procs, Finalize(p)
      PROVE  ManifestInv'
  <2>1. Collected(p) /\ Recorded(p) /\ Storing(p) /\ late' = late
    BY <1>1, <1>5 DEF Finalize, Storing
  <2>2. \A k \in Keys \ {key[p]} : db'[ManName(k)] = db[ManName(k)]
    <3>1. \A k \in Keys \ {key[p]} :
             ManName(k) \in Names \ (ListedNames(p) \cup {ManName(key[p])})
      BY <1>1, <1>5, <2>1, FinalizeWrites, NamesApart DEF ListedNames
    <3>2. Lmdb \/ Tikv
      BY <1>1, KvAssumption DEF Lmdb, Tikv, TypeInv, TypeOK
    <3> QED  BY <1>1, <1>5, <2>1, <3>1, <3>2, FinalizeWrites
  <2>3. Keeps(key[p], db'[ManName(key[p])])
    <3>1. key[p] \in Keys /\ db'[ManName(key[p])] = [list |-> listed[p]]
      BY <1>1, <1>5, <2>1, FinalizeWrites
    <3>2. listed[p] \subseteq Artifacts
      BY <1>1 DEF TypeInv, TypeOK
    <3>3. \A a \in listed[p] : db'[ArtName(key[p], a)] # Absent
      BY <1>1, <1>5, <2>1, FinalizeWrites DEF ListedNames
    <3>4. DynName(Slot[key[p]]) \in Names
      BY <3>1, KvAssumption, NamesApart
    <3>5. db'[DynName(Slot[key[p]])] # Absent
      BY <2>1, <3>4 DEF Recorded, Grows, Has
    <3> QED  BY <3>1, <3>2, <3>3, <3>5 DEF Keeps
  <2> QED  BY <1>1, <2>1, <2>2, <2>3, ManifestStep
<1>6. ASSUME NEW p \in Procs, CrashWaiting(p)
      PROVE  ManifestInv'
  <2>1. db' = db /\ late' = late \cup {UnderWay(p)} /\ Tikv /\ pc[p] # "idle"
    BY <1>6 DEF CrashWaiting
  <2>2. ASSUME NEW k \in Keys, UnderWay(p)[1] = ManName(k)
        PROVE  Keeps(k, UnderWay(p)[2])
    <3>1. pc[p] = "finalize"
      BY <1>6, <2>2, NamesApart DEF CrashWaiting, UnderWay
    <3>2. k = key[p] /\ UnderWay(p)[2] = [list |-> listed[p]]
      BY <2>2, <3>1, NamesApart DEF UnderWay
    <3>3. /\ listed[p] \in SUBSET Artifacts
          /\ Has(DynName(Slot[key[p]]))
          /\ \A a \in listed[p] : Has(ArtName(key[p], a))
      BY <1>1, <2>1, <3>1 DEF Recorded, Collected, Storing, ListedNames, TypeInv, TypeOK
    <3> QED  BY <2>1, <3>2, <3>3 DEF Keeps, Has
  <2> QED  BY <1>1, <2>1, <2>2, ManifestStep
<1>7. ASSUME NEW w \in late, Arrive(w)
      PROVE  ManifestInv'
  <2>1. /\ w[1] \in Names /\ db'[w[1]] = w[2]
        /\ \A n \in Names \ {w[1]} : db'[n] = db[n]
    BY <1>1, <1>7, ArriveWrites
  <2>2. late' \subseteq late
    BY <1>7 DEF Arrive
  <2>3. ASSUME NEW k \in Keys, w[1] = ManName(k)
        PROVE  Keeps(k, db'[ManName(k)])
    <3>1. Promises(k, w[2])
      BY <1>1, <2>3 DEF ManifestInv
    <3> QED  BY <2>1, <2>3, <3>1, GrowsKeeps
  <2>4. \A k \in Keys : w[1] # ManName(k) => db'[ManName(k)] = db[ManName(k)]
    BY <2>1, NamesApart
  <2> QED  BY <1>1, <2>2, <2>3, <2>4, ManifestStep
<1>8. CASE UNCHANGED vars
  BY <1>2, <1>8 DEF vars
<1> QED
  BY <1>2, <1>3, <1>4, <1>5, <1>6, <1>7, <1>8
     DEF Next, Step, Begin, Probe, ListArtifacts, RestoreArtifact, RestoreDone, Build,
         CheckStored, PeekInputs, SkipVanished, Crash, Lose

\* Whoever does not take the step keeps what it collected.
LEMMA OthersCollected ==
    ASSUME TypeInv, Grows, backend' = backend, NEW q \in Procs,
           Recorded(q), Collected(q),
           pc'[q] = pc[q], key'[q] = key[q], listed'[q] = listed[q],
           build'[q] = build[q], pending'[q] = pending[q]
    PROVE  Recorded(q)' /\ Collected(q)'
<1>1. Storing(q) => DynName(Slot[key[q]]) \in Names
  BY KvAssumption, NamesApart DEF Storing, TypeInv, ControlInv
<1>2. ListedNames(q)' = ListedNames(q)
  BY DEF ListedNames
<1>3. ListedNames(q) \subseteq Names
  <2>1. CASE Storing(q)
    BY <2>1, NamesApart DEF ListedNames, Storing, TypeInv, TypeOK, ControlInv
  <2>2. CASE ~Storing(q)
    BY <2>2 DEF Collected, ListedNames
  <2> QED  BY <2>1, <2>2
<1>4. Recorded(q)'
  BY <1>1 DEF Recorded, Storing, Grows, Has
<1>5. Collected(q)'
  BY <1>2, <1>3 DEF Collected, Storing, Lmdb, Tikv, Grows, Has
<1> QED  BY <1>4, <1>5

\* A process with nothing listed has nothing collected.
LEMMA EmptyCollected ==
    ASSUME NEW q \in Procs, listed'[q] = {}, DOMAIN pending'[q] = {},
           Storing(q)' => Has(DynName(Slot[key[q]]))'
    PROVE  Recorded(q)' /\ Collected(q)'
<1>1. ListedNames(q)' = {}
  BY DEF ListedNames
<1> QED  BY <1>1 DEF Recorded, Collected

LEMMA StepCollected ==
    RaceInv /\ Grows /\ TypeInv' /\ [Next]_vars
      => \A p \in Procs : Recorded(p)' /\ Collected(p)'
<1> SUFFICES ASSUME RaceInv, Grows, TypeInv', [Next]_vars
             PROVE  \A p \in Procs : Recorded(p)' /\ Collected(p)'
  OBVIOUS
<1>1. /\ TypeInv
      /\ Lmdb \/ Tikv
      /\ \A p \in Procs : Recorded(p) /\ Collected(p)
  BY KvAssumption DEF RaceInv, TypeInv, TypeOK, Lmdb, Tikv
<1>2. backend' = backend
  BY DEF Next, Step, Begin, Probe, ListArtifacts, RestoreArtifact, RestoreDone, Build,
         CheckStored, PeekInputs, PutInputs, PutArtifact, SkipVanished, Finalize,
         Crash, CrashWaiting, Arrive, Lose, vars
<1>3. ASSUME NEW p \in Procs, Recorded(p)' /\ Collected(p)',
             \A q \in Procs \ {p} :
                /\ pc'[q] = pc[q] /\ key'[q] = key[q] /\ listed'[q] = listed[q]
                /\ build'[q] = build[q] /\ pending'[q] = pending[q]
      PROVE  \A q \in Procs : Recorded(q)' /\ Collected(q)'
  BY <1>1, <1>2, <1>3, OthersCollected
<1>4. ASSUME NEW p \in Procs, ~Storing(p)
      PROVE  listed[p] = {} /\ DOMAIN pending[p] = {}
  BY <1>1, <1>4 DEF Collected, ListedNames
<1>5. ASSUME NEW p \in Procs, NEW k \in Keys, Begin(p, k)
      PROVE  \A q \in Procs : Recorded(q)' /\ Collected(q)'
  <2>1. /\ ~Storing(p) /\ ~Storing(p)'
        /\ listed' = listed /\ pending' = pending
    BY <1>1, <1>5 DEF Begin, Goto, Storing, TypeInv, TypeOK
  <2>2. Recorded(p)' /\ Collected(p)'
    BY <1>4, <2>1, EmptyCollected
  <2>3. \A q \in Procs \ {p} : pc'[q] = pc[q] /\ key'[q] = key[q] /\ build'[q] = build[q]
    BY <1>1, <1>5 DEF Begin, Goto, TypeInv, TypeOK
  <2> QED  BY <1>3, <2>1, <2>2, <2>3
<1>6. ASSUME NEW p \in Procs, Leave(p), DOMAIN pending'[p] = {},
             \A q \in Procs \ {p} : pending'[q] = pending[q]
      PROVE  \A q \in Procs : Recorded(q)' /\ Collected(q)'
  <2>1. ~Storing(p)' /\ listed'[p] = {}
    BY <1>1, <1>6 DEF Leave, Goto, Storing, TypeInv, TypeOK
  <2>2. Recorded(p)' /\ Collected(p)'
    BY <1>6, <2>1, EmptyCollected
  <2>3. \A q \in Procs \ {p} :
           /\ pc'[q] = pc[q] /\ key'[q] = key[q] /\ listed'[q] = listed[q]
           /\ build'[q] = build[q]
    BY <1>1, <1>6 DEF Leave, Goto, TypeInv, TypeOK
  <2> QED  BY <1>3, <1>6, <2>2, <2>3
<1>7. ASSUME NEW p \in Procs,
             Probe(p) \/ ListArtifacts(p) \/ RestoreArtifact(p) \/ RestoreDone(p)
             \/ Build(p) \/ CheckStored(p) \/ PeekInputs(p)
      PROVE  \A q \in Procs : Recorded(q)' /\ Collected(q)'
  <2>1. ~Storing(p) /\ pending' = pending
    BY <1>7
       DEF Probe, ListArtifacts, RestoreArtifact, RestoreDone, Build, CheckStored,
           PeekInputs, Storing
  <2>2. CASE Leave(p)
    BY <1>4, <1>6, <2>1, <2>2
  <2>3. CASE ~Leave(p)
    <3>1. /\ listed' = listed /\ key' = key
          /\ \A q \in Procs \ {p} : pc'[q] = pc[q] /\ build'[q] = build[q]
          /\ Storing(p)' => db' = db /\ Has(DynName(Slot[key[p]]))
      BY <1>1, <1>7, <2>3
         DEF Probe, ListArtifacts, RestoreArtifact, RestoreDone, Build, CheckStored,
             PeekInputs, InputsPut, Storing, Goto, unit, TypeInv, TypeOK
    <3>2. Recorded(p)' /\ Collected(p)'
      BY <1>4, <2>1, <3>1, EmptyCollected DEF Has
    <3> QED  BY <1>3, <2>1, <3>1, <3>2
  <2> QED  BY <2>2, <2>3
<1>8. ASSUME NEW p \in Procs, PutInputs(p)
      PROVE  \A q \in Procs : Recorded(q)' /\ Collected(q)'
  <2>1. ~Storing(p) /\ pending' = pending
    BY <1>8 DEF PutInputs, PuttingInputs, Storing
  <2>2. CASE Leave(p)
    BY <1>4, <1>6, <2>1, <2>2
  <2>3. CASE ~Leave(p)
    <3>1. /\ listed' = listed /\ key' = key /\ build' = build
          /\ \A q \in Procs \ {p} : pc'[q] = pc[q]
      BY <1>1, <1>8, <2>3 DEF PutInputs, InputsPut, Goto, unit, TypeInv, TypeOK
    <3>2. db'[DynName(Slot[key[p]])] # Absent
      BY <1>1, <1>8, PutInputsWrites
    <3>3. Recorded(p)' /\ Collected(p)'
      BY <1>4, <2>1, <3>1, <3>2, EmptyCollected DEF Has
    <3> QED  BY <1>3, <2>1, <3>1, <3>3
  <2> QED  BY <2>2, <2>3
<1>9. ASSUME NEW p \in Procs, NEW S \in SUBSET Artifacts, NextArtifact(p, S), pc[p] = "art",
             \A q \in Procs \ {p} : pending'[q] = pending[q],
             Lmdb => /\ DOMAIN pending'[p] = DOMAIN pending[p] \cup {ArtName(key[p], a) : a \in S}
                     /\ \A n \in DOMAIN pending'[p] :
                           \/ pending'[p][n] = build[p]
                           \/ n \in DOMAIN pending[p] /\ pending'[p][n] = pending[p][n],
             Tikv => /\ pending' = pending
                     /\ \A a \in S : db'[ArtName(key[p], a)] # Absent
      PROVE  \A q \in Procs : Recorded(q)' /\ Collected(q)'
  <2>1. /\ Storing(p) /\ Storing(p)'
        /\ key' = key /\ build' = build
        /\ listed'[p] = listed[p] \cup S
        /\ \A q \in Procs \ {p} : pc'[q] = pc[q] /\ listed'[q] = listed[q]
    BY <1>1, <1>9 DEF NextArtifact, Goto, Storing, TypeInv, TypeOK
  <2>2. ListedNames(p)' = ListedNames(p) \cup {ArtName(key[p], a) : a \in S}
    BY <2>1 DEF ListedNames
  <2>3. key[p] \in Keys /\ listed[p] \subseteq Artifacts
    BY <1>1, <1>9 DEF TypeInv, TypeOK, ControlInv
  <2>4. Recorded(p)'
    <3>1. DynName(Slot[key[p]]) \in Names /\ Has(DynName(Slot[key[p]]))
      BY <1>1, <2>1, <2>3, KvAssumption, NamesApart DEF Recorded
    <3>2. db'[DynName(Slot[key[p]])] # Absent
      BY <3>1 DEF Grows, Has
    <3> QED  BY <2>1, <3>2 DEF Recorded, Has
  <2>5. Lmdb => Collected(p)'
    <3> SUFFICES ASSUME Lmdb
                 PROVE  Collected(p)'
      OBVIOUS
    <3>1. DOMAIN pending'[p] = ListedNames(p)'
      BY <1>1, <1>9, <2>2 DEF Collected
    <3>2. \A n \in DOMAIN pending[p] : pending[p][n] = build[p]
      BY <1>1 DEF Collected
    <3>3. \A n \in ListedNames(p)' : pending'[p][n] = build[p]
      <4> SUFFICES ASSUME NEW n \in DOMAIN pending'[p]
                   PROVE  pending'[p][n] = build[p]
        BY <3>1
      <4>1. \/ pending'[p][n] = build[p]
            \/ n \in DOMAIN pending[p] /\ pending'[p][n] = pending[p][n]
        BY <1>9
      <4> QED  BY <3>2, <4>1
    <3> QED  BY <1>2, <2>1, <3>1, <3>3 DEF Collected, Lmdb, Tikv
  <2>6. Tikv => Collected(p)'
    <3> SUFFICES ASSUME Tikv
                 PROVE  Collected(p)'
      OBVIOUS
    <3>1. DOMAIN pending'[p] = {} /\ \A n \in ListedNames(p) : Has(n)
      BY <1>1, <1>9 DEF Collected
    <3>2. ListedNames(p) \subseteq Names
      BY <2>3, NamesApart DEF ListedNames
    <3>3. \A n \in ListedNames(p)' : db'[n] # Absent
      BY <1>9, <2>2, <3>1, <3>2 DEF Grows, Has
    <3> QED  BY <1>2, <2>1, <3>1, <3>3 DEF Collected, Lmdb, Tikv, Has
  <2>7. Recorded(p)' /\ Collected(p)'
    BY <1>1, <2>4, <2>5, <2>6
  <2> QED  BY <1>3, <1>9, <2>1, <2>7
<1>10. ASSUME NEW p \in Procs, PutArtifact(p)
       PROVE  \A q \in Procs : Recorded(q)' /\ Collected(q)'
  <2>1. /\ pc[p] = "art" /\ NextArtifact(p, {Head(todo[p])})
        /\ {Head(todo[p])} \in SUBSET Artifacts
    BY <1>1, <1>10, HeadTodo DEF PutArtifact
  <2>2. ArtName(key[p], Head(todo[p])) \in Names /\ build[p] \in Values
    BY <1>1, <2>1, ArtifactWrittenType, ValueKinds
  <2>3. CASE Lmdb
    <3>1. pending' = [pending EXCEPT ![p] =
             Adding(pending[p], ArtName(key[p], Head(todo[p])), build[p])]
      BY <1>10, <2>3 DEF PutArtifact, Lmdb, Tikv
    <3>2. IsWrites(pending[p]) /\ DOMAIN pending = Procs
      BY <1>1 DEF TypeInv, TypeOK
    <3>3. /\ pending'[p] = Adding(pending[p], ArtName(key[p], Head(todo[p])), build[p])
          /\ \A q \in Procs \ {p} : pending'[q] = pending[q]
      BY <3>1, <3>2
    <3>4. /\ DOMAIN pending'[p] = DOMAIN pending[p] \cup {ArtName(key[p], Head(todo[p]))}
          /\ pending'[p][ArtName(key[p], Head(todo[p]))] = build[p]
          /\ \A n \in DOMAIN pending[p] \ {ArtName(key[p], Head(todo[p]))} :
                pending'[p][n] = pending[p][n]
      BY <2>2, <3>2, <3>3, AddingType
    <3> QED  BY <1>9, <2>1, <2>3, <3>3, <3>4 DEF Lmdb, Tikv
  <2>4. CASE Tikv
    <3>1. pending' = pending /\ db'[ArtName(key[p], Head(todo[p]))] # Absent
      BY <1>1, <1>10, <2>4, PutArtifactWrites DEF Lmdb, Tikv
    <3> QED  BY <1>9, <2>1, <2>4, <3>1 DEF Lmdb, Tikv
  <2> QED  BY <1>1, <2>3, <2>4
<1>11. ASSUME NEW p \in Procs, SkipVanished(p)
       PROVE  \A q \in Procs : Recorded(q)' /\ Collected(q)'
  BY <1>9, <1>11 DEF SkipVanished
<1>12. ASSUME NEW p \in Procs, Finalize(p) \/ Crash(p) \/ CrashWaiting(p)
       PROVE  \A q \in Procs : Recorded(q)' /\ Collected(q)'
  <2>1. Leave(p) /\ \A q \in Procs \ {p} : pending'[q] = pending[q]
    BY <1>12 DEF Finalize, Crash, CrashWaiting, TypeInv, TypeOK
  <2>2. DOMAIN pending'[p] = {}
    BY <1>1, <1>12, NoWritesType
       DEF Finalize, Crash, CrashWaiting, Collected, TypeInv, TypeOK
  <2> QED  BY <1>6, <2>1, <2>2
<1>13. CASE UNCHANGED vars \/ \E w \in late : Arrive(w) \/ Lose(w)
  <2>1. UNCHANGED <<pc, key, build, listed, pending>>
    BY <1>13 DEF Arrive, Lose, vars, unit
  <2> QED  BY <1>1, <1>2, <2>1, OthersCollected
<1> QED
  BY <1>5, <1>7, <1>8, <1>10, <1>11, <1>12, <1>13 DEF Next, Step

\* Nothing is under way with lmdb, and no artifact without its manifest.
LEMMA StepLmdb ==
    RaceInv /\ Grows /\ [Next]_vars => (Lmdb => late = {})' /\ NothingLeaked'
<1> SUFFICES ASSUME RaceInv, Grows, [Next]_vars, Lmdb'
             PROVE  /\ late' = {}
                    /\ \A k \in Keys, a \in Artifacts :
                          db'[ArtName(k, a)] # Absent => db'[ManName(k)] # Absent
  BY DEF NothingLeaked, Has, ContainsUnit
<1>1. TypeInv /\ \A p \in Procs : Recorded(p) /\ Collected(p)
  BY DEF RaceInv, TypeInv
<1>2. Lmdb /\ ~Tikv
  BY DEF Next, Step, Begin, Probe, ListArtifacts, RestoreArtifact, RestoreDone, Build,
         CheckStored, PeekInputs, PutInputs, PutArtifact, SkipVanished, Finalize,
         Crash, CrashWaiting, Arrive, Lose, vars, Lmdb, Tikv
<1>3. late = {} /\ \A k \in Keys, a \in Artifacts : Has(ArtName(k, a)) => Has(ManName(k))
  BY <1>2 DEF RaceInv, NothingLeaked, ContainsUnit
<1>4. late' = {}
  BY <1>2, <1>3
     DEF Next, Step, Begin, Probe, ListArtifacts, RestoreArtifact, RestoreDone, Build,
         CheckStored, PeekInputs, PutInputs, PutArtifact, SkipVanished, Finalize,
         Crash, CrashWaiting, Arrive, Lose, vars
<1>5. CASE \A n \in ArtNames : db'[n] = db[n]
  BY <1>3, <1>4, <1>5, NamesApart DEF Grows, Has, ArtNames
<1>6. ASSUME NEW p \in Procs, PutInputs(p)
      PROVE  \A n \in ArtNames : db'[n] = db[n]
  <2>1. \A n \in ArtNames : n \in Names \ {DynName(Slot[key[p]])}
    BY NamesApart DEF ArtNames, Names
  <2> QED  BY <1>1, <1>6, <2>1, PutInputsWrites
<1>7. ASSUME NEW p \in Procs, PutArtifact(p)
      PROVE  \A n \in ArtNames : db'[n] = db[n]
  BY <1>1, <1>2, <1>7, PutArtifactWrites
<1>8. ASSUME NEW p \in Procs, Finalize(p), NEW k \in Keys, NEW a \in Artifacts,
             db'[ArtName(k, a)] # Absent
      PROVE  db'[ManName(k)] # Absent
  <2>1. /\ db'[ManName(key[p])] # Absent
        /\ \A n \in Names \ (ListedNames(p) \cup {ManName(key[p])}) : db'[n] = db[n]
    BY <1>1, <1>2, <1>8, FinalizeWrites
  <2>2. ArtName(k, a) \in Names /\ ManName(k) \in Names /\ ArtName(k, a) # ManName(key[p])
    BY NamesApart
  <2>3. CASE ArtName(k, a) \in ListedNames(p)
    <3>1. k = key[p]
      BY <2>3, NamesApart DEF ListedNames
    <3> QED  BY <2>1, <3>1
  <2>4. CASE ArtName(k, a) \notin ListedNames(p)
    <3>1. Has(ArtName(k, a))
      BY <1>8, <2>1, <2>2, <2>4 DEF Has
    <3>2. Has(ManName(k))
      BY <1>3, <3>1
    <3> QED  BY <2>2, <3>2 DEF Grows, Has
  <2> QED  BY <2>3, <2>4
<1>9. CASE db' = db
  BY <1>5, <1>9
<1> QED
  BY <1>3, <1>4, <1>5, <1>6, <1>7, <1>8, <1>9
     DEF Next, Step, Begin, Probe, ListArtifacts, RestoreArtifact, RestoreDone, Build,
         CheckStored, PeekInputs, SkipVanished, Crash, CrashWaiting, Arrive, Lose, vars
-----------------------------------------------------------------------------
(* Theorems.  None of them asks processes to take turns. *)

LEMMA InitRaceInv == Init => RaceInv
<1> SUFFICES ASSUME Init
             PROVE  RaceInv
  OBVIOUS
<1>1. TypeOK /\ ControlInv
  BY InitTypeInv DEF TypeInv
<1>2. \A n \in Names : ~Has(n)
  BY DEF Init, Has
<1>3. ManifestInv /\ NothingLeaked
  BY <1>2, NamesApart DEF Init, ManifestInv, ContainsUnit, NothingLeaked
<1>4. ASSUME NEW p \in Procs
      PROVE  Recorded(p) /\ Collected(p)
  <2>1. ~Storing(p) /\ listed[p] = {} /\ DOMAIN pending[p] = {}
    BY NoWritesType DEF Init, Storing
  <2>2. ListedNames(p) = {}
    BY <2>1 DEF ListedNames
  <2> QED  BY <2>1, <2>2 DEF Recorded, Collected
<1> QED  BY <1>1, <1>3, <1>4 DEF RaceInv, Init

LEMMA StepRaceInv == RaceInv /\ [Next]_vars => RaceInv'
<1> SUFFICES ASSUME RaceInv, [Next]_vars
             PROVE  RaceInv'
  OBVIOUS
<1>1. TypeInv /\ ManifestInv /\ \A p \in Procs : Collected(p)
  BY DEF RaceInv, TypeInv
<1>2. TypeInv'
  BY <1>1, StepTypeInv
<1>3. Grows
  BY <1>1, StepGrows
<1>4. ManifestInv'
  BY <1>3, StepManifestInv
<1>5. \A p \in Procs : Recorded(p)' /\ Collected(p)'
  BY <1>2, <1>3, StepCollected
<1>6. (Lmdb => late = {})' /\ NothingLeaked'
  BY <1>3, StepLmdb
<1> QED  BY <1>2, <1>4, <1>5, <1>6 DEF RaceInv, TypeInv

\* What the two backends keep up although processes race and die: nothing ever
\* removes an entry, so a manifest promises only what is there, and what is
\* listed is collected (lmdb) or stored (tikv) already.
THEOREM RaceInvariant == Spec => []RaceInv
  BY InitRaceInv, StepRaceInv, PTL DEF Spec

\* Database, requests and the locals of run_cached_build keep their types.
THEOREM TypeCorrect == Spec => []TypeOK
<1>1. RaceInv => TypeOK
  BY DEF RaceInv
<1> QED  BY <1>1, RaceInvariant, PTL

\* A bundle contains_unit shows can be found through its dynamic inputs, and has
\* every file its manifest lists.
THEOREM NothingIsMissing == Spec => []NothingMissing
<1>1. RaceInv => NothingMissing
  BY DEF RaceInv, ManifestInv, Promises, NothingMissing
<1> QED  BY <1>1, RaceInvariant, PTL

\* lmdb's transaction leaves no artifact behind that no manifest leads to.
THEOREM NothingIsLeaked == Spec => []NothingLeaked
<1>1. RaceInv => NothingLeaked
  BY DEF RaceInv
<1> QED  BY <1>1, RaceInvariant, PTL
-----------------------------------------------------------------------------
(* Bundles of lmdb. *)

\* A unit whose manifest and artifacts are as before looks as before.
LEMMA SameView ==
    ASSUME RaceInv, NEW k \in Keys, db'[ManName(k)] = db[ManName(k)],
           \A a \in Artifacts : db'[ArtName(k, a)] = db[ArtName(k, a)]
    PROVE  ViewOf(k)' = ViewOf(k)
<1>1. CASE ContainsUnit(k)
  <2>1. db[ManName(k)].list \subseteq Artifacts
    BY <1>1 DEF RaceInv, ManifestInv, Promises
  <2>2. [a \in db[ManName(k)].list |-> db'[ArtName(k, a)]]
           = [a \in db[ManName(k)].list |-> db[ArtName(k, a)]]
    BY <2>1
  <2> QED  BY <2>2 DEF ViewOf, ContainsUnit, Has
<1>2. CASE ~ContainsUnit(k)
  BY <1>2 DEF ViewOf, ContainsUnit, Has
<1> QED  BY <1>1, <1>2

\* finalize_unit of lmdb: a whole bundle of one build appears, or takes the
\* place of another.
LEMMA FinalizeView ==
    ASSUME RaceInv, Lmdb, NEW p \in Procs, Finalize(p)
    PROVE  UC!NextReplacing
<1>1. TypeInv /\ Collected(p) /\ listed[p] \subseteq Artifacts /\ build[p] \in Builds
  BY DEF RaceInv, TypeInv, TypeOK, ControlInv, Stores, Finalize
<1>2. /\ key[p] \in Keys
      /\ db'[ManName(key[p])] = [list |-> listed[p]]
      /\ db'[ManName(key[p])] # Absent
      /\ \A n \in ListedNames(p) : db'[n] = build[p]
      /\ \A n \in Names \ (ListedNames(p) \cup {ManName(key[p])}) : db'[n] = db[n]
  BY <1>1, FinalizeWrites
<1>3. PICK u \in Keys : u = key[p]
  BY <1>2
<1>4. \A k \in Keys \ {u} : ViewOf(k)' = ViewOf(k)
  <2> TAKE k \in Keys \ {u}
  <2>1. /\ ManName(k) \in Names \ (ListedNames(p) \cup {ManName(key[p])})
        /\ \A a \in Artifacts :
              ArtName(k, a) \in Names \ (ListedNames(p) \cup {ManName(key[p])})
    BY <1>3, NamesApart DEF ListedNames
  <2> QED  BY <1>2, <2>1, SameView
<1>5. \A a \in listed[p] : db'[ArtName(u, a)] = build[p]
  BY <1>2, <1>3 DEF ListedNames
<1>6. ViewOf(u)' = [a \in listed[p] |-> build[p]]
  BY <1>2, <1>3, <1>5 DEF ViewOf, ContainsUnit, Has
<1>7. BundleView' = [BundleView EXCEPT ![u] = UC!BundleFrom(listed[p], build[p])]
  BY <1>4, <1>6 DEF BundleView, UC!BundleFrom
<1>8. CASE BundleView[u] = NoBundle
  <2>1. UC!Publish(u)
    BY <1>1, <1>7, <1>8 DEF UC!Publish
  <2> QED  BY <2>1 DEF UC!NextReplacing, UC!Next
<1>9. CASE BundleView[u] # NoBundle
  <2>1. UC!Replace(u)
    BY <1>1, <1>7, <1>9 DEF UC!Replace
  <2> QED  BY <2>1 DEF UC!NextReplacing
<1> QED  BY <1>8, <1>9

LEMMA StepView ==
    RaceInv /\ [Next]_vars => [Lmdb => UC!NextReplacing]_BundleView
<1> SUFFICES ASSUME RaceInv, [Next]_vars, Lmdb
             PROVE  UC!NextReplacing \/ BundleView' = BundleView
  OBVIOUS
<1>1. TypeInv /\ late = {}
  BY DEF RaceInv, TypeInv
<1>2. ASSUME \A n \in ManNames \cup ArtNames : db'[n] = db[n]
      PROVE  BundleView' = BundleView
  <2>1. \A k \in Keys : ViewOf(k)' = ViewOf(k)
    BY <1>2, SameView DEF ManNames, ArtNames
  <2> QED  BY <2>1 DEF BundleView
<1>3. ASSUME NEW p \in Procs, PutInputs(p)
      PROVE  \A n \in ManNames \cup ArtNames : db'[n] = db[n]
  <2>1. \A n \in ManNames \cup ArtNames : n \in Names \ {DynName(Slot[key[p]])}
    BY NamesApart DEF ManNames, ArtNames, Names
  <2> QED  BY <1>1, <1>3, <2>1, PutInputsWrites
<1>4. ASSUME NEW p \in Procs, PutArtifact(p)
      PROVE  db' = db
  BY <1>4 DEF PutArtifact, Lmdb, Tikv
<1>5. CASE db' = db
  BY <1>2, <1>5
<1> QED
  BY <1>1, <1>2, <1>3, <1>4, <1>5, FinalizeView
     DEF Next, Step, Begin, Probe, ListArtifacts, RestoreArtifact, RestoreDone, Build,
         CheckStored, PeekInputs, SkipVanished, Crash, CrashWaiting, Lose, vars

LEMMA InitView == Init => UC!Init
<1> SUFFICES ASSUME Init
             PROVE  UC!Init
  OBVIOUS
<1>1. \A k \in Keys : ViewOf(k) = NoBundle
  BY NamesApart DEF Init, ViewOf, ContainsUnit, Has
<1> QED  BY <1>1 DEF UC!Init, BundleView

\* Racing processes replace a bundle of lmdb at most by another whole one, all of
\* whose files are from one build, in the one step of the transaction.
THEOREM WholeReplacement == Spec => ReplacedWhole
  BY InitView, StepView, RaceInvariant, PTL DEF Spec, ReplacedWhole
-----------------------------------------------------------------------------
(* Processes that take turns on a unit. *)

Active(p) == pc[p] # "idle"

\* At most one process, or one write of a process that is gone, is at a slot.
Turns ==
    /\ \A p, q \in Procs : p # q /\ Active(p) /\ Active(q) => Slot[key[p]] # Slot[key[q]]
    /\ \A p \in Procs, w \in late : Active(p) => SlotOf(w[1]) # Slot[key[p]]
    /\ \A v, w \in late : SlotOf(v[1]) = SlotOf(w[1]) => v = w

\* The files S of k are from one build.
OneBuild(k, S) == \E b \in Builds : \A a \in S : db[ArtName(k, a)] = b

\* p stores what nobody can see yet, and restores what nobody changes any more.
ProcInv(p) ==
    /\ pc[p] \in {"dyn", "dyn_put", "art", "finalize"} => ~ContainsUnit(key[p])
    /\ pc[p] \in {"list", "restore"} => ContainsUnit(key[p])
    /\ pc[p] = "restore" =>
          /\ left[p] \subseteq db[ManName(key[p])].list
          /\ \A g \in got[p] : \E a \in db[ManName(key[p])].list :
                g = <<a, db[ArtName(key[p], a)]>>
    /\ pc[p] # "restore" => got[p] = {}
    /\ Tikv => \A n \in ListedNames(p) : db[n] = build[p]
    /\ Lmdb /\ Storing(p) => db[DynName(Slot[key[p]])] = key[p]

\* Nor can anybody see what a late write belongs to.
LateInv(w) ==
    \A k \in Keys :
        /\ w[1] = ManName(k) => ~ContainsUnit(k) /\ OneBuild(k, w[2].list)
        /\ \A a \in Artifacts : w[1] = ArtName(k, a) => ~ContainsUnit(k)

KeyInv(k) == ContainsUnit(k) => OneBuild(k, db[ManName(k)].list)

TurnsInv ==
    /\ RaceInv /\ Turns
    /\ \A p \in Procs : ProcInv(p)
    /\ \A w \in late : LateInv(w)
    /\ \A k \in Keys : KeyInv(k)

LEMMA SlotOfNames ==
    /\ \A s : SlotOf(DynName(s)) = s
    /\ \A k : SlotOf(ManName(k)) = Slot[k]
    /\ \A k, a : SlotOf(ArtName(k, a)) = Slot[k]
  BY DEF SlotOf, DynName, ManName, ArtName

\* Only names in N are written, all of one slot, none of a bundle that can be seen.
WritesIn(N, s) ==
    /\ \A n \in Names \ N : db'[n] = db[n]
    /\ \A n \in N : SlotOf(n) = s
    /\ \A k \in Keys : ContainsUnit(k) =>
          ManName(k) \notin N /\ \A a \in Artifacts : ArtName(k, a) \notin N

Local(p) == <<pc[p], key[p], build[p], listed[p], left[p], got[p]>>

LEMMA LocalParts ==
    ASSUME NEW p, Local(p)' = Local(p)
    PROVE  /\ pc'[p] = pc[p] /\ key'[p] = key[p] /\ build'[p] = build[p]
           /\ listed'[p] = listed[p] /\ left'[p] = left[p] /\ got'[p] = got[p]
  BY DEF Local

\* What can be seen of a unit is not written any more.
LEMMA SeenIsKept ==
    ASSUME NEW N, NEW s, WritesIn(N, s), NEW k \in Keys,
           ContainsUnit(k) \/ ManName(k) \notin N
    PROVE  /\ db'[ManName(k)] = db[ManName(k)]
           /\ ContainsUnit(k)' = ContainsUnit(k)
           /\ ContainsUnit(k) => \A a \in Artifacts : db'[ArtName(k, a)] = db[ArtName(k, a)]
<1>1. ManName(k) \in Names \ N
  BY NamesApart DEF WritesIn
<1>2. ContainsUnit(k) => \A a \in Artifacts : ArtName(k, a) \in Names \ N
  BY NamesApart DEF WritesIn
<1> QED  BY <1>1, <1>2 DEF WritesIn, ContainsUnit, Has

LEMMA ListType ==
    ASSUME RaceInv, NEW k \in Keys, ContainsUnit(k)
    PROVE  db[ManName(k)].list \subseteq Artifacts
  BY DEF RaceInv, ManifestInv, Promises

LEMMA KeyInvKept ==
    ASSUME RaceInv, NEW N, NEW s, WritesIn(N, s), NEW k \in Keys, KeyInv(k),
           ContainsUnit(k) \/ ManName(k) \notin N
    PROVE  KeyInv(k)' /\ ViewOf(k)' = ViewOf(k)
<1>1. CASE ContainsUnit(k)
  <2>1. /\ db'[ManName(k)] = db[ManName(k)]
        /\ \A a \in Artifacts : db'[ArtName(k, a)] = db[ArtName(k, a)]
    BY <1>1, SeenIsKept
  <2>2. KeyInv(k)'
    <3>1. PICK b \in Builds : \A a \in db[ManName(k)].list : db[ArtName(k, a)] = b
      BY <1>1 DEF KeyInv, OneBuild
    <3>2. \A a \in db'[ManName(k)].list : db'[ArtName(k, a)] = b
      BY <1>1, <2>1, <3>1, ListType
    <3> QED  BY <3>2 DEF KeyInv, OneBuild
  <2>3. ViewOf(k)' = ViewOf(k)
    BY <2>1, SameView
  <2> QED  BY <2>2, <2>3
<1>2. CASE ~ContainsUnit(k)
  <2>1. ~ContainsUnit(k)'
    BY <1>2, SeenIsKept
  <2> QED  BY <1>2, <2>1 DEF KeyInv, ViewOf
<1> QED  BY <1>1, <1>2

LEMMA LateInvKept ==
    ASSUME RaceInv, NEW N, NEW s, WritesIn(N, s), NEW w \in late, LateInv(w),
           SlotOf(w[1]) # s
    PROVE  LateInv(w)'
<1> SUFFICES ASSUME NEW k \in Keys
             PROVE  /\ w[1] = ManName(k) => ~ContainsUnit(k)' /\ OneBuild(k, w[2].list)'
                    /\ \A a \in Artifacts : w[1] = ArtName(k, a) => ~ContainsUnit(k)'
  BY DEF LateInv
<1>1. ASSUME Slot[k] # s
      PROVE  /\ ContainsUnit(k)' = ContainsUnit(k)
             /\ \A a \in Artifacts : db'[ArtName(k, a)] = db[ArtName(k, a)]
  <2>1. ManName(k) \in Names \ N /\ \A a \in Artifacts : ArtName(k, a) \in Names \ N
    BY <1>1, SlotOfNames, NamesApart DEF WritesIn
  <2> QED  BY <2>1 DEF WritesIn, ContainsUnit, Has
<1>2. ASSUME w[1] = ManName(k)
      PROVE  ~ContainsUnit(k)' /\ OneBuild(k, w[2].list)'
  <2>1. Slot[k] # s
    BY <1>2, SlotOfNames
  <2>2. w[2].list \subseteq Artifacts
    BY <1>2 DEF RaceInv, ManifestInv, Promises
  <2>3. ~ContainsUnit(k) /\ OneBuild(k, w[2].list)
    BY <1>2 DEF LateInv
  <2>4. OneBuild(k, w[2].list)'
    BY <1>1, <2>1, <2>2, <2>3 DEF OneBuild
  <2> QED  BY <1>1, <2>1, <2>3, <2>4
<1>3. ASSUME NEW a \in Artifacts, w[1] = ArtName(k, a)
      PROVE  ~ContainsUnit(k)'
  <2>1. Slot[k] # s
    BY <1>3, SlotOfNames
  <2> QED  BY <1>1, <1>3, <2>1 DEF LateInv
<1> QED  BY <1>2, <1>3

\* Whoever is at another slot does not notice.
LEMMA ProcInvKept ==
    ASSUME RaceInv, NEW N, NEW s, WritesIn(N, s), backend' = backend,
           NEW q \in Procs, ProcInv(q), Local(q)' = Local(q),
           Active(q) => Slot[key[q]] # s
    PROVE  ProcInv(q)'
<1>1. /\ pc'[q] = pc[q] /\ key'[q] = key[q] /\ build'[q] = build[q]
      /\ listed'[q] = listed[q] /\ left'[q] = left[q] /\ got'[q] = got[q]
  BY LocalParts
<1>2. ListedNames(q)' = ListedNames(q)
  BY <1>1 DEF ListedNames
<1>3. CASE ~Active(q)
  <2>1. listed[q] = {} /\ ListedNames(q) = {}
    BY <1>3 DEF RaceInv, Collected, Storing, Active, ListedNames
  <2> QED  BY <1>1, <1>2, <1>3, <2>1 DEF ProcInv, Active, Storing
<1>4. CASE Active(q)
  <2>1. key[q] \in Keys /\ Slot[key[q]] # s /\ Slot[key[q]] \in Slots
    BY <1>4, KvAssumption DEF Active, RaceInv, ControlInv
  <2>2. PICK k \in Keys : k = key[q]
    BY <2>1
  <2>3. /\ DynName(Slot[k]) \in Names \ N /\ ManName(k) \in Names \ N
        /\ \A a \in Artifacts : ArtName(k, a) \in Names \ N
    BY <2>1, <2>2, SlotOfNames, NamesApart DEF WritesIn
  <2>4. /\ db'[DynName(Slot[k])] = db[DynName(Slot[k])]
        /\ db'[ManName(k)] = db[ManName(k)]
        /\ \A a \in Artifacts : db'[ArtName(k, a)] = db[ArtName(k, a)]
    BY <2>3 DEF WritesIn
  <2>5. ContainsUnit(k)' = ContainsUnit(k)
    BY <2>4 DEF ContainsUnit, Has
  <2>6. \A n \in ListedNames(q) : db'[n] = db[n]
    BY <2>2, <2>4 DEF ListedNames, RaceInv, TypeOK
  <2>7. ASSUME pc[q] = "restore"
        PROVE  /\ left[q] \subseteq db'[ManName(k)].list
               /\ \A g \in got[q] : \E a \in db'[ManName(k)].list :
                     g = <<a, db'[ArtName(k, a)]>>
    <3>1. db[ManName(k)].list \subseteq Artifacts
      BY <2>2, <2>7, ListType DEF ProcInv
    <3> QED  BY <2>2, <2>4, <2>7, <3>1 DEF ProcInv
  <2>8. /\ Tikv' = Tikv /\ Lmdb' = Lmdb /\ Storing(q)' = Storing(q)
    BY <1>1 DEF Tikv, Lmdb, Storing
  <2>9. /\ pc'[q] \in {"dyn", "dyn_put", "art", "finalize"} => ~ContainsUnit(k)'
        /\ pc'[q] \in {"list", "restore"} => ContainsUnit(k)'
    BY <1>1, <2>2, <2>5 DEF ProcInv
  <2>10. Tikv => \A n \in ListedNames(q)' : db'[n] = build'[q]
    BY <1>1, <1>2, <2>6 DEF ProcInv
  <2>11. Lmdb /\ Storing(q) => db'[DynName(Slot[k])] = k
    BY <2>2, <2>4 DEF ProcInv
  <2>12. pc'[q] # "restore" => got'[q] = {}
    BY <1>1 DEF ProcInv
  <2>13. /\ ContainsUnit(key[q])' = ContainsUnit(k)'
         /\ key'[q] = k
    BY <1>1, <2>2 DEF ContainsUnit, Has
  <2> QED  BY <1>1, <2>7, <2>8, <2>9, <2>10, <2>11, <2>12, <2>13 DEF ProcInv
<1> QED  BY <1>3, <1>4

\* A step of p, with what it has to show for itself.
LEMMA TurnStep ==
    ASSUME TurnsInv, NEW p \in Procs, Active(p), backend' = backend, late' = late,
           \A q \in Procs \ {p} : Local(q)' = Local(q),
           Active(p)' => key'[p] = key[p],
           NEW N, WritesIn(N, Slot[key[p]]),
           ProcInv(p)',
           \A k \in Keys : ManName(k) \in N => KeyInv(k)'
    PROVE  /\ Turns'
           /\ \A q \in Procs : ProcInv(q)'
           /\ \A w \in late' : LateInv(w)'
           /\ \A k \in Keys : KeyInv(k)'
<1>1. RaceInv /\ Turns
  BY DEF TurnsInv
<1>2. ASSUME NEW q \in Procs
      PROVE  Active(q)' => Active(q) /\ key'[q] = key[q]
  BY LocalParts DEF Active
<1>3. Turns'
  BY <1>1, <1>2 DEF Turns
<1>4. ASSUME NEW q \in Procs
      PROVE  ProcInv(q)'
  <2>1. CASE q = p
    BY <2>1
  <2>2. CASE q # p
    <3>1. Active(q) => Slot[key[q]] # Slot[key[p]]
      BY <1>1, <2>2 DEF Turns
    <3> QED  BY <1>1, <2>2, <3>1, ProcInvKept DEF TurnsInv
  <2> QED  BY <2>1, <2>2
<1>5. ASSUME NEW w \in late'
      PROVE  LateInv(w)'
  <2>1. w \in late /\ SlotOf(w[1]) # Slot[key[p]]
    BY <1>1 DEF Turns
  <2> QED  BY <1>1, <2>1, LateInvKept DEF TurnsInv
<1>6. ASSUME NEW k \in Keys
      PROVE  KeyInv(k)'
  <2>1. CASE ManName(k) \in N
    BY <2>1
  <2>2. CASE ManName(k) \notin N
    BY <1>1, <2>2, KeyInvKept DEF TurnsInv
  <2> QED  BY <2>1, <2>2
<1> QED  BY <1>3, <1>4, <1>5, <1>6

LEMMA WritesNothing ==
    ASSUME db' = db, NEW s
    PROVE  WritesIn({}, s)
  BY DEF WritesIn

\* A process that left its unit has nothing to show.
LEMMA LeaveProcInv ==
    ASSUME TypeInv, NEW p \in Procs, Leave(p)
    PROVE  ~Active(p)' /\ ProcInv(p)' /\ \A q \in Procs \ {p} : Local(q)' = Local(q)
<1>1. /\ pc'[p] = "idle" /\ listed'[p] = {} /\ got'[p] = {}
      /\ \A q \in Procs \ {p} :
            /\ pc'[q] = pc[q] /\ key'[q] = key[q] /\ build'[q] = build[q]
            /\ listed'[q] = listed[q] /\ left'[q] = left[q] /\ got'[q] = got[q]
  BY DEF Leave, Goto, TypeInv, TypeOK
<1>2. ListedNames(p)' = {}
  BY <1>1 DEF ListedNames
<1> QED  BY <1>1, <1>2 DEF ProcInv, Active, Storing, Local

\* The inductive step, without RaceInv.
TurnsNext ==
    /\ Turns'
    /\ \A q \in Procs : ProcInv(q)'
    /\ \A w \in late' : LateInv(w)'
    /\ \A k \in Keys : KeyInv(k)'

LEMMA LeaveTurns ==
    ASSUME TurnsInv, NEW p \in Procs, Active(p), Leave(p), backend' = backend,
           late' = late, db' = db
    PROVE  TurnsNext
<1>1. TypeInv
  BY DEF TurnsInv, RaceInv, TypeInv
<1>2. /\ ~Active(p)' /\ ProcInv(p)' /\ \A q \in Procs \ {p} : Local(q)' = Local(q)
  BY <1>1, LeaveProcInv
<1>3. WritesIn({}, Slot[key[p]])
  BY WritesNothing
<1> QED  BY <1>2, <1>3, TurnStep DEF TurnsNext

\* p goes to another program point, and nothing else changes that others see.
LEMMA MoveTurns ==
    ASSUME TurnsInv, NEW p \in Procs, Active(p), backend' = backend, late' = late,
           db' = db, \A q \in Procs \ {p} : Local(q)' = Local(q), key' = key, ProcInv(p)'
    PROVE  TurnsNext
<1>1. WritesIn({}, Slot[key[p]])
  BY WritesNothing
<1> QED  BY <1>1, TurnStep DEF TurnsNext

LEMMA BeginTurns ==
    ASSUME Exclusive, TurnsInv, NEW p \in Procs, NEW k \in Keys, Begin(p, k)
    PROVE  TurnsNext
<1>1. RaceInv /\ Turns /\ TypeOK
  BY DEF TurnsInv, RaceInv
<1>2. /\ pc[p] = "idle" /\ db' = db /\ late' = late /\ backend' = backend
      /\ key'[p] = k /\ pc'[p] \in {"probe", "build"}
      /\ listed' = listed /\ left' = left /\ got' = got /\ build' = build
      /\ \A q \in Procs \ {p} : pc'[q] = pc[q] /\ key'[q] = key[q]
  BY <1>1 DEF Begin, Goto, TypeOK
<1>3. \A q \in Procs \ {p} : Local(q)' = Local(q)
  BY <1>2 DEF Local
<1>4. /\ \A q \in Procs : pc[q] # "idle" => Slot[key[q]] # Slot[k]
      /\ \A w \in late : SlotOf(w[1]) # Slot[k]
  BY DEF Begin
<1>5. Turns'
  BY <1>1, <1>2, <1>4 DEF Turns, Active
<1>6. ProcInv(p)'
  <2>1. listed[p] = {} /\ got[p] = {}
    BY <1>1, <1>2 DEF RaceInv, Collected, Storing, TurnsInv, ProcInv
  <2>2. ListedNames(p)' = {}
    BY <1>2, <2>1 DEF ListedNames
  <2> QED  BY <1>2, <2>1, <2>2 DEF ProcInv, Storing
<1>7. \A w \in late' : LateInv(w)'
  BY <1>2 DEF TurnsInv, LateInv, ContainsUnit, Has, OneBuild
<1>8. \A j \in Keys : KeyInv(j)'
  BY <1>2 DEF TurnsInv, KeyInv, ContainsUnit, Has, OneBuild
<1>9. ASSUME NEW q \in Procs \ {p}
      PROVE  ProcInv(q)'
  <2>1. CASE Active(q)
    <3>1. WritesIn({}, Slot[k])
      BY <1>2, WritesNothing
    <3> QED  BY <1>1, <1>2, <1>3, <1>4, <2>1, <3>1, ProcInvKept DEF TurnsInv, Active
  <2>2. CASE ~Active(q)
    <3>1. WritesIn({}, Slot[k])
      BY <1>2, WritesNothing
    <3> QED  BY <1>1, <1>2, <1>3, <2>2, <3>1, ProcInvKept DEF TurnsInv
  <2> QED  BY <2>1, <2>2
<1> QED  BY <1>5, <1>6, <1>7, <1>8, <1>9 DEF TurnsNext

\* p goes on to a point at which nothing is listed or restored yet.
LEMMA QuietMove ==
    ASSUME TurnsInv, NEW p \in Procs, Active(p), ~Storing(p), pc[p] # "restore",
           NEW label, label \notin {"idle", "restore"}, pc' = [pc EXCEPT ![p] = label],
           backend' = backend, late' = late, db' = db,
           key' = key, listed' = listed, left' = left, got' = got,
           \A q \in Procs \ {p} : build'[q] = build[q],
           label \in {"dyn", "dyn_put", "art", "finalize"} => ~ContainsUnit(key[p]),
           label = "list" => ContainsUnit(key[p]),
           label \in {"art", "finalize"} => ~Lmdb
    PROVE  TurnsNext
<1>1. pc'[p] = label /\ \A q \in Procs \ {p} : pc'[q] = pc[q]
  BY DEF TurnsInv, RaceInv, TypeOK
<1>2. \A q \in Procs \ {p} : Local(q)' = Local(q)
  BY <1>1 DEF Local
<1>3. listed[p] = {} /\ got[p] = {}
  BY DEF TurnsInv, RaceInv, Collected, ProcInv
<1>4. ListedNames(p)' = {}
  BY <1>3 DEF ListedNames
<1>5. ContainsUnit(key[p])' = ContainsUnit(key[p])
  BY DEF ContainsUnit, Has
<1>6. ProcInv(p)'
  BY <1>1, <1>3, <1>4, <1>5 DEF ProcInv, Storing, Lmdb
<1> QED  BY <1>2, <1>6, MoveTurns

LEMMA LookupTurns ==
    ASSUME TurnsInv, NEW p \in Procs,
           Probe(p) \/ Build(p) \/ CheckStored(p) \/ PeekInputs(p)
    PROVE  TurnsNext
<1> USE DEF Goto, unit
<1>1. TypeOK
  BY DEF TurnsInv, RaceInv
<1>2. CASE Probe(p)
  BY <1>2, QuietMove DEF Probe, Active, Storing
<1>3. CASE Build(p)
  <2>1. \A q \in Procs \ {p} : build'[q] = build[q]
    BY <1>1, <1>3 DEF Build, TypeOK
  <2> QED  BY <1>3, <2>1, QuietMove DEF Build, Active, Storing
<1>4. CASE CheckStored(p)
  <2>1. CASE Leave(p)
    BY <1>4, <2>1, LeaveTurns DEF CheckStored, Active
  <2>2. CASE ~Leave(p)
    <3>1. \/ pc' = [pc EXCEPT ![p] = "touch"]
          \/ pc' = [pc EXCEPT ![p] = "dyn"] /\ ~ContainsUnit(key[p])
      BY <1>4, <2>2 DEF CheckStored
    <3>2. /\ pc[p] = "check" /\ UNCHANGED <<backend, db, late>>
          /\ UNCHANGED <<key, build, listed, left, got>>
      BY <1>4, <2>2 DEF CheckStored
    <3> QED  BY <3>1, <3>2, QuietMove DEF Active, Storing
  <2> QED  BY <2>1, <2>2
<1>5. CASE PeekInputs(p)
  <2>1. CASE Leave(p)
    BY <1>5, <2>1, LeaveTurns DEF PeekInputs, Active
  <2>2. CASE ~Leave(p)
    <3>1. \/ pc' = [pc EXCEPT ![p] = "touch_put"]
          \/ pc' = [pc EXCEPT ![p] = "dyn_put"] /\ pc[p] = "dyn"
          \/ pc' = [pc EXCEPT ![p] = "art"] /\ pc[p] = "dyn"
      BY <1>5, <2>2 DEF PeekInputs, InputsPut
    <3>2. /\ pc[p] \in {"touch", "dyn"} /\ Tikv /\ UNCHANGED <<backend, db, late>>
          /\ UNCHANGED <<key, build, listed, left, got>>
      BY <1>5, <2>2 DEF PeekInputs, InputsPut
    <3>3. pc[p] = "dyn" => ~ContainsUnit(key[p])
      BY DEF TurnsInv, ProcInv
    <3> QED  BY <3>1, <3>2, <3>3, QuietMove DEF Active, Storing, Lmdb, Tikv
  <2> QED  BY <2>1, <2>2
<1> QED  BY <1>2, <1>3, <1>4, <1>5

LEMMA RestoreTurns ==
    ASSUME TurnsInv, NEW p \in Procs, ListArtifacts(p) \/ RestoreArtifact(p)
    PROVE  TurnsNext
<1> USE DEF Goto
<1>1. TypeOK /\ ProcInv(p) /\ ~Storing(p)
  BY DEF TurnsInv, RaceInv, ListArtifacts, RestoreArtifact, Storing
<1>2. /\ pc[p] \in {"list", "restore"} /\ pc'[p] = "restore" /\ ContainsUnit(key[p])
      /\ UNCHANGED <<backend, db, late, key, build, listed>>
      /\ \A q \in Procs \ {p} : pc'[q] = pc[q] /\ left'[q] = left[q] /\ got'[q] = got[q]
  BY <1>1 DEF ListArtifacts, RestoreArtifact, ProcInv, TypeOK
<1>3. \A q \in Procs \ {p} : Local(q)' = Local(q)
  BY <1>2 DEF Local
<1>4. /\ left'[p] \subseteq db[ManName(key[p])].list
      /\ \A g \in got'[p] : \E a \in db[ManName(key[p])].list :
            g = <<a, db[ArtName(key[p], a)]>>
  <2>1. CASE ListArtifacts(p)
    BY <1>1, <1>2, <2>1 DEF ListArtifacts, Listed, ProcInv, TypeOK
  <2>2. CASE RestoreArtifact(p)
    <3>1. PICK a \in left[p] :
             /\ left' = [left EXCEPT ![p] = @ \ {a}]
             /\ got' = [got EXCEPT ![p] = @ \cup {<<a, db[ArtName(key[p], a)]>>}]
      BY <2>2 DEF RestoreArtifact
    <3>2. /\ left'[p] = left[p] \ {a}
          /\ got'[p] = got[p] \cup {<<a, db[ArtName(key[p], a)]>>}
      BY <1>1, <3>1 DEF TypeOK
    <3>3. /\ left[p] \subseteq db[ManName(key[p])].list
          /\ \A g \in got[p] : \E b \in db[ManName(key[p])].list :
                g = <<b, db[ArtName(key[p], b)]>>
      BY <1>1, <2>2 DEF ProcInv, RestoreArtifact
    <3> QED  BY <3>2, <3>3
  <2> QED  BY <2>1, <2>2
<1>5. listed[p] = {} /\ ListedNames(p)' = {}
  BY <1>1, <1>2 DEF TurnsInv, RaceInv, Collected, ListedNames
<1>6. ContainsUnit(key[p])'
  BY <1>2 DEF ContainsUnit, Has
<1>7. ProcInv(p)'
  BY <1>2, <1>4, <1>5, <1>6 DEF ProcInv, Storing
<1> QED  BY <1>2, <1>3, <1>7, MoveTurns DEF Active

LEMMA PutInputsTurns ==
    ASSUME TurnsInv, NEW p \in Procs, PutInputs(p)
    PROVE  TurnsNext
<1>1. TypeInv
  BY DEF TurnsInv, RaceInv, TypeInv
<1>2. /\ pc[p] \in {"touch", "touch_put", "dyn", "dyn_put"}
      /\ backend' = backend /\ late' = late
  BY DEF PutInputs, PuttingInputs
<1>3. key[p] \in Keys /\ Slot[key[p]] \in Slots
  BY <1>1, <1>2, KvAssumption DEF TypeInv, ControlInv
<1> DEFINE N == {DynName(Slot[key[p]])}
<1>4. db'[DynName(Slot[key[p]])] = key[p]
  <2>1. DynName(Slot[key[p]]) \in Names /\ key[p] \in Values
    BY <1>3, NamesApart, ValueKinds
  <2>2. /\ IsWrites(InputsWritten(p))
        /\ DOMAIN InputsWritten(p) = {DynName(Slot[key[p]])}
        /\ InputsWritten(p)[DynName(Slot[key[p]])] = key[p]
    BY <2>1, OneWrite DEF InputsWritten
  <2> QED  BY <1>1, <2>2, WritesLast DEF PutInputs, TypeInv, TypeOK
<1>5. WritesIn(N, Slot[key[p]])
  <2>1. \A n \in Names \ N : db'[n] = db[n]
    BY <1>1, PutInputsWrites
  <2> QED  BY <2>1, SlotOfNames, NamesApart DEF WritesIn
<1>6. \A k \in Keys : ManName(k) \notin N
  BY NamesApart
<1>7. CASE Leave(p)
  <2>1. ~Active(p)' /\ ProcInv(p)' /\ \A q \in Procs \ {p} : Local(q)' = Local(q)
    BY <1>1, <1>7, LeaveProcInv
  <2> HIDE DEF N
  <2> QED  BY <1>2, <1>5, <1>6, <2>1, TurnStep DEF TurnsNext, Active
<1>8. CASE ~Leave(p)
  <2>1. /\ pc[p] \in {"dyn", "dyn_put"} /\ pc' = [pc EXCEPT ![p] = "art"]
        /\ UNCHANGED <<key, build, listed, left, got>>
    BY <1>2, <1>8 DEF PutInputs, InputsPut, Goto, unit
  <2>2. pc'[p] = "art" /\ \A q \in Procs \ {p} : pc'[q] = pc[q]
    BY <1>1, <2>1 DEF TypeInv, TypeOK
  <2>3. \A q \in Procs \ {p} : Local(q)' = Local(q)
    BY <2>1, <2>2 DEF Local
  <2>4. listed[p] = {} /\ got[p] = {} /\ ~ContainsUnit(key[p])
    BY <2>1 DEF TurnsInv, RaceInv, Collected, Storing, ProcInv
  <2>5. ListedNames(p)' = {}
    BY <2>1, <2>4 DEF ListedNames
  <2>6. ~ContainsUnit(key[p])'
    <3>1. db'[ManName(key[p])] = db[ManName(key[p])]
      BY <1>3, <1>5, <1>6, NamesApart DEF WritesIn
    <3> QED  BY <2>1, <2>4, <3>1 DEF ContainsUnit, Has
  <2>7. ProcInv(p)'
    BY <1>4, <2>1, <2>2, <2>4, <2>5, <2>6 DEF ProcInv
  <2> HIDE DEF N
  <2> QED  BY <1>2, <1>5, <1>6, <2>1, <2>3, <2>7, TurnStep DEF TurnsNext, Active
<1> QED  BY <1>7, <1>8

\* The file at hand is stored, collected or skipped.
LEMMA ArtifactTurns ==
    ASSUME TurnsInv, NEW p \in Procs, PutArtifact(p) \/ SkipVanished(p)
    PROVE  TurnsNext
<1>1. TypeInv /\ ProcInv(p) /\ RaceInv
  BY DEF TurnsInv, RaceInv, TypeInv
<1>2. /\ pc[p] = "art" /\ backend' = backend /\ late' = late
      /\ NextArtifact(p, {Head(todo[p])}) \/ NextArtifact(p, {})
  BY DEF PutArtifact, SkipVanished
<1>3. /\ pc'[p] \in {"art", "finalize"}
      /\ UNCHANGED <<key, build, left, got>>
      /\ listed'[p] \in {listed[p], listed[p] \cup {Head(todo[p])}}
      /\ \A q \in Procs \ {p} : pc'[q] = pc[q] /\ listed'[q] = listed[q]
  BY <1>1, <1>2 DEF NextArtifact, Goto, TypeInv, TypeOK
<1>4. \A q \in Procs \ {p} : Local(q)' = Local(q)
  BY <1>3 DEF Local
<1>5. /\ key[p] \in Keys /\ build[p] \in Builds /\ Head(todo[p]) \in Artifacts
      /\ ~ContainsUnit(key[p]) /\ got[p] = {} /\ Storing(p)
  BY <1>1, <1>2, ArtifactWrittenType, HeadTodo DEF ProcInv, Storing
<1> DEFINE name == ArtName(key[p], Head(todo[p]))
<1>6. /\ \A n \in Names \ {name} : db'[n] = db[n]
      /\ \/ PutArtifact(p) /\ (Tikv => db'[name] = build[p])
         \/ SkipVanished(p) /\ db' = db
  <2>1. CASE PutArtifact(p) /\ Tikv
    <3>1. \A n \in Names \ {name} : db'[n] = db[n]
      BY <1>1, <2>1, PutArtifactWrites DEF Lmdb, Tikv
    <3>2. name \in Names /\ build[p] \in Values
      BY <1>5, NamesApart, ValueKinds
    <3>3. /\ IsWrites(ArtifactWritten(p)) /\ DOMAIN ArtifactWritten(p) = {name}
          /\ ArtifactWritten(p)[name] = build[p]
      BY <3>2, OneWrite DEF ArtifactWritten
    <3>4. db' = After(ArtifactWritten(p))
      BY <2>1 DEF PutArtifact, Lmdb, Tikv
    <3>5. db'[name] = build[p]
      BY <1>1, <3>3, <3>4, WritesLast DEF TypeInv, TypeOK
    <3> QED  BY <2>1, <3>1, <3>5
  <2>2. CASE PutArtifact(p) /\ ~Tikv
    BY <2>2 DEF PutArtifact
  <2>3. CASE SkipVanished(p)
    BY <2>3 DEF SkipVanished
  <2> QED  BY <2>1, <2>2, <2>3
<1>7. WritesIn({name}, Slot[key[p]])
  <2>1. SlotOf(name) = Slot[key[p]]
    BY SlotOfNames
  <2>2. \A k \in Keys : ContainsUnit(k) =>
           ManName(k) # name /\ \A a \in Artifacts : ArtName(k, a) # name
    BY <1>5, NamesApart
  <2> HIDE DEF name
  <2> QED  BY <1>6, <2>1, <2>2 DEF WritesIn
<1>8. \A k \in Keys : ManName(k) \notin {name}
  BY NamesApart
<1>9. ProcInv(p)'
  <2>1. ~ContainsUnit(key[p])'
    <3>1. db'[ManName(key[p])] = db[ManName(key[p])]
      BY <1>5, <1>6, NamesApart
    <3> QED  BY <1>3, <1>5, <3>1 DEF ContainsUnit, Has
  <2>2. ASSUME Tikv, NEW n \in ListedNames(p)'
        PROVE  db'[n] = build[p]
    <3>1. PICK a \in listed'[p] : n = ArtName(key[p], a)
      BY <1>3 DEF ListedNames
    <3>2. CASE n = name /\ (Tikv => db'[name] = build[p])
      BY <2>2, <3>2
    <3>3. CASE n # name
      <4>1. a \in listed[p] /\ listed[p] \subseteq Artifacts
        BY <1>1, <1>3, <3>1, <3>3 DEF TypeInv, TypeOK
      <4>2. db[n] = build[p] /\ n \in Names
        BY <1>1, <1>5, <2>2, <3>1, <4>1, NamesApart DEF ProcInv, ListedNames
      <4> QED  BY <1>6, <3>3, <4>2
    <3>4. CASE SkipVanished(p)
      <4>1. listed'[p] = listed[p] /\ db' = db
        BY <1>1, <3>4 DEF SkipVanished, NextArtifact, TypeInv, TypeOK
      <4> QED  BY <1>1, <2>2, <3>1, <4>1 DEF ProcInv, ListedNames
    <3> HIDE DEF name
    <3> QED  BY <1>6, <3>2, <3>3, <3>4
  <2>3. Lmdb => db'[DynName(Slot[key[p]])] = key[p]
    <3>1. Slot[key[p]] \in Slots
      BY <1>5, KvAssumption
    <3>2. db'[DynName(Slot[key[p]])] = db[DynName(Slot[key[p]])]
      BY <1>6, <3>1, NamesApart
    <3> QED  BY <1>1, <1>5, <3>2 DEF ProcInv
  <2>4. Tikv' = Tikv /\ Lmdb' = Lmdb
    BY <1>2 DEF Tikv, Lmdb
  <2> QED  BY <1>3, <1>5, <2>1, <2>2, <2>3, <2>4 DEF ProcInv
<1> HIDE DEF name
<1> QED  BY <1>2, <1>3, <1>4, <1>7, <1>8, <1>9, TurnStep DEF TurnsNext, Active

\* What finalize_unit writes belongs to a unit nobody can see before.
LEMMA FinalizeIn ==
    ASSUME TurnsInv, NEW p \in Procs, Finalize(p)
    PROVE  /\ key[p] \in Keys /\ ~ContainsUnit(key[p])
           /\ build[p] \in Builds /\ listed[p] \in SUBSET Artifacts
           /\ WritesIn(ListedNames(p) \cup {ManName(key[p])}, Slot[key[p]])
           /\ db'[ManName(key[p])] = [list |-> listed[p]]
           /\ db'[ManName(key[p])] # Absent
           /\ \A a \in listed[p] : db'[ArtName(key[p], a)] = build[p]
           /\ \A k \in Keys \ {key[p]} : ManName(k) \notin ListedNames(p) \cup {ManName(key[p])}
<1>1. TypeInv /\ Collected(p) /\ ProcInv(p) /\ pc[p] = "finalize"
  BY DEF TurnsInv, RaceInv, TypeInv, Finalize
<1>2. /\ key[p] \in Keys /\ build[p] \in Builds /\ listed[p] \in SUBSET Artifacts
      /\ ~ContainsUnit(key[p])
  BY <1>1 DEF TypeInv, TypeOK, ControlInv, Stores, ProcInv
<1>3. /\ db'[ManName(key[p])] = [list |-> listed[p]]
      /\ db'[ManName(key[p])] # Absent
      /\ \A n \in Names \ (ListedNames(p) \cup {ManName(key[p])}) : db'[n] = db[n]
  <2>1. Lmdb \/ Tikv
    BY <1>1, KvAssumption DEF Lmdb, Tikv, TypeInv, TypeOK
  <2> QED  BY <1>1, <2>1, FinalizeWrites
<1>4. ASSUME NEW a \in listed[p]
      PROVE  db'[ArtName(key[p], a)] = build[p]
  <2>1. ArtName(key[p], a) \in ListedNames(p)
    BY DEF ListedNames
  <2>2. CASE Lmdb
    BY <1>1, <2>1, <2>2, FinalizeWrites
  <2>3. CASE Tikv
    <3>1. ArtName(key[p], a) \in Names \ {ManName(key[p])}
      BY <1>2, NamesApart
    <3>2. db'[ArtName(key[p], a)] = db[ArtName(key[p], a)]
      BY <1>1, <2>3, <3>1, FinalizeWrites
    <3> QED  BY <1>1, <2>1, <2>3, <3>2 DEF ProcInv
  <2> QED  BY <1>1, <2>2, <2>3, KvAssumption DEF Lmdb, Tikv, TypeInv, TypeOK
<1>5. \A k \in Keys \ {key[p]} : ManName(k) \notin ListedNames(p) \cup {ManName(key[p])}
  BY NamesApart DEF ListedNames
<1>6. \A n \in ListedNames(p) \cup {ManName(key[p])} : SlotOf(n) = Slot[key[p]]
  BY SlotOfNames DEF ListedNames
<1>7. \A k \in Keys, a \in Artifacts :
         ContainsUnit(k) => ArtName(k, a) \notin ListedNames(p) \cup {ManName(key[p])}
  BY <1>2, NamesApart DEF ListedNames
<1>8. WritesIn(ListedNames(p) \cup {ManName(key[p])}, Slot[key[p]])
  BY <1>2, <1>3, <1>5, <1>6, <1>7 DEF WritesIn
<1> QED  BY <1>2, <1>3, <1>4, <1>5, <1>8

LEMMA FinalizeTurns ==
    ASSUME TurnsInv, NEW p \in Procs, Finalize(p)
    PROVE  TurnsNext
<1> DEFINE N == ListedNames(p) \cup {ManName(key[p])}
<1>1. TypeInv /\ Active(p) /\ Leave(p) /\ backend' = backend /\ late' = late
  BY DEF TurnsInv, RaceInv, TypeInv, Finalize, Active
<1>2. /\ ~Active(p)' /\ ProcInv(p)' /\ \A q \in Procs \ {p} : Local(q)' = Local(q)
  BY <1>1, LeaveProcInv
<1>3. WritesIn(N, Slot[key[p]])
  BY FinalizeIn
<1>4. ASSUME NEW k \in Keys, ManName(k) \in N
      PROVE  KeyInv(k)'
  <2>1. k = key[p] /\ build[p] \in Builds /\ db'[ManName(k)] = [list |-> listed[p]]
        /\ \A a \in listed[p] : db'[ArtName(k, a)] = build[p]
    BY <1>4, FinalizeIn
  <2>2. \A a \in db'[ManName(k)].list : db'[ArtName(k, a)] = build[p]
    BY <2>1
  <2> QED  BY <2>1, <2>2 DEF KeyInv, OneBuild
<1> HIDE DEF N
<1> QED  BY <1>1, <1>2, <1>3, <1>4, TurnStep DEF TurnsNext

\* A write that is under way belongs to the unit of the process that is gone.
LEMMA CrashWaitingTurns ==
    ASSUME TurnsInv, NEW p \in Procs, CrashWaiting(p)
    PROVE  TurnsNext
<1>1. TypeInv /\ ProcInv(p) /\ RaceInv /\ Turns
  BY DEF TurnsInv, RaceInv, TypeInv
<1>2. /\ Tikv /\ pc[p] \in {"touch_put", "dyn_put", "art", "finalize"} /\ Active(p)
      /\ late' = late \cup {UnderWay(p)} /\ Leave(p) /\ backend' = backend /\ db' = db
  BY DEF CrashWaiting, Active
<1>3. ~Active(p)' /\ ProcInv(p)' /\ \A q \in Procs \ {p} : Local(q)' = Local(q)
  BY <1>1, <1>2, LeaveProcInv
<1>4. WritesIn({}, Slot[key[p]])
  BY <1>2, WritesNothing
<1>5. SlotOf(UnderWay(p)[1]) = Slot[key[p]]
  BY <1>2, SlotOfNames DEF UnderWay
<1>6. ASSUME NEW q \in Procs, Active(q)'
      PROVE  q # p /\ Active(q) /\ key'[q] = key[q]
  BY <1>3, <1>6, LocalParts DEF Active
<1>7. Turns'
  BY <1>1, <1>2, <1>5, <1>6 DEF Turns
<1>8. \A q \in Procs : ProcInv(q)'
  <2> SUFFICES ASSUME NEW q \in Procs \ {p}
               PROVE  ProcInv(q)'
    BY <1>3
  <2>1. Active(q) => Slot[key[q]] # Slot[key[p]]
    BY <1>1, <1>2 DEF Turns
  <2> QED  BY <1>1, <1>2, <1>3, <1>4, <2>1, ProcInvKept DEF TurnsInv
<1>9. \A w \in late : LateInv(w)'
  BY <1>2 DEF TurnsInv, LateInv, ContainsUnit, Has, OneBuild
<1>10. LateInv(UnderWay(p))
  <2> SUFFICES ASSUME NEW k \in Keys
               PROVE  /\ UnderWay(p)[1] = ManName(k) =>
                            ~ContainsUnit(k) /\ OneBuild(k, UnderWay(p)[2].list)
                      /\ \A a \in Artifacts : UnderWay(p)[1] = ArtName(k, a) => ~ContainsUnit(k)
    BY DEF LateInv
  <2>1. CASE pc[p] \in {"touch_put", "dyn_put"}
    BY <2>1, NamesApart DEF UnderWay
  <2>2. CASE pc[p] = "art"
    BY <1>1, <2>2, NamesApart DEF UnderWay, ProcInv
  <2>3. CASE pc[p] = "finalize"
    <3>1. UnderWay(p) = <<ManName(key[p]), [list |-> listed[p]]>>
      BY <2>3 DEF UnderWay
    <3>2. ~ContainsUnit(key[p]) /\ build[p] \in Builds
      BY <1>1, <2>3 DEF ProcInv, TypeInv, ControlInv, Stores
    <3>3. \A a \in listed[p] : db[ArtName(key[p], a)] = build[p]
      BY <1>1, <1>2 DEF ProcInv, ListedNames
    <3>4. OneBuild(key[p], listed[p])
      BY <3>2, <3>3 DEF OneBuild
    <3> QED  BY <3>1, <3>2, <3>4, NamesApart
  <2> QED  BY <1>2, <2>1, <2>2, <2>3
<1>11. \A w \in late' : LateInv(w)'
  <2> SUFFICES ASSUME NEW w, w = UnderWay(p)
               PROVE  LateInv(w)'
    BY <1>2, <1>9
  <2>1. LateInv(w)
    BY <1>10
  <2> QED  BY <1>2, <2>1 DEF LateInv, ContainsUnit, Has, OneBuild
<1>12. \A k \in Keys : KeyInv(k)'
  BY <1>2 DEF TurnsInv, KeyInv, ContainsUnit, Has, OneBuild
<1> QED  BY <1>7, <1>8, <1>11, <1>12 DEF TurnsNext

\* A late write is that of a unit nobody can see, and all of its slot.
LEMMA ArriveTurns ==
    ASSUME TurnsInv, NEW w \in late, Arrive(w)
    PROVE  TurnsNext
<1>1. TypeInv /\ RaceInv /\ Turns /\ LateInv(w)
  BY DEF TurnsInv, RaceInv, TypeInv
<1>2. /\ w[1] \in Names /\ db'[w[1]] = w[2]
      /\ \A n \in Names \ {w[1]} : db'[n] = db[n]
  BY <1>1, ArriveWrites
<1>3. /\ late' = late \ {w} /\ backend' = backend
      /\ \A q \in Procs : Local(q)' = Local(q) /\ key'[q] = key[q]
  BY DEF Arrive, unit, Local
<1> DEFINE N == {w[1]}
<1>4. WritesIn(N, SlotOf(w[1]))
  BY <1>1, <1>2 DEF WritesIn, LateInv
<1>5. \A q \in Procs : Active(q)' = Active(q)
  BY <1>3, LocalParts DEF Active
<1>6. Turns'
  BY <1>1, <1>3, <1>5 DEF Turns
<1>7. ASSUME NEW q \in Procs
      PROVE  ProcInv(q)'
  <2>1. Active(q) => Slot[key[q]] # SlotOf(w[1])
    BY <1>1 DEF Turns
  <2> HIDE DEF N
  <2> QED  BY <1>1, <1>3, <1>4, <2>1, ProcInvKept DEF TurnsInv
<1>8. ASSUME NEW v \in late'
      PROVE  LateInv(v)'
  <2>1. v \in late /\ SlotOf(v[1]) # SlotOf(w[1])
    BY <1>1, <1>3, <1>8 DEF Turns
  <2> HIDE DEF N
  <2> QED  BY <1>1, <1>4, <2>1, LateInvKept DEF TurnsInv
<1>9. ASSUME NEW k \in Keys
      PROVE  KeyInv(k)'
  <2>1. CASE ManName(k) = w[1]
    <3>1. OneBuild(k, w[2].list)
      BY <1>1, <2>1 DEF LateInv
    <3>2. w[2].list \subseteq Artifacts
      BY <1>1, <2>1 DEF RaceInv, ManifestInv, Promises
    <3>3. \A a \in w[2].list : db'[ArtName(k, a)] = db[ArtName(k, a)]
      BY <1>2, <2>1, <3>2, NamesApart
    <3>4. OneBuild(k, w[2].list)'
      BY <3>1, <3>3 DEF OneBuild
    <3>5. db'[ManName(k)] = w[2]
      BY <1>2, <2>1
    <3> QED  BY <3>4, <3>5 DEF KeyInv, OneBuild
  <2>2. CASE ManName(k) # w[1]
    <3>1. ManName(k) \notin N
      BY <2>2
    <3> HIDE DEF N
    <3> QED  BY <1>1, <1>4, <3>1, KeyInvKept DEF TurnsInv
  <2> QED  BY <2>1, <2>2
<1> QED  BY <1>6, <1>7, <1>8, <1>9 DEF TurnsNext

LEMMA StillTurns ==
    ASSUME TurnsInv, UNCHANGED <<backend, db, pending, pc, unit>>, late' \subseteq late
    PROVE  TurnsNext
<1>2. Turns'
  BY DEF unit, TurnsInv, Turns, Active
<1>3. \A q \in Procs : ProcInv(q)'
  BY DEF unit, TurnsInv, ProcInv, ContainsUnit, Has, ListedNames, Storing, Tikv, Lmdb
<1>4. \A w \in late' : LateInv(w)'
  BY DEF TurnsInv, LateInv, ContainsUnit, Has, OneBuild
<1>5. \A k \in Keys : KeyInv(k)'
  BY DEF TurnsInv, KeyInv, ContainsUnit, Has, OneBuild
<1> QED  BY <1>2, <1>3, <1>4, <1>5 DEF TurnsNext

LEMMA StepTurns ==
    Exclusive /\ TurnsInv /\ [Next]_vars => TurnsInv'
<1> SUFFICES ASSUME Exclusive, TurnsInv, [Next]_vars
             PROVE  TurnsInv'
  OBVIOUS
<1>1. RaceInv'
  BY StepRaceInv DEF TurnsInv
<1>2. TurnsNext
  <2>1. ASSUME NEW p \in Procs, NEW k \in Keys, Begin(p, k)
        PROVE  TurnsNext
    BY <2>1, BeginTurns
  <2>2. ASSUME NEW p \in Procs, Probe(p) \/ Build(p) \/ CheckStored(p) \/ PeekInputs(p)
        PROVE  TurnsNext
    BY <2>2, LookupTurns
  <2>3. ASSUME NEW p \in Procs, ListArtifacts(p) \/ RestoreArtifact(p)
        PROVE  TurnsNext
    BY <2>3, RestoreTurns
  <2>4. ASSUME NEW p \in Procs, RestoreDone(p) \/ Crash(p)
        PROVE  TurnsNext
    <3>1. Active(p) /\ Leave(p) /\ backend' = backend /\ late' = late /\ db' = db
      BY <2>4 DEF RestoreDone, Crash, Active
    <3> QED  BY <3>1, LeaveTurns
  <2>5. ASSUME NEW p \in Procs, PutInputs(p)
        PROVE  TurnsNext
    BY <2>5, PutInputsTurns
  <2>6. ASSUME NEW p \in Procs, PutArtifact(p) \/ SkipVanished(p)
        PROVE  TurnsNext
    BY <2>6, ArtifactTurns
  <2>7. ASSUME NEW p \in Procs, Finalize(p)
        PROVE  TurnsNext
    BY <2>7, FinalizeTurns
  <2>8. ASSUME NEW p \in Procs, CrashWaiting(p)
        PROVE  TurnsNext
    BY <2>8, CrashWaitingTurns
  <2>9. ASSUME NEW w \in late, Arrive(w)
        PROVE  TurnsNext
    BY <2>9, ArriveTurns
  <2>10. ASSUME NEW w \in late, Lose(w)
         PROVE  TurnsNext
    BY <2>10, StillTurns DEF Lose
  <2>11. CASE UNCHANGED vars
    BY <2>11, StillTurns DEF vars
  <2> QED
    BY <2>1, <2>2, <2>3, <2>4, <2>5, <2>6, <2>7, <2>8, <2>9, <2>10, <2>11 DEF Next, Step
<1> QED  BY <1>1, <1>2 DEF TurnsInv, TurnsNext

LEMMA InitTurns == Init => TurnsInv
<1> SUFFICES ASSUME Init
             PROVE  TurnsInv
  OBVIOUS
<1>1. RaceInv
  BY InitRaceInv
<1>2. /\ late = {} /\ \A p \in Procs : pc[p] = "idle" /\ got[p] = {} /\ listed[p] = {}
      /\ \A k \in Keys : ~ContainsUnit(k)
  BY NamesApart DEF Init, ContainsUnit, Has
<1>3. Turns
  BY <1>2 DEF Turns, Active
<1>4. \A p \in Procs : ProcInv(p)
  BY <1>2 DEF ProcInv, ListedNames, Storing
<1>5. \A k \in Keys : KeyInv(k)
  BY <1>2 DEF KeyInv
<1> QED  BY <1>1, <1>2, <1>3, <1>4, <1>5 DEF TurnsInv

\* As long as processes take turns on a unit: what a process stores, or left
\* behind under way, belongs to a unit nobody can see yet and comes from its own
\* build; what it restores nobody writes any more.
THEOREM TurnsInvariant ==
    ASSUME Exclusive
    PROVE  Spec => []TurnsInv
<1>1. Init => TurnsInv
  BY InitTurns
<1>2. TurnsInv /\ [Next]_vars => TurnsInv'
  BY StepTurns
<1> QED  BY <1>1, <1>2, PTL DEF Spec
-----------------------------------------------------------------------------
(* What taking turns promises. *)

\* Nothing that can be seen is written, and no manifest.
LEMMA ViewKept ==
    ASSUME RaceInv, NEW N, \A n \in Names \ N : db'[n] = db[n],
           \A k \in Keys : ManName(k) \notin N,
           \A k \in Keys, a \in Artifacts : ContainsUnit(k) => ArtName(k, a) \notin N
    PROVE  BundleView' = BundleView
<1>1. ASSUME NEW k \in Keys
      PROVE  ViewOf(k)' = ViewOf(k)
  <2>1. db'[ManName(k)] = db[ManName(k)]
    BY NamesApart
  <2>2. CASE ContainsUnit(k)
    <3>1. \A a \in Artifacts : db'[ArtName(k, a)] = db[ArtName(k, a)]
      BY <2>2, NamesApart
    <3> QED  BY <2>1, <3>1, SameView
  <2>3. CASE ~ContainsUnit(k)
    BY <2>1, <2>3 DEF ViewOf, ContainsUnit, Has
  <2> QED  BY <2>2, <2>3
<1> QED  BY <1>1 DEF BundleView

\* The manifest of a unit nobody could see is written.
LEMMA PublishView ==
    ASSUME RaceInv, NEW k \in Keys, ~ContainsUnit(k), NEW S \in SUBSET Artifacts,
           NEW N, NEW s, WritesIn(N, s), \A j \in Keys \ {k} : ManName(j) \notin N,
           db'[ManName(k)] = [list |-> S], db'[ManName(k)] # Absent,
           OneBuild(k, S)', \A j \in Keys : KeyInv(j)
    PROVE  UC!Next
<1>1. PICK b \in Builds : \A a \in S : db'[ArtName(k, a)] = b
  BY DEF OneBuild
<1>2. ViewOf(k)' = [a \in S |-> b]
  BY <1>1 DEF ViewOf, ContainsUnit, Has
<1>3. \A j \in Keys \ {k} : ViewOf(j)' = ViewOf(j)
  BY KeyInvKept
<1>4. BundleView' = [BundleView EXCEPT ![k] = UC!BundleFrom(S, b)]
  BY <1>2, <1>3 DEF BundleView, UC!BundleFrom
<1>5. BundleView[k] = NoBundle
  BY DEF BundleView, ViewOf
<1>6. UC!Publish(k)
  BY <1>4, <1>5 DEF UC!Publish
<1> QED  BY <1>6 DEF UC!Next

LEMMA FinalizePublishes ==
    ASSUME TurnsInv, NEW p \in Procs, Finalize(p)
    PROVE  UC!Next
<1>1. PICK k \in Keys : k = key[p]
  BY FinalizeIn
<1>2. PICK S \in SUBSET Artifacts : S = listed[p]
  BY FinalizeIn
<1>3. OneBuild(k, S)'
  <2>1. PICK b \in Builds : b = build[p]
    BY FinalizeIn
  <2>2. \A a \in S : db'[ArtName(k, a)] = b
    BY <1>1, <1>2, <2>1, FinalizeIn
  <2> QED  BY <2>2 DEF OneBuild
<1>4. \A j \in Keys \ {k} : ManName(j) \notin ListedNames(p) \cup {ManName(key[p])}
  BY <1>1, FinalizeIn
<1>5. /\ db'[ManName(k)] = [list |-> S] /\ db'[ManName(k)] # Absent /\ ~ContainsUnit(k)
      /\ WritesIn(ListedNames(p) \cup {ManName(key[p])}, Slot[key[p]])
  BY <1>1, <1>2, FinalizeIn
<1> QED  BY <1>3, <1>4, <1>5, PublishView DEF TurnsInv

LEMMA ArriveView ==
    ASSUME TurnsInv, NEW w \in late, Arrive(w)
    PROVE  UC!Next \/ BundleView' = BundleView
<1>1. TypeInv /\ RaceInv /\ LateInv(w)
  BY DEF TurnsInv, RaceInv, TypeInv
<1>2. /\ w[1] \in Names /\ w[2] \in Values /\ db'[w[1]] = w[2]
      /\ \A n \in Names \ {w[1]} : db'[n] = db[n]
  BY <1>1, ArriveWrites
<1> DEFINE N == {w[1]}
<1>3. CASE \A k \in Keys : ManName(k) # w[1]
  <2>1. \A k \in Keys, a \in Artifacts : ContainsUnit(k) => ArtName(k, a) \notin N
    BY <1>1 DEF LateInv
  <2>2. \A k \in Keys : ManName(k) \notin N
    BY <1>3
  <2>3. \A n \in Names \ N : db'[n] = db[n]
    BY <1>2
  <2> HIDE DEF N
  <2> QED  BY <1>1, <2>1, <2>2, <2>3, ViewKept
<1>4. ASSUME NEW k \in Keys, ManName(k) = w[1]
      PROVE  UC!Next
  <2>1. w[2] \in [list : SUBSET Artifacts]
    BY <1>1, <1>4 DEF RaceInv, ManifestInv, Promises
  <2>2. PICK S \in SUBSET Artifacts : w[2] = [list |-> S]
    BY <2>1
  <2>3. ~ContainsUnit(k) /\ OneBuild(k, S)
    BY <1>1, <1>4, <2>2 DEF LateInv
  <2>4. WritesIn(N, Slot[k])
    BY <1>1, <1>2, <1>4, SlotOfNames DEF WritesIn, LateInv
  <2>5. \A j \in Keys \ {k} : ManName(j) \notin N
    BY <1>4, NamesApart
  <2>6. \A a \in S : db'[ArtName(k, a)] = db[ArtName(k, a)]
    BY <1>2, <1>4, NamesApart
  <2>7. OneBuild(k, S)'
    BY <2>3, <2>6 DEF OneBuild
  <2>8. db'[ManName(k)] = [list |-> S] /\ db'[ManName(k)] # Absent
    BY <1>2, <1>4, <2>2, KvAssumption
  <2> HIDE DEF N
  <2> QED  BY <1>1, <2>3, <2>4, <2>5, <2>7, <2>8, PublishView DEF TurnsInv
<1> QED  BY <1>3, <1>4

LEMMA TurnsView ==
    TurnsInv /\ [Next]_vars => [UC!Next]_BundleView
<1> SUFFICES ASSUME TurnsInv, [Next]_vars
             PROVE  UC!Next \/ BundleView' = BundleView
  OBVIOUS
<1>1. TypeInv /\ RaceInv
  BY DEF TurnsInv, RaceInv, TypeInv
<1>2. ASSUME db' = db
      PROVE  BundleView' = BundleView
  <2> DEFINE N == {}
  <2>1. /\ \A n \in Names \ N : db'[n] = db[n]
        /\ \A n : n \notin N
    BY <1>2
  <2> HIDE DEF N
  <2> QED  BY <1>1, <2>1, ViewKept
<1>3. ASSUME NEW p \in Procs, PutInputs(p)
      PROVE  BundleView' = BundleView
  <2> DEFINE N == {DynName(Slot[key[p]])}
  <2>1. \A n \in Names \ N : db'[n] = db[n]
    BY <1>1, <1>3, PutInputsWrites
  <2>2. /\ \A k \in Keys : ManName(k) \notin N
        /\ \A k \in Keys, a \in Artifacts : ArtName(k, a) \notin N
    BY NamesApart DEF DynName, ManName, ArtName
  <2> HIDE DEF N
  <2> QED  BY <1>1, <2>1, <2>2, ViewKept
<1>4. ASSUME NEW p \in Procs, PutArtifact(p), Tikv
      PROVE  BundleView' = BundleView
  <2> DEFINE N == {ArtName(key[p], Head(todo[p]))}
  <2>1. \A n \in Names \ N : db'[n] = db[n]
    BY <1>1, <1>4, PutArtifactWrites
  <2>2. ~ContainsUnit(key[p])
    BY <1>4 DEF TurnsInv, ProcInv, PutArtifact
  <2>3. /\ \A k \in Keys : ManName(k) \notin N
        /\ \A k \in Keys, a \in Artifacts : ContainsUnit(k) => ArtName(k, a) \notin N
    BY <2>2 DEF ManName, ArtName
  <2> HIDE DEF N
  <2> QED  BY <1>1, <2>1, <2>3, ViewKept
<1>5. ASSUME NEW p \in Procs, PutArtifact(p), ~Tikv
      PROVE  db' = db
  BY <1>5 DEF PutArtifact
<1> QED
  BY <1>2, <1>3, <1>4, <1>5, FinalizePublishes, ArriveView
     DEF Next, Step, Begin, Probe, ListArtifacts, RestoreArtifact, RestoreDone, Build,
         CheckStored, PeekInputs, SkipVanished, Crash, CrashWaiting, Lose, vars

\* With processes that take turns on a unit both backends implement the abstract
\* cache: finalize_unit, or the late arrival of its manifest, makes a bundle
\* visible whole, from one compilation, where there was none; no other step,
\* death or late write included, changes what can be seen.
THEOREM KvImplementsUnitCache ==
    ASSUME Exclusive
    PROVE  Spec => ImplementsUnitCache
<1>1. TurnsInv /\ [Next]_vars => [UC!Next]_BundleView
  BY TurnsView
<1> QED  BY <1>1, InitView, TurnsInvariant, PTL DEF Spec, ImplementsUnitCache, UC!Spec

\* restore_unit writes what one compilation left, and no file its manifest lists
\* is missing, although every file is a transaction or request of its own.
THEOREM RestoresFaithfully ==
    ASSUME Exclusive
    PROVE  Spec => []RestoreFaithful
<1>1. TurnsInv => RestoreFaithful
  <2> SUFFICES ASSUME TurnsInv, NEW p \in Procs, NEW g \in got[p], NEW h \in got[p]
               PROVE  g[2] # Absent /\ g[2] = h[2]
    BY DEF RestoreFaithful
  <2>1. /\ pc[p] = "restore" /\ ContainsUnit(key[p]) /\ key[p] \in Keys
        /\ \A f \in got[p] : \E a \in db[ManName(key[p])].list :
              f = <<a, db[ArtName(key[p], a)]>>
    BY DEF TurnsInv, ProcInv, RaceInv, ControlInv
  <2>2. PICK b \in Builds : \A a \in db[ManName(key[p])].list : db[ArtName(key[p], a)] = b
    BY <2>1 DEF TurnsInv, KeyInv, OneBuild
  <2>3. g[2] = b /\ h[2] = b
    BY <2>1, <2>2
  <2> QED  BY <2>3, ValueKinds, KvAssumption
<1> QED  BY <1>1, TurnsInvariant, PTL

\* While lmdb stores a unit the recorded snapshot leads to the very key the
\* manifest will be under, also when another content had been recorded before.
THEOREM SnapshotIsCurrent ==
    ASSUME Exclusive
    PROVE  Spec => []SnapshotCurrent
<1>1. TurnsInv => SnapshotCurrent
  BY DEF TurnsInv, ProcInv, Storing, SnapshotCurrent
<1> QED  BY <1>1, TurnsInvariant, PTL
=============================================================================
