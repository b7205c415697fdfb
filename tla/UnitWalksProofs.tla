---------------------------- MODULE UnitWalksProofs ----------------------------
(***************************************************************************)
(* Theorems about the walks over the unit graph, for every finite acyclic  *)
(* graph, all kinds of targets and every order of roots and dependencies:  *)
(* topo_order lists what it should, and generate ends with the modes that  *)
(* the graph alone determines.                                             *)
(***************************************************************************)
EXTENDS UnitWalks, FiniteSetTheorems, SequenceTheorems, WellFoundedInduction, TLAPS

-----------------------------------------------------------------------------
(* The inductive invariant. *)

Frames == [unit : Units, left : SUBSET Units]

\* Ranks that grow from a unit to its dependencies.
RanksOf(g) ==
    {rank \in [Units -> 1..Cardinality(Units)] :
        \A u \in Units : \A d \in g[u] : rank[u] < rank[d]}

Rank == CHOOSE rank \in RanksOf(deps) : TRUE

\* The walks go down the graph: no call is below itself.
StackInv ==
    /\ stack \in Seq(Frames)
    /\ \A i \in 1..Len(stack) :
          /\ stack[i].left \subseteq deps[stack[i].unit]
          /\ i <= Rank[stack[i].unit]
    /\ \A i, j \in 1..Len(stack) :
          i < j => Rank[stack[i].unit] < Rank[stack[j].unit]

GraphInv ==
    /\ deps \in Graphs
    /\ Sources(deps) \subseteq roots /\ roots \subseteq Units /\ todo \subseteq roots
    /\ class \in [Units -> Classes] /\ profile \in Profiles
    /\ walk \in {"topo", "lto", "done"}
    /\ lto \in [Units -> Modes \cup {NoMode}]
    /\ visited \subseteq Units /\ order \in Seq(Units)
    /\ walk # "topo" => order = <<>>
    /\ walk = "done" => stack = <<>> /\ todo = {}

Listed == {order[i] : i \in 1..Len(order)}
OnStack == {stack[i].unit : i \in 1..Len(stack)}

\* What visit has entered is listed or not left yet, and what has been done for
\* a unit not left yet is listed or being done.
TopoInv ==
    walk = "topo" =>
        /\ visited = Listed \cup OnStack
        /\ Listed \cap OnStack = {}
        /\ \A i \in 1..Len(stack) : \A d \in deps[stack[i].unit] \ stack[i].left :
              d \in Listed \/ (i < Len(stack) /\ d = stack[i + 1].unit)
        /\ roots \subseteq todo \cup visited
        /\ \A u \in Units : lto[u] = NoMode

Before(i) == {order[j] : j \in 1..i - 1}

OrderInv ==
    /\ \A i \in 1..Len(order) : deps[order[i]] \subseteq Before(i)
    /\ \A i, j \in 1..Len(order) : order[i] = order[j] => i = j

\* ModeUnder and RootMode, without the state.
ModeFor(c, p, parent) ==
    CASE c = "host" -> "OnlyObject"
      [] c = "bin"  -> (CASE p = "lto"   -> "Run"
                          [] p = "off"   -> "Off"
                          [] p = "false" -> "OnlyObject")
      [] c = "lib"  -> IF parent = "Run" THEN "OnlyBitcode" ELSE parent
      [] c \in {"dylib", "mixed"} ->
            IF parent \in {"Run", "OnlyBitcode"} THEN LtoWhenNeedsObject(c)
            ELSE parent

RootFor(c, p) ==
    CASE p = "false" -> "OnlyObject"
      [] p = "off"   -> "Off"
      [] OTHER -> IF c = "host" THEN "OnlyObject"
                  ELSE IF NeedsObject(c) THEN LtoWhenNeedsObject(c)
                  ELSE "OnlyBitcode"

For(u, parent) == ModeFor(class[u], profile, parent)
Root(u) == For(u, RootFor(class[u], profile))

\* Mode m has what mode l has.
Covers(m, l) == Merge(l, m) = m

\* The modes a target of kind c can have.
ModesOf(c, p) ==
    CASE c = "host" -> {"OnlyObject"}
      [] c = "bin"  -> {ModeFor("bin", p, "Run")}
      [] c = "lib"  -> Modes \ {"Run"}
      [] OTHER      -> Modes \ {"Run", "OnlyBitcode"}

Seen(u) == lto[u] # NoMode

\* What u asks of d is part of what d has, or calculate has yet to go there.
Asks(u, d) ==
    \/ Covers(lto[d], For(d, lto[u]))
    \/ \E i \in 1..Len(stack) : stack[i].unit = u /\ d \in stack[i].left

\* u has no more than its parents and generate ask for.
Justified(u) ==
    \A m \in Modes :
        (/\ \A p \in Units : Seen(p) /\ u \in deps[p] => Covers(m, For(u, lto[p]))
         /\ u \in roots => Covers(m, Root(u)))
        => Covers(m, lto[u])

LtoInv ==
    walk # "topo" =>
        /\ \A u \in Units : Seen(u) => lto[u] \in ModesOf(class[u], profile) /\ Justified(u)
        /\ \A i \in 1..Len(stack) : Seen(stack[i].unit)
        /\ \A u \in roots \ todo : Covers(lto[u], Root(u))
        /\ \A u \in Units : Seen(u) => \A d \in deps[u] : Asks(u, d)
-----------------------------------------------------------------------------
(* Lemmas about modes. *)

LEMMA ModeUnderIs ==
    ASSUME NEW u, NEW m
    PROVE  ModeUnder(u, m) = For(u, m)
  BY DEF ModeUnder, For, ModeFor

LEMMA RootModeIs ==
    ASSUME NEW u
    PROVE  RootMode(u) = RootFor(class[u], profile)
  BY DEF RootMode, RootFor

LEMMA MergeType ==
    ASSUME NEW a \in Modes, NEW b \in Modes \cup {NoMode}
    PROVE  Merge(a, b) \in Modes /\ Merge(a, b) # NoMode
  BY ModesAssumption DEF Merge, Modes

\* Merging is a join: what is merged is covered, what covers both covers it.
LEMMA MergeCovers ==
    ASSUME NEW a \in Modes, NEW b \in Modes \cup {NoMode}
    PROVE  /\ Covers(Merge(a, b), a)
           /\ b # NoMode => Covers(Merge(a, b), b)
           /\ \A m \in Modes : Covers(m, a) /\ (b # NoMode => Covers(m, b)) => Covers(m, Merge(a, b))
  BY ModesAssumption DEF Covers, Merge, Modes

LEMMA CoversOrder ==
    /\ \A a \in Modes : Covers(a, a)
    /\ \A a, b \in Modes : Covers(a, b) /\ Covers(b, a) => a = b
    /\ \A a, b, c \in Modes : Covers(a, b) /\ Covers(b, c) => Covers(a, c)
    /\ \A a \in Modes : ~Covers(NoMode, a)
  BY ModesAssumption DEF Covers, Merge, Modes

LEMMA ModeForType ==
    ASSUME NEW c \in Classes, NEW p \in Profiles, NEW m \in Modes
    PROVE  ModeFor(c, p, m) \in ModesOf(c, p)
  BY DEF ModeFor, ModesOf, Classes, Profiles, Modes, LtoWhenNeedsObject

LEMMA RootForType ==
    ASSUME NEW c \in Classes, NEW p \in Profiles
    PROVE  RootFor(c, p) \in Modes
  BY DEF RootFor, Classes, Profiles, Modes, LtoWhenNeedsObject

LEMMA ModesOfMerge ==
    ASSUME NEW c \in Classes, NEW p \in Profiles,
           NEW a \in ModesOf(c, p), NEW b \in ModesOf(c, p) \cup {NoMode}
    PROVE  Merge(a, b) \in ModesOf(c, p)
  BY ModesAssumption DEF Merge, ModesOf, ModeFor, Classes, Profiles, Modes

LEMMA ModesOfModes ==
    ASSUME NEW c \in Classes, NEW p \in Profiles
    PROVE  ModesOf(c, p) \subseteq Modes
  BY DEF ModesOf, ModeFor, Classes, Profiles, Modes

\* A unit that comes to have more asks for more of its dependencies; a binary,
\* whose mode is special, never comes to have more.
LEMMA ModeForGrows ==
    ASSUME NEW c \in Classes, NEW p \in Profiles,
           NEW a \in ModesOf(c, p), NEW b \in ModesOf(c, p), Covers(b, a),
           NEW d \in Classes
    PROVE  Covers(ModeFor(d, p, b), ModeFor(d, p, a))
<1>1. a = b \/ (a # "Run" /\ b # "Run")
  BY DEF ModesOf, ModeFor, Classes, Profiles, Modes
<1>2. a \in Modes /\ b \in Modes
  BY ModesOfModes
<1>3. CASE a = b
  BY <1>2, <1>3, ModeForType, ModesOfModes, CoversOrder
<1>4. CASE a # "Run" /\ b # "Run"
  BY <1>2, <1>4, ModesAssumption
     DEF Covers, Merge, ModeFor, Modes, Classes, Profiles, LtoWhenNeedsObject
<1> QED  BY <1>1, <1>3, <1>4
-----------------------------------------------------------------------------
(* Lemmas about the stack. *)

LEMMA RankIs ==
    ASSUME GraphInv
    PROVE  /\ Rank \in [Units -> 1..Cardinality(Units)]
           /\ \A u \in Units : \A d \in deps[u] : Rank[u] < Rank[d]
           /\ Cardinality(Units) \in Nat
           /\ deps \in [Units -> SUBSET Units]
<1>1. \E rank : rank \in RanksOf(deps)
  BY GraphsAssumption DEF GraphInv, RanksOf
<1>2. Rank \in RanksOf(deps)
  BY <1>1 DEF Rank
<1>3. Cardinality(Units) \in Nat
  BY GraphsAssumption, FS_CardinalityType
<1> QED  BY <1>2, <1>3, GraphsAssumption DEF RanksOf, GraphInv

LEMMA RankKept ==
    ASSUME deps' = deps
    PROVE  Rank' = Rank
  BY DEF Rank, RanksOf

LEMMA FrontIs ==
    ASSUME NEW S, NEW s \in Seq(S), s # <<>>
    PROVE  /\ SubSeq(s, 1, Len(s) - 1) \in Seq(S) /\ Len(s) \in Nat \ {0}
           /\ Len(SubSeq(s, 1, Len(s) - 1)) = Len(s) - 1
           /\ \A i \in 1..Len(s) - 1 : SubSeq(s, 1, Len(s) - 1)[i] = s[i]
<1>0. Len(s) \in Nat /\ Len(s) # 0
  BY EmptySeq, LenProperties
<1>1. PICK n \in 0..Len(s) : n = Len(s) - 1
  BY <1>0
<1>2. SubSeq(s, 1, n) \in Seq(S)
  BY SMT
<1>3. Len(SubSeq(s, 1, n)) = n
  BY SMT
<1>4. \A i \in 1..n : SubSeq(s, 1, n)[i] = s[i]
  BY SMT
<1>5. Len(s) - 1 = n /\ Len(s) \in Nat \ {0}
  BY <1>0, <1>1
<1> QED  BY <1>2, <1>3, <1>4, <1>5

\* Of the call at hand u is not to be looked at any more.
LEMMA WaitingIs ==
    ASSUME StackInv, NEW u \in Units, NextRoot(u) \/ NextDep(u)
    PROVE  /\ Waiting(u) \in Seq(Frames) /\ Len(Waiting(u)) = Len(stack)
           /\ \A i \in 1..Len(stack) :
                 /\ Waiting(u)[i].unit = stack[i].unit
                 /\ i < Len(stack) => Waiting(u)[i].left = stack[i].left
                 /\ i = Len(stack) => Waiting(u)[i].left = stack[i].left \ {u}
<1>1. CASE stack = <<>>
  BY <1>1 DEF Waiting
<1>2. CASE stack # <<>>
  <2>1. /\ stack \in Seq(Frames) /\ Len(stack) \in Nat \ {0}
        /\ Top \in Frames /\ Len(stack) - 1 \in 0..Len(stack)
    BY <1>2 DEF StackInv, Top
  <2>2. /\ Pop \in Seq(Frames) /\ Len(Pop) = Len(stack) - 1
        /\ \A i \in 1..Len(stack) - 1 : Pop[i] = stack[i]
    BY <1>2, FrontIs DEF Pop, StackInv
  <2>3. PICK f \in Frames : f = [Top EXCEPT !.left = @ \ {u}]
    BY <2>1 DEF Frames
  <2>4. f.unit = Top.unit /\ f.left = Top.left \ {u}
    BY <2>1, <2>3 DEF Frames
  <2>5. Waiting(u) = Append(Pop, f)
    BY <1>2, <2>3 DEF Waiting
  <2>6. /\ Append(Pop, f) \in Seq(Frames) /\ Len(Append(Pop, f)) = Len(Pop) + 1
        /\ \A i \in 1..Len(Pop) : Append(Pop, f)[i] = Pop[i]
        /\ Append(Pop, f)[Len(Pop) + 1] = f
    BY <2>2, AppendProperties
  <2> HIDE DEF Pop
  <2> QED  BY <2>1, <2>2, <2>4, <2>5, <2>6 DEF Top
<1> QED  BY <1>1, <1>2

LEMMA PushIs ==
    ASSUME GraphInv, StackInv, NEW u \in Units, NextRoot(u) \/ NextDep(u),
           NEW STATE S, S = Append(Waiting(u), Frame(u))
    PROVE  /\ S \in Seq(Frames) /\ Len(S) = Len(stack) + 1
           /\ \A i \in 1..Len(stack) : S[i] = Waiting(u)[i]
           /\ S[Len(stack) + 1].unit = u /\ S[Len(stack) + 1].left = deps[u]
<1>1. Waiting(u) \in Seq(Frames) /\ Len(Waiting(u)) = Len(stack)
  BY WaitingIs
<1>2. Frame(u) \in Frames /\ Frame(u).unit = u /\ Frame(u).left = deps[u]
  BY RankIs DEF Frame, Frames
<1> QED  BY <1>1, <1>2, AppendProperties

\* The unit that is entered is further down than all that wait for it.
LEMMA EnterDeeper ==
    ASSUME GraphInv, StackInv, NEW u \in Units, NextRoot(u) \/ NextDep(u)
    PROVE  /\ \A i \in 1..Len(stack) : Rank[stack[i].unit] < Rank[u]
           /\ Len(stack) + 1 <= Rank[u]
           /\ \A i \in 1..Len(stack) : stack[i].unit \in Units
           /\ u \notin OnStack
<1>1. /\ Rank \in [Units -> Nat] /\ \A v \in Units : Rank[v] >= 1
      /\ \A v \in Units : \A d \in deps[v] : Rank[v] < Rank[d]
  BY RankIs
<1>2. \A i \in 1..Len(stack) : stack[i].unit \in Units /\ Rank[stack[i].unit] \in Nat
  <2>1. \A i \in 1..Len(stack) : stack[i] \in Frames
    BY DEF StackInv
  <2> QED  BY <1>1, <2>1 DEF Frames
<1>3. CASE stack = <<>>
  BY <1>1, <1>3 DEF OnStack
<1>4. CASE stack # <<>>
  <2>1. Len(stack) \in 1..Len(stack) /\ Len(stack) \in Nat
    BY <1>4 DEF StackInv
  <2>2. u \in deps[stack[Len(stack)].unit]
    BY <1>4, <2>1 DEF NextRoot, NextDep, Top, StackInv
  <2>3. Rank[stack[Len(stack)].unit] < Rank[u]
    BY <1>1, <1>2, <2>1, <2>2
  <2>4. \A i \in 1..Len(stack) :
           i = Len(stack) \/ Rank[stack[i].unit] < Rank[stack[Len(stack)].unit]
    BY <2>1 DEF StackInv
  <2>5. Rank[u] \in Nat
    BY <1>1
  <2>6. \A i \in 1..Len(stack) : Rank[stack[i].unit] < Rank[u]
    BY <1>2, <2>1, <2>3, <2>4, <2>5
  <2>7. Len(stack) + 1 <= Rank[u]
    BY <1>2, <2>1, <2>3, <2>5 DEF StackInv
  <2> QED  BY <1>2, <2>5, <2>6, <2>7 DEF OnStack
<1> QED  BY <1>3, <1>4

LEMMA EnterStackInv ==
    ASSUME GraphInv, StackInv, NEW u \in Units, NextRoot(u) \/ NextDep(u),
           deps' = deps, stack' \in {Waiting(u), Append(Waiting(u), Frame(u))}
    PROVE  StackInv'
<1>1. Rank' = Rank
  BY RankKept
<1>2. /\ Waiting(u) \in Seq(Frames) /\ Len(Waiting(u)) = Len(stack) /\ Len(stack) \in Nat
      /\ \A i \in 1..Len(stack) :
            Waiting(u)[i].unit = stack[i].unit /\ Waiting(u)[i].left \subseteq stack[i].left
  BY WaitingIs DEF StackInv
<1>3. /\ \A i \in 1..Len(stack) :
            stack[i].left \subseteq deps[stack[i].unit] /\ i <= Rank[stack[i].unit]
      /\ \A i, j \in 1..Len(stack) : i < j => Rank[stack[i].unit] < Rank[stack[j].unit]
  BY DEF StackInv
<1>4. CASE stack' = Waiting(u)
  <2> DEFINE S == Waiting(u)
  <2>1. /\ \A i \in 1..Len(S) : S[i].left \subseteq deps[S[i].unit] /\ i <= Rank[S[i].unit]
        /\ \A i, j \in 1..Len(S) : i < j => Rank[S[i].unit] < Rank[S[j].unit]
    BY <1>2, <1>3
  <2> HIDE DEF S
  <2> QED  BY <1>1, <1>2, <1>4, <2>1 DEF StackInv, S
<1>5. CASE stack' = Append(Waiting(u), Frame(u))
  <2> DEFINE S == Append(Waiting(u), Frame(u))
  <2>2. /\ S \in Seq(Frames) /\ Len(S) = Len(stack) + 1
        /\ \A i \in 1..Len(stack) : S[i] = Waiting(u)[i]
        /\ S[Len(stack) + 1].unit = u /\ S[Len(stack) + 1].left = deps[u]
    BY PushIs
  <2> HIDE DEF S
  <2>3. /\ \A i \in 1..Len(stack) : Rank[stack[i].unit] < Rank[u]
        /\ Len(stack) + 1 <= Rank[u]
    BY EnterDeeper
  <2>4. \A i \in 1..Len(S) : S[i].left \subseteq deps[S[i].unit] /\ i <= Rank[S[i].unit]
    BY <1>2, <1>3, <2>2, <2>3
  <2>5. ASSUME NEW i \in 1..Len(S), NEW j \in 1..Len(S), i < j
        PROVE  Rank[S[i].unit] < Rank[S[j].unit]
    <3>1. i \in 1..Len(stack) /\ (j \in 1..Len(stack) \/ j = Len(stack) + 1)
      BY <1>2, <2>2, <2>5
    <3> QED  BY <1>2, <1>3, <2>2, <2>3, <2>5, <3>1
  <2> QED  BY <1>1, <1>5, <2>2, <2>4, <2>5 DEF StackInv, S
<1> QED  BY <1>4, <1>5

LEMMA PopIs ==
    ASSUME StackInv, stack # <<>>
    PROVE  /\ Pop \in Seq(Frames) /\ Len(Pop) = Len(stack) - 1
           /\ Len(stack) \in Nat \ {0} /\ Top.unit \in Units
           /\ \A i \in 1..Len(stack) - 1 : Pop[i] = stack[i]
<1>1. stack \in Seq(Frames) /\ Len(stack) \in Nat \ {0} /\ Len(stack) - 1 \in 0..Len(stack)
  BY DEF StackInv
<1>2. Top \in Frames
  BY <1>1 DEF Top
<1> QED  BY <1>1, <1>2, FrontIs DEF Pop, Frames, StackInv

LEMMA PopStackInv ==
    ASSUME GraphInv, StackInv, stack # <<>>, stack' = Pop, deps' = deps
    PROVE  StackInv'
<1>1. /\ Pop \in Seq(Frames) /\ Len(Pop) = Len(stack) - 1 /\ Len(stack) \in Nat \ {0}
      /\ \A i \in 1..Len(stack) - 1 : Pop[i] = stack[i]
  BY PopIs
<1>2. \A i \in 1..Len(Pop) : i \in 1..Len(stack) /\ Pop[i] = stack[i]
  BY <1>1
<1>3. Rank' = Rank
  BY RankKept
<1> HIDE DEF Pop
<1> QED  BY <1>1, <1>2, <1>3 DEF StackInv
-----------------------------------------------------------------------------
(* topo_order *)

\* What was entered before is passed over.
LEMMA VisitAgain ==
    ASSUME GraphInv, StackInv, TopoInv, NEW u \in Units, walk = "topo",
           NextRoot(u) \/ NextDep(u), u \in visited, stack' = Waiting(u),
           UNCHANGED <<deps, roots, walk, visited, order, lto>>
    PROVE  TopoInv'
<1>1. /\ Len(stack') = Len(stack)
      /\ \A i \in 1..Len(stack) :
            /\ stack'[i].unit = stack[i].unit
            /\ i < Len(stack) => stack'[i].left = stack[i].left
            /\ i = Len(stack) => stack'[i].left = stack[i].left \ {u}
  BY WaitingIs
<1>2. Listed' = Listed /\ OnStack' = OnStack
  BY <1>1 DEF Listed, OnStack
<1>3. u \in Listed
  <2>1. u \notin OnStack
    BY EnterDeeper
  <2> QED  BY <2>1 DEF TopoInv
<1>4. roots \subseteq todo' \cup visited
  BY DEF TopoInv, NextRoot, NextDep
<1>5. ASSUME NEW i \in 1..Len(stack'), NEW d \in deps[stack'[i].unit] \ stack'[i].left
      PROVE  d \in Listed \/ (i < Len(stack') /\ d = stack'[i + 1].unit)
  <2>1. CASE i = Len(stack)
    <3>1. d \in Listed \/ d = u
      BY <1>1, <1>5, <2>1 DEF TopoInv
    <3> QED  BY <1>3, <3>1
  <2>2. CASE i # Len(stack)
    <3>1. i \in 1..Len(stack) /\ i < Len(stack) /\ i + 1 \in 1..Len(stack)
      BY <1>1, <1>5, <2>2 DEF StackInv
    <3>2. d \in deps[stack[i].unit] \ stack[i].left
      BY <1>1, <1>5, <3>1
    <3>3. d \in Listed \/ d = stack[i + 1].unit
      BY <3>1, <3>2 DEF TopoInv
    <3> QED  BY <1>1, <3>1, <3>3
  <2> QED  BY <2>1, <2>2
<1> QED  BY <1>2, <1>4, <1>5 DEF TopoInv

LEMMA VisitNew ==
    ASSUME GraphInv, StackInv, TopoInv, NEW u \in Units, walk = "topo",
           NextRoot(u) \/ NextDep(u), u \notin visited, visited' = visited \cup {u},
           stack' = Append(Waiting(u), Frame(u)),
           UNCHANGED <<deps, roots, walk, order, lto>>
    PROVE  TopoInv'
<1>1. /\ Len(stack') = Len(stack) + 1 /\ Len(stack) \in Nat
      /\ \A i \in 1..Len(stack) :
            /\ stack'[i].unit = stack[i].unit
            /\ i < Len(stack) => stack'[i].left = stack[i].left
            /\ i = Len(stack) => stack'[i].left = stack[i].left \ {u}
      /\ stack'[Len(stack) + 1].unit = u /\ stack'[Len(stack) + 1].left = deps[u]
  BY WaitingIs, PushIs DEF StackInv
<1>2. Listed' = Listed
  BY DEF Listed
<1>3. OnStack' = OnStack \cup {u}
  <2>1. \A v : v \in OnStack' <=> \E i \in 1..Len(stack') : v = stack'[i].unit
    BY DEF OnStack
  <2>2. \A i : i \in 1..Len(stack') <=> i \in 1..Len(stack) \/ i = Len(stack) + 1
    BY <1>1
  <2>3. \A v : v \in OnStack <=> \E i \in 1..Len(stack) : v = stack[i].unit
    BY DEF OnStack
  <2> QED  BY <1>1, <2>1, <2>2, <2>3
<1>4. roots \subseteq todo' \cup visited'
  BY DEF TopoInv, NextRoot, NextDep
<1>5. ASSUME NEW i \in 1..Len(stack'), NEW d \in deps[stack'[i].unit] \ stack'[i].left
      PROVE  d \in Listed \/ (i < Len(stack') /\ d = stack'[i + 1].unit)
  <2>1. CASE i = Len(stack) + 1
    BY <1>1, <1>5, <2>1
  <2>2. CASE i = Len(stack)
    <3>1. d \in deps[stack[i].unit] /\ (d \notin stack[i].left \/ d = u)
      BY <1>1, <1>5, <2>2
    <3>2. d \in Listed \/ d = u
      BY <1>1, <1>5, <2>2, <3>1 DEF TopoInv
    <3> QED  BY <1>1, <2>2, <3>2
  <2>3. CASE i # Len(stack) /\ i # Len(stack) + 1
    <3>1. i \in 1..Len(stack) /\ i < Len(stack) /\ i + 1 \in 1..Len(stack)
      BY <1>1, <1>5, <2>3
    <3>2. d \in deps[stack[i].unit] \ stack[i].left
      BY <1>1, <1>5, <3>1
    <3>3. d \in Listed \/ d = stack[i + 1].unit
      BY <3>1, <3>2 DEF TopoInv
    <3> QED  BY <1>1, <3>1, <3>3
  <2> QED  BY <2>1, <2>2, <2>3
<1>6. u \notin Listed
  BY DEF TopoInv
<1> QED  BY <1>2, <1>3, <1>4, <1>5, <1>6 DEF TopoInv

\* A unit is listed when everything it needs is.
LEMMA LeaveTopo ==
    ASSUME GraphInv, StackInv, TopoInv, OrderInv, Leave
    PROVE  TopoInv' /\ OrderInv' /\ order' \in Seq(Units)
<1> DEFINE n == Len(stack)
<1> DEFINE u == stack[n].unit
<1>1. /\ walk = "topo" /\ stack # <<>> /\ stack[n].left = {} /\ Top.unit = u
      /\ order' = Append(order, u) /\ stack' = Pop
      /\ UNCHANGED <<deps, roots, walk, todo, visited, lto>>
  BY DEF Leave, Top, graph
<1>2. /\ Len(stack') = n - 1 /\ n \in Nat \ {0} /\ u \in Units
      /\ \A i \in 1..n - 1 : stack'[i] = stack[i]
  BY <1>1, PopIs
<1>3. order \in Seq(Units)
  BY DEF GraphInv
<1>4. /\ order' \in Seq(Units) /\ Len(order') = Len(order) + 1 /\ Len(order) \in Nat
      /\ \A i \in 1..Len(order) : order'[i] = order[i]
      /\ order'[Len(order) + 1] = u
  BY <1>1, <1>2, <1>3, AppendProperties
<1>5. Listed' = Listed \cup {u}
  <2>1. \A v : v \in Listed' <=> \E i \in 1..Len(order') : v = order'[i]
    BY DEF Listed
  <2>2. \A i : i \in 1..Len(order') <=> i \in 1..Len(order) \/ i = Len(order) + 1
    BY <1>4
  <2>3. \A v : v \in Listed <=> \E i \in 1..Len(order) : v = order[i]
    BY DEF Listed
  <2> HIDE DEF u
  <2> QED  BY <1>4, <2>1, <2>2, <2>3
<1>6. OnStack = OnStack' \cup {u} /\ u \notin OnStack'
  <2>1. \A v : v \in OnStack' <=> \E i \in 1..n - 1 : v = stack[i].unit
    BY <1>2 DEF OnStack
  <2>2. \A i : i \in 1..n <=> i \in 1..n - 1 \/ i = n
    BY <1>2
  <2>3. \A v : v \in OnStack <=> \E i \in 1..n : v = stack[i].unit
    BY DEF OnStack
  <2>4. \A i \in 1..n - 1 : stack[i].unit # u
    <3>1. \A i \in 1..n - 1 : Rank[stack[i].unit] < Rank[stack[n].unit]
      BY <1>2 DEF StackInv
    <3>2. \A i \in 1..n : stack[i].unit \in Units
      <4>1. \A i \in 1..n : stack[i] \in Frames
        BY DEF StackInv
      <4> QED  BY <4>1 DEF Frames
    <3>3. Rank \in [Units -> Nat]
      BY RankIs
    <3> QED  BY <1>2, <3>1, <3>2, <3>3
  <2> QED  BY <2>1, <2>2, <2>3, <2>4
<1>7. deps[u] \subseteq Listed
  <2>1. \A d \in deps[u] : d \in deps[stack[n].unit] \ stack[n].left
    BY <1>1
  <2> QED  BY <1>1, <1>2, <2>1 DEF TopoInv
<1>8. u \notin Listed /\ u \in visited
  BY <1>1, <1>6 DEF TopoInv
<1>9. TopoInv'
  <2>1. visited' = Listed' \cup OnStack' /\ Listed' \cap OnStack' = {}
    BY <1>1, <1>5, <1>6 DEF TopoInv
  <2>2. ASSUME NEW i \in 1..Len(stack'), NEW d \in deps[stack'[i].unit] \ stack'[i].left
        PROVE  d \in Listed' \/ (i < Len(stack') /\ d = stack'[i + 1].unit)
    <3>1. i \in 1..n - 1 /\ i \in 1..n /\ i < n /\ stack'[i] = stack[i]
      BY <1>2
    <3>2. d \in Listed \/ d = stack[i + 1].unit
      BY <1>1, <2>2, <3>1 DEF TopoInv
    <3>3. CASE i + 1 = n
      BY <1>5, <3>2, <3>3
    <3>4. CASE i + 1 # n
      <4>1. i < Len(stack') /\ i + 1 \in 1..n - 1
        BY <1>2, <3>1, <3>4
      <4> QED  BY <1>2, <1>5, <3>2, <4>1
    <3> QED  BY <3>3, <3>4
  <2>3. roots' \subseteq todo' \cup visited' /\ \A v \in Units : lto'[v] = NoMode
    BY <1>1 DEF TopoInv
  <2> QED  BY <1>1, <2>1, <2>2, <2>3 DEF TopoInv
<1>10. OrderInv'
  <2>1. ASSUME NEW i \in 1..Len(order')
        PROVE  deps[order'[i]] \subseteq Before(i)'
    <3>1. CASE i \in 1..Len(order)
      <4>1. Before(i)' = Before(i)
        <5>1. \A j \in 1..i - 1 : order'[j] = order[j]
          BY <1>4, <3>1
        <5> QED  BY <5>1 DEF Before
      <4> QED  BY <1>4, <3>1, <4>1 DEF OrderInv
    <3>2. CASE i = Len(order) + 1
      <4>1. Before(i)' = Listed
        <5>1. \A j \in 1..i - 1 : order'[j] = order[j]
          BY <1>4, <3>2
        <5>2. i - 1 = Len(order)
          BY <1>4, <3>2
        <5> QED  BY <5>1, <5>2 DEF Before, Listed
      <4> QED  BY <1>4, <1>7, <3>2, <4>1
    <3> QED  BY <1>4, <2>1, <3>1, <3>2
  <2>2. ASSUME NEW i \in 1..Len(order'), NEW j \in 1..Len(order'), order'[i] = order'[j]
        PROVE  i = j
    <3>1. \A k \in 1..Len(order) : order'[k] # u
      BY <1>4, <1>8 DEF Listed
    <3>2. \A k \in 1..Len(order') : k \in 1..Len(order) \/ k = Len(order) + 1
      BY <1>4
    <3>3. \A k, l \in 1..Len(order) : order'[k] = order'[l] => k = l
      BY <1>4 DEF OrderInv
    <3> HIDE DEF u
    <3> QED  BY <1>4, <2>2, <3>1, <3>2, <3>3
  <2> QED  BY <1>1, <2>1, <2>2 DEF OrderInv
<1> QED  BY <1>4, <1>9, <1>10
-----------------------------------------------------------------------------
(* Induction over the graph, from the units nothing depends on. *)

LEMMA LeastNumber ==
    ASSUME NEW T \in SUBSET Nat, T # {}
    PROVE  \E n \in T : \A m \in T : ~(m < n)
<1>1. PICK n \in T : \A m \in T : ~(<<m, n>> \in OpToRel(<, Nat))
  BY NatLessThanWellFounded, WFMin
<1> QED  BY <1>1 DEF OpToRel

LEMMA DownTheGraph ==
    ASSUME GraphInv, NEW T \in SUBSET Units,
           \A u \in Units : (\A p \in Units : u \in deps[p] => p \in T) => u \in T
    PROVE  T = Units
<1> SUFFICES ASSUME Units \ T # {}
             PROVE  FALSE
  OBVIOUS
<1> DEFINE N == {Rank[u] : u \in Units \ T}
<1>1. /\ \A u \in Units : Rank[u] \in Nat
      /\ \A u \in Units : \A d \in deps[u] : Rank[u] < Rank[d]
  BY RankIs
<1>2. N \in SUBSET Nat /\ N # {}
  BY <1>1
<1>3. PICK n \in N : \A m \in N : ~(m < n)
  BY <1>2, LeastNumber
<1>4. PICK u \in Units \ T : n = Rank[u]
  BY <1>3
<1>5. \A p \in Units : u \in deps[p] => p \in T
  BY <1>1, <1>3, <1>4
<1> QED  BY <1>4, <1>5

\* The roots lead everywhere.
LEMMA RootsReachAll ==
    ASSUME GraphInv, NEW T \in SUBSET Units, roots \subseteq T,
           \A u \in T : deps[u] \subseteq T
    PROVE  T = Units
<1>1. ASSUME NEW u \in Units, \A p \in Units : u \in deps[p] => p \in T
      PROVE  u \in T
  <2>1. CASE \E p \in Units : u \in deps[p]
    BY <1>1, <2>1
  <2>2. CASE ~\E p \in Units : u \in deps[p]
    <3>1. u \in Sources(deps)
      BY <2>2 DEF Sources
    <3> QED  BY <3>1 DEF GraphInv
  <2> QED  BY <2>1, <2>2
<1> QED  BY <1>1, DownTheGraph

LEMMA TopoImplies ==
    ASSUME GraphInv, StackInv, TopoInv, OrderInv
    PROVE  TopoOrder
<1>1. order \in Seq(Units) /\ \A i \in 1..Len(order) : order[i] \in Units
  BY DEF GraphInv
<1>2. ASSUME NEW i \in 1..Len(order), NEW d \in deps[order[i]]
      PROVE  \E j \in 1..i - 1 : order[j] = d
  BY <1>2 DEF OrderInv, Before
<1>3. ASSUME walk = "topo", stack = <<>>, todo = {}
      PROVE  \A u \in Units : \E i \in 1..Len(order) : order[i] = u
  <2>1. Listed \in SUBSET Units
    BY <1>1 DEF Listed
  <2>2. roots \subseteq Listed
    <3>1. OnStack = {}
      BY <1>3 DEF OnStack
    <3> QED  BY <1>3, <3>1 DEF TopoInv
  <2>3. ASSUME NEW u \in Listed
        PROVE  deps[u] \subseteq Listed
    <3>1. PICK i \in 1..Len(order) : order[i] = u
      BY DEF Listed
    <3>2. Before(i) \subseteq Listed
      BY <1>1 DEF Before, Listed
    <3> QED  BY <3>1, <3>2 DEF OrderInv
  <2>4. Listed = Units
    BY <2>1, <2>2, <2>3, RootsReachAll
  <2> QED  BY <2>4 DEF Listed
<1> QED  BY <1>2, <1>3 DEF TopoOrder, OrderInv
-----------------------------------------------------------------------------
(* generate *)

\* What is asked of u has the kind u can have, and so has what u gets.
LEMMA AskedType ==
    ASSUME GraphInv, StackInv, LtoInv, NEW u \in Units, NextRoot(u) \/ NextDep(u),
           walk = "lto"
    PROVE  /\ Asked(u) \in Modes
           /\ ModeUnder(u, Asked(u)) \in ModesOf(class[u], profile)
           /\ stack = <<>> => u \in roots /\ ModeUnder(u, Asked(u)) = Root(u)
           /\ stack # <<>> => /\ Top.unit \in Units /\ u \in deps[Top.unit] /\ Seen(Top.unit)
                              /\ ModeUnder(u, Asked(u)) = For(u, lto[Top.unit])
                              /\ Top = stack[Len(stack)] /\ Len(stack) \in 1..Len(stack)
<1>1. class[u] \in Classes /\ profile \in Profiles
  BY DEF GraphInv
<1>2. CASE stack = <<>>
  <2>1. Asked(u) = RootFor(class[u], profile) /\ u \in roots
    BY <1>2, RootModeIs DEF Asked, NextRoot, NextDep, GraphInv
  <2>2. Asked(u) \in Modes
    BY <1>1, <2>1, RootForType
  <2>3. ModeUnder(u, Asked(u)) = Root(u)
    BY <2>1, ModeUnderIs DEF Root
  <2>4. Root(u) \in ModesOf(class[u], profile)
    BY <1>1, <2>1, <2>2, ModeForType DEF Root, For
  <2> QED  BY <1>2, <2>1, <2>2, <2>3, <2>4
<1>3. CASE stack # <<>>
  <2>1. Top = stack[Len(stack)] /\ Len(stack) \in 1..Len(stack) /\ Top.unit \in Units
    BY <1>3, PopIs DEF Top
  <2>2. u \in deps[Top.unit]
    BY <1>3, <2>1 DEF NextRoot, NextDep, StackInv
  <2>3. Asked(u) = lto[Top.unit] /\ Seen(Top.unit)
    BY <1>3, <2>1 DEF Asked, LtoInv
  <2>4. Asked(u) \in Modes
    BY <2>1, <2>3 DEF GraphInv, Seen
  <2>5. ModeUnder(u, Asked(u)) = For(u, Asked(u))
    BY ModeUnderIs
  <2>6. For(u, Asked(u)) \in ModesOf(class[u], profile)
    BY <1>1, <2>4, ModeForType DEF For
  <2> QED  BY <1>3, <2>1, <2>2, <2>3, <2>4, <2>5, <2>6
<1> QED  BY <1>2, <1>3

\* One call of calculate, as far as the modes go.
LEMMA CalculateModes ==
    ASSUME GraphInv, StackInv, LtoInv, NEW u \in Units, Calculate(u)
    PROVE  /\ walk = "lto" /\ (NextRoot(u) \/ NextDep(u))
           /\ UNCHANGED <<deps, roots, class, profile, walk, visited, order>>
           /\ lto' \in [Units -> Modes \cup {NoMode}]
           /\ \A v \in Units \ {u} : lto'[v] = lto[v]
           /\ lto'[u] \in ModesOf(class[u], profile) /\ lto'[u] \in Modes /\ lto'[u] # NoMode
           /\ Seen(u) => Covers(lto'[u], lto[u])
           /\ Covers(lto'[u], ModeUnder(u, Asked(u)))
           /\ \A m \in Modes : Covers(m, ModeUnder(u, Asked(u))) /\ (Seen(u) => Covers(m, lto[u]))
                                  => Covers(m, lto'[u])
           /\ \/ stack' = Waiting(u) /\ lto' = lto
              \/ stack' = Append(Waiting(u), Frame(u))
<1>1. /\ walk = "lto" /\ (NextRoot(u) \/ NextDep(u))
      /\ UNCHANGED <<deps, roots, class, profile, walk, visited, order>>
  BY DEF Calculate, graph
<1>2. /\ class[u] \in Classes /\ profile \in Profiles
      /\ lto \in [Units -> Modes \cup {NoMode}]
  BY DEF GraphInv
<1>3. PICK a \in ModesOf(class[u], profile) : a = ModeUnder(u, Asked(u))
  BY <1>1, AskedType
<1>4. PICK old \in Modes \cup {NoMode} : old = lto[u]
  BY <1>2
<1>5. PICK merged \in Modes \cup {NoMode} : merged = Merge(a, old)
  BY <1>2, MergeType, ModesOfModes
<1>6. /\ lto' = [lto EXCEPT ![u] = merged]
      /\ \/ stack' = Waiting(u) /\ merged = lto[u]
         \/ stack' = Append(Waiting(u), Frame(u))
  BY <1>3, <1>4, <1>5 DEF Calculate
<1>7. /\ lto' \in [Units -> Modes \cup {NoMode}] /\ lto'[u] = merged
      /\ \A v \in Units \ {u} : lto'[v] = lto[v]
      /\ merged = lto[u] => lto' = lto
  BY <1>2, <1>6
<1>8. a \in Modes
  BY <1>2, ModesOfModes
<1>9. merged \in Modes /\ merged # NoMode
  BY <1>5, <1>8, MergeType
<1>10. merged \in ModesOf(class[u], profile)
  <2>1. old \in ModesOf(class[u], profile) \cup {NoMode}
    BY <1>1, <1>4 DEF LtoInv, Seen
  <2> QED  BY <1>2, <1>5, <2>1, ModesOfMerge
<1>11. /\ Covers(merged, a)
       /\ old # NoMode => Covers(merged, old)
       /\ \A m \in Modes : Covers(m, a) /\ (old # NoMode => Covers(m, old)) => Covers(m, merged)
  BY <1>5, <1>8, MergeCovers
<1> QED  BY <1>1, <1>3, <1>4, <1>6, <1>7, <1>9, <1>10, <1>11 DEF Seen

\* What a call that is still to look at d leaves to do.
LEMMA StillAsks ==
    ASSUME GraphInv, StackInv, NEW u \in Units, NextRoot(u) \/ NextDep(u),
           stack' \in {Waiting(u), Append(Waiting(u), Frame(u))},
           NEW i \in 1..Len(stack), NEW d \in stack[i].left, d # u \/ i # Len(stack)
    PROVE  i \in 1..Len(stack') /\ stack'[i].unit = stack[i].unit /\ d \in stack'[i].left
<1>1. /\ Waiting(u) \in Seq(Frames) /\ Len(Waiting(u)) = Len(stack) /\ Len(stack) \in Nat
      /\ Waiting(u)[i].unit = stack[i].unit /\ d \in Waiting(u)[i].left
  BY WaitingIs DEF StackInv
<1>2. CASE stack' = Waiting(u)
  BY <1>1, <1>2
<1>3. CASE stack' = Append(Waiting(u), Frame(u))
  <2>1. Len(stack') = Len(stack) + 1 /\ stack'[i] = Waiting(u)[i]
    BY <1>3, PushIs
  <2> QED  BY <1>1, <2>1
<1> QED  BY <1>2, <1>3

LEMMA CalculateAsks ==
    ASSUME GraphInv, StackInv, LtoInv, NEW u \in Units, Calculate(u),
           NEW v \in Units, Seen(v)', NEW d \in deps[v]
    PROVE  Asks(v, d)'
<1>1. /\ walk = "lto" /\ (NextRoot(u) \/ NextDep(u))
      /\ class' = class /\ profile' = profile
      /\ \A w \in Units \ {u} : lto'[w] = lto[w]
      /\ lto'[u] \in Modes
      /\ Seen(u) => Covers(lto'[u], lto[u])
      /\ Covers(lto'[u], ModeUnder(u, Asked(u)))
      /\ \/ stack' = Waiting(u) /\ lto' = lto
         \/ stack' = Append(Waiting(u), Frame(u))
  BY CalculateModes
<1>2. d \in Units /\ d # v
  BY RankIs
<1>3. /\ class[d] \in Classes /\ profile \in Profiles
      /\ lto[v] \in Modes \cup {NoMode} /\ lto[d] \in Modes \cup {NoMode}
  BY <1>2 DEF GraphInv
<1>4. CASE v = u /\ stack' = Append(Waiting(u), Frame(u))
  <2>1. /\ Len(stack') = Len(stack) + 1 /\ stack'[Len(stack) + 1].unit = u
        /\ stack'[Len(stack) + 1].left = deps[u] /\ Len(stack) \in Nat
    BY <1>1, <1>4, PushIs DEF StackInv
  <2>2. Len(stack) + 1 \in 1..Len(stack')
    BY <2>1
  <2> QED  BY <1>4, <2>1, <2>2 DEF Asks
<1>5. CASE v = u /\ lto' = lto /\ stack' = Waiting(u)
  <2>1. Asks(v, d)
    BY <1>1, <1>5 DEF LtoInv, Seen
  <2>2. ~\E i \in 1..Len(stack) : stack[i].unit = v
    BY <1>1, <1>5, EnterDeeper DEF OnStack
  <2>3. Covers(lto[d], For(d, lto[v]))
    BY <2>1, <2>2 DEF Asks
  <2> QED  BY <1>1, <1>5, <2>3 DEF Asks, For
<1>6. CASE v # u
  <2>1. lto'[v] = lto[v] /\ Asks(v, d) /\ lto[v] \in Modes
    BY <1>1, <1>3, <1>6 DEF LtoInv, Seen
  <2>2. For(d, lto[v]) \in Modes
    BY <1>3, <2>1, ModeForType, ModesOfModes DEF For
  <2>3. CASE Covers(lto[d], For(d, lto[v]))
    <3>1. CASE d = u
      <4>1. Seen(u) /\ lto[u] \in Modes
        BY <1>3, <2>2, <2>3, <3>1, CoversOrder DEF Seen
      <4>2. Covers(lto'[u], For(d, lto[v]))
        <5>1. PICK a \in Modes, b \in Modes, c \in Modes :
                 a = lto'[u] /\ b = lto[u] /\ c = For(d, lto[v])
          BY <1>1, <2>2, <4>1
        <5>2. Covers(a, b)
          BY <1>1, <4>1, <5>1
        <5>3. Covers(b, c)
          BY <2>3, <3>1, <5>1
        <5> QED  BY <5>1, <5>2, <5>3, CoversOrder
      <4> QED  BY <1>1, <2>1, <3>1, <4>2 DEF Asks, For
    <3>2. CASE d # u
      BY <1>1, <1>2, <2>1, <2>3, <3>2 DEF Asks, For
    <3> QED  BY <3>1, <3>2
  <2>4. ASSUME NEW i \in 1..Len(stack), stack[i].unit = v, d \in stack[i].left
        PROVE  Asks(v, d)'
    <3>1. CASE d = u /\ i = Len(stack)
      <4>1. ModeUnder(u, Asked(u)) = For(d, lto[v])
        BY <1>1, <2>4, <3>1, AskedType
      <4>2. Covers(lto'[d], For(d, lto[v]))
        BY <1>1, <3>1, <4>1
      <4> QED  BY <1>1, <2>1, <4>2 DEF Asks, For
    <3>2. CASE d # u \/ i # Len(stack)
      <4>1. i \in 1..Len(stack') /\ stack'[i].unit = v /\ d \in stack'[i].left
        BY <1>1, <2>4, <3>2, StillAsks
      <4> QED  BY <4>1 DEF Asks
    <3> QED  BY <3>1, <3>2
  <2> QED  BY <2>1, <2>3, <2>4 DEF Asks
<1> QED  BY <1>1, <1>4, <1>5, <1>6

LEMMA CalculateJustified ==
    ASSUME GraphInv, StackInv, LtoInv, NEW u \in Units, Calculate(u),
           NEW v \in Units, Seen(v)'
    PROVE  Justified(v)'
<1>1. /\ walk = "lto" /\ (NextRoot(u) \/ NextDep(u))
      /\ UNCHANGED <<deps, roots, class, profile>>
      /\ \A w \in Units \ {u} : lto'[w] = lto[w]
      /\ lto'[u] \in ModesOf(class[u], profile) /\ lto'[u] # NoMode
      /\ Seen(u) => Covers(lto'[u], lto[u])
      /\ \A m \in Modes : Covers(m, ModeUnder(u, Asked(u))) /\ (Seen(u) => Covers(m, lto[u]))
                             => Covers(m, lto'[u])
  BY CalculateModes
<1> SUFFICES ASSUME NEW m \in Modes,
                    \A p \in Units : lto'[p] # NoMode /\ v \in deps[p] =>
                       Covers(m, ModeFor(class[v], profile, lto'[p])),
                    v \in roots => Covers(m, Root(v))
             PROVE  Covers(m, lto'[v])
  BY <1>1 DEF Justified, Seen, For, Root
<1>2. \A w \in Units : class[w] \in Classes /\ profile \in Profiles
  BY DEF GraphInv
<1>3. ASSUME NEW p \in Units, Seen(p), v \in deps[p]
      PROVE  Covers(m, For(v, lto[p]))
  <2>1. CASE p # u
    BY <1>1, <1>3, <2>1 DEF Seen, For
  <2>2. CASE p = u
    <3>1. lto[u] \in ModesOf(class[u], profile)
      BY <1>1, <1>3, <2>2 DEF LtoInv
    <3>2. Covers(ModeFor(class[v], profile, lto'[u]), ModeFor(class[v], profile, lto[u]))
      BY <1>1, <1>2, <1>3, <2>2, <3>1, ModeForGrows
    <3>3. Covers(m, ModeFor(class[v], profile, lto'[u]))
      BY <1>1, <1>3, <2>2
    <3>4. /\ ModeFor(class[v], profile, lto'[u]) \in Modes
          /\ ModeFor(class[v], profile, lto[u]) \in Modes
      BY <1>1, <1>2, <3>1, ModeForType, ModesOfModes
    <3> QED  BY <2>2, <3>2, <3>3, <3>4, CoversOrder DEF For
  <2> QED  BY <2>1, <2>2
<1>4. Seen(v) => Covers(m, lto[v])
  BY <1>1, <1>3 DEF LtoInv, Justified
<1>5. CASE v # u
  BY <1>1, <1>4, <1>5 DEF Seen
<1>6. CASE v = u
  <2>1. Covers(m, ModeUnder(u, Asked(u)))
    <3>1. CASE stack = <<>>
      BY <1>1, <1>6, <3>1, AskedType
    <3>2. CASE stack # <<>>
      BY <1>1, <1>3, <1>6, <3>2, AskedType
    <3> QED  BY <3>1, <3>2
  <2> QED  BY <1>1, <1>4, <1>6, <2>1
<1> QED  BY <1>5, <1>6

LEMMA CalculateLto ==
    ASSUME GraphInv, StackInv, LtoInv, NEW u \in Units, Calculate(u)
    PROVE  LtoInv'
<1>1. /\ walk = "lto" /\ (NextRoot(u) \/ NextDep(u))
      /\ UNCHANGED <<deps, roots, class, profile, walk>>
      /\ \A v \in Units \ {u} : lto'[v] = lto[v]
      /\ lto'[u] \in ModesOf(class[u], profile) /\ lto'[u] \in Modes /\ lto'[u] # NoMode
      /\ Seen(u) => Covers(lto'[u], lto[u])
      /\ Covers(lto'[u], ModeUnder(u, Asked(u)))
      /\ stack' \in {Waiting(u), Append(Waiting(u), Frame(u))}
  BY CalculateModes
<1>2. \A v \in Units : Seen(v)' => lto'[v] \in ModesOf(class[v], profile)
  BY <1>1 DEF LtoInv, Seen
<1>3. \A i \in 1..Len(stack') : lto'[stack'[i].unit] # NoMode
  <2>1. /\ Waiting(u) \in Seq(Frames) /\ Len(Waiting(u)) = Len(stack) /\ Len(stack) \in Nat
        /\ \A i \in 1..Len(stack) : Waiting(u)[i].unit = stack[i].unit
    BY <1>1, WaitingIs DEF StackInv
  <2>2. \A i \in 1..Len(stack) : stack[i].unit \in Units /\ lto'[stack[i].unit] # NoMode
    BY <1>1, EnterDeeper DEF LtoInv, Seen
  <2>3. CASE stack' = Waiting(u)
    BY <2>1, <2>2, <2>3
  <2>4. CASE stack' = Append(Waiting(u), Frame(u))
    <3>1. /\ Len(stack') = Len(stack) + 1 /\ stack'[Len(stack) + 1].unit = u
          /\ \A i \in 1..Len(stack) : stack'[i] = Waiting(u)[i]
      BY <1>1, <2>4, PushIs
    <3>2. \A i \in 1..Len(stack') : i \in 1..Len(stack) \/ i = Len(stack) + 1
      BY <2>1, <3>1
    <3> QED  BY <1>1, <2>1, <2>2, <3>1, <3>2
  <2> QED  BY <1>1, <2>3, <2>4
<1>4. ASSUME NEW r \in roots \ todo'
      PROVE  Covers(lto'[r], Root(r))
  <2>1. r \in Units /\ class[r] \in Classes /\ profile \in Profiles /\ Root(r) \in Modes
    <3>1. r \in Units /\ class[r] \in Classes /\ profile \in Profiles
      BY DEF GraphInv
    <3> QED  BY <3>1, RootForType, ModeForType, ModesOfModes DEF Root, For
  <2>2. CASE r # u
    <3>1. r \notin todo
      BY <1>1, <1>4, <2>2 DEF NextRoot, NextDep
    <3> QED  BY <1>1, <2>1, <2>2, <3>1 DEF LtoInv
  <2>3. CASE r = u /\ stack = <<>>
    BY <1>1, <2>3, AskedType
  <2>4. CASE r = u /\ stack # <<>>
    <3>1. r \notin todo
      BY <1>1, <1>4, <2>4 DEF NextRoot, NextDep
    <3>2. Covers(lto[u], Root(u)) /\ lto[u] \in Modes \cup {NoMode}
      BY <1>1, <2>4, <3>1 DEF LtoInv, GraphInv
    <3>3. Seen(u) /\ lto[u] \in Modes
      BY <2>1, <2>4, <3>2, CoversOrder DEF Seen
    <3> QED  BY <1>1, <2>1, <2>4, <3>2, <3>3, CoversOrder
  <2> QED  BY <2>2, <2>3, <2>4
<1>5. \A r \in roots' \ todo' : (Covers(lto[r], Root(r)))'
  BY <1>1, <1>4 DEF Root, For
<1>6. \A v \in Units : Seen(v)' => Justified(v)' /\ \A d \in deps'[v] : Asks(v, d)'
  BY <1>1, CalculateJustified, CalculateAsks
<1>7. \A i \in 1..Len(stack') : (Seen(stack[i].unit))'
  BY <1>3 DEF Seen
<1> QED  BY <1>1, <1>2, <1>5, <1>6, <1>7 DEF LtoInv

\* A call of calculate that has looked at everything returns.
LEMMA ReturnLto ==
    ASSUME GraphInv, StackInv, LtoInv, Return
    PROVE  LtoInv'
<1>1. /\ walk = "lto" /\ stack # <<>> /\ Top.left = {} /\ stack' = Pop
      /\ UNCHANGED <<deps, roots, class, profile, walk, todo, lto>>
  BY DEF Return, graph
<1>2. /\ Len(stack') = Len(stack) - 1 /\ Len(stack) \in Nat \ {0}
      /\ \A i \in 1..Len(stack) - 1 : stack'[i] = stack[i]
  BY <1>1, PopIs
<1>3. \A i \in 1..Len(stack') : (Seen(stack[i].unit))'
  BY <1>1, <1>2 DEF LtoInv, Seen
<1>4. ASSUME NEW u \in Units, Seen(u), NEW d \in deps[u]
      PROVE  Asks(u, d)'
  <2>1. Asks(u, d)
    BY <1>1, <1>4 DEF LtoInv
  <2>2. ASSUME NEW i \in 1..Len(stack), stack[i].unit = u, d \in stack[i].left
        PROVE  i \in 1..Len(stack') /\ stack'[i] = stack[i]
    <3>1. i # Len(stack)
      BY <1>1, <2>2 DEF Top
    <3> QED  BY <1>2, <3>1
  <2>3. \/ Covers(lto[d], For(d, lto[u]))
        \/ \E i \in 1..Len(stack') : stack'[i].unit = u /\ d \in stack'[i].left
    BY <2>1, <2>2 DEF Asks
  <2> QED  BY <1>1, <2>3 DEF Asks, For
<1>5. \A u \in Units : Seen(u)' => /\ lto'[u] \in ModesOf(class[u], profile)
                                   /\ Justified(u)'
                                   /\ \A d \in deps[u] : Asks(u, d)'
  BY <1>1, <1>4 DEF LtoInv, Seen, Justified, For, Root
<1>6. \A u \in roots \ todo : (Covers(lto[u], Root(u)))'
  BY <1>1 DEF LtoInv, Root, For
<1> QED  BY <1>1, <1>3, <1>5, <1>6 DEF LtoInv
-----------------------------------------------------------------------------
(* The walks. *)

WalkInv == GraphInv /\ StackInv /\ TopoInv /\ OrderInv /\ LtoInv

LEMMA InitWalks == Init => WalkInv
<1> SUFFICES ASSUME Init
             PROVE  WalkInv
  OBVIOUS
<1>1. /\ deps \in Graphs /\ walk = "topo" /\ stack = <<>> /\ visited = {} /\ order = <<>>
      /\ todo = roots /\ class = [u \in Units |-> "lib"] /\ profile = "false"
      /\ lto = [u \in Units |-> NoMode]
  BY DEF Init
<1>2. Sources(deps) \subseteq roots /\ roots \subseteq Units
  BY GraphsAssumption DEF Init, Sources
<1>3. GraphInv
  BY <1>1, <1>2 DEF GraphInv, Classes, Profiles
<1>4. StackInv
  BY <1>1 DEF StackInv
<1>5. TopoInv
  BY <1>1 DEF TopoInv, Listed, OnStack
<1>6. OrderInv /\ LtoInv
  BY <1>1 DEF OrderInv, LtoInv
<1> QED  BY <1>3, <1>4, <1>5, <1>6 DEF WalkInv

LEMMA StepWalks == WalkInv /\ [Next]_vars => WalkInv'
<1> SUFFICES ASSUME WalkInv, [Next]_vars
             PROVE  WalkInv'
  OBVIOUS
<1>0. GraphInv /\ StackInv /\ TopoInv /\ OrderInv /\ LtoInv
  BY DEF WalkInv
<1>1. ASSUME NEW u \in Units, Visit(u)
      PROVE  WalkInv'
  <2>1. /\ walk = "topo" /\ (NextRoot(u) \/ NextDep(u)) /\ todo' \subseteq todo
        /\ UNCHANGED <<deps, roots, class, profile, walk, order, lto>>
        /\ visited' \subseteq visited \cup {u}
        /\ stack' \in {Waiting(u), Append(Waiting(u), Frame(u))}
    BY <1>1 DEF Visit, graph, NextRoot, NextDep
  <2>2. GraphInv'
    BY <1>0, <2>1 DEF GraphInv
  <2>3. StackInv'
    BY <1>0, <2>1, EnterStackInv
  <2>4. TopoInv'
    BY <1>0, <1>1, <2>1, VisitAgain, VisitNew DEF Visit, graph
  <2>5. OrderInv' /\ LtoInv'
    BY <1>0, <2>1 DEF OrderInv, Before, LtoInv
  <2> QED  BY <2>2, <2>3, <2>4, <2>5 DEF WalkInv
<1>2. ASSUME NEW u \in Units, Calculate(u)
      PROVE  WalkInv'
  <2>1. /\ walk = "lto" /\ (NextRoot(u) \/ NextDep(u)) /\ todo' \subseteq todo
        /\ UNCHANGED <<deps, roots, class, profile, walk, visited, order>>
        /\ lto' \in [Units -> Modes \cup {NoMode}]
        /\ stack' \in {Waiting(u), Append(Waiting(u), Frame(u))}
    BY <1>0, <1>2, CalculateModes DEF NextRoot, NextDep
  <2>2. GraphInv'
    BY <1>0, <2>1 DEF GraphInv
  <2>3. StackInv'
    BY <1>0, <2>1, EnterStackInv
  <2>4. LtoInv'
    BY <1>0, <1>2, CalculateLto
  <2>5. OrderInv' /\ TopoInv'
    BY <1>0, <2>1 DEF OrderInv, Before, TopoInv
  <2> QED  BY <2>2, <2>3, <2>4, <2>5 DEF WalkInv
<1>3. CASE Leave
  <2>1. /\ walk = "topo" /\ stack # <<>> /\ stack' = Pop
        /\ UNCHANGED <<deps, roots, class, profile, walk, todo, visited, lto>>
    BY <1>3 DEF Leave, graph
  <2>2. TopoInv' /\ OrderInv' /\ order' \in Seq(Units)
    BY <1>0, <1>3, LeaveTopo
  <2>3. GraphInv'
    BY <1>0, <2>1, <2>2 DEF GraphInv
  <2>4. StackInv'
    BY <1>0, <2>1, PopStackInv
  <2>5. LtoInv'
    BY <2>1 DEF LtoInv
  <2> QED  BY <2>2, <2>3, <2>4, <2>5 DEF WalkInv
<1>4. CASE Return
  <2>1. /\ walk = "lto" /\ stack # <<>> /\ stack' = Pop
        /\ UNCHANGED <<deps, roots, class, profile, walk, todo, visited, order, lto>>
    BY <1>4 DEF Return, graph
  <2>2. GraphInv'
    BY <1>0, <2>1 DEF GraphInv
  <2>3. StackInv'
    BY <1>0, <2>1, PopStackInv
  <2>4. OrderInv' /\ TopoInv'
    BY <1>0, <2>1 DEF OrderInv, Before, TopoInv
  <2>5. LtoInv'
    BY <1>0, <1>4, ReturnLto
  <2> QED  BY <2>2, <2>3, <2>4, <2>5 DEF WalkInv
<1>5. CASE BeginLto
  <2>1. /\ walk = "topo" /\ walk' = "lto" /\ stack = <<>> /\ stack' = <<>>
        /\ todo' = roots /\ visited' = {} /\ order' = <<>>
        /\ class' \in [Units -> Classes] /\ profile' \in Profiles
        /\ UNCHANGED <<deps, roots, lto>>
    BY <1>5 DEF BeginLto
  <2>2. GraphInv'
    BY <1>0, <2>1 DEF GraphInv
  <2>3. StackInv' /\ TopoInv' /\ OrderInv'
    BY <2>1 DEF StackInv, TopoInv, OrderInv
  <2>4. \A u \in Units : lto[u] = NoMode
    BY <1>0, <2>1 DEF TopoInv
  <2>5. LtoInv'
    BY <2>1, <2>4 DEF LtoInv, Seen
  <2> QED  BY <2>2, <2>3, <2>5 DEF WalkInv
<1>6. CASE EndLto
  <2>1. /\ walk = "lto" /\ walk' = "done" /\ stack = <<>> /\ todo = {}
        /\ UNCHANGED <<deps, roots, class, profile, todo, stack, visited, order, lto>>
    BY <1>6 DEF EndLto, graph
  <2>2. GraphInv'
    BY <1>0, <2>1 DEF GraphInv
  <2>3. StackInv' /\ TopoInv' /\ OrderInv'
    BY <1>0, <2>1 DEF StackInv, TopoInv, OrderInv, Before
  <2>4. LtoInv'
    BY <1>0, <2>1 DEF LtoInv, Seen, Justified, Asks, For, Root
  <2> QED  BY <2>2, <2>3, <2>4 DEF WalkInv
<1>7. CASE UNCHANGED vars
  <2>1. UNCHANGED <<deps, roots, class, profile, walk, todo, stack, visited, order, lto>>
    BY <1>7 DEF vars, graph
  <2>2. GraphInv'
    BY <1>0, <2>1 DEF GraphInv
  <2>3. Rank' = Rank
    BY <2>1, RankKept
  <2>4. StackInv'
    BY <1>0, <2>1, <2>3 DEF StackInv
  <2>5. Listed' = Listed /\ OnStack' = OnStack
    BY <2>1 DEF Listed, OnStack
  <2>6. TopoInv' /\ OrderInv'
    BY <1>0, <2>1, <2>5 DEF TopoInv, OrderInv, Before
  <2>7. LtoInv'
    BY <1>0, <2>1 DEF LtoInv, Seen, Justified, Asks, For, Root
  <2> QED  BY <2>2, <2>4, <2>6, <2>7 DEF WalkInv
<1> QED  BY <1>1, <1>2, <1>3, <1>4, <1>5, <1>6, <1>7 DEF Next, Finished

\* What both walks keep up: calls go down the graph; what visit entered is listed
\* after all it needs, or not left yet; and a unit's mode serves the parents
\* looked at, and holds nothing that no parent asks for, while what it asks of
\* its own dependencies has been passed on, or waits in a call not left yet.
THEOREM WalkInvariant == Spec => []WalkInv
  BY InitWalks, StepWalks, PTL DEF Spec

LEMMA DoneModes ==
    ASSUME WalkInv, walk = "done"
    PROVE  /\ lto \in [Units -> Modes] /\ class \in [Units -> Classes] /\ profile \in Profiles
           /\ \A u \in Units : Seen(u) /\ Justified(u) /\ lto[u] \in ModesOf(class[u], profile)
           /\ \A r \in roots : Covers(lto[r], Root(r))
           /\ \A u \in Units : \A d \in deps[u] : d \in Units /\ Covers(lto[d], For(d, lto[u]))
<1>1. /\ GraphInv /\ LtoInv /\ stack = <<>> /\ todo = {}
      /\ class \in [Units -> Classes] /\ profile \in Profiles
      /\ lto \in [Units -> Modes \cup {NoMode}] /\ roots \subseteq Units
  BY DEF WalkInv, GraphInv
<1>2. \A r \in roots : Covers(lto[r], Root(r))
  BY <1>1 DEF LtoInv
<1>3. ASSUME NEW u \in Units, Seen(u), NEW d \in deps[u]
      PROVE  d \in Units /\ Covers(lto[d], For(d, lto[u])) /\ Seen(d)
  <2>1. d \in Units
    BY <1>1, RankIs
  <2>2. Covers(lto[d], For(d, lto[u]))
    BY <1>1, <1>3 DEF LtoInv, Asks
  <2>3. lto[u] \in Modes
    BY <1>1, <1>3 DEF Seen
  <2>4. For(d, lto[u]) \in Modes
    BY <1>1, <2>1, <2>3, ModeForType, ModesOfModes DEF For
  <2>5. Seen(d)
    BY <2>2, <2>4, CoversOrder DEF Seen
  <2> QED  BY <2>1, <2>2, <2>5
<1> DEFINE T == {u \in Units : Seen(u)}
<1>4. roots \subseteq T
  <2> SUFFICES ASSUME NEW r \in roots
               PROVE  r \in Units /\ Seen(r)
    OBVIOUS
  <2>1. r \in Units /\ Root(r) \in Modes
    BY <1>1, RootForType, ModeForType, ModesOfModes DEF Root, For
  <2> QED  BY <1>2, <2>1, CoversOrder DEF Seen
<1>5. \A u \in T : deps[u] \subseteq T
  BY <1>3
<1>6. T \in SUBSET Units
  OBVIOUS
<1>7. T = Units
  <2> HIDE DEF T
  <2> QED  BY <1>1, <1>4, <1>5, <1>6, RootsReachAll
<1>8. \A u \in Units : Seen(u)
  BY <1>7
<1>9. lto \in [Units -> Modes]
  BY <1>1, <1>8 DEF Seen
<1>10. \A u \in Units : Justified(u) /\ lto[u] \in ModesOf(class[u], profile)
  BY <1>1, <1>8 DEF LtoInv
<1> QED  BY <1>1, <1>2, <1>3, <1>8, <1>9, <1>10

\* The walks keep their types; they never go deeper than there are units, and
\* generate leaves no unit without a mode.
THEOREM TypeCorrect == Spec => []TypeOK
<1>1. WalkInv => TypeOK
  <2> SUFFICES ASSUME WalkInv
               PROVE  TypeOK
    OBVIOUS
  <2>1. GraphInv /\ StackInv
    BY DEF WalkInv
  <2>2. Len(stack) <= Cardinality(Units)
    <3>1. Cardinality(Units) \in Nat /\ Len(stack) \in Nat
      BY <2>1, RankIs DEF StackInv
    <3>2. CASE stack = <<>>
      BY <3>1, <3>2
    <3>3. CASE stack # <<>>
      <4>1. Len(stack) \in 1..Len(stack) /\ Top.unit \in Units /\ Top = stack[Len(stack)]
        BY <2>1, <3>3, PopIs DEF Top
      <4>2. Len(stack) <= Rank[Top.unit]
        BY <2>1, <4>1 DEF StackInv
      <4>3. Rank[Top.unit] \in 1..Cardinality(Units)
        BY <2>1, <4>1, RankIs
      <4> QED  BY <3>1, <4>2, <4>3
    <3> QED  BY <3>2, <3>3
  <2> QED  BY <2>1, <2>2, DoneModes DEF GraphInv, TypeOK
<1> QED  BY <1>1, WalkInvariant, PTL

\* topo_order, and with it compute_cache_keys, lists every unit once, after all
\* it depends on, whatever the order of roots and dependencies.
THEOREM OrderCorrect == Spec => []TopoOrder
<1>1. WalkInv => TopoOrder
  BY TopoImplies DEF WalkInv
<1> QED  BY <1>1, WalkInvariant, PTL

\* Every library ends with the code that each of its parents links.
THEOREM LinksCorrect == Spec => []LinksWhatItNeeds
<1>1. WalkInv => LinksWhatItNeeds
  <2> SUFFICES ASSUME WalkInv, walk = "done", NEW u \in Units
               PROVE  /\ class[u] \in {"dylib", "mixed"} => HasObject(u)
                      /\ \A d \in {e \in deps[u] : class[e] \in {"lib", "mixed"}} :
                            /\ lto[u] \in {"Run", "OnlyBitcode", "ObjectAndBitcode"}
                                  => HasBitcode(d)
                            /\ lto[u] \in {"OnlyObject", "ObjectAndBitcode"} => HasObject(d)
    BY DEF LinksWhatItNeeds
  <2>1. lto[u] \in ModesOf(class[u], profile) /\ lto[u] \in Modes
    BY DoneModes
  <2>2. class[u] \in {"dylib", "mixed"} => HasObject(u)
    BY <2>1 DEF ModesOf, Modes, HasObject
  <2>3. ASSUME NEW d \in deps[u], class[d] \in {"lib", "mixed"}
        PROVE  /\ lto[u] \in {"Run", "OnlyBitcode", "ObjectAndBitcode"} => HasBitcode(d)
               /\ lto[u] \in {"OnlyObject", "ObjectAndBitcode"} => HasObject(d)
    <3>1. /\ d \in Units /\ Covers(lto[d], For(d, lto[u])) /\ lto[d] \in Modes
          /\ lto[d] \in ModesOf(class[d], profile)
      BY DoneModes
    <3>2. lto[d] # "Run"
      BY <2>3, <3>1 DEF ModesOf
    <3> QED
      BY <2>1, <2>3, <3>1, <3>2
         DEF Covers, Merge, For, ModeFor, LtoWhenNeedsObject, Modes, HasBitcode, HasObject
  <2> QED  BY <2>2, <2>3
<1> QED  BY <1>1, WalkInvariant, PTL
-----------------------------------------------------------------------------
(* The modes the graph determines. *)

\* Join is the least mode that covers several.
LEMMA JoinIs ==
    ASSUME NEW S \in SUBSET Modes, S # {}
    PROVE  /\ Join(S) \in Modes
           /\ \A m \in S : Covers(Join(S), m)
           /\ \A c \in Modes : (\A m \in S : Covers(c, m)) => Covers(c, Join(S))
<1>1. CASE "Run" \in S
  <2>1. Join(S) = "Run"
    BY <1>1 DEF Join
  <2> QED  BY <1>1, <2>1, ModesAssumption DEF Covers, Merge, Modes
<1>2. CASE "Run" \notin S /\ "Off" \in S
  <2>1. Join(S) = "Off"
    BY <1>2 DEF Join
  <2>2. \A m \in Modes \ {"Run"} : Covers("Off", m)
    BY ModesAssumption DEF Covers, Merge, Modes
  <2> QED  BY <1>2, <2>1, <2>2 DEF Modes
<1>3. CASE "Run" \notin S /\ "Off" \notin S /\ Cardinality(S) = 1
  <2>1. IsFiniteSet(S)
    <3>1. IsFiniteSet(Modes)
      <4>1. IsFiniteSet({"Run"})
        BY FS_Singleton
      <4>2. IsFiniteSet({"Run"} \cup {"Off"})
        BY <4>1, FS_AddElement
      <4>3. IsFiniteSet(({"Run"} \cup {"Off"}) \cup {"OnlyObject"})
        BY <4>2, FS_AddElement
      <4>4. IsFiniteSet((({"Run"} \cup {"Off"}) \cup {"OnlyObject"}) \cup {"OnlyBitcode"})
        BY <4>3, FS_AddElement
      <4>5. IsFiniteSet(((({"Run"} \cup {"Off"}) \cup {"OnlyObject"}) \cup {"OnlyBitcode"})
                            \cup {"ObjectAndBitcode"})
        BY <4>4, FS_AddElement
      <4>6. Modes = ((({"Run"} \cup {"Off"}) \cup {"OnlyObject"}) \cup {"OnlyBitcode"})
                            \cup {"ObjectAndBitcode"}
        BY DEF Modes
      <4> QED  BY <4>5, <4>6
    <3> QED  BY <3>1, FS_Subset
  <2>2. PICK x : S = {x}
    BY <1>3, <2>1, FS_Singleton
  <2>3. Join(S) = x
    BY <1>3, <2>2 DEF Join
  <2> QED  BY <2>2, <2>3, CoversOrder
<1>4. CASE "Run" \notin S /\ "Off" \notin S /\ Cardinality(S) # 1
  <2>1. Join(S) = "ObjectAndBitcode"
    BY <1>4 DEF Join
  <2>2. PICK x \in S : TRUE
    OBVIOUS
  <2>3. PICK y \in S : y # x
    BY <1>4, <2>2, FS_Singleton
  <2>4. \A m \in Modes \ {"Run", "Off"} : Covers("ObjectAndBitcode", m)
    BY ModesAssumption DEF Covers, Merge, Modes
  <2>5. \A c \in Modes : \A a, b \in Modes \ {"Run", "Off"} :
           a # b /\ Covers(c, a) /\ Covers(c, b) => Covers(c, "ObjectAndBitcode")
    BY ModesAssumption DEF Covers, Merge, Modes
  <2>6. S \subseteq Modes \ {"Run", "Off"}
    BY <1>4
  <2>7. ASSUME NEW c \in Modes, \A m \in S : Covers(c, m)
        PROVE  Covers(c, "ObjectAndBitcode")
    BY <2>2, <2>3, <2>5, <2>6, <2>7
  <2> QED  BY <2>1, <2>4, <2>6, <2>7 DEF Modes
<1> QED  BY <1>1, <1>2, <1>3, <1>4

\* What u is asked for, if the modes of its parents are f.
AsksOf(u, f) ==
    {ModeUnder(u, f[p]) : p \in {v \in Units : u \in deps[v]}}
    \cup {ModeUnder(u, RootMode(u)) : r \in roots \cap {u}}

Joined(f) == [u \in Units |-> Join(AsksOf(u, f))]

\* The modes generate ends with are what the parents ask for, together.
LEMMA DoneJoined ==
    ASSUME WalkInv, walk = "done"
    PROVE  lto = Joined(lto)
<1>1. /\ GraphInv /\ lto \in [Units -> Modes] /\ roots \subseteq Units
      /\ \A r \in roots : Covers(lto[r], Root(r))
      /\ \A p \in Units : \A u \in deps[p] : u \in Units /\ Covers(lto[u], For(u, lto[p]))
      /\ \A u \in Units : Seen(u) /\ Justified(u)
      /\ \A u \in Units : class[u] \in Classes /\ profile \in Profiles
  BY DoneModes DEF WalkInv, GraphInv
<1>2. ASSUME NEW u \in Units
      PROVE  lto[u] = Join(AsksOf(u, lto))
  <2> DEFINE S == AsksOf(u, lto)
  <2>1. \A m : m \in S <=> \/ \E p \in Units : u \in deps[p] /\ m = For(u, lto[p])
                           \/ u \in roots /\ m = Root(u)
    BY ModeUnderIs, RootModeIs DEF AsksOf, Root
  <2>2. \A p \in Units : For(u, lto[p]) \in Modes
    BY <1>1, ModeForType, ModesOfModes DEF For
  <2>3. Root(u) \in Modes
    BY <1>1, RootForType, ModeForType, ModesOfModes DEF Root, For
  <2> HIDE DEF S
  <2>4. S \in SUBSET Modes
    BY <2>1, <2>2, <2>3
  <2>5. S # {}
    <3>1. CASE \E p \in Units : u \in deps[p]
      BY <2>1, <3>1
    <3>2. CASE ~\E p \in Units : u \in deps[p]
      BY <1>1, <2>1, <3>2 DEF Sources, GraphInv
    <3> QED  BY <3>1, <3>2
  <2>6. \A m \in S : Covers(lto[u], m)
    BY <1>1, <2>1
  <2>7. ASSUME NEW c \in Modes, \A m \in S : Covers(c, m)
        PROVE  Covers(c, lto[u])
    <3>1. \A p \in Units : u \in deps[p] => Covers(c, For(u, lto[p]))
      BY <2>1, <2>7
    <3>2. u \in roots => Covers(c, Root(u))
      BY <2>1, <2>7
    <3> QED  BY <1>1, <3>1, <3>2 DEF Justified
  <2>8. PICK j \in Modes :
           /\ j = Join(S) /\ \A m \in S : Covers(j, m)
           /\ \A c \in Modes : (\A m \in S : Covers(c, m)) => Covers(c, j)
    BY <2>4, <2>5, JoinIs
  <2>9. PICK l \in Modes : l = lto[u]
    BY <1>1
  <2>10. Covers(j, l) /\ Covers(l, j)
    BY <2>6, <2>7, <2>8, <2>9
  <2> QED  BY <2>8, <2>9, <2>10, CoversOrder DEF S
<1> QED  BY <1>1, <1>2 DEF Joined

\* The modes do not depend on the order in which roots and dependencies are
\* taken: they are what the graph, read from the top, asks for.  So what cargo-zb
\* computes after the build names the files cargo wrote in it.
THEOREM ModesAgree == Spec => []LtoAgrees
<1>1. WalkInv => LtoAgrees
  <2> SUFFICES ASSUME WalkInv, walk = "done"
               PROVE  lto = Wanted
    BY DEF LtoAgrees
  <2>1. lto = Joined(lto)
    BY DoneJoined
  <2>2. Wanted = CHOOSE f : f = Joined(f)
    BY DEF Wanted, Joined, AsksOf
  <2>3. Wanted = Joined(Wanted)
    BY <2>1, <2>2
  <2>4. GraphInv
    BY DEF WalkInv
  <2> DEFINE T == {u \in Units : Wanted[u] = lto[u]}
  <2>5. ASSUME NEW u \in Units, \A p \in Units : u \in deps[p] => p \in T
        PROVE  u \in T
    <3>1. AsksOf(u, Wanted) = AsksOf(u, lto)
      BY <2>5 DEF AsksOf
    <3>2. Wanted[u] = Join(AsksOf(u, Wanted)) /\ lto[u] = Join(AsksOf(u, lto))
      BY <2>1, <2>3 DEF Joined
    <3> QED  BY <3>1, <3>2
  <2>6. T \in SUBSET Units
    OBVIOUS
  <2>7. T = Units
    <3> HIDE DEF T
    <3> QED  BY <2>4, <2>5, <2>6, DownTheGraph
  <2>8. \A u \in Units : Wanted[u] = lto[u]
    BY <2>7
  <2>9. Wanted = [u \in Units |-> Wanted[u]] /\ lto = [u \in Units |-> lto[u]]
    BY <2>1, <2>3 DEF Joined
  <2> QED  BY <2>8, <2>9
<1> QED  BY <1>1, WalkInvariant, PTL
=============================================================================
