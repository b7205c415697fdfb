-------------------------- MODULE CachedBuildProofs --------------------------
(***************************************************************************)
(* Theorems about run_cached_build, for every unit graph, every choice of  *)
(* inputs, and however often they are edited.                              *)
(***************************************************************************)
EXTENDS CachedBuild, SequenceTheorems, WellFoundedInduction, TLAPS

-----------------------------------------------------------------------------
(* Induction, and recursion over the unit graph. *)

LEMMA LeastNumber ==
    ASSUME NEW T \in SUBSET Nat, T # {}
    PROVE  \E n \in T : \A m \in T : ~(m < n)
<1>1. PICK n \in T : \A m \in T : ~(<<m, n>> \in OpToRel(<, Nat))
  BY NatLessThanWellFounded, WFMin
<1> QED  BY <1>1 DEF OpToRel

LEMMA NumberInduction ==
    ASSUME NEW T \in SUBSET Nat, 0 \in T, \A n \in T : n + 1 \in T
    PROVE  T = Nat
<1> SUFFICES ASSUME Nat \ T # {}
             PROVE  FALSE
  OBVIOUS
<1>1. PICK n \in Nat \ T : \A m \in Nat \ T : ~(m < n)
  BY LeastNumber
<1>2. n # 0 /\ n - 1 \in T
  BY <1>1
<1> QED  BY <1>2

LEMMA OrderProperties ==
    /\ Len(Order) \in Nat
    /\ \A i \in 1..Len(Order) : Order[i] \in Units
    /\ \A u \in Units : \E i \in 1..Len(Order) : Order[i] = u
    /\ \A u \in Units : Deps[u] \subseteq Units
    /\ \A i, j \in 1..Len(Order) : Order[j] \in Deps[Order[i]] => j < i
  BY GraphAssumption, LenProperties, ElementOfSeq

LEMMA BoundProperties == MaxUpsets \in Nat
  BY GraphAssumption

\* What holds of a unit whenever it holds of its dependencies holds of all.
LEMMA UnitInduction ==
    ASSUME NEW T \in SUBSET Units, \A u \in Units : Deps[u] \subseteq T => u \in T
    PROVE  T = Units
<1> SUFFICES ASSUME Units \ T # {}
             PROVE  FALSE
  OBVIOUS
<1> DEFINE P == {i \in 1..Len(Order) : Order[i] \notin T}
<1>1. P \in SUBSET Nat /\ P # {}
  BY OrderProperties
<1>2. PICK i \in P : \A j \in P : ~(j < i)
  BY <1>1, LeastNumber
<1>3. Deps[Order[i]] \subseteq T
  <2> SUFFICES ASSUME NEW d \in Deps[Order[i]], d \notin T
               PROVE  FALSE
    OBVIOUS
  <2>1. PICK j \in 1..Len(Order) : Order[j] = d
    BY OrderProperties
  <2> QED  BY <1>2, <2>1, OrderProperties
<1> QED  BY <1>2, <1>3, OrderProperties

\* f is the recursive function that StaticKeys, Ideal and IdealKeys are: base[u],
\* with what f gives for the dependencies of u.
IsTerm(f, base) ==
    f = [u \in Units |-> [base[u] EXCEPT !.deps = {f[d] : d \in Deps[u]}]]

LEMMA TermExists ==
    ASSUME NEW base
    PROVE  \E f : IsTerm(f, base)
<1> DEFINE Early(n, u) == \E i \in 1..Len(Order) : i <= n /\ Order[i] = u
           Good(f, u) == f[u] = [base[u] EXCEPT !.deps = {f[d] : d \in Deps[u]}]
           Upto(n) == \E f : \A u \in Units : Early(n, u) => Good(f, u)
           T == {n \in Nat : Upto(n)}
<1>1. Upto(0)
  <2>1. \A u \in Units : Early(0, u) => Good(base, u)
    BY OrderProperties
  <2> QED  BY <2>1
<1>2. ASSUME NEW n \in Nat, Upto(n)
      PROVE  Upto(n + 1)
  <2>1. PICK f : \A u \in Units : Early(n, u) => Good(f, u)
    BY <1>2
  <2>2. CASE n + 1 > Len(Order) \/ Early(n, Order[n + 1])
    <3>1. ASSUME NEW u \in Units, Early(n + 1, u)
          PROVE  Early(n, u)
      <4>1. PICK i \in 1..Len(Order) : i <= n + 1 /\ Order[i] = u
        BY <3>1
      <4>2. CASE i <= n
        BY <4>1, <4>2
      <4>3. CASE i = n + 1
        BY <2>2, <4>1, <4>3, OrderProperties
      <4> QED  BY <4>1, <4>2, <4>3, OrderProperties
    <3>2. \A u \in Units : Early(n + 1, u) => Good(f, u)
      <4> HIDE DEF Early, Good
      <4> QED  BY <2>1, <3>1
    <3> HIDE DEF Early, Good
    <3> QED  BY <3>2
  <2>3. CASE n + 1 <= Len(Order) /\ ~Early(n, Order[n + 1])
    <3> DEFINE u0 == Order[n + 1]
               g == [u \in Units |-> IF u = u0
                        THEN [base[u] EXCEPT !.deps = {f[d] : d \in Deps[u]}]
                        ELSE f[u]]
    <3>1. ASSUME NEW u \in Units, Early(n + 1, u)
          PROVE  /\ Early(n, u) \/ u = u0
                 /\ \A d \in Deps[u] : d \in Units /\ d # u0
      <4>1. PICK i \in 1..Len(Order) : i <= n + 1 /\ Order[i] = u
        BY <3>1
      <4>2. Early(n, u) \/ u = u0
        BY <4>1, OrderProperties
      <4>3. ASSUME NEW d \in Deps[u]
            PROVE  d \in Units /\ d # u0
        <5>1. d \in Units
          BY OrderProperties
        <5>2. PICK j \in 1..Len(Order) : Order[j] = d
          BY <5>1, OrderProperties
        <5>3. j < i
          BY <4>1, <5>2, OrderProperties
        <5>4. Early(n, d)
          BY <4>1, <5>2, <5>3, OrderProperties
        <5> HIDE DEF Early
        <5> QED  BY <2>3, <5>1, <5>4
      <4> QED  BY <4>2, <4>3
    <3> HIDE DEF Early
    <3>2. ASSUME NEW u \in Units, Early(n + 1, u)
          PROVE  Good(g, u)
      <4>1. \A d \in Deps[u] : g[d] = f[d]
        BY <3>1, <3>2
      <4>2. {g[d] : d \in Deps[u]} = {f[d] : d \in Deps[u]}
        <5> HIDE DEF g
        <5> QED  BY <4>1
      <4>3. CASE u = u0
        BY <4>2, <4>3
      <4>4. CASE u # u0
        <5>1. g[u] = f[u]
          BY <4>4
        <5>2. f[u] = [base[u] EXCEPT !.deps = {f[d] : d \in Deps[u]}]
          BY <2>1, <3>1, <3>2, <4>4
        <5> HIDE DEF g
        <5> QED  BY <4>2, <5>1, <5>2
      <4> QED  BY <4>3, <4>4
    <3> HIDE DEF Good, g
    <3> QED  BY <3>2
  <2>4. \/ n + 1 > Len(Order) \/ Early(n, Order[n + 1])
        \/ n + 1 <= Len(Order) /\ ~Early(n, Order[n + 1])
    <3> HIDE DEF Early
    <3> QED  BY OrderProperties
  <2> HIDE DEF Upto, Early
  <2> QED  BY <2>2, <2>3, <2>4
<1>3. T = Nat
  <2> HIDE DEF Upto
  <2>1. T \in SUBSET Nat /\ 0 \in T /\ \A n \in T : n + 1 \in T
    BY <1>1, <1>2
  <2> HIDE DEF T
  <2> QED  BY <2>1, NumberInduction
<1>4. Upto(Len(Order))
  <2> HIDE DEF Upto
  <2> QED  BY <1>3, OrderProperties
<1>5. PICK f : \A u \in Units : Early(Len(Order), u) => Good(f, u)
  <2> HIDE DEF Early, Good
  <2> QED  BY <1>4
<1>6. ASSUME NEW u \in Units
      PROVE  Early(Len(Order), u)
  <2>1. PICK i \in 1..Len(Order) : Order[i] = u
    BY OrderProperties
  <2>2. i <= Len(Order)
    BY <2>1, OrderProperties
  <2> QED  BY <2>1, <2>2
<1>7. \A u \in Units : Good(f, u)
  <2> HIDE DEF Good, Early
  <2> QED  BY <1>5, <1>6
<1> DEFINE g == [u \in Units |-> f[u]]
<1>8. ASSUME NEW u \in Units
      PROVE  g[u] = [base[u] EXCEPT !.deps = {g[d] : d \in Deps[u]}]
  <2>1. {g[d] : d \in Deps[u]} = {f[d] : d \in Deps[u]}
    BY OrderProperties
  <2>2. f[u] = [base[u] EXCEPT !.deps = {f[d] : d \in Deps[u]}]
    BY <1>7
  <2>3. g[u] = f[u]
    OBVIOUS
  <2> HIDE DEF g
  <2> QED  BY <2>1, <2>2, <2>3
<1>9. IsTerm(g, base)
  <2>1. g = [u \in Units |-> g[u]]
    OBVIOUS
  <2> HIDE DEF g
  <2> QED  BY <1>8, <2>1 DEF IsTerm
<1> QED  BY <1>9

LEMMA StaticKeysRecursion ==
    ASSUME NEW w
    PROVE  /\ StaticKeys(w) = [u \in Units |-> StaticKeys(w)[u]]
           /\ \A u \in Units : StaticKeys(w)[u] =
                 [unit |-> u, src |-> View(w, Sources[u]),
                  deps |-> {StaticKeys(w)[d] : d \in Deps[u]}]
<1> DEFINE base == [u \in Units |-> [unit |-> u, src |-> View(w, Sources[u]), deps |-> {}]]
           F(f) == [u \in Units |-> [unit |-> u, src |-> View(w, Sources[u]),
                                     deps |-> {f[d] : d \in Deps[u]}]]
<1>1. PICK f : IsTerm(f, base)
  BY TermExists
<1>2. f = F(f)
  BY <1>1 DEF IsTerm
<1>3. StaticKeys(w) = F(StaticKeys(w))
  BY <1>2 DEF StaticKeys
<1>4. \A u \in Units : F(StaticKeys(w))[u] =
         [unit |-> u, src |-> View(w, Sources[u]), deps |-> {StaticKeys(w)[d] : d \in Deps[u]}]
  OBVIOUS
<1>5. F(StaticKeys(w)) = [u \in Units |-> F(StaticKeys(w))[u]]
  OBVIOUS
<1> HIDE DEF F
<1> QED  BY <1>3, <1>4, <1>5

LEMMA IdealRecursion ==
    ASSUME NEW w
    PROVE  /\ Ideal(w) = [u \in Units |-> Ideal(w)[u]]
           /\ \A u \in Units : Ideal(w)[u] =
                 [unit |-> u, view |-> View(w, Sources[u] \cup Opened(u, w)),
                  deps |-> {Ideal(w)[d] : d \in Deps[u]}]
<1> DEFINE base == [u \in Units |->
                       [unit |-> u, view |-> View(w, Sources[u] \cup Opened(u, w)), deps |-> {}]]
           F(f) == [u \in Units |-> [unit |-> u,
                                     view |-> View(w, Sources[u] \cup Opened(u, w)),
                                     deps |-> {f[d] : d \in Deps[u]}]]
<1>1. PICK f : IsTerm(f, base)
  BY TermExists
<1>2. f = F(f)
  BY <1>1 DEF IsTerm
<1>3. Ideal(w) = F(Ideal(w))
  BY <1>2 DEF Ideal
<1>4. \A u \in Units : F(Ideal(w))[u] =
         [unit |-> u, view |-> View(w, Sources[u] \cup Opened(u, w)),
          deps |-> {Ideal(w)[d] : d \in Deps[u]}]
  OBVIOUS
<1>5. F(Ideal(w)) = [u \in Units |-> F(Ideal(w))[u]]
  OBVIOUS
<1> HIDE DEF F
<1> QED  BY <1>3, <1>4, <1>5

LEMMA IdealParts ==
    ASSUME NEW w, NEW u \in Units
    PROVE  /\ Ideal(w)[u].unit = u
           /\ Ideal(w)[u].view = View(w, Sources[u] \cup Opened(u, w))
           /\ Ideal(w)[u] = [unit |-> u, view |-> Ideal(w)[u].view,
                             deps |-> {Ideal(w)[d] : d \in Deps[u]}]
<1> DEFINE view == View(w, Sources[u] \cup Opened(u, w))
           deps == {Ideal(w)[d] : d \in Deps[u]}
           ideal == Ideal(w)[u]
<1>1. ideal = [unit |-> u, view |-> view, deps |-> deps]
  BY IdealRecursion
<1>2. /\ ideal.unit = u /\ ideal.view = view
      /\ ideal = [unit |-> u, view |-> ideal.view, deps |-> deps]
  <2> HIDE DEF view, deps, ideal
  <2> QED  BY <1>1
<1> QED  BY <1>2

LEMMA IdealDeps ==
    ASSUME NEW w, NEW u \in Units, NEW a
    PROVE  a \in Ideal(w)[u].deps <=> \E d \in Deps[u] : a = Ideal(w)[d]
<1> DEFINE deps == {Ideal(w)[d] : d \in Deps[u]}
<1>1. Ideal(w)[u].deps = deps
  <2> DEFINE view == View(w, Sources[u] \cup Opened(u, w))
  <2>1. Ideal(w)[u] = [unit |-> u, view |-> view, deps |-> deps]
    BY IdealRecursion
  <2> HIDE DEF view, deps
  <2> QED  BY <2>1
<1> HIDE DEF deps
<1>2. a \in deps <=> \E d \in Deps[u] : a = Ideal(w)[d]
  BY DEF deps
<1> QED  BY <1>1, <1>2

LEMMA IdealKeysRecursion ==
    ASSUME NEW w
    PROVE  \A u \in Units : IdealKeys(w)[u] =
              FullKey(StaticKeys(w)[u], Shape(u, Opened(u, w)), w,
                      {IdealKeys(w)[d] : d \in Deps[u]})
<1> DEFINE base == [u \in Units |-> [static |-> StaticKeys(w)[u],
                                     content |-> View(w, Shape(u, Opened(u, w))),
                                     deps |-> {}]]
           F(f) == [u \in Units |-> FullKey(StaticKeys(w)[u], Shape(u, Opened(u, w)), w,
                                            {f[d] : d \in Deps[u]})]
<1>1. PICK f : IsTerm(f, base)
  BY TermExists
<1>2. f = F(f)
  BY <1>1 DEF IsTerm, FullKey
<1>3. IdealKeys(w) = F(IdealKeys(w))
  BY <1>2 DEF IdealKeys
<1>4. \A u \in Units : F(IdealKeys(w))[u] =
         FullKey(StaticKeys(w)[u], Shape(u, Opened(u, w)), w,
                 {IdealKeys(w)[d] : d \in Deps[u]})
  OBVIOUS
<1> HIDE DEF F
<1> QED  BY <1>3, <1>4

-----------------------------------------------------------------------------
(* What a full key says. *)

\* harvest_unit leaves nothing out of the manifests it writes.
NothingLeftOut == \A u \in Units : Dropped[u] = {}

\* Two views are equal when they are of the same inputs, with the same contents.
LEMMA ViewEquality ==
    ASSUME NEW v, NEW w, NEW S, NEW R
    PROVE  View(v, S) = View(w, R) <=> S = R /\ \A f \in S : v[f] = w[f]
<1>1. ASSUME View(v, S) = View(w, R)
      PROVE  S = R /\ \A f \in S : v[f] = w[f]
  <2>1. DOMAIN View(v, S) = S /\ DOMAIN View(w, R) = R
    BY DEF View
  <2>2. \A f \in S : View(v, S)[f] = v[f]
    BY DEF View
  <2>3. \A f \in R : View(w, R)[f] = w[f]
    BY DEF View
  <2> QED  BY <1>1, <2>1, <2>2, <2>3
<1>2. ASSUME S = R, \A f \in S : v[f] = w[f]
      PROVE  View(v, S) = View(w, R)
  BY <1>2 DEF View
<1> QED  BY <1>1, <1>2

\* The full keys the dependencies of u ought to have in world w.
IdealDepKeys(w, u) == {IdealKeys(w)[d] : d \in Deps[u]}

\* The dependencies of u have the full keys of v and w only for equal artifacts.
DepsAgree(v, w, u) ==
    \A d \in Deps[u], e \in Units :
        IdealKeys(v)[d] = IdealKeys(w)[e] => Ideal(v)[d] = Ideal(w)[e]

LEMMA IdealKeyIs ==
    ASSUME NothingLeftOut, NEW w, NEW u \in Units
    PROVE  IdealKeys(w)[u] = FullKey(StaticKeys(w)[u], Opened(u, w), w, IdealDepKeys(w, u))
<1>1. Shape(u, Opened(u, w)) = Opened(u, w)
  BY DEF Shape, NothingLeftOut
<1> QED  BY <1>1, IdealKeysRecursion DEF IdealDepKeys

\* The key of u in v with a manifest of the inputs S is the one x ought to have in w.
KeyOf(v, u, S, w, x) ==
    FullKey(StaticKeys(v)[u], S, v, IdealDepKeys(v, u)) = IdealKeys(w)[x]

LEMMA KeyMeans ==
    ASSUME NothingLeftOut,
           NEW v \in Worlds, NEW w \in Worlds, NEW u \in Units, NEW x \in Units, NEW S,
           KeyOf(v, u, S, w, x), DepsAgree(v, w, u)
    PROVE  u = x /\ S = Opened(u, v) /\ Ideal(v)[u] = Ideal(w)[x]
<1>1. IdealKeys(w)[x] = [static |-> StaticKeys(w)[x], content |-> View(w, Opened(x, w)),
                         deps |-> IdealDepKeys(w, x)]
  BY IdealKeyIs DEF FullKey
<1>2. StaticKeys(v)[u] = StaticKeys(w)[x]
  BY <1>1 DEF FullKey, KeyOf
<1>2A. View(v, S) = View(w, Opened(x, w))
  BY <1>1 DEF FullKey, KeyOf
<1>2B. {IdealKeys(v)[d] : d \in Deps[u]} = {IdealKeys(w)[d] : d \in Deps[x]}
  BY <1>1 DEF FullKey, KeyOf, IdealDepKeys
<1>3. u = x /\ View(v, Sources[u]) = View(w, Sources[x])
  <2> DEFINE A == {StaticKeys(v)[d] : d \in Deps[u]}
             B == {StaticKeys(w)[d] : d \in Deps[x]}
  <2>1. StaticKeys(v)[u] = [unit |-> u, src |-> View(v, Sources[u]), deps |-> A]
    BY StaticKeysRecursion
  <2>2. StaticKeys(w)[x] = [unit |-> x, src |-> View(w, Sources[x]), deps |-> B]
    BY StaticKeysRecursion
  <2>3. [unit |-> u, src |-> View(v, Sources[u]), deps |-> A]
           = [unit |-> x, src |-> View(w, Sources[x]), deps |-> B]
    BY <1>2, <2>1, <2>2
  <2> HIDE DEF A, B
  <2> QED  BY <2>3
<1>4. \A f \in Sources[u] \cup Opened(u, w) : v[f] = w[f]
  BY <1>2A, <1>3, ViewEquality
<1>5. Opened(u, v) = Opened(u, w)
  BY <1>4, ReadsAssumption
<1>6. S = Opened(u, v)
  BY <1>2A, <1>3, <1>5, ViewEquality
<1>7. View(v, Sources[u] \cup Opened(u, v)) = View(w, Sources[u] \cup Opened(u, w))
  BY <1>4, <1>5, ViewEquality
<1>8. {Ideal(v)[d] : d \in Deps[u]} = {Ideal(w)[d] : d \in Deps[u]}
  <2>1. Deps[u] \subseteq Units
    BY OrderProperties
  <2>2. ASSUME NEW d \in Deps[u]
        PROVE  \E e \in Deps[u] : Ideal(v)[d] = Ideal(w)[e]
    <3>1. PICK e \in Deps[u] : IdealKeys(v)[d] = IdealKeys(w)[e]
      BY <1>2B, <1>3
    <3> QED  BY <2>1, <3>1 DEF DepsAgree
  <2>3. ASSUME NEW e \in Deps[u]
        PROVE  \E d \in Deps[u] : Ideal(v)[d] = Ideal(w)[e]
    <3>1. PICK d \in Deps[u] : IdealKeys(v)[d] = IdealKeys(w)[e]
      BY <1>2B, <1>3
    <3> QED  BY <2>1, <3>1 DEF DepsAgree
  <2> QED  BY <2>2, <2>3
<1>9. Ideal(v)[u] = Ideal(w)[u]
  <2>1. Ideal(v)[u] = [unit |-> u, view |-> View(v, Sources[u] \cup Opened(u, v)),
                       deps |-> {Ideal(v)[d] : d \in Deps[u]}]
    BY IdealRecursion
  <2>2. Ideal(w)[u] = [unit |-> u, view |-> View(w, Sources[u] \cup Opened(u, w)),
                       deps |-> {Ideal(w)[d] : d \in Deps[u]}]
    BY IdealRecursion
  <2> QED  BY <1>7, <1>8, <2>1, <2>2
<1> QED  BY <1>3, <1>6, <1>9

\* Full keys determine what is compiled: no two compilations of different inputs
\* share one, however deep the inputs they differ in are in the graph.
THEOREM KeysTellArtifacts ==
    ASSUME NothingLeftOut, NEW v \in Worlds, NEW w \in Worlds
    PROVE  \A u, x \in Units :
              IdealKeys(v)[u] = IdealKeys(w)[x] => u = x /\ Ideal(v)[u] = Ideal(w)[x]
<1> DEFINE T == {u \in Units : \A x \in Units :
                    IdealKeys(v)[u] = IdealKeys(w)[x] => u = x /\ Ideal(v)[u] = Ideal(w)[x]}
<1>1. ASSUME NEW u \in Units, Deps[u] \subseteq T
      PROVE  u \in T
  <2> SUFFICES ASSUME NEW x \in Units, IdealKeys(v)[u] = IdealKeys(w)[x]
               PROVE  u = x /\ Ideal(v)[u] = Ideal(w)[x]
    OBVIOUS
  <2>1. KeyOf(v, u, Opened(u, v), w, x)
    BY IdealKeyIs DEF KeyOf
  <2>2. DepsAgree(v, w, u)
    BY <1>1 DEF DepsAgree
  <2> HIDE DEF T
  <2> QED  BY <2>1, <2>2, KeyMeans
<1>2. T = Units
  <2>1. T \in SUBSET Units
    OBVIOUS
  <2> HIDE DEF T
  <2> QED  BY <1>1, <2>1, UnitInduction
<1> QED  BY <1>2

\* And artifacts determine full keys: an artifact names all that it was compiled from.
LEMMA ArtsTellKeys ==
    ASSUME NothingLeftOut, NEW v \in Worlds, NEW w \in Worlds
    PROVE  \A u \in Units : Ideal(v)[u] = Ideal(w)[u] =>
              /\ StaticKeys(v)[u] = StaticKeys(w)[u] /\ IdealKeys(v)[u] = IdealKeys(w)[u]
              /\ Opened(u, v) = Opened(u, w)
              /\ \A d \in Deps[u] : Ideal(v)[d] = Ideal(w)[d]
<1> DEFINE Same(u) == /\ StaticKeys(v)[u] = StaticKeys(w)[u] /\ IdealKeys(v)[u] = IdealKeys(w)[u]
                      /\ Opened(u, v) = Opened(u, w)
                      /\ \A d \in Deps[u] : Ideal(v)[d] = Ideal(w)[d]
           T == {u \in Units : Ideal(v)[u] = Ideal(w)[u] => Same(u)}
<1>1. ASSUME NEW x, NEW u \in Units
      PROVE  /\ Ideal(x)[u].unit = u
             /\ Ideal(x)[u].view = View(x, Sources[u] \cup Opened(u, x))
  BY IdealParts
<1>2. ASSUME NEW u \in Units, Deps[u] \subseteq T, Ideal(v)[u] = Ideal(w)[u]
      PROVE  Same(u)
  <2>1. Deps[u] \subseteq Units
    BY OrderProperties
  <2>2. View(v, Sources[u] \cup Opened(u, v)) = View(w, Sources[u] \cup Opened(u, w))
    BY <1>1, <1>2
  <2>3. \A f \in Sources[u] \cup Opened(u, v) : v[f] = w[f]
    BY <2>2, ViewEquality
  <2>4. Opened(u, v) = Opened(u, w)
    <3>1. Sources[u] \cup Opened(u, v) = Sources[u] \cup Opened(u, w)
      BY <2>2, ViewEquality
    <3> QED  BY <2>3, <3>1, ReadsAssumption
  <2>5. View(v, Sources[u]) = View(w, Sources[u]) /\ View(v, Opened(u, v)) = View(w, Opened(u, w))
    BY <2>3, <2>4, ViewEquality
  <2>6. \A d \in Deps[u] : Ideal(v)[d] = Ideal(w)[d]
    <3> SUFFICES ASSUME NEW d \in Deps[u]
                 PROVE  Ideal(v)[d] = Ideal(w)[d]
      OBVIOUS
    <3>1. Ideal(v)[d] \in Ideal(v)[u].deps /\ Ideal(v)[u].deps = Ideal(w)[u].deps
      BY <1>2, IdealDeps
    <3>2. PICK e \in Deps[u] : Ideal(v)[d] = Ideal(w)[e]
      BY <3>1, IdealDeps
    <3>3. d = e
      <4>1. Ideal(v)[d].unit = d /\ Ideal(w)[e].unit = e
        BY <1>1, <2>1
      <4> QED  BY <3>2, <4>1
    <3> QED  BY <3>2, <3>3
  <2>7. \A d \in Deps[u] : /\ StaticKeys(v)[d] = StaticKeys(w)[d]
                           /\ IdealKeys(v)[d] = IdealKeys(w)[d]
    BY <1>2, <2>6
  <2>8. StaticKeys(v)[u] = StaticKeys(w)[u]
    <3>1. {StaticKeys(v)[d] : d \in Deps[u]} = {StaticKeys(w)[d] : d \in Deps[u]}
      BY <2>7
    <3> QED  BY <2>5, <3>1, StaticKeysRecursion
  <2>9. IdealKeys(v)[u] = IdealKeys(w)[u]
    <3>1. IdealDepKeys(v, u) = IdealDepKeys(w, u)
      BY <2>7 DEF IdealDepKeys
    <3> QED  BY <2>4, <2>5, <2>8, <3>1, IdealKeyIs DEF FullKey
  <2> QED  BY <2>4, <2>6, <2>8, <2>9
<1>3. T = Units
  <2>1. T \in SUBSET Units /\ \A u \in Units : Deps[u] \subseteq T => u \in T
    BY <1>2
  <2> HIDE DEF T
  <2> QED  BY <2>1, UnitInduction
<1> QED  BY <1>3

-----------------------------------------------------------------------------
(* Types. *)

\* TypeOK, with what it needs to be inductive: Store is for the unit at pos, of which
\* there is no bundle yet.
Shapes ==
    /\ TypeOK
    /\ phase = "store" => More /\ ~ContainsUnit(full[Here])
    /\ target = [u \in Units |-> target[u]]
    /\ newer = [u \in Units |-> newer[u]]
    /\ full = [u \in Units |-> full[u]]

LEMMA ShapesInit == Init => Shapes
<1> SUFFICES ASSUME Init PROVE Shapes
  OBVIOUS
<1>1. 1 \in 1..Len(Order) + 1
  BY OrderProperties
<1>2. 0 \in 0..MaxUpsets
  BY BoundProperties
<1>3. TypeOK
  BY <1>1, <1>2 DEF Init, TypeOK
<1>4. /\ target = [u \in Units |-> target[u]]
      /\ newer = [u \in Units |-> newer[u]]
      /\ full = [u \in Units |-> full[u]]
  BY DEF Init
<1> QED  BY <1>3, <1>4 DEF Init, Shapes

LEMMA HereIsUnit == Shapes /\ More => pos \in 1..Len(Order) /\ Here \in Units
  BY OrderProperties DEF Shapes, TypeOK, More, Here

LEMMA PutShapes ==
    ASSUME Shapes, NEW u \in Units, NEW art, Put(u, art)
    PROVE  /\ target' = [v \in Units |-> target'[v]] /\ DOMAIN target' = Units
           /\ newer' = [v \in Units |-> newer'[v]] /\ DOMAIN newer' = Units
           /\ \A v \in Units : newer'[v] \subseteq Inputs \cup Units
           /\ target'[u] = art /\ newer'[u] = {}
           /\ \A v \in Units \ {u} : /\ target'[v] = target[v]
                                     /\ newer'[v] = IF u \in Deps[v] THEN newer[v] \cup {u}
                                                                     ELSE newer[v]
<1> USE DEF Put
<1>1. target' = [v \in Units |-> IF v = u THEN art ELSE target[v]]
  BY DEF Shapes, TypeOK
<1>2. newer' = [v \in Units |-> IF v = u THEN {}
                                ELSE IF u \in Deps[v] THEN newer[v] \cup {u} ELSE newer[v]]
  OBVIOUS
<1>3. \A v \in Units : newer[v] \subseteq Inputs \cup Units
  BY DEF Shapes, TypeOK
<1> HIDE DEF Put
<1>4. target' = [v \in Units |-> target'[v]] /\ DOMAIN target' = Units /\ target'[u] = art
  BY <1>1
<1>5. \A v \in Units \ {u} : target'[v] = target[v]
  BY <1>1
<1>6. newer' = [v \in Units |-> newer'[v]] /\ DOMAIN newer' = Units /\ newer'[u] = {}
  BY <1>2
<1>7. \A v \in Units \ {u} : newer'[v] = IF u \in Deps[v] THEN newer[v] \cup {u} ELSE newer[v]
  BY <1>2
<1>8. \A v \in Units : newer'[v] \subseteq Inputs \cup Units
  BY <1>2, <1>3
<1> QED  BY <1>4, <1>5, <1>6, <1>7, <1>8

\* A restore that breaks off leaves the other units alone, but for the dependents'
\* mtimes.
LEMMA TearShapes ==
    ASSUME Shapes, NEW u \in Units, NEW art, Tear(u, art)
    PROVE  /\ target' = [v \in Units |-> target'[v]] /\ DOMAIN target' = Units
           /\ newer' = [v \in Units |-> newer'[v]] /\ DOMAIN newer' = Units
           /\ \A v \in Units : newer'[v] \subseteq Inputs \cup Units
           /\ \A v \in Units \ {u} : /\ target'[v] = target[v] /\ newer[v] \subseteq newer'[v]
                                     /\ u \notin Deps[v] => newer'[v] = newer[v]
           /\ \/ target'[u] = NoArt
              \/ target'[u] = Torn(art)
              \/ target[u] # NoArt /\ target'[u] = Torn(target[u]) /\ newer'[u] = newer[u]
<1>1. PICK mark \in SUBSET {v \in Units : u \in Deps[v]} :
        \/ /\ target' = [target EXCEPT ![u] = NoArt]
           /\ newer' = [v \in Units |-> newer[v] \cup IF v \in mark THEN {u} ELSE {}]
        \/ /\ target' = [target EXCEPT ![u] = Torn(art)]
           /\ newer' = [v \in Units |-> IF v = u THEN {}
                                        ELSE newer[v] \cup IF v \in mark THEN {u} ELSE {}]
        \/ /\ target[u] # NoArt
           /\ target' = [target EXCEPT ![u] = Torn(target[u])]
           /\ newer' = [v \in Units |-> newer[v] \cup IF v \in mark THEN {u} ELSE {}]
  BY DEF Tear
<1>2. u \notin mark /\ \A v \in Units : u \notin Deps[v] => v \notin mark
  BY OrderProperties
<1>3. /\ target = [v \in Units |-> target[v]] /\ DOMAIN target = Units
      /\ \A v \in Units : newer[v] \subseteq Inputs \cup Units
  BY DEF Shapes, TypeOK
<1> DEFINE Marked(v) == newer[v] \cup IF v \in mark THEN {u} ELSE {}
<1>4. /\ \A v \in Units : Marked(v) \subseteq Inputs \cup Units /\ newer[v] \subseteq Marked(v)
      /\ \A v \in Units : v \notin mark => Marked(v) = newer[v]
  BY <1>3
<1>5. \/ newer' = [v \in Units |-> Marked(v)]
      \/ newer' = [v \in Units |-> IF v = u THEN {} ELSE Marked(v)]
  BY <1>1
<1>6. target[u] # NoArt /\ target' = [target EXCEPT ![u] = Torn(target[u])]
         /\ newer' = [v \in Units |-> Marked(v)] => newer'[u] = newer[u]
  <2> HIDE DEF Marked
  <2> QED  BY <1>2, <1>4
<1>7. /\ newer' = [v \in Units |-> newer'[v]] /\ DOMAIN newer' = Units
      /\ \A v \in Units : newer'[v] \subseteq Inputs \cup Units
      /\ \A v \in Units \ {u} : /\ newer[v] \subseteq newer'[v]
                                /\ u \notin Deps[v] => newer'[v] = newer[v]
  <2> HIDE DEF Marked
  <2> QED  BY <1>2, <1>4, <1>5
<1>8. /\ target' = [v \in Units |-> target'[v]] /\ DOMAIN target' = Units
      /\ \A v \in Units \ {u} : target'[v] = target[v]
  BY <1>1, <1>3
<1>9. \/ target'[u] = NoArt
      \/ target'[u] = Torn(art)
      \/ target[u] # NoArt /\ target'[u] = Torn(target[u]) /\ newer'[u] = newer[u]
  BY <1>1, <1>3, <1>6
<1> QED  BY <1>7, <1>8, <1>9

\* Under the key of the unit at pos there was no bundle: one is added.
LEMMA StoreShapes ==
    ASSUME Shapes, Store
    PROVE  \A e, f \in bundles' : e.key = f.key => e.art = f.art
<1> DEFINE new == [key |-> full[Here], art |-> target[Here]]
<1>1. bundles' = bundles \cup {new} /\ \A e \in bundles : e.key # full[Here]
  BY DEF Store, Shapes, ContainsUnit
<1>2. \A e, f \in bundles : e.key = f.key => e.art = f.art
  BY DEF Shapes, TypeOK
<1>3. new.key = full[Here]
  OBVIOUS
<1> HIDE DEF new
<1> QED  BY <1>1, <1>2, <1>3

LEMMA ResetShapes ==
    ASSUME Reset
    PROVE  /\ phase' = "idle" /\ pos' \in 1..Len(Order) + 1
           /\ DOMAIN full' = Units /\ full' = [u \in Units |-> full'[u]]
           /\ \A u \in Units : full'[u] = NoKey
  BY OrderProperties DEF Reset

LEMMA ShapesStep == Shapes /\ [Next]_vars => Shapes'
<1> SUFFICES ASSUME Shapes, [Next]_vars
             PROVE  Shapes'
  OBVIOUS
<1> USE DEF Shapes, TypeOK, More, cache, run
<1>1. CASE Start
  BY <1>1, OrderProperties DEF Start
<1>2. CASE Hit
  <2>1. Here \in Units /\ pos + 1 \in 1..Len(Order) + 1
    BY <1>2, HereIsUnit, OrderProperties DEF Hit
  <2>2. PICK e \in bundles : full' = [full EXCEPT ![Here] = e.key] /\ Put(Here, e.art)
    BY <1>2 DEF Hit
  <2>3. /\ target' = [v \in Units |-> target'[v]] /\ DOMAIN target' = Units
        /\ newer' = [v \in Units |-> newer'[v]] /\ DOMAIN newer' = Units
        /\ \A v \in Units : newer'[v] \subseteq Inputs \cup Units
    BY <2>1, <2>2, PutShapes
  <2>4. DOMAIN full' = Units /\ full' = [v \in Units |-> full'[v]]
    BY <2>1, <2>2
  <2> QED  BY <1>2, <2>1, <2>3, <2>4 DEF Hit
<1>3. CASE Miss
  BY <1>3, OrderProperties DEF Miss
<1>4. CASE EndLookup
  <2>1. CASE Succeed
    BY <1>4, <2>1, ResetShapes DEF EndLookup, Succeed
  <2>2. CASE phase' = "build" /\ pos' = 1 /\ UNCHANGED <<statics, full, fresh, built>>
    BY <1>4, <2>2, OrderProperties DEF EndLookup
  <2> QED  BY <1>4, <2>1, <2>2 DEF EndLookup
<1>5. CASE BuildUnit
  <2>1. Here \in Units /\ pos + 1 \in 1..Len(Order) + 1
    BY <1>5, HereIsUnit, OrderProperties DEF BuildUnit
  <2>2. CASE Put(Here, Compile(Here, world, target))
    <3>1. /\ target' = [v \in Units |-> target'[v]] /\ DOMAIN target' = Units
          /\ newer' = [v \in Units |-> newer'[v]] /\ DOMAIN newer' = Units
          /\ \A v \in Units : newer'[v] \subseteq Inputs \cup Units
      BY <2>1, <2>2, PutShapes
    <3> QED  BY <1>5, <2>1, <3>1 DEF BuildUnit
  <2>3. CASE UNCHANGED <<target, newer>>
    BY <1>5, <2>1, <2>3 DEF BuildUnit
  <2> QED  BY <1>5, <2>2, <2>3 DEF BuildUnit
<1>6. CASE EndBuild
  BY <1>6, OrderProperties DEF EndBuild
<1>7. CASE PassOver
  BY <1>7, OrderProperties DEF PassOver
<1>8. CASE Harvest
  <2>1. Here \in Units /\ pos + 1 \in 1..Len(Order) + 1
    BY <1>8, HereIsUnit, OrderProperties DEF Harvest
  <2>2. DOMAIN full' = Units /\ full' = [v \in Units |-> full'[v]]
    BY <1>8, <2>1 DEF Harvest
  <2>3. \/ pos' = pos + 1 /\ phase' = "harvest"
        \/ pos' = pos /\ phase' = "store"
    BY <1>8 DEF Harvest
  <2>4. phase' = "store" => ~ContainsUnit(full[Here])'
    BY <1>8, <2>1 DEF Harvest, ContainsUnit, Here
  <2> QED  BY <1>8, <2>1, <2>2, <2>3, <2>4 DEF Harvest
<1>9. CASE Store
  <2>1. \A e, f \in bundles' : e.key = f.key => e.art = f.art
    BY <1>9, StoreShapes
  <2>2. pos' \in 1..Len(Order) + 1 /\ phase' = "harvest"
    BY <1>9, OrderProperties DEF Store
  <2> QED  BY <1>9, <2>1, <2>2 DEF Store
<1>10. CASE EndHarvest
  BY <1>10, ResetShapes DEF EndHarvest, Succeed
<1>11. CASE Crash
  <2>1. upsets' \in 0..MaxUpsets
    BY <1>11, BoundProperties DEF Crash
  <2> QED  BY <1>11, <2>1, ResetShapes DEF Crash
<1>12. ASSUME NEW f \in Inputs, NEW c \in Contents, Edit(f, c)
       PROVE  Shapes'
  <2>1. world' \in Worlds
    BY <1>12 DEF Edit, Worlds
  <2>2. newer' = [u \in Units |-> newer'[u]] /\ DOMAIN newer' = Units
    BY <1>12 DEF Edit
  <2>3. \A u \in Units : newer'[u] \subseteq Inputs \cup Units
    BY <1>12 DEF Edit
  <2>4. upsets' \in 0..MaxUpsets
    BY <1>12, BoundProperties DEF Edit
  <2>5. phase' = "store" => ~ContainsUnit(full[Here])'
    BY <1>12 DEF Edit, ContainsUnit, Here
  <2> QED  BY <1>12, <2>1, <2>2, <2>3, <2>4, <2>5 DEF Edit
<1>13. CASE Clean
  <2>1. upsets' \in 0..MaxUpsets
    BY <1>13, BoundProperties DEF Clean
  <2>2. /\ target' = [u \in Units |-> target'[u]] /\ DOMAIN target' = Units
        /\ newer' = [u \in Units |-> newer'[u]] /\ DOMAIN newer' = Units
        /\ \A u \in Units : newer'[u] \subseteq Inputs \cup Units
    BY <1>13 DEF Clean
  <2> QED  BY <1>13, <2>1, <2>2 DEF Clean
<1>14. CASE UNCHANGED vars
  BY <1>14 DEF vars, ContainsUnit, Here
<1>15. CASE CrashRestoring
  <2>1. PICK e \in bundles : Tear(Here, e.art)
    BY <1>15 DEF CrashRestoring
  <2>2. Here \in Units
    BY <1>15, HereIsUnit DEF CrashRestoring
  <2>3. /\ target' = [v \in Units |-> target'[v]] /\ DOMAIN target' = Units
        /\ newer' = [v \in Units |-> newer'[v]] /\ DOMAIN newer' = Units
        /\ \A v \in Units : newer'[v] \subseteq Inputs \cup Units
    BY <2>1, <2>2, TearShapes
  <2>4. upsets' \in 0..MaxUpsets
    BY <1>15, BoundProperties DEF CrashRestoring
  <2> QED  BY <1>15, <2>3, <2>4, ResetShapes DEF CrashRestoring
<1> QED  BY <1>1, <1>2, <1>3, <1>4, <1>5, <1>6, <1>7, <1>8, <1>9, <1>10, <1>11, <1>12,
            <1>13, <1>14, <1>15 DEF Next, Progress

LEMMA ShapesInvariant == Spec => []Shapes
  BY ShapesInit, ShapesStep, PTL DEF Spec

\* A key names one bundle, and positions stay within the order of the units, whatever
\* is edited, killed or cleaned, and whenever.
THEOREM TypeCorrect == Spec => []TypeOK
<1>1. Shapes => TypeOK
  BY DEF Shapes
<1> QED  BY <1>1, ShapesInvariant, PTL

-----------------------------------------------------------------------------
(* Correctness of the artifacts, when nobody edits while a build runs. *)

\* target[u] was compiled in some world.
Compiled(u) ==
    \E w \in Worlds :
        target[u] = [unit |-> u, view |-> View(w, Sources[u] \cup Opened(u, w)),
                     deps |-> target[u].deps]

\* target[u] is a compilation, or some files of one and some of another.
Whole(u) == target[u] # NoArt /\ NoArt \notin target[u].deps
Mixed(u) == target[u] # NoArt /\ NoArt \in target[u].deps

\* The mtimes tell what has changed since target[u] was put: the other inputs
\* hold what it was compiled from, and if no dependency was put after it, it
\* was compiled with those that are there.
MtimesTell ==
    \A u \in Units : target[u] # NoArt =>
        /\ Compiled(u)
        /\ \A f \in DOMAIN target[u].view \ newer[u] : target[u].view[f] = world[f]
        /\ newer[u] \cap Deps[u] = {} /\ (\A d \in Deps[u] \cup {u} : Whole(d)) =>
              target[u].deps = {target[d] : d \in Deps[u]}

\* What phase 1 goes by, in world w.
Recorded(u, w) == \E m \in dyn : m[1] = StaticKeys(w)[u] /\ m[2] = Opened(u, w)
Stored(u, w) == ContainsUnit(IdealKeys(w)[u])

\* It finds u and all that u depends on.
Found(u, w) ==
    \E S \in SUBSET Units : u \in S /\ \A x \in S : /\ Deps[x] \subseteq S
                                                    /\ Recorded(x, w) /\ Stored(x, w)

\* The mtimes do not tell that the files of u are mixed.  But then u was being
\* restored, in the world that those of its dependencies are from, and will be again.
MixedFound ==
    \A u \in Units : Mixed(u) /\ ~Dirty(u) /\ (\A d \in Deps[u] : Whole(d)) =>
        \E w \in Worlds : /\ target[u].view = Ideal(w)[u].view
                          /\ \A d \in Deps[u] : target[d] = Ideal(w)[d]
                          /\ Found(u, w)

\* A full key is known only of a unit whose artifact in target/ is that of the
\* current inputs.
KnownFull ==
    \A u \in Units : full[u] # NoKey =>
        /\ phase # "idle"
        /\ full[u] = IdealKeys(world)[u]
        /\ target[u] = Ideal(world)[u]

\* Phase 1 takes what it finds, and finds all that is to be found.
LookupInv ==
    /\ phase \in {"lookup", "build"} => \A u \in Units : full[u] # NoKey =>
          Recorded(u, world) /\ Stored(u, world) /\ NoKey \notin DepKeys(u)
    /\ phase = "lookup" => \A i \in 1..(pos - 1) : Found(Order[i], world) => full[Order[i]] # NoKey
    /\ phase = "build" => \A u \in Units : Found(u, world) => full[u] # NoKey

\* What each phase has achieved so far.
PhaseInv ==
    /\ phase # "idle" => statics = StaticKeys(world)
    /\ phase = "build" =>
          \A i \in 1..(pos - 1) : target[Order[i]] = Ideal(world)[Order[i]]
    /\ phase \in {"harvest", "store"} => target = Ideal(world)
    /\ phase = "store" => full[Here] = IdealKeys(world)[Here]

BuildInv ==
    /\ Shapes /\ MtimesTell /\ MixedFound /\ KnownFull /\ LookupInv /\ PhaseInv
    /\ CacheSound /\ RunCorrect

\* The dependencies of u in target/ are those of the current inputs.
DepsCurrent(u) == \A d \in Deps[u] : target[d] = Ideal(world)[d]

LEMMA BuildInit == Init => BuildInv
  BY ShapesInit DEF Init, BuildInv, MtimesTell, MixedFound, Mixed, KnownFull, LookupInv, PhaseInv,
                    CacheSound, RunCorrect

LEMMA CompileCurrent ==
    ASSUME NEW u \in Units, DepsCurrent(u)
    PROVE  Compile(u, world, target) = Ideal(world)[u]
<1>1. {target[d] : d \in Deps[u]} = {Ideal(world)[d] : d \in Deps[u]}
  BY DEF DepsCurrent
<1>2. Ideal(world)[u] = [unit |-> u, view |-> View(world, Sources[u] \cup Opened(u, world)),
                         deps |-> {Ideal(world)[d] : d \in Deps[u]}]
  BY IdealRecursion
<1> QED  BY <1>1, <1>2 DEF Compile

LEMMA IdealWhole ==
    ASSUME NEW w \in Worlds, NEW u \in Units
    PROVE  Ideal(w)[u] # NoArt /\ NoArt \notin Ideal(w)[u].deps
<1>1. \A a : a \in Ideal(w)[u].deps => \E d \in Deps[u] : a = Ideal(w)[d]
  BY IdealDeps
<1> QED  BY <1>1, NoArtAssumption, OrderProperties

LEMMA DepsWhole ==
    ASSUME Shapes, NEW u \in Units, DepsCurrent(u)
    PROVE  \A d \in Deps[u] : Whole(d)
<1>1. world \in Worlds
  BY DEF Shapes, TypeOK
<1> QED  BY <1>1, IdealWhole, OrderProperties DEF DepsCurrent, Whole

\* What was to be found when the dependencies of u were what they are now is to be found
\* now.
LEMMA FoundSame ==
    ASSUME NothingLeftOut, NEW v \in Worlds, NEW w \in Worlds, NEW u \in Units,
           Ideal(v)[u] = Ideal(w)[u], Found(u, w)
    PROVE  Found(u, v)
<1>1. PICK S \in SUBSET Units : u \in S /\ \A x \in S : /\ Deps[x] \subseteq S
                                                        /\ Recorded(x, w) /\ Stored(x, w)
  BY DEF Found
<1> DEFINE R == {x \in S : Ideal(v)[x] = Ideal(w)[x]}
<1>2. R \in SUBSET Units /\ u \in R
  BY <1>1
<1>3. ASSUME NEW x \in R
      PROVE  Deps[x] \subseteq R /\ Recorded(x, v) /\ Stored(x, v)
  <2>1. /\ StaticKeys(v)[x] = StaticKeys(w)[x] /\ IdealKeys(v)[x] = IdealKeys(w)[x]
        /\ Opened(x, v) = Opened(x, w) /\ \A d \in Deps[x] : Ideal(v)[d] = Ideal(w)[d]
    BY ArtsTellKeys
  <2>2. Deps[x] \subseteq S /\ Recorded(x, w) /\ Stored(x, w)
    BY <1>1
  <2> QED  BY <2>1, <2>2 DEF Recorded, Stored
<1> HIDE DEF R
<1> QED  BY <1>2, <1>3 DEF Found

\* If no input changed since target[u] was put, it was compiled from the current ones.
LEMMA ViewCurrent ==
    ASSUME Shapes, MtimesTell, NEW u \in Units, target[u] # NoArt,
           newer[u] \cap DOMAIN target[u].view = {}
    PROVE  /\ target[u].view = Ideal(world)[u].view
           /\ target[u] = [unit |-> u, view |-> target[u].view, deps |-> target[u].deps]
<1>1. PICK w \in Worlds :
         target[u] = [unit |-> u, view |-> View(w, Sources[u] \cup Opened(u, w)),
                      deps |-> target[u].deps]
  BY DEF MtimesTell, Compiled
<1>2. target[u].view = View(w, Sources[u] \cup Opened(u, w))
  BY <1>1
<1>3. DOMAIN target[u].view = Sources[u] \cup Opened(u, w)
  BY <1>2 DEF View
<1>4. \A f \in Sources[u] \cup Opened(u, w) : w[f] = world[f]
  <2>1. \A f \in DOMAIN target[u].view : target[u].view[f] = world[f]
    BY DEF MtimesTell
  <2> QED  BY <1>2, <1>3, <2>1 DEF View
<1>5. Opened(u, world) = Opened(u, w)
  <2>1. world \in Worlds
    BY DEF Shapes, TypeOK
  <2> QED  BY <1>4, <2>1, ReadsAssumption
<1>6. View(w, Sources[u] \cup Opened(u, w)) = View(world, Sources[u] \cup Opened(u, world))
  BY <1>4, <1>5, ViewEquality
<1>7. Ideal(world)[u].view = View(world, Sources[u] \cup Opened(u, world))
  BY IdealParts
<1> QED  BY <1>1, <1>2, <1>6, <1>7

\* cargo's mtime check leaves no stale artifact alone.
LEMMA NotDirtyCurrent ==
    ASSUME Shapes, MtimesTell, NEW u \in Units, DepsCurrent(u), ~Dirty(u), ~Mixed(u)
    PROVE  target[u] = Ideal(world)[u]
<1>1. /\ target[u] # NoArt
      /\ newer[u] \cap (DOMAIN target[u].view \cup Deps[u]) = {}
  BY DEF Dirty
<1>2. /\ target[u].view = Ideal(world)[u].view
      /\ target[u] = [unit |-> u, view |-> target[u].view, deps |-> target[u].deps]
  BY <1>1, ViewCurrent
<1>3. target[u].deps = {Ideal(world)[d] : d \in Deps[u]}
  <2>1. \A d \in Deps[u] \cup {u} : Whole(d)
    BY <1>1, DepsWhole DEF Whole, Mixed
  <2>2. target[u].deps = {target[d] : d \in Deps[u]}
    BY <1>1, <2>1 DEF MtimesTell
  <2> QED  BY <2>2 DEF DepsCurrent
<1>4. Ideal(world)[u] = [unit |-> u, view |-> Ideal(world)[u].view,
                         deps |-> {Ideal(world)[d] : d \in Deps[u]}]
  BY IdealParts
<1> QED  BY <1>2, <1>3, <1>4

\* Mixed files that it would leave alone are those of a unit that phase 1 finds.
LEMMA MixedNow ==
    ASSUME NothingLeftOut, Shapes, MtimesTell, MixedFound, NEW u \in Units, DepsCurrent(u),
           ~Dirty(u), Mixed(u)
    PROVE  Found(u, world)
<1>1. world \in Worlds /\ target[u] # NoArt
      /\ newer[u] \cap (DOMAIN target[u].view \cup Deps[u]) = {}
  BY DEF Shapes, TypeOK, Dirty
<1>2. PICK w \in Worlds : /\ target[u].view = Ideal(w)[u].view
                          /\ \A d \in Deps[u] : target[d] = Ideal(w)[d]
                          /\ Found(u, w)
  BY DepsWhole DEF MixedFound
<1>3. target[u].view = Ideal(world)[u].view
  BY <1>1, ViewCurrent
<1>4. {Ideal(world)[d] : d \in Deps[u]} = {Ideal(w)[d] : d \in Deps[u]}
  BY <1>2 DEF DepsCurrent
<1>5. Ideal(world)[u] = Ideal(w)[u]
  <2>1. ASSUME NEW x \in Worlds
        PROVE  Ideal(x)[u] = [unit |-> u, view |-> Ideal(x)[u].view,
                              deps |-> {Ideal(x)[d] : d \in Deps[u]}]
    BY IdealParts
  <2> QED  BY <1>1, <1>2, <1>3, <1>4, <2>1
<1> QED  BY <1>1, <1>2, <1>5, FoundSame

LEMMA PutCurrent ==
    ASSUME Shapes, MtimesTell, NEW u \in Units, DepsCurrent(u),
           Put(u, Ideal(world)[u]), world' = world
    PROVE  /\ MtimesTell'
           /\ target'[u] = Ideal(world)[u]
           /\ \A v \in Units : target[v] = Ideal(world)[v] => target'[v] = Ideal(world)[v]
<1> DEFINE art == Ideal(world)[u]
<1>1. /\ target'[u] = art /\ newer'[u] = {}
      /\ \A v \in Units \ {u} : /\ target'[v] = target[v]
                                /\ newer'[v] = IF u \in Deps[v] THEN newer[v] \cup {u}
                                                                ELSE newer[v]
  BY PutShapes
<1>2. u \notin Deps[u]
  BY OrderProperties
<1>3. world \in Worlds
  BY DEF Shapes, TypeOK
<1>4. art = [unit |-> u, view |-> View(world, Sources[u] \cup Opened(u, world)),
             deps |-> {Ideal(world)[d] : d \in Deps[u]}]
  BY IdealRecursion
<1> HIDE DEF art
<1>5. ASSUME NEW v \in Units, target'[v] # NoArt
      PROVE  /\ Compiled(v)'
             /\ \A f \in DOMAIN target'[v].view \ newer'[v] : target'[v].view[f] = world'[f]
             /\ newer'[v] \cap Deps[v] = {} /\ (\A d \in Deps[v] \cup {v} : Whole(d)') =>
                   target'[v].deps = {target'[d] : d \in Deps[v]}
  <2>1. CASE v = u
    <3>1. target'[u] = [unit |-> u, view |-> View(world, Sources[u] \cup Opened(u, world)),
                        deps |-> target'[u].deps]
      BY <1>1, <1>4
    <3>2. Compiled(u)'
      BY <1>3, <3>1 DEF Compiled
    <3>3. target'[u].view = View(world, Sources[u] \cup Opened(u, world))
      BY <1>1, <1>4
    <3>4. \A f \in DOMAIN target'[u].view : target'[u].view[f] = world'[f]
      BY <3>3 DEF View
    <3>5. \A d \in Deps[u] : target'[d] = Ideal(world)[d]
      BY <1>1, <1>2, OrderProperties DEF DepsCurrent
    <3>6. target'[u].deps = {target'[d] : d \in Deps[u]}
      BY <1>1, <1>4, <3>5
    <3> QED  BY <2>1, <3>2, <3>4, <3>6
  <2>2. CASE v # u
    <3>1. target'[v] = target[v] /\ newer[v] \subseteq newer'[v] /\ target[v] # NoArt
      BY <1>1, <1>5, <2>2
    <3>2. Compiled(v)'
      BY <3>1 DEF MtimesTell, Compiled
    <3>3. \A f \in DOMAIN target'[v].view \ newer'[v] : target'[v].view[f] = world'[f]
      BY <3>1 DEF MtimesTell
    <3>4. ASSUME newer'[v] \cap Deps[v] = {}, \A d \in Deps[v] \cup {v} : Whole(d)'
          PROVE  target'[v].deps = {target'[d] : d \in Deps[v]}
      <4>1. u \notin Deps[v]
        BY <1>1, <2>2, <3>4
      <4>2. newer[v] \cap Deps[v] = {}
        BY <3>1, <3>4
      <4>4. \A d \in Deps[v] : target'[d] = target[d]
        BY <1>1, <4>1, OrderProperties
      <4>3. target[v].deps = {target[d] : d \in Deps[v]}
        <5>1. \A d \in Deps[v] \cup {v} : Whole(d)
          BY <3>1, <3>4, <4>4 DEF Whole
        <5> QED  BY <3>1, <4>2, <5>1 DEF MtimesTell
      <4> QED  BY <3>1, <4>3, <4>4
    <3> QED  BY <3>2, <3>3, <3>4
  <2> QED  BY <2>1, <2>2
<1>6. MtimesTell'
  BY <1>5 DEF MtimesTell
<1>7. \A v \in Units : target[v] = Ideal(world)[v] => target'[v] = Ideal(world)[v]
  BY <1>1 DEF art
<1> QED  BY <1>1, <1>6, <1>7 DEF art

\* What phase 1 restores of u is what a clean build of the current inputs has.
LEMMA HitCurrent ==
    ASSUME NothingLeftOut, Shapes, KnownFull, PhaseInv, CacheSound, phase = "lookup",
           NEW u \in Units, NEW e \in bundles, e.key \in Candidates(u)
    PROVE  /\ DepsCurrent(u)
           /\ e.key = IdealKeys(world)[u]
           /\ e.art = Ideal(world)[u]
           /\ \E m \in dyn : m[1] = StaticKeys(world)[u] /\ m[2] = Opened(u, world)
<1>1. \A d \in Deps[u] : full[d] = IdealKeys(world)[d] /\ target[d] = Ideal(world)[d]
  BY OrderProperties DEF Candidates, DepKeys, KnownFull
<1>2. DepKeys(u) = IdealDepKeys(world, u)
  BY <1>1 DEF DepKeys, IdealDepKeys
<1>3. PICK m \in dyn : /\ m[1] = StaticKeys(world)[u]
                       /\ e.key = FullKey(StaticKeys(world)[u], m[2], world,
                                          IdealDepKeys(world, u))
  BY <1>2 DEF Candidates, PhaseInv
<1>4. PICK w \in Worlds, x \in Units : e = [key |-> IdealKeys(w)[x], art |-> Ideal(w)[x]]
  BY DEF CacheSound, SoundBundles
<1>5. world \in Worlds
  BY DEF Shapes, TypeOK
<1>6. DepsAgree(world, w, u)
  BY <1>5, KeysTellArtifacts, OrderProperties DEF DepsAgree
<1>7. KeyOf(world, u, m[2], w, x)
  BY <1>3, <1>4 DEF KeyOf
<1>8. u = x /\ m[2] = Opened(u, world) /\ Ideal(world)[u] = Ideal(w)[x]
  BY <1>5, <1>6, <1>7, KeyMeans
<1>9. e.key = IdealKeys(world)[u]
  BY <1>3, <1>8, IdealKeyIs
<1>10. DepsCurrent(u)
  BY <1>1 DEF DepsCurrent
<1> QED  BY <1>3, <1>4, <1>8, <1>9, <1>10

LEMMA AllCurrent ==
    ASSUME NEW t, NEW w, t = [u \in Units |-> t[u]], \A u \in Units : t[u] = Ideal(w)[u]
    PROVE  t = Ideal(w)
<1>1. Ideal(w) = [u \in Units |-> Ideal(w)[u]]
  BY IdealRecursion
<1>2. [u \in Units |-> t[u]] = [u \in Units |-> Ideal(w)[u]]
  OBVIOUS
<1> QED  BY <1>1, <1>2

\* Phase 3 computes the key the unit ought to have.
LEMMA HarvestedKey ==
    ASSUME NothingLeftOut, BuildInv, phase = "harvest", NEW u \in Units,
           NoKey \notin DepKeys(u)
    PROVE  /\ HarvestShape(u) = Opened(u, world)
           /\ FullKey(statics[u], HarvestShape(u), world, DepKeys(u)) = IdealKeys(world)[u]
<1>1. target[u] = [unit |-> u, view |-> View(world, Sources[u] \cup Opened(u, world)),
                   deps |-> {Ideal(world)[d] : d \in Deps[u]}]
  BY IdealRecursion DEF BuildInv, PhaseInv
<1>2. DOMAIN target[u].view = Sources[u] \cup Opened(u, world)
  BY <1>1 DEF View
<1>3. Opened(u, world) \cap Sources[u] = {}
  BY GraphAssumption DEF BuildInv, Shapes, TypeOK
<1>4. HarvestShape(u) = Opened(u, world)
  BY <1>2, <1>3 DEF HarvestShape, Shape, NothingLeftOut
<1>5. \A d \in Deps[u] : full[d] = IdealKeys(world)[d]
  BY OrderProperties DEF DepKeys, BuildInv, KnownFull
<1>6. DepKeys(u) = IdealDepKeys(world, u)
  BY <1>5 DEF DepKeys, IdealDepKeys
<1>7. statics[u] = StaticKeys(world)[u]
  BY DEF BuildInv, PhaseInv
<1> QED  BY <1>4, <1>6, <1>7, IdealKeyIs

\* Phase 2 has built the dependencies of the unit at pos.
LEMMA BuiltBefore ==
    ASSUME Shapes, PhaseInv, phase = "build", More
    PROVE  DepsCurrent(Here)
<1>1. Here \in Units /\ pos \in 1..Len(Order)
  BY HereIsUnit
<1> SUFFICES ASSUME NEW d \in Deps[Here]
             PROVE  target[d] = Ideal(world)[d]
  BY DEF DepsCurrent
<1>2. PICK j \in 1..Len(Order) : Order[j] = d
  BY <1>1, OrderProperties
<1>3. j \in 1..(pos - 1)
  BY <1>1, <1>2, OrderProperties DEF Here
<1> QED  BY <1>2, <1>3 DEF PhaseInv

LEMMA TargetKept ==
    ASSUME BuildInv, UNCHANGED <<world, target, newer>>
    PROVE  MtimesTell'
<1>1. MtimesTell
  BY DEF BuildInv
<1> QED  BY <1>1 DEF MtimesTell, Compiled, Whole

LEMMA CacheGrows ==
    ASSUME dyn \subseteq dyn', bundles \subseteq bundles', NEW u, NEW w
    PROVE  (Recorded(u, w) => Recorded(u, w)') /\ (Stored(u, w) => Stored(u, w)')
  BY DEF Recorded, Stored, ContainsUnit

LEMMA FoundGrows ==
    ASSUME dyn \subseteq dyn', bundles \subseteq bundles'
    PROVE  \A u, w : Found(u, w) => Found(u, w)'
<1> SUFFICES ASSUME NEW u, NEW w, Found(u, w)
             PROVE  Found(u, w)'
  OBVIOUS
<1>1. PICK S \in SUBSET Units : u \in S /\ \A x \in S : /\ Deps[x] \subseteq S
                                                        /\ Recorded(x, w) /\ Stored(x, w)
  BY DEF Found
<1>2. \A x \in S : Recorded(x, w)' /\ Stored(x, w)'
  BY <1>1, CacheGrows
<1> QED  BY <1>1, <1>2 DEF Found

\* Most steps touch nothing in target/.
LEMMA MixedKept ==
    ASSUME MixedFound, dyn \subseteq dyn', bundles \subseteq bundles', target' = target,
           \A u \in Units : newer[u] \subseteq newer'[u]
    PROVE  MixedFound'
<1> SUFFICES ASSUME NEW u \in Units, Mixed(u)', ~Dirty(u)', \A d \in Deps[u] : Whole(d)'
             PROVE  \E w \in Worlds : /\ target'[u].view = Ideal(w)[u].view
                                      /\ \A d \in Deps[u] : target'[d] = Ideal(w)[d]
                                      /\ Found(u, w)'
  BY DEF MixedFound
<1>1. Mixed(u) /\ ~Dirty(u) /\ \A d \in Deps[u] : Whole(d)
  BY DEF Mixed, Dirty, Whole
<1>2. PICK w \in Worlds : /\ target[u].view = Ideal(w)[u].view
                          /\ \A d \in Deps[u] : target[d] = Ideal(w)[d]
                          /\ Found(u, w)
  BY <1>1 DEF MixedFound
<1>3. Found(u, w)'
  BY <1>2, FoundGrows
<1> QED  BY <1>2, <1>3

\* What is put makes its dependents dirty.
LEMMA MixedPut ==
    ASSUME Shapes, MixedFound, NEW x \in Units, NEW art, Put(x, art), NoArt \notin art.deps,
           UNCHANGED <<dyn, bundles>>
    PROVE  MixedFound'
<1> SUFFICES ASSUME NEW u \in Units, Mixed(u)', ~Dirty(u)', \A d \in Deps[u] : Whole(d)'
             PROVE  \E w \in Worlds : /\ target'[u].view = Ideal(w)[u].view
                                      /\ \A d \in Deps[u] : target'[d] = Ideal(w)[d]
                                      /\ Found(u, w)'
  BY DEF MixedFound
<1>1. /\ target'[x] = art
      /\ \A v \in Units \ {x} : /\ target'[v] = target[v]
                                /\ newer'[v] = IF x \in Deps[v] THEN newer[v] \cup {x}
                                                                ELSE newer[v]
  BY PutShapes
<1>2. u # x
  BY <1>1 DEF Mixed
<1>3. x \notin Deps[u]
  BY <1>1, <1>2 DEF Dirty
<1>4. /\ target'[u] = target[u] /\ newer'[u] = newer[u]
      /\ \A d \in Deps[u] : target'[d] = target[d]
  BY <1>1, <1>2, <1>3, OrderProperties
<1>5. Mixed(u) /\ ~Dirty(u) /\ \A d \in Deps[u] : Whole(d)
  BY <1>4 DEF Mixed, Dirty, Whole
<1>6. PICK w \in Worlds : /\ target[u].view = Ideal(w)[u].view
                          /\ \A d \in Deps[u] : target[d] = Ideal(w)[d]
                          /\ Found(u, w)
  BY <1>5 DEF MixedFound
<1>7. Found(u, w)'
  BY <1>6, FoundGrows
<1> QED  BY <1>4, <1>6, <1>7

\* Files of an artifact and others.
LEMMA TornIs ==
    ASSUME NEW u, NEW view, NEW deps, NEW art, art = [unit |-> u, view |-> view, deps |-> deps]
    PROVE  Torn(art) = [unit |-> u, view |-> view, deps |-> {NoArt}]
  BY DEF Torn

\* A restore is broken off: what is mixed then is found again, in this world, and the
\* mtimes tell of it what they told before, or what is new.
LEMMA RestoringBreaks ==
    ASSUME NothingLeftOut, BuildInv, CrashRestoring
    PROVE  MtimesTell' /\ MixedFound'
<1>0. /\ Shapes /\ MtimesTell /\ MixedFound /\ KnownFull /\ LookupInv /\ PhaseInv /\ CacheSound
      /\ phase = "lookup" /\ More /\ UNCHANGED <<world, dyn, bundles>>
  BY DEF BuildInv, CrashRestoring, cache
<1>1. PICK e \in bundles : e.key \in Candidates(Here) /\ Tear(Here, e.art)
  BY DEF CrashRestoring
<1>2. PICK h \in Units : h = Here
  BY <1>0, HereIsUnit
<1>3. /\ DepsCurrent(h) /\ e.key = IdealKeys(world)[h] /\ e.art = Ideal(world)[h]
      /\ Recorded(h, world)
  BY <1>0, <1>1, <1>2, HitCurrent DEF Recorded
<1>4. world \in Worlds
  BY <1>0 DEF Shapes, TypeOK
<1>5. Found(h, world)
  <2> DEFINE S == {h} \cup {x \in Units : full[x] # NoKey}
  <2>1. S \in SUBSET Units /\ h \in S
    OBVIOUS
  <2>2. NoKey \notin DepKeys(h)
    BY <1>1, <1>2 DEF Candidates
  <2>3. Stored(h, world)
    BY <1>3 DEF Stored, ContainsUnit
  <2>4. ASSUME NEW x \in S
        PROVE  NoKey \notin DepKeys(x) /\ Recorded(x, world) /\ Stored(x, world)
    BY <1>0, <1>3, <2>2, <2>3 DEF LookupInv
  <2>5. \A x \in S : Deps[x] \subseteq S
    BY <2>4, OrderProperties DEF DepKeys
  <2> HIDE DEF S
  <2> QED  BY <2>1, <2>4, <2>5 DEF Found
<1>7. /\ \A v \in Units \ {h} : /\ target'[v] = target[v] /\ newer[v] \subseteq newer'[v]
                                /\ h \notin Deps[v] => newer'[v] = newer[v]
      /\ \/ target'[h] = NoArt
         \/ target'[h] = Torn(Ideal(world)[h])
         \/ target[h] # NoArt /\ target'[h] = Torn(target[h]) /\ newer'[h] = newer[h]
  BY <1>0, <1>1, <1>2, <1>3, TearShapes
<1>8. /\ Ideal(world)[h].view = View(world, Sources[h] \cup Opened(h, world))
      /\ Torn(Ideal(world)[h]) = [unit |-> h, view |-> Ideal(world)[h].view, deps |-> {NoArt}]
  <2>1. Ideal(world)[h] = [unit |-> h, view |-> View(world, Sources[h] \cup Opened(h, world)),
                           deps |-> {Ideal(world)[d] : d \in Deps[h]}]
    BY IdealRecursion
  <2> QED  BY <2>1, TornIs
<1>9. ASSUME target[h] # NoArt
      PROVE  /\ Torn(target[h]) = [unit |-> h, view |-> target[h].view, deps |-> {NoArt}]
             /\ \E w \in Worlds : target[h].view = View(w, Sources[h] \cup Opened(h, w))
  <2>1. PICK w \in Worlds :
           target[h] = [unit |-> h, view |-> View(w, Sources[h] \cup Opened(h, w)),
                        deps |-> target[h].deps]
    BY <1>0, <1>9 DEF MtimesTell, Compiled
  <2> DEFINE view == View(w, Sources[h] \cup Opened(h, w))
  <2>2. target[h].view = view
    <3> HIDE DEF view
    <3> QED  BY <2>1 DEF view
  <2>3. Torn(target[h]) = [unit |-> h, view |-> target[h].view, deps |-> {NoArt}]
    <3> HIDE DEF view
    <3>1. target[h] = [unit |-> h, view |-> view, deps |-> target[h].deps]
      BY <2>1 DEF view
    <3> QED  BY <2>2, <3>1, TornIs
  <2> QED  BY <2>2, <2>3
<1>10. target'[h] # NoArt => target'[h].deps = {NoArt}
  BY <1>7, <1>8, <1>9
<1>11. ~Whole(h)'
  BY <1>10 DEF Whole
<1>12. h \notin Deps[h]
  BY OrderProperties
<1>13. ASSUME target'[h] # NoArt
       PROVE  /\ Compiled(h)'
              /\ \A f \in DOMAIN target'[h].view \ newer'[h] : target'[h].view[f] = world'[f]
              /\ ~Dirty(h)' => target'[h].view = Ideal(world)[h].view
  <2>1. CASE target'[h] = Torn(Ideal(world)[h])
    <3>1. target'[h] = [unit |-> h, view |-> View(world, Sources[h] \cup Opened(h, world)),
                        deps |-> target'[h].deps]
      BY <1>8, <2>1
    <3>2. Compiled(h)'
      BY <1>4, <3>1 DEF Compiled
    <3>3. target'[h].view = Ideal(world)[h].view
      BY <1>8, <2>1
    <3> QED  BY <1>0, <1>8, <3>2, <3>3 DEF View
  <2>2. CASE target[h] # NoArt /\ target'[h] = Torn(target[h]) /\ newer'[h] = newer[h]
    <3>1. target'[h].view = target[h].view
      BY <1>9, <2>2
    <3>2. PICK w \in Worlds : target[h].view = View(w, Sources[h] \cup Opened(h, w))
      BY <1>9, <2>2
    <3>3. target'[h] = [unit |-> h, view |-> View(w, Sources[h] \cup Opened(h, w)),
                        deps |-> target'[h].deps]
      BY <1>9, <2>2, <3>2
    <3>4. Compiled(h)'
      BY <3>3 DEF Compiled
    <3>5. ASSUME ~Dirty(h)'
          PROVE  target'[h].view = Ideal(world)[h].view
      <4>1. newer[h] \cap DOMAIN target[h].view = {}
        BY <2>2, <3>1, <3>5 DEF Dirty
      <4> QED  BY <1>0, <2>2, <3>1, <4>1, ViewCurrent
    <3> QED  BY <1>0, <2>2, <3>1, <3>4, <3>5 DEF MtimesTell
  <2> QED  BY <1>7, <1>13, <2>1, <2>2
<1>14. ASSUME NEW v \in Units \ {h}
       PROVE  /\ target'[v] = target[v] /\ newer[v] \subseteq newer'[v]
              /\ (\A d \in Deps[v] : Whole(d)') =>
                    /\ newer'[v] = newer[v]
                    /\ \A d \in Deps[v] : target'[d] = target[d]
  <2>1. (\A d \in Deps[v] : Whole(d)') => h \notin Deps[v]
    BY <1>11
  <2> QED  BY <1>7, <2>1, OrderProperties
<1>15. ASSUME NEW v \in Units, target'[v] # NoArt
       PROVE  /\ Compiled(v)'
              /\ \A f \in DOMAIN target'[v].view \ newer'[v] : target'[v].view[f] = world'[f]
              /\ newer'[v] \cap Deps[v] = {} /\ (\A d \in Deps[v] \cup {v} : Whole(d)') =>
                    target'[v].deps = {target'[d] : d \in Deps[v]}
  <2>1. CASE v = h
    BY <1>11, <1>13, <1>15, <2>1
  <2>2. CASE v # h
    <3>1. target'[v] = target[v] /\ newer[v] \subseteq newer'[v]
      BY <1>14, <2>2
    <3>2. /\ Compiled(v) /\ \A f \in DOMAIN target[v].view \ newer[v] : target[v].view[f] = world[f]
          /\ newer[v] \cap Deps[v] = {} /\ (\A d \in Deps[v] \cup {v} : Whole(d)) =>
                target[v].deps = {target[d] : d \in Deps[v]}
      BY <1>0, <1>15, <3>1 DEF MtimesTell
    <3>3. Compiled(v)'
      BY <3>1, <3>2 DEF Compiled
    <3>4. ASSUME newer'[v] \cap Deps[v] = {}, \A d \in Deps[v] \cup {v} : Whole(d)'
          PROVE  target'[v].deps = {target'[d] : d \in Deps[v]}
      <4>1. newer'[v] = newer[v] /\ \A d \in Deps[v] : target'[d] = target[d]
        BY <1>14, <2>2, <3>4
      <4>2. \A d \in Deps[v] \cup {v} : Whole(d)
        BY <3>1, <3>4, <4>1 DEF Whole
      <4> QED  BY <3>1, <3>2, <3>4, <4>1, <4>2
    <3> QED  BY <1>0, <3>1, <3>2, <3>3, <3>4
  <2> QED  BY <2>1, <2>2
<1>16. MtimesTell'
  BY <1>15 DEF MtimesTell
<1>17. ASSUME NEW v \in Units, Mixed(v)', ~Dirty(v)', \A d \in Deps[v] : Whole(d)'
       PROVE  \E w \in Worlds : /\ target'[v].view = Ideal(w)[v].view
                                /\ \A d \in Deps[v] : target'[d] = Ideal(w)[d]
                                /\ Found(v, w)'
  <2>1. CASE v = h
    <3>1. target'[h] # NoArt
      BY <1>17, <2>1 DEF Mixed
    <3>2. target'[h].view = Ideal(world)[h].view
      BY <1>13, <1>17, <2>1, <3>1
    <3>3. \A d \in Deps[h] : target'[d] = Ideal(world)[d]
      BY <1>3, <1>7, <1>12, OrderProperties DEF DepsCurrent
    <3>4. \A w : w = world => Found(h, w)'
      BY <1>0, <1>5, FoundGrows
    <3> QED  BY <1>4, <2>1, <3>2, <3>3, <3>4
  <2>2. CASE v # h
    <3>1. /\ target'[v] = target[v] /\ newer'[v] = newer[v]
          /\ \A d \in Deps[v] : target'[d] = target[d]
      BY <1>14, <1>17, <2>2
    <3>2. Mixed(v) /\ ~Dirty(v) /\ \A d \in Deps[v] : Whole(d)
      BY <1>17, <3>1 DEF Mixed, Dirty, Whole
    <3>3. PICK w \in Worlds : /\ target[v].view = Ideal(w)[v].view
                              /\ \A d \in Deps[v] : target[d] = Ideal(w)[d]
                              /\ Found(v, w)
      BY <1>0, <3>2 DEF MixedFound
    <3>4. Found(v, w)'
      BY <1>0, <3>3, FoundGrows
    <3> QED  BY <3>1, <3>3, <3>4
  <2> QED  BY <2>1, <2>2
<1>18. MixedFound'
  BY <1>17 DEF MixedFound
<1> QED  BY <1>16, <1>18

LEMMA MixedStep ==
    ASSUME NothingLeftOut, ~EditsMidRun, BuildInv, [Next]_vars
    PROVE  MixedFound'
<1>0. Shapes /\ MtimesTell /\ MixedFound /\ KnownFull /\ LookupInv /\ PhaseInv /\ CacheSound
  BY DEF BuildInv
<1> USE DEF cache, run
<1>1. CASE Start \/ Miss \/ EndLookup \/ EndBuild \/ PassOver \/ Store \/ EndHarvest \/ Crash
             \/ UNCHANGED vars
  <2>1. UNCHANGED <<target, newer>> /\ dyn \subseteq dyn' /\ bundles \subseteq bundles'
    BY <1>1 DEF Start, Miss, EndLookup, EndBuild, PassOver, Store, EndHarvest, Crash, vars
  <2> QED  BY <1>0, <2>1, MixedKept
<1>2. CASE Harvest
  <2>1. UNCHANGED <<target, newer, bundles>> /\ dyn \subseteq dyn'
    BY <1>2 DEF Harvest, Record
  <2> QED  BY <1>0, <2>1, MixedKept
<1>3. ASSUME NEW f \in Inputs, NEW c \in Contents, Edit(f, c)
      PROVE  MixedFound'
  <2>1. UNCHANGED <<target, dyn, bundles>> /\ \A u \in Units : newer[u] \subseteq newer'[u]
    BY <1>3 DEF Edit
  <2> QED  BY <1>0, <2>1, MixedKept
<1>4. CASE Clean
  BY <1>4 DEF Clean, MixedFound, Mixed
<1>5. CASE Hit
  <2>1. Here \in Units
    BY <1>0, <1>5, HereIsUnit DEF Hit
  <2>2. PICK e \in bundles : e.key \in Candidates(Here) /\ Put(Here, e.art)
    BY <1>5 DEF Hit
  <2>3. NoArt \notin e.art.deps
    <3>1. e.art = Ideal(world)[Here] /\ world \in Worlds
      BY <1>0, <1>5, <2>1, <2>2, HitCurrent DEF Hit, Shapes, TypeOK
    <3> QED  BY <2>1, <3>1, IdealWhole
  <2>4. UNCHANGED <<dyn, bundles>>
    BY <1>5 DEF Hit
  <2> QED  BY <1>0, <2>1, <2>2, <2>3, <2>4, MixedPut
<1>6. CASE BuildUnit
  <2>1. Here \in Units /\ UNCHANGED <<dyn, bundles>>
    BY <1>0, <1>6, HereIsUnit DEF BuildUnit
  <2>2. CASE UNCHANGED <<target, newer>>
    BY <1>0, <2>1, <2>2, MixedKept
  <2>3. CASE Put(Here, Compile(Here, world, target))
    <3>1. DepsCurrent(Here) /\ world \in Worlds
      BY <1>0, <1>6, BuiltBefore DEF BuildUnit, Shapes, TypeOK
    <3>2. NoArt \notin Compile(Here, world, target).deps
      BY <2>1, <3>1, CompileCurrent, IdealWhole
    <3> QED  BY <1>0, <2>1, <2>3, <3>2, MixedPut
  <2> QED  BY <1>6, <2>2, <2>3 DEF BuildUnit
<1>7. CASE CrashRestoring
  BY <1>7, RestoringBreaks
<1> QED  BY <1>1, <1>2, <1>3, <1>4, <1>5, <1>6, <1>7 DEF Next, Progress

\* Of a unit whose dependencies are known a manifest leads to the stored bundle.
LEMMA StoredHits ==
    ASSUME NothingLeftOut, Shapes, KnownFull, PhaseInv, phase = "lookup", NEW u \in Units,
           \A d \in Deps[u] : full[d] # NoKey, Recorded(u, world), Stored(u, world)
    PROVE  \E e \in bundles : e.key \in Candidates(u)
<1>1. \A d \in Deps[u] : full[d] = IdealKeys(world)[d]
  BY OrderProperties DEF KnownFull
<1>2. DepKeys(u) = IdealDepKeys(world, u) /\ NoKey \notin DepKeys(u)
  BY <1>1 DEF DepKeys, IdealDepKeys
<1>3. PICK m \in dyn : m[1] = StaticKeys(world)[u] /\ m[2] = Opened(u, world)
  BY DEF Recorded
<1>4. statics[u] = StaticKeys(world)[u]
  BY DEF PhaseInv
<1>5. FullKey(statics[u], m[2], world, DepKeys(u)) = IdealKeys(world)[u]
  BY <1>2, <1>3, <1>4, IdealKeyIs
<1>6. IdealKeys(world)[u] \in Candidates(u)
  BY <1>2, <1>3, <1>4, <1>5 DEF Candidates
<1> QED  BY <1>6 DEF Stored, ContainsUnit

LEMMA LookupStep ==
    ASSUME NothingLeftOut, ~EditsMidRun, BuildInv, [Next]_vars
    PROVE  LookupInv'
<1>0. Shapes /\ KnownFull /\ LookupInv /\ PhaseInv /\ CacheSound /\ world \in Worlds
  BY DEF BuildInv, Shapes, TypeOK
<1> USE DEF cache, run
<1>1. CASE EndBuild \/ PassOver \/ Harvest \/ Store \/ EndHarvest \/ Crash \/ CrashRestoring \/ Clean
  <2>1. phase' \notin {"lookup", "build"}
    BY <1>1, ResetShapes DEF EndBuild, PassOver, Harvest, Store, EndHarvest, Crash, CrashRestoring,
                             Clean, Succeed
  <2> QED  BY <2>1 DEF LookupInv
<1>2. ASSUME NEW f \in Inputs, NEW c \in Contents, Edit(f, c)
      PROVE  LookupInv'
  BY <1>2 DEF Edit, LookupInv
<1>3. CASE Start
  <2>1. phase' = "lookup" /\ pos' = 1 /\ \A u \in Units : full'[u] = NoKey
    BY <1>0, <1>3 DEF Start, KnownFull
  <2> QED  BY <2>1 DEF LookupInv
<1>4. ASSUME UNCHANGED <<world, dyn, bundles, full>>
      PROVE  \A u \in Units :
                /\ Recorded(u, world)' <=> Recorded(u, world)
                /\ Stored(u, world)' <=> Stored(u, world)
                /\ DepKeys(u)' = DepKeys(u) /\ full'[u] = full[u]
                /\ Found(u, world)' => Found(u, world)
  BY <1>4 DEF Recorded, Stored, ContainsUnit, DepKeys, Found
<1>5. CASE Hit
  <2>1. PICK h \in Units : h = Here
    BY <1>0, <1>5, HereIsUnit DEF Hit
  <2>2. PICK e \in bundles : e.key \in Candidates(h) /\ full' = [full EXCEPT ![h] = e.key]
    BY <1>5, <2>1 DEF Hit
  <2>3. e.key = IdealKeys(world)[h] /\ Recorded(h, world)
    BY <1>0, <1>5, <2>1, <2>2, HitCurrent DEF Hit, Recorded
  <2>4. /\ full'[h] # NoKey /\ \A v \in Units \ {h} : full'[v] = full[v]
        /\ \A v \in Units : full[v] # NoKey => full'[v] # NoKey
    BY <1>0, <2>1, <2>2, <2>3, NoKeyAssumption DEF Shapes, TypeOK
  <2>5. UNCHANGED <<world, dyn, bundles, phase>> /\ phase = "lookup" /\ pos' = pos + 1
    BY <1>5 DEF Hit
  <2>6. Stored(h, world) /\ NoKey \notin DepKeys(h)
    BY <2>2, <2>3 DEF Stored, ContainsUnit, Candidates
  <2>7. \A u \in Units : full'[u] # NoKey =>
           Recorded(u, world) /\ Stored(u, world) /\ NoKey \notin DepKeys(u)
    BY <1>0, <2>3, <2>4, <2>5, <2>6 DEF LookupInv
  <2>8. \A u \in Units : NoKey \notin DepKeys(u) => NoKey \notin DepKeys(u)'
    BY <2>4, OrderProperties DEF DepKeys
  <2>9. \A u \in Units : full'[u] # NoKey =>
           (Recorded(u, world) /\ Stored(u, world))' /\ NoKey \notin DepKeys(u)'
    BY <2>5, <2>7, <2>8 DEF Recorded, Stored, ContainsUnit
  <2>10. ASSUME NEW i \in 1..(pos' - 1), Found(Order[i], world)'
         PROVE  full'[Order[i]] # NoKey
    <3>1. pos \in 1..Len(Order)
      BY <1>0, <1>5, HereIsUnit DEF Hit
    <3>2. CASE i = pos
      BY <2>1, <2>4, <3>2 DEF Here
    <3>3. CASE i # pos
      <4>1. i \in 1..(pos - 1) /\ Order[i] \in Units
        BY <2>5, <3>1, <3>3, OrderProperties
      <4>2. Found(Order[i], world)
        BY <2>5, <2>10 DEF Found, Recorded, Stored, ContainsUnit
      <4> QED  BY <1>0, <2>4, <2>5, <4>1, <4>2 DEF LookupInv
    <3> QED  BY <3>2, <3>3
  <2> QED  BY <2>5, <2>9, <2>10 DEF LookupInv
<1>6. CASE Miss
  <2>1. PICK h \in Units : h = Here
    BY <1>0, <1>6, HereIsUnit DEF Miss
  <2>2. UNCHANGED <<world, dyn, bundles, full, phase>> /\ phase = "lookup" /\ pos' = pos + 1
        /\ pos \in 1..Len(Order)
    BY <1>0, <1>6, HereIsUnit DEF Miss
  <2>3. ~Found(h, world)
    <3> SUFFICES ASSUME Found(h, world)
                 PROVE  FALSE
      OBVIOUS
    <3>1. PICK S \in SUBSET Units : h \in S /\ \A x \in S : /\ Deps[x] \subseteq S
                                                            /\ Recorded(x, world) /\ Stored(x, world)
      BY DEF Found
    <3>2. ASSUME NEW d \in Deps[h]
          PROVE  full[d] # NoKey
      <4>1. d \in S /\ Found(d, world)
        BY <3>1 DEF Found
      <4>2. PICK j \in 1..Len(Order) : Order[j] = d
        BY <4>1, OrderProperties
      <4>3. j \in 1..(pos - 1)
        BY <2>1, <2>2, <4>2, OrderProperties DEF Here
      <4> QED  BY <1>0, <2>2, <4>1, <4>2, <4>3 DEF LookupInv
    <3>3. \E e \in bundles : e.key \in Candidates(h)
      BY <1>0, <2>2, <3>1, <3>2, StoredHits
    <3> QED  BY <1>6, <2>1, <3>3 DEF Miss
  <2>4. ASSUME NEW i \in 1..(pos' - 1), Found(Order[i], world)'
        PROVE  full'[Order[i]] # NoKey
    <3>1. Order[i] \in Units /\ (i = pos \/ i \in 1..(pos - 1))
      BY <2>2, OrderProperties
    <3>2. Found(Order[i], world)
      BY <1>4, <2>2, <2>4, <3>1
    <3>3. i # pos
      BY <2>1, <2>3, <3>2 DEF Here
    <3> QED  BY <1>0, <2>2, <3>1, <3>2, <3>3 DEF LookupInv
  <2> QED  BY <1>0, <1>4, <2>2, <2>4 DEF LookupInv
<1>7. CASE EndLookup
  <2>1. CASE Succeed
    BY <2>1, ResetShapes DEF Succeed, LookupInv
  <2>2. CASE phase' = "build" /\ UNCHANGED full
    <3>1. UNCHANGED <<world, dyn, bundles, full>> /\ phase = "lookup"
      BY <1>7, <2>2 DEF EndLookup
    <3>2. pos - 1 = Len(Order)
      BY <1>0, <1>7, OrderProperties DEF EndLookup, More, Shapes, TypeOK
    <3>3. \A u \in Units : Found(u, world) => full[u] # NoKey
      BY <1>0, <3>1, <3>2, OrderProperties DEF LookupInv
    <3> QED  BY <1>0, <1>4, <2>2, <3>1, <3>3 DEF LookupInv
  <2> QED  BY <1>7, <2>1, <2>2 DEF EndLookup
<1>8. CASE BuildUnit
  <2>1. UNCHANGED <<world, dyn, bundles, full, phase>> /\ phase = "build"
    BY <1>8 DEF BuildUnit
  <2> QED  BY <1>0, <1>4, <2>1 DEF LookupInv
<1>9. CASE UNCHANGED vars
  <2>1. UNCHANGED <<world, dyn, bundles, full, phase, pos>>
    BY <1>9 DEF vars
  <2>2. \A u \in Units : Found(u, world)' => Found(u, world)
    BY <1>4, <2>1
  <2>3. \A i \in 1..(pos - 1) : Order[i] \in Units
    BY <1>0, OrderProperties DEF Shapes, TypeOK
  <2> QED  BY <1>0, <1>4, <2>1, <2>2, <2>3 DEF LookupInv
<1> QED  BY <1>1, <1>2, <1>3, <1>5, <1>6, <1>7, <1>8, <1>9 DEF Next, Progress

LEMMA BuildStep ==
    ASSUME NothingLeftOut, ~EditsMidRun, BuildInv, [Next]_vars
    PROVE  BuildInv'
<1>1. Shapes' /\ MixedFound' /\ LookupInv'
  BY ShapesStep, MixedStep, LookupStep DEF BuildInv
<1>2. Shapes /\ MtimesTell /\ KnownFull /\ PhaseInv /\ CacheSound /\ RunCorrect
  BY DEF BuildInv
<1>3. SUFFICES MtimesTell' /\ KnownFull' /\ PhaseInv' /\ CacheSound' /\ RunCorrect'
  BY <1>1 DEF BuildInv
<1> USE DEF cache, run
<1>4. CASE Start
  <2>1. KnownFull' /\ PhaseInv'
    BY <1>2, <1>4 DEF Start, KnownFull, PhaseInv
  <2>2. CacheSound' /\ RunCorrect'
    BY <1>2, <1>4 DEF Start, CacheSound, RunCorrect
  <2> QED  BY <1>4, <2>1, <2>2, TargetKept DEF Start
<1>5. CASE Hit
  <2>1. Here \in Units
    BY <1>2, <1>5, HereIsUnit DEF Hit
  <2>2. PICK e \in bundles : /\ e.key \in Candidates(Here)
                             /\ full' = [full EXCEPT ![Here] = e.key]
                             /\ Put(Here, e.art)
    BY <1>5 DEF Hit
  <2>3. DepsCurrent(Here) /\ e.key = IdealKeys(world)[Here] /\ e.art = Ideal(world)[Here]
    BY <1>2, <1>5, <2>1, <2>2, HitCurrent DEF Hit
  <2>4. /\ MtimesTell'
        /\ target'[Here] = Ideal(world)[Here]
        /\ \A v \in Units : target[v] = Ideal(world)[v] => target'[v] = Ideal(world)[v]
    BY <1>2, <1>5, <2>1, <2>2, <2>3, PutCurrent DEF Hit
  <2>5. world' = world /\ phase' = phase /\ phase = "lookup" /\ statics' = statics
        /\ bundles' = bundles /\ fresh' = fresh
    BY <1>5 DEF Hit
  <2>6. ASSUME NEW v \in Units, full'[v] # NoKey
        PROVE  full'[v] = IdealKeys(world)[v] /\ target'[v] = Ideal(world)[v]
    <3>1. CASE v = Here
      BY <1>2, <2>1, <2>2, <2>3, <2>4, <3>1 DEF Shapes, TypeOK
    <3>2. CASE v # Here
      <4>1. full'[v] = full[v]
        BY <1>2, <2>2, <3>2 DEF Shapes, TypeOK
      <4> QED  BY <1>2, <2>4, <2>6, <4>1 DEF KnownFull
    <3> QED  BY <3>1, <3>2
  <2>7. KnownFull'
    BY <2>5, <2>6 DEF KnownFull
  <2>8. PhaseInv' /\ CacheSound'
    BY <1>2, <2>5 DEF PhaseInv, CacheSound
  <2>9. RunCorrect'
    <3> SUFFICES ASSUME fresh
                 PROVE  target' = Ideal(world)
      BY <2>5 DEF RunCorrect
    <3>1. \A v \in Units : target'[v] = Ideal(world)[v]
      BY <1>2, <2>4 DEF RunCorrect
    <3>2. target' = [v \in Units |-> target'[v]]
      BY <1>1 DEF Shapes
    <3> QED  BY <3>1, <3>2, AllCurrent
  <2> QED  BY <2>4, <2>7, <2>8, <2>9
<1>6. CASE Miss
  <2>1. KnownFull' /\ PhaseInv'
    BY <1>2, <1>6 DEF Miss, KnownFull, PhaseInv
  <2>2. CacheSound' /\ RunCorrect'
    BY <1>2, <1>6 DEF Miss, CacheSound, RunCorrect
  <2> QED  BY <1>6, <2>1, <2>2, TargetKept DEF Miss
<1>7. CASE EndLookup
  <2>1. MtimesTell' /\ CacheSound'
    BY <1>2, <1>7, TargetKept DEF EndLookup, CacheSound
  <2>2. ASSUME \A u \in Units : full[u] # NoKey, Succeed
        PROVE  KnownFull' /\ PhaseInv' /\ RunCorrect'
    <3>1. KnownFull' /\ PhaseInv'
      BY <2>2, ResetShapes DEF Succeed, KnownFull, PhaseInv
    <3>2. target = Ideal(world)
      <4>1. \A u \in Units : target[u] = Ideal(world)[u]
        BY <1>2, <2>2 DEF KnownFull
      <4>2. target = [u \in Units |-> target[u]]
        BY <1>2 DEF Shapes
      <4> QED  BY <4>1, <4>2, AllCurrent
    <3> QED  BY <1>7, <3>1, <3>2 DEF EndLookup, RunCorrect
  <2>3. ASSUME phase' = "build", pos' = 1, UNCHANGED <<statics, full, fresh, built>>
        PROVE  KnownFull' /\ PhaseInv' /\ RunCorrect'
    <3>1. KnownFull' /\ RunCorrect'
      BY <1>2, <1>7, <2>3 DEF EndLookup, KnownFull, RunCorrect
    <3> QED  BY <1>2, <1>7, <2>3, <3>1 DEF EndLookup, PhaseInv
  <2> QED  BY <1>7, <2>1, <2>2, <2>3 DEF EndLookup
<1>8. CASE BuildUnit
  <2>1. Here \in Units /\ pos \in 1..Len(Order) /\ phase = "build"
    BY <1>2, <1>8, HereIsUnit DEF BuildUnit
  <2>2. \A i \in 1..(pos - 1) : target[Order[i]] = Ideal(world)[Order[i]]
    BY <1>2, <2>1 DEF PhaseInv
  <2>3. DepsCurrent(Here)
    BY <1>2, <1>8, BuiltBefore DEF BuildUnit
  <2>4. /\ MtimesTell'
        /\ target'[Here] = Ideal(world)[Here]
        /\ \A v \in Units : target[v] = Ideal(world)[v] => target'[v] = Ideal(world)[v]
    <3>1. CASE Dirty(Here)
      BY <1>2, <1>8, <2>1, <2>3, <3>1, CompileCurrent, PutCurrent DEF BuildUnit
    <3>2. CASE ~Dirty(Here)
      <4>1. ~Mixed(Here)
        <5> SUFFICES ASSUME Mixed(Here)
                     PROVE  FALSE
          OBVIOUS
        <5>1. Found(Here, world)
          BY <1>2, <2>1, <2>3, <3>2, MixedNow DEF BuildInv
        <5>2. target[Here] = Ideal(world)[Here] /\ world \in Worlds
          BY <1>2, <2>1, <5>1 DEF BuildInv, LookupInv, KnownFull, Shapes, TypeOK
        <5> QED  BY <2>1, <5>2, IdealWhole DEF Mixed
      <4> QED  BY <1>2, <1>8, <2>1, <2>3, <3>2, <4>1, NotDirtyCurrent, TargetKept DEF BuildUnit
    <3> QED  BY <3>1, <3>2
  <2>5. /\ world' = world /\ phase' = phase /\ statics' = statics /\ full' = full
        /\ bundles' = bundles /\ fresh' = fresh /\ pos' = pos + 1
    BY <1>8 DEF BuildUnit
  <2>6. KnownFull'
    BY <1>2, <2>4, <2>5 DEF KnownFull
  <2>7. PhaseInv'
    <3>1. ASSUME NEW i \in 1..(pos' - 1)
          PROVE  target'[Order[i]] = Ideal(world)[Order[i]]
      <4>1. CASE i = pos
        BY <2>4, <4>1 DEF Here
      <4>2. CASE i # pos
        <5>1. i \in 1..(pos - 1) /\ Order[i] \in Units
          BY <2>1, <2>5, <4>2, OrderProperties
        <5> QED  BY <2>2, <2>4, <5>1
      <4> QED  BY <4>1, <4>2
    <3> QED  BY <1>2, <2>1, <2>5, <3>1 DEF PhaseInv
  <2>8. RunCorrect'
    <3> SUFFICES ASSUME fresh
                 PROVE  target' = Ideal(world)
      BY <2>5 DEF RunCorrect
    <3>1. \A v \in Units : target'[v] = Ideal(world)[v]
      BY <1>2, <2>4 DEF RunCorrect
    <3>2. target' = [v \in Units |-> target'[v]]
      BY <1>1 DEF Shapes
    <3> QED  BY <3>1, <3>2, AllCurrent
  <2> QED  BY <1>2, <2>4, <2>5, <2>6, <2>7, <2>8 DEF CacheSound
<1>9. CASE EndBuild
  <2>1. KnownFull' /\ CacheSound' /\ RunCorrect'
    BY <1>2, <1>9 DEF EndBuild, KnownFull, CacheSound, RunCorrect
  <2>2. target = Ideal(world)
    <3>1. pos - 1 = Len(Order)
      BY <1>2, <1>9, OrderProperties DEF EndBuild, More, Shapes, TypeOK
    <3>2. \A u \in Units : target[u] = Ideal(world)[u]
      BY <1>2, <1>9, <3>1, OrderProperties DEF EndBuild, PhaseInv
    <3>3. target = [u \in Units |-> target[u]]
      BY <1>2 DEF Shapes
    <3> QED  BY <3>2, <3>3, AllCurrent
  <2>3. PhaseInv'
    BY <1>2, <1>9, <2>2 DEF EndBuild, PhaseInv
  <2> QED  BY <1>9, <2>1, <2>3, TargetKept DEF EndBuild
<1>10. CASE PassOver
  <2>1. KnownFull' /\ PhaseInv'
    BY <1>2, <1>10 DEF PassOver, KnownFull, PhaseInv
  <2>2. CacheSound' /\ RunCorrect'
    BY <1>2, <1>10 DEF PassOver, CacheSound, RunCorrect
  <2> QED  BY <1>10, <2>1, <2>2, TargetKept DEF PassOver
<1>11. CASE Harvest
  <2>1. Here \in Units
    BY <1>2, <1>11, HereIsUnit DEF Harvest
  <2>2. full' = [full EXCEPT ![Here] = IdealKeys(world)[Here]]
    BY <1>11, <2>1, HarvestedKey DEF Harvest
  <2>3. /\ UNCHANGED <<world, bundles, target, newer, statics, fresh>>
        /\ phase = "harvest"
        /\ phase' \in {"harvest", "store"}
        /\ phase' = "store" => pos' = pos
    BY <1>11 DEF Harvest
  <2>4. KnownFull'
    <3>1. target = Ideal(world)
      BY <1>2, <2>3 DEF PhaseInv
    <3>2. \A v \in Units : full'[v] = full[v] \/ full'[v] = IdealKeys(world)[v]
      BY <1>2, <2>1, <2>2 DEF Shapes, TypeOK
    <3> QED  BY <1>2, <2>3, <3>1, <3>2 DEF KnownFull
  <2>5. full'[Here] = IdealKeys(world)[Here]
    BY <1>2, <2>1, <2>2 DEF Shapes, TypeOK
  <2>6. PhaseInv'
    BY <1>2, <2>3, <2>5 DEF PhaseInv, Here
  <2>7. CacheSound' /\ RunCorrect'
    BY <1>2, <2>3 DEF CacheSound, RunCorrect
  <2> QED  BY <2>3, <2>4, <2>6, <2>7, TargetKept
<1>12. CASE Store
  <2>1. Here \in Units /\ world \in Worlds
    BY <1>2, <1>12, HereIsUnit DEF Store, Shapes, TypeOK
  <2>2. [key |-> full[Here], art |-> target[Here]] \in SoundBundles
    BY <1>2, <1>12, <2>1 DEF Store, PhaseInv, SoundBundles
  <2>3. CacheSound'
    BY <1>2, <1>12, <2>2 DEF Store, CacheSound
  <2>4. KnownFull' /\ PhaseInv' /\ RunCorrect'
    BY <1>2, <1>12 DEF Store, KnownFull, PhaseInv, RunCorrect
  <2> QED  BY <1>12, <2>3, <2>4, TargetKept DEF Store
<1>13. CASE EndHarvest
  <2>1. KnownFull' /\ PhaseInv'
    BY <1>13, ResetShapes DEF EndHarvest, Succeed, KnownFull, PhaseInv
  <2>2. CacheSound' /\ RunCorrect'
    BY <1>2, <1>13 DEF EndHarvest, CacheSound, PhaseInv, RunCorrect
  <2> QED  BY <1>13, <2>1, <2>2, TargetKept DEF EndHarvest
<1>14. CASE Crash
  <2>1. KnownFull' /\ PhaseInv'
    BY <1>14, ResetShapes DEF Crash, KnownFull, PhaseInv
  <2>2. CacheSound' /\ RunCorrect'
    BY <1>2, <1>14 DEF Crash, CacheSound, RunCorrect
  <2> QED  BY <1>14, <2>1, <2>2, TargetKept DEF Crash
<1>15. ASSUME NEW f \in Inputs, NEW c \in Contents, Edit(f, c)
       PROVE  MtimesTell' /\ KnownFull' /\ PhaseInv' /\ CacheSound' /\ RunCorrect'
  <2>1. phase = "idle" /\ phase' = phase /\ full' = full
    BY <1>15 DEF Edit
  <2>2. KnownFull' /\ PhaseInv'
    BY <1>2, <2>1 DEF KnownFull, PhaseInv
  <2>3. CacheSound' /\ RunCorrect'
    BY <1>2, <1>15 DEF Edit, CacheSound, RunCorrect
  <2>4. /\ target' = target
        /\ \A u \in Units : newer'[u] = newer[u] \cup {f}
        /\ \A g \in Inputs \ {f} : world'[g] = world[g]
    BY <1>2, <1>15 DEF Edit, Shapes, TypeOK, Worlds
  <2>5. ASSUME NEW u \in Units, target[u] # NoArt
        PROVE  /\ Compiled(u)'
               /\ \A g \in DOMAIN target[u].view \ newer'[u] : target[u].view[g] = world'[g]
               /\ newer'[u] \cap Deps[u] = {} /\ (\A d \in Deps[u] \cup {u} : Whole(d)) =>
                     target[u].deps = {target[d] : d \in Deps[u]}
    <3>1. Compiled(u)
      BY <1>2, <2>5 DEF MtimesTell
    <3>2. DOMAIN target[u].view \subseteq Inputs
      <4>1. PICK w \in Worlds :
               target[u] = [unit |-> u, view |-> View(w, Sources[u] \cup Opened(u, w)),
                            deps |-> target[u].deps]
        BY <3>1 DEF Compiled
      <4>2. target[u].view = View(w, Sources[u] \cup Opened(u, w))
        BY <4>1
      <4> QED  BY <4>2, GraphAssumption DEF View
    <3>3. \A g \in DOMAIN target[u].view \ newer[u] : target[u].view[g] = world[g]
      BY <1>2, <2>5 DEF MtimesTell
    <3>4. newer[u] \cap Deps[u] = {} /\ (\A d \in Deps[u] \cup {u} : Whole(d)) =>
             target[u].deps = {target[d] : d \in Deps[u]}
      BY <1>2, <2>5 DEF MtimesTell
    <3> QED  BY <2>4, <3>1, <3>2, <3>3, <3>4 DEF Compiled
  <2>6. MtimesTell'
    BY <2>4, <2>5 DEF MtimesTell, Whole
  <2> QED  BY <2>2, <2>3, <2>6
<1>16. CASE Clean
  <2>1. phase = "idle" /\ phase' = phase /\ full' = full
    BY <1>16 DEF Clean
  <2>2. KnownFull' /\ PhaseInv'
    BY <1>2, <2>1 DEF KnownFull, PhaseInv
  <2>3. MtimesTell'
    BY <1>16 DEF Clean, MtimesTell
  <2> QED  BY <1>2, <1>16, <2>2, <2>3 DEF Clean, CacheSound, RunCorrect
<1>17. CASE UNCHANGED vars
  <2>1. KnownFull' /\ PhaseInv'
    BY <1>2, <1>17 DEF vars, KnownFull, PhaseInv, Here
  <2> QED  BY <1>2, <1>17, <2>1, TargetKept DEF vars, CacheSound, RunCorrect
<1>18. CASE CrashRestoring
  <2>1. KnownFull' /\ PhaseInv'
    BY <1>18, ResetShapes DEF CrashRestoring, KnownFull, PhaseInv
  <2>2. CacheSound' /\ RunCorrect'
    BY <1>2, <1>18 DEF CrashRestoring, CacheSound, RunCorrect
  <2> QED  BY <1>18, <2>1, <2>2, RestoringBreaks
<1> QED  BY <1>4, <1>5, <1>6, <1>7, <1>8, <1>9, <1>10, <1>11, <1>12, <1>13, <1>14, <1>15,
            <1>16, <1>17, <1>18 DEF Next, Progress

LEMMA BuildInvariant ==
    ASSUME NothingLeftOut, ~EditsMidRun
    PROVE  Spec => []BuildInv
<1>1. BuildInv /\ [Next]_vars => BuildInv'
  BY BuildStep
<1> QED  BY <1>1, BuildInit, PTL DEF Spec

\* Every bundle run_cached_build ever stores is what compiling the inputs its key
\* stands for gives, after any sequence of edits, cleans and killed runs.
THEOREM BundlesSound ==
    ASSUME NothingLeftOut, ~EditsMidRun
    PROVE  Spec => []CacheSound
<1>1. BuildInv => CacheSound
  BY DEF BuildInv
<1> QED  BY <1>1, BuildInvariant, PTL

\* A successful run leaves in target/ what a clean build of the inputs would.
THEOREM RunsCorrect ==
    ASSUME NothingLeftOut, ~EditsMidRun
    PROVE  Spec => []RunCorrect
<1>1. BuildInv => RunCorrect
  BY DEF BuildInv
<1> QED  BY <1>1, BuildInvariant, PTL

-----------------------------------------------------------------------------
(* Hits: worlds that have been built are found in the cache. *)

\* Something can be harvested and collected of every unit.
EverythingKept == Harvested = Units /\ Collected = Units

\* The units before pos have full keys.
KnownBefore == \A i \in 1..(pos - 1) : full[Order[i]] # NoKey

\* What has been built, and what has a full key, is in the cache; the bundle of
\* the unit that is about to be stored is not yet.
WarmInv ==
    /\ \A w \in built, u \in Units : Recorded(u, w) /\ Stored(u, w)
    /\ \A u \in Units : full[u] # NoKey =>
          /\ Recorded(u, world)
          /\ Stored(u, world) \/ (phase = "store" /\ u = Here)
    /\ phase \in {"harvest", "store"} => KnownBefore
    /\ phase = "lookup" /\ quiet /\ world \in built => KnownBefore
    /\ BuiltWorldsHit

LEMMA WarmInit == Init => WarmInv
  BY DEF Init, WarmInv, BuiltWorldsHit

LEMMA EarlierKnown ==
    ASSUME Shapes, More, KnownBefore
    PROVE  \A d \in Deps[Here] : full[d] # NoKey
<1> SUFFICES ASSUME NEW d \in Deps[Here]
             PROVE  full[d] # NoKey
  OBVIOUS
<1>1. Here \in Units /\ pos \in 1..Len(Order)
  BY HereIsUnit
<1>2. PICK j \in 1..Len(Order) : Order[j] = d
  BY <1>1, OrderProperties
<1>3. j \in 1..(pos - 1)
  BY <1>1, <1>2, OrderProperties DEF Here
<1> QED  BY <1>2, <1>3 DEF KnownBefore

\* Phase 1 finds every unit of a world that has been built.
LEMMA BuiltIsFound ==
    ASSUME NothingLeftOut, BuildInv, WarmInv, phase = "lookup", More, quiet, world \in built
    PROVE  \E e \in bundles : e.key \in Candidates(Here)
<1>1. Here \in Units /\ KnownBefore
  BY HereIsUnit DEF BuildInv, WarmInv
<1>2. \A d \in Deps[Here] : full[d] # NoKey
  BY <1>1, EarlierKnown DEF BuildInv
<1>3. Recorded(Here, world) /\ Stored(Here, world)
  BY <1>1 DEF WarmInv
<1> QED  BY <1>1, <1>2, <1>3, StoredHits DEF BuildInv

LEMMA WarmStep ==
    ASSUME NothingLeftOut, ~EditsMidRun, EverythingKept, BuildInv, WarmInv, [Next]_vars
    PROVE  WarmInv'
<1>1. Shapes /\ KnownFull /\ PhaseInv
  BY DEF BuildInv
<1> USE DEF cache, run
<1>2. ASSUME UNCHANGED <<cache, built, full, world>>, phase # "store", phase' # "store"
      PROVE  /\ \A w \in built', u \in Units : (Recorded(u, w) /\ Stored(u, w))'
             /\ \A u \in Units : full'[u] # NoKey => (Recorded(u, world) /\ Stored(u, world))'
  BY <1>2 DEF WarmInv, Recorded, Stored, ContainsUnit
<1>3. CASE Start
  <2>1. KnownBefore'
    BY <1>3 DEF Start, KnownBefore
  <2> QED  BY <1>2, <1>3, <2>1 DEF Start, WarmInv, BuiltWorldsHit
<1>4. CASE Hit
  <2>1. Here \in Units /\ pos \in 1..Len(Order)
    BY <1>1, <1>4, HereIsUnit DEF Hit
  <2>2. PICK e \in bundles : /\ e.key \in Candidates(Here)
                             /\ full' = [full EXCEPT ![Here] = e.key]
    BY <1>4 DEF Hit
  <2>3. e.key = IdealKeys(world)[Here] /\ Recorded(Here, world)
    BY <1>4, <2>1, <2>2, HitCurrent DEF Hit, BuildInv, Recorded
  <2>4. full'[Here] = e.key /\ e.key # NoKey
    BY <1>1, <2>1, <2>2, <2>3, NoKeyAssumption DEF Shapes, TypeOK
  <2>5. \A v \in Units \ {Here} : full'[v] = full[v]
    BY <1>1, <2>2 DEF Shapes, TypeOK
  <2>6. UNCHANGED <<world, dyn, bundles, built, phase, quiet>> /\ phase = "lookup"
        /\ pos' = pos + 1
    BY <1>4 DEF Hit
  <2>7. Stored(Here, world)
    BY <2>2, <2>3 DEF Stored, ContainsUnit
  <2>8. \A u \in Units : full'[u] # NoKey => (Recorded(u, world) /\ Stored(u, world))'
    <3>1. \A u \in Units : full'[u] # NoKey => Recorded(u, world) /\ Stored(u, world)
      BY <2>3, <2>5, <2>6, <2>7 DEF WarmInv
    <3> QED  BY <2>6, <3>1 DEF Recorded, Stored, ContainsUnit
  <2>9. \A w \in built', u \in Units : (Recorded(u, w) /\ Stored(u, w))'
    BY <2>6 DEF WarmInv, Recorded, Stored, ContainsUnit
  <2>10. ASSUME quiet, world \in built
         PROVE  KnownBefore'
    <3> SUFFICES ASSUME NEW i \in 1..(pos' - 1)
                 PROVE  full'[Order[i]] # NoKey
      BY DEF KnownBefore
    <3>1. CASE i = pos
      BY <2>4, <3>1 DEF Here
    <3>2. CASE i # pos
      <4>1. i \in 1..(pos - 1) /\ Order[i] \in Units
        BY <2>1, <2>6, <3>2, OrderProperties
      <4>2. full[Order[i]] # NoKey
        BY <2>6, <2>10, <4>1 DEF WarmInv, KnownBefore
      <4> QED  BY <2>4, <2>5, <4>1, <4>2
    <3> QED  BY <3>1, <3>2
  <2> QED  BY <2>6, <2>8, <2>9, <2>10 DEF WarmInv, BuiltWorldsHit
<1>5. CASE Miss
  <2>1. ~(quiet /\ world \in built)
    BY <1>5, BuiltIsFound DEF Miss
  <2> QED  BY <1>2, <1>5, <2>1 DEF Miss, WarmInv, BuiltWorldsHit
<1>6. CASE EndLookup
  <2>1. ASSUME \A u \in Units : full[u] # NoKey, Succeed
        PROVE  WarmInv'
    <3>1. \A u \in Units : Recorded(u, world) /\ Stored(u, world)
      BY <1>6, <2>1 DEF EndLookup, WarmInv
    <3>2. \A w \in built', u \in Units : Recorded(u, w) /\ Stored(u, w)
      BY <2>1, <3>1 DEF Succeed, WarmInv
    <3>3. \A w \in built', u \in Units : (Recorded(u, w) /\ Stored(u, w))'
      BY <1>6, <3>2 DEF EndLookup, Recorded, Stored, ContainsUnit
    <3> QED  BY <2>1, <3>3, ResetShapes DEF Succeed, WarmInv, BuiltWorldsHit
  <2>2. ASSUME \E u \in Units : full[u] = NoKey,
               phase' = "build", pos' = 1, UNCHANGED <<statics, full, fresh, built>>
        PROVE  WarmInv'
    <3>1. ~(quiet /\ world \in built)
      <4> SUFFICES ASSUME KnownBefore
                   PROVE  FALSE
        BY <1>6 DEF EndLookup, WarmInv
      <4>1. pos - 1 = Len(Order)
        BY <1>1, <1>6, OrderProperties DEF EndLookup, More, Shapes, TypeOK
      <4>2. \A u \in Units : full[u] # NoKey
        BY <4>1, OrderProperties DEF KnownBefore
      <4> QED  BY <2>2, <4>2
    <3> QED  BY <1>2, <1>6, <2>2, <3>1 DEF EndLookup, WarmInv, BuiltWorldsHit
  <2> QED  BY <1>6, <2>1, <2>2 DEF EndLookup
<1>7. CASE BuildUnit
  BY <1>2, <1>7 DEF BuildUnit, WarmInv, BuiltWorldsHit
<1>8. CASE EndBuild
  <2>1. KnownBefore'
    BY <1>8 DEF EndBuild, KnownBefore
  <2> QED  BY <1>2, <1>8, <2>1 DEF EndBuild, WarmInv, BuiltWorldsHit
<1>9. CASE PassOver
  <2>1. Here \in Units /\ pos \in 1..Len(Order) /\ KnownBefore
    BY <1>1, <1>9, HereIsUnit DEF PassOver, WarmInv
  <2>2. NoKey \notin DepKeys(Here)
    BY <1>1, <1>9, <2>1, EarlierKnown DEF PassOver, DepKeys
  <2>3. full[Here] # NoKey
    BY <1>9, <2>1, <2>2 DEF PassOver, EverythingKept
  <2>4. KnownBefore'
    <3> SUFFICES ASSUME NEW i \in 1..(pos' - 1)
                 PROVE  full[Order[i]] # NoKey
      BY <1>9 DEF PassOver, KnownBefore
    <3>1. i = pos \/ i \in 1..(pos - 1)
      BY <1>9, <2>1, OrderProperties DEF PassOver
    <3> QED  BY <2>1, <2>3, <3>1 DEF KnownBefore, Here
  <2> QED  BY <1>2, <1>9, <2>4 DEF PassOver, WarmInv, BuiltWorldsHit
<1>10. CASE Harvest
  <2>1. Here \in Units /\ pos \in 1..Len(Order) /\ KnownBefore
    BY <1>1, <1>10, HereIsUnit DEF Harvest, WarmInv
  <2>2. /\ HarvestShape(Here) = Opened(Here, world)
        /\ FullKey(statics[Here], HarvestShape(Here), world, DepKeys(Here))
              = IdealKeys(world)[Here]
    BY <1>10, <2>1, HarvestedKey DEF Harvest
  <2>3. /\ full' = [full EXCEPT ![Here] = IdealKeys(world)[Here]]
        /\ dyn' = Record(Here, Opened(Here, world))
        /\ \/ Stored(Here, world) /\ pos' = pos + 1 /\ phase' = phase
           \/ phase' = "store" /\ pos' = pos
    BY <1>10, <2>1, <2>2 DEF Harvest, EverythingKept, Stored
  <2>4. UNCHANGED <<world, bundles, quiet, built>> /\ phase = "harvest"
    BY <1>10 DEF Harvest
  <2>5. full'[Here] # NoKey /\ \A v \in Units \ {Here} : full'[v] = full[v]
    BY <1>1, <2>1, <2>3, NoKeyAssumption DEF Shapes, TypeOK
  <2>6. dyn \subseteq dyn' /\ bundles \subseteq bundles'
        /\ \A u \in Units : u = Here => Recorded(u, world)'
    <3>1. dyn' = dyn \cup {<<StaticKeys(world)[Here], Opened(Here, world)>>}
      BY <1>1, <2>3, <2>4 DEF Record, PhaseInv
    <3>2. ASSUME NEW u \in Units, u = Here
          PROVE  Recorded(u, world)'
      <4>1. dyn' = dyn \cup {<<StaticKeys(world)[u], Opened(u, world)>>}
        BY <3>1, <3>2
      <4>2. \E m \in dyn' : m[1] = StaticKeys(world)[u] /\ m[2] = Opened(u, world)
        <5> DEFINE m == <<StaticKeys(world)[u], Opened(u, world)>>
        <5>1. m[1] = StaticKeys(world)[u] /\ m[2] = Opened(u, world)
          OBVIOUS
        <5>2. m \in dyn'
          BY <4>1
        <5> HIDE DEF m
        <5> QED  BY <5>1, <5>2
      <4> QED  BY <2>4, <4>2 DEF Recorded
    <3> QED  BY <2>4, <3>1, <3>2
  <2>7. \A w \in built', u \in Units : (Recorded(u, w) /\ Stored(u, w))'
    BY <2>4, <2>6, CacheGrows DEF WarmInv
  <2>8. ASSUME NEW u \in Units, full'[u] # NoKey
        PROVE  /\ Recorded(u, world)'
               /\ Stored(u, world)' \/ (phase' = "store" /\ u = Here')
    <3>1. CASE u = Here
      <4>1. Recorded(u, world)'
        BY <2>6, <3>1
      <4>2. CASE Stored(Here, world)
        <5>1. Stored(u, world)
          BY <3>1, <4>2
        <5>2. Stored(u, world)'
          BY <2>4, <5>1 DEF Stored, ContainsUnit
        <5> QED  BY <4>1, <5>2
      <4>3. CASE phase' = "store" /\ pos' = pos
        BY <3>1, <4>1, <4>3 DEF Here
      <4> QED  BY <2>3, <4>1, <4>2, <4>3
    <3>2. CASE u # Here
      <4>1. Recorded(u, world) /\ Stored(u, world)
        BY <2>4, <2>5, <2>8, <3>2 DEF WarmInv
      <4> QED  BY <2>4, <2>6, <4>1 DEF Recorded, Stored, ContainsUnit
    <3> QED  BY <3>1, <3>2
  <2>9. KnownBefore'
    <3> SUFFICES ASSUME NEW i \in 1..(pos' - 1)
                 PROVE  full'[Order[i]] # NoKey
      BY DEF KnownBefore
    <3>1. i = pos \/ i \in 1..(pos - 1)
      BY <2>1, <2>3, OrderProperties
    <3>2. Order[i] \in Units
      BY <2>1, <3>1, OrderProperties
    <3> QED  BY <2>1, <2>5, <3>1, <3>2 DEF KnownBefore, Here
  <2> QED  BY <2>3, <2>4, <2>7, <2>8, <2>9 DEF WarmInv, BuiltWorldsHit
<1>11. CASE Store
  <2>1. Here \in Units /\ pos \in 1..Len(Order) /\ KnownBefore
    BY <1>1, <1>11, HereIsUnit DEF Store, Shapes, WarmInv
  <2>2. full[Here] = IdealKeys(world)[Here] /\ full[Here] # NoKey
    BY <1>1, <1>11, <2>1, NoKeyAssumption DEF Store, PhaseInv, Shapes, TypeOK
  <2>3. UNCHANGED <<world, dyn, quiet, built, full>> /\ bundles \subseteq bundles'
        /\ phase' = "harvest" /\ phase = "store" /\ pos' = pos + 1
    BY <1>11 DEF Store
  <2>4. \A u \in Units : u = Here => Stored(u, world)'
    <3>1. [key |-> full[Here], art |-> target[Here]] \in bundles'
      BY <1>11 DEF Store
    <3>2. [key |-> full[Here], art |-> target[Here]].key = IdealKeys(world)[Here]
      BY <2>2
    <3>3. \E e \in bundles' : e.key = IdealKeys(world)[Here]
      BY <3>1, <3>2
    <3> QED  BY <2>3, <3>3 DEF Stored, ContainsUnit
  <2>5. \A w \in built', u \in Units : (Recorded(u, w) /\ Stored(u, w))'
    BY <2>3, CacheGrows DEF WarmInv
  <2>6. ASSUME NEW u \in Units, full'[u] # NoKey
        PROVE  Recorded(u, world)' /\ Stored(u, world)'
    <3>1. Recorded(u, world) /\ (Stored(u, world) \/ u = Here)
      BY <2>3, <2>6 DEF WarmInv
    <3>2. Recorded(u, world)'
      BY <2>3, <3>1 DEF Recorded
    <3>3. CASE Stored(u, world)
      <4>1. Stored(u, world)'
        BY <2>3, <3>3 DEF Stored, ContainsUnit
      <4> QED  BY <3>2, <4>1
    <3> QED  BY <2>4, <3>1, <3>2, <3>3
  <2>7. KnownBefore'
    <3> SUFFICES ASSUME NEW i \in 1..(pos' - 1)
                 PROVE  full[Order[i]] # NoKey
      BY <2>3 DEF KnownBefore
    <3>1. i = pos \/ i \in 1..(pos - 1)
      BY <2>1, <2>3, OrderProperties
    <3> QED  BY <2>1, <2>2, <3>1 DEF KnownBefore, Here
  <2> QED  BY <2>3, <2>5, <2>6, <2>7 DEF WarmInv, BuiltWorldsHit
<1>12. CASE EndHarvest
  <2>1. pos - 1 = Len(Order) /\ phase = "harvest"
    BY <1>1, <1>12, OrderProperties DEF EndHarvest, More, Shapes, TypeOK
  <2>2. \A u \in Units : full[u] # NoKey
    BY <2>1, OrderProperties DEF WarmInv, KnownBefore
  <2>3. \A u \in Units : Recorded(u, world) /\ Stored(u, world)
    BY <2>1, <2>2 DEF WarmInv
  <2>4. \A w \in built', u \in Units : Recorded(u, w) /\ Stored(u, w)
    BY <1>12, <2>3 DEF EndHarvest, Succeed, WarmInv
  <2>5. \A w \in built', u \in Units : (Recorded(u, w) /\ Stored(u, w))'
    BY <1>12, <2>4 DEF EndHarvest, Recorded, Stored, ContainsUnit
  <2> QED  BY <1>12, <2>5, ResetShapes DEF EndHarvest, Succeed, WarmInv, BuiltWorldsHit
<1>13. CASE Crash \/ CrashRestoring
  <2>1. \A w \in built', u \in Units : (Recorded(u, w) /\ Stored(u, w))'
    BY <1>13 DEF Crash, CrashRestoring, WarmInv, Recorded, Stored, ContainsUnit
  <2> QED  BY <1>13, <2>1, ResetShapes DEF Crash, CrashRestoring, WarmInv, BuiltWorldsHit
<1>14. ASSUME NEW f \in Inputs, NEW c \in Contents, Edit(f, c)
       PROVE  WarmInv'
  <2>1. \A w \in built', u \in Units : (Recorded(u, w) /\ Stored(u, w))'
    BY <1>14 DEF Edit, WarmInv, Recorded, Stored, ContainsUnit
  <2>2. phase' = "idle" /\ \A u \in Units : full'[u] = NoKey
    BY <1>1, <1>14 DEF Edit, KnownFull
  <2> QED  BY <2>1, <2>2 DEF WarmInv, BuiltWorldsHit
<1>15. CASE Clean
  <2>1. \A w \in built', u \in Units : (Recorded(u, w) /\ Stored(u, w))'
    BY <1>15 DEF Clean, WarmInv, Recorded, Stored, ContainsUnit
  <2>2. phase' = "idle" /\ \A u \in Units : full'[u] = NoKey
    BY <1>1, <1>15 DEF Clean, KnownFull
  <2> QED  BY <2>1, <2>2 DEF WarmInv, BuiltWorldsHit
<1>16. CASE UNCHANGED vars
  BY <1>16 DEF vars, WarmInv, BuiltWorldsHit, KnownBefore, Recorded, Stored, ContainsUnit, Here
<1> QED  BY <1>3, <1>4, <1>5, <1>6, <1>7, <1>8, <1>9, <1>10, <1>11, <1>12, <1>13, <1>14,
            <1>15, <1>16 DEF Next, Progress

\* Inputs that were built once hit in every unit from then on.  It needs that
\* everything is stored: a unit of which nothing is harvested misses for ever,
\* and so does what depends on it.
THEOREM BuiltWorldsAreHits ==
    ASSUME NothingLeftOut, ~EditsMidRun, EverythingKept
    PROVE  Spec => []BuiltWorldsHit
<1>1. BuildInv /\ WarmInv /\ [Next]_vars => WarmInv'
  BY WarmStep
<1>2. WarmInv => BuiltWorldsHit
  BY DEF WarmInv
<1> QED  BY <1>1, <1>2, WarmInit, BuildInvariant, PTL DEF Spec
=============================================================================
