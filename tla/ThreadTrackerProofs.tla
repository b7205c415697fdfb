------------------------- MODULE ThreadTrackerProofs -------------------------
(***************************************************************************)
(* What the handlers of the tracker of zb time do to its spans, when the   *)
(* spans are a tree, and what is added up over it, for any number of       *)
(* threads.                                                                *)
(***************************************************************************)
EXTENDS ThreadTracker, FiniteSetTheorems, NaturalsInduction, WellFoundedInduction, TLAPS
-----------------------------------------------------------------------------
(* Induction. *)

\* A set of natural numbers has a least one.
LEMMA LeastNumber ==
    ASSUME NEW T \in SUBSET Nat, T # {}
    PROVE  \E n \in T : \A m \in T : ~(m < n)
<1>1. PICK n \in T : \A m \in T : ~(<<m, n>> \in OpToRel(<, Nat))
  BY NatLessThanWellFounded, WFMin
<1> QED  BY <1>1 DEF OpToRel

\* Induction, over a set of numbers.
LEMMA NumberInduction ==
    ASSUME NEW T \in SUBSET Nat, 0 \in T, \A n \in T : n + 1 \in T
    PROVE  T = Nat
<1> SUFFICES ASSUME Nat \ T # {}
             PROVE  FALSE
  OBVIOUS
<1>1. PICK n \in Nat \ T : \A m \in Nat \ T : ~(m < n)
  BY LeastNumber
<1>2. n # 0 /\ n - 1 \in T
  BY <1>1
<1> QED  BY <1>2
-----------------------------------------------------------------------------
(* Sums over finite sets. *)

\* What all sets have if each has it whose proper subsets have it.
LEMMA SetInduction ==
    ASSUME NEW S, IsFiniteSet(S), NEW P,
           \A s \in SUBSET S : (\A r \in SUBSET s : r # s => r \in P) => s \in P
    PROVE  SUBSET S \subseteq P
<1> DEFINE T == {n \in Nat : \A s \in SUBSET S : Cardinality(s) < n => s \in P}
<1>1. \A s \in SUBSET S : IsFiniteSet(s) /\ Cardinality(s) \in Nat
  BY FS_Subset, FS_CardinalityType
<1>2. 0 \in T
  BY <1>1
<1>3. ASSUME NEW n \in T
      PROVE  n + 1 \in T
  <2> SUFFICES ASSUME NEW s \in SUBSET S, Cardinality(s) < n + 1
               PROVE  s \in P
    OBVIOUS
  <2>1. ASSUME NEW r \in SUBSET s, r # s
        PROVE  r \in P
    <3>1. Cardinality(r) <= Cardinality(s) /\ Cardinality(r) # Cardinality(s)
      BY <1>1, <2>1, FS_Subset
    <3>2. Cardinality(r) < n
      BY <1>1, <3>1
    <3> QED  BY <3>2
  <2> QED  BY <2>1
<1>4. T = Nat
  <2>1. T \in SUBSET Nat
    OBVIOUS
  <2> HIDE DEF T
  <2> QED  BY <1>2, <1>3, <2>1, NumberInduction
<1>5. ASSUME NEW s \in SUBSET S
      PROVE  s \in P
  <2>1. Cardinality(s) + 1 \in T /\ Cardinality(s) < Cardinality(s) + 1
    <3> HIDE DEF T
    <3> QED  BY <1>1, <1>4
  <2> QED  BY <2>1
<1> QED  BY <1>5

\* The element MapThenSumSet takes out of a set.
Taken(s) == CHOOSE x \in s : TRUE

\* The sum over s of the values of v, if f has the sums over smaller sets.
SumStep(v, f, s) == IF s = {} THEN 0 ELSE v[Taken(s)] + f[s \ {Taken(s)}]
Sums(v, S, f) == f = [s \in SUBSET S |-> SumStep(v, f, s)]
SumOf(v, S) == MapThenSumSet(LAMBDA x : v[x], S)

\* Taking an element out of a finite set.
LEMMA Smaller ==
    ASSUME NEW S, IsFiniteSet(S), NEW s \in SUBSET S, s # {}
    PROVE  /\ Taken(s) \in s /\ IsFiniteSet(s)
           /\ s \ {Taken(s)} \in SUBSET S
           /\ Cardinality(s) \in Nat /\ Cardinality(s) # 0
           /\ Cardinality(s \ {Taken(s)}) = Cardinality(s) - 1
<1>1. Taken(s) \in s
  BY DEF Taken
<1>2. IsFiniteSet(s)
  BY FS_Subset
<1> QED  BY <1>1, <1>2, FS_RemoveElement, FS_CardinalityType, FS_EmptySet

\* The sums over the subsets of a finite set exist.
LEMMA SumsExist ==
    ASSUME NEW v, NEW S, IsFiniteSet(S)
    PROVE  \E f : Sums(v, S, f)
<1> DEFINE Upto(n) == \E f : \A s \in SUBSET S :
                          Cardinality(s) <= n => f[s] = SumStep(v, f, s)
           T == {n \in Nat : Upto(n)}
<1>0. \A s \in SUBSET S : IsFiniteSet(s) /\ Cardinality(s) \in Nat
  BY FS_Subset, FS_CardinalityType
<1>1. Upto(0)
  <2> DEFINE f == [s \in SUBSET S |-> 0]
  <2>1. \A s \in SUBSET S : Cardinality(s) <= 0 => f[s] = SumStep(v, f, s)
    BY <1>0, FS_EmptySet DEF SumStep
  <2> QED  BY <2>1
<1>2. ASSUME NEW n \in Nat, Upto(n)
      PROVE  Upto(n + 1)
  <2>1. PICK f : \A s \in SUBSET S : Cardinality(s) <= n => f[s] = SumStep(v, f, s)
    BY <1>2
  <2> DEFINE g == [s \in SUBSET S |-> IF Cardinality(s) <= n THEN f[s] ELSE SumStep(v, f, s)]
  <2>2. ASSUME NEW s \in SUBSET S, Cardinality(s) <= n + 1
        PROVE  g[s] = SumStep(v, g, s)
    <3>1. g[s] = SumStep(v, f, s)
      BY <2>1
    <3>2. CASE s = {}
      BY <3>1, <3>2 DEF SumStep
    <3>3. CASE s # {}
      <4> DEFINE r == s \ {Taken(s)}
      <4>1. r \in SUBSET S /\ Cardinality(r) <= n
        BY <2>2, <3>3, Smaller, <1>0
      <4> HIDE DEF r
      <4>2. g[r] = f[r]
        BY <4>1
      <4> HIDE DEF g
      <4> QED  BY <3>1, <3>3, <4>2 DEF SumStep, r
    <3> QED  BY <3>2, <3>3
  <2> HIDE DEF g
  <2> QED  BY <2>2
<1>3. T = Nat
  <2>1. 0 \in T /\ \A n \in T : n + 1 \in T
    <3> HIDE DEF Upto
    <3> QED  BY <1>1, <1>2
  <2> HIDE DEF T
  <2>2. T \in SUBSET Nat
    BY DEF T
  <2> QED  BY <2>1, <2>2, NumberInduction
<1>4. PICK f : \A s \in SUBSET S :
                  Cardinality(s) <= Cardinality(S) => f[s] = SumStep(v, f, s)
  <2>1. Cardinality(S) \in T
    BY <1>3, FS_CardinalityType
  <2> QED  BY <2>1
<1>5. \A s \in SUBSET S : Cardinality(s) <= Cardinality(S)
  BY FS_Subset
<1> DEFINE g == [s \in SUBSET S |-> f[s]]
<1>6. \A s \in SUBSET S : SumStep(v, g, s) = SumStep(v, f, s)
  BY Smaller DEF SumStep
<1>7. g = [s \in SUBSET S |-> SumStep(v, g, s)]
  <2> DEFINE h == [s \in SUBSET S |-> SumStep(v, g, s)]
  <2>1. \A s \in SUBSET S : g[s] = h[s]
    BY <1>4, <1>5, <1>6
  <2> QED  BY <2>1
<1> HIDE DEF g
<1> QED  BY <1>7 DEF Sums

\* They depend on the values in the set only.
LEMMA SumsUnique ==
    ASSUME NEW v, NEW w, NEW S, IsFiniteSet(S), NEW T, IsFiniteSet(T),
           \A x \in S \cap T : v[x] = w[x],
           NEW f, Sums(v, S, f), NEW g, Sums(w, T, g)
    PROVE  \A s \in SUBSET (S \cap T) : f[s] = g[s]
<1> DEFINE U == S \cap T
           P == {s \in SUBSET U : f[s] = g[s]}
<1>1. IsFiniteSet(U)
  BY FS_Subset
<1>2. ASSUME NEW s \in SUBSET U, \A r \in SUBSET s : r # s => r \in P
      PROVE  s \in P
  <2>1. f[s] = SumStep(v, f, s) /\ g[s] = SumStep(w, g, s)
    BY DEF Sums
  <2>2. CASE s = {}
    BY <2>1, <2>2 DEF SumStep
  <2>3. CASE s # {}
    <3> DEFINE y == Taken(s)
               r == s \ {y}
    <3>1. y \in s /\ r \in SUBSET s /\ r # s
      BY <1>1, <2>3, Smaller
    <3>2. f[r] = g[r] /\ v[y] = w[y]
      BY <1>2, <3>1
    <3>3. f[s] = v[y] + f[r] /\ g[s] = w[y] + g[r]
      BY <2>1, <2>3 DEF SumStep
    <3> QED  BY <3>2, <3>3
  <2> QED  BY <2>2, <2>3
<1>3. SUBSET U \subseteq P
  <2> HIDE DEF P, U
  <2> QED  BY <1>1, <1>2, SetInduction
<1> QED  BY <1>3

\* A sum is that of any function that has the sums over the subsets.
LEMMA SumValue ==
    ASSUME NEW v, NEW w, NEW S, IsFiniteSet(S), \A x \in S : v[x] = w[x],
           NEW f, Sums(w, S, f)
    PROVE  SumOf(v, S) = f[S]
<1> DEFINE g == CHOOSE g : Sums(v, S, g)
<1>1. SumOf(v, S) = g[S]
  BY DEF SumOf, MapThenSumSet, MapThenFoldSet, Sums, SumStep, Taken
<1>2. Sums(v, S, g)
  BY SumsExist
<1> HIDE DEF g
<1>3. \A s \in SUBSET (S \cap S) : g[s] = f[s]
  BY <1>2, SumsUnique
<1> QED  BY <1>1, <1>3

\* The sum over a finite set, one element at a time.
LEMMA SumIs ==
    ASSUME NEW v, NEW S, IsFiniteSet(S)
    PROVE  SumOf(v, S) = IF S = {} THEN 0 ELSE v[Taken(S)] + SumOf(v, S \ {Taken(S)})
<1>1. PICK f : Sums(v, S, f)
  BY SumsExist
<1>2. SumOf(v, S) = f[S] /\ f[S] = SumStep(v, f, S)
  BY <1>1, SumValue DEF Sums
<1>3. CASE S = {}
  BY <1>2, <1>3 DEF SumStep
<1>4. CASE S # {}
  <2> DEFINE R == S \ {Taken(S)}
  <2>1. IsFiniteSet(R) /\ R \in SUBSET S
    BY FS_Subset
  <2>2. f[S] = v[Taken(S)] + f[R]
    BY <1>2, <1>4 DEF SumStep
  <2> HIDE DEF R
  <2>3. PICK g : Sums(v, R, g)
    BY <2>1, SumsExist
  <2>4. SumOf(v, R) = g[R]
    BY <2>1, <2>3, SumValue
  <2>5. \A s \in SUBSET (S \cap R) : f[s] = g[s]
    BY <1>1, <2>1, <2>3, SumsUnique
  <2>6. SumOf(v, R) = f[R]
    BY <2>1, <2>4, <2>5
  <2> QED  BY <1>2, <1>4, <2>2, <2>6 DEF R
<1> QED  BY <1>3, <1>4

\* The sum over no elements.
LEMMA SumEmpty == \A v : SumOf(v, {}) = 0
  BY SumIs, FS_EmptySet

\* What is added up, and where, is all that counts.
LEMMA SumSame ==
    ASSUME NEW S, IsFiniteSet(S), NEW v, NEW w, \A x \in S : v[x] = w[x]
    PROVE  SumOf(v, S) = SumOf(w, S)
<1>1. PICK f : Sums(w, S, f)
  BY SumsExist
<1> QED  BY <1>1, SumValue

\* Sums of integers are integers.
LEMMA SumInt ==
    ASSUME NEW S, IsFiniteSet(S), NEW v, \A x \in S : v[x] \in Int
    PROVE  \A s \in SUBSET S : SumOf(v, s) \in Int
<1> DEFINE P == {s \in SUBSET S : SumOf(v, s) \in Int}
<1>1. ASSUME NEW s \in SUBSET S, \A r \in SUBSET s : r # s => r \in P
      PROVE  s \in P
  <2>1. IsFiniteSet(s)
    BY FS_Subset
  <2>2. CASE s = {}
    BY <2>2, SumEmpty
  <2>3. CASE s # {}
    <3> DEFINE y == Taken(s)
               r == s \ {y}
    <3>1. y \in s /\ r \in SUBSET s /\ r # s
      BY <2>3, Smaller
    <3>2. SumOf(v, s) = v[y] + SumOf(v, r)
      BY <2>1, <2>3, SumIs
    <3> HIDE DEF y, r
    <3> QED  BY <1>1, <3>1, <3>2
  <2> QED  BY <2>2, <2>3
<1> HIDE DEF P
<1>2. SUBSET S \subseteq P
  BY <1>1, SetInduction
<1> QED  BY <1>2 DEF P

\* Any element can be taken out first.
LEMMA SumTake ==
    ASSUME NEW S, IsFiniteSet(S), NEW v, \A x \in S : v[x] \in Int
    PROVE  \A s \in SUBSET S : \A x \in s : SumOf(v, s) = v[x] + SumOf(v, s \ {x})
<1> DEFINE P == {s \in SUBSET S : \A x \in s : SumOf(v, s) = v[x] + SumOf(v, s \ {x})}
<1>1. ASSUME NEW s \in SUBSET S, \A r \in SUBSET s : r # s => r \in P
      PROVE  s \in P
  <2> SUFFICES ASSUME NEW x \in s
               PROVE  SumOf(v, s) = v[x] + SumOf(v, s \ {x})
    OBVIOUS
  <2> DEFINE y == Taken(s)
             r == s \ {y}
             q == s \ {x}
             both == r \ {x}
  <2>1. IsFiniteSet(s) /\ y \in s /\ SumOf(v, s) = v[y] + SumOf(v, r)
    BY FS_Subset, SumIs, Smaller
  <2>2. CASE x = y
    BY <2>1, <2>2
  <2>3. CASE x # y
    <3>1. r \in SUBSET s /\ r # s /\ x \in r
      BY <2>1, <2>3
    <3>2. q \in SUBSET s /\ q # s /\ y \in q /\ q \ {y} = both
      BY <2>1, <2>3
    <3>3. SumOf(v, r) = v[x] + SumOf(v, both)
      BY <1>1, <3>1
    <3>4. SumOf(v, q) = v[y] + SumOf(v, both)
      <4>1. q \in P
        BY <1>1, <3>2
      <4> QED  BY <3>2, <4>1
    <3>5. SumOf(v, both) \in Int /\ v[x] \in Int /\ v[y] \in Int
      BY <2>1, SumInt
    <3> HIDE DEF y, r, both, P
    <3>6. SumOf(v, s) = v[x] + SumOf(v, q)
      <4> HIDE DEF q
      <4> QED  BY <2>1, <3>3, <3>4, <3>5
    <3> QED  BY <3>6
  <2> QED  BY <2>2, <2>3
<1> HIDE DEF P
<1>2. SUBSET S \subseteq P
  BY <1>1, SetInduction
<1> QED  BY <1>2 DEF P

\* The sum of natural numbers is one, and none of them is greater.
LEMMA SumNat ==
    ASSUME NEW S, IsFiniteSet(S), NEW v, \A x \in S : v[x] \in Nat
    PROVE  SumOf(v, S) \in Nat /\ \A x \in S : v[x] <= SumOf(v, S)
<1> DEFINE P == {s \in SUBSET S : SumOf(v, s) \in Nat}
<1>1. ASSUME NEW s \in SUBSET S, \A r \in SUBSET s : r # s => r \in P
      PROVE  s \in P
  <2>1. IsFiniteSet(s)
    BY FS_Subset
  <2>2. CASE s = {}
    BY <2>2, SumEmpty
  <2>3. CASE s # {}
    <3> DEFINE y == Taken(s)
               r == s \ {y}
    <3>1. y \in s /\ r \in SUBSET s /\ r # s
      BY <2>3, Smaller
    <3>2. SumOf(v, s) = v[y] + SumOf(v, r)
      BY <2>1, <2>3, SumIs
    <3> HIDE DEF y, r
    <3> QED  BY <1>1, <3>1, <3>2
  <2> QED  BY <2>2, <2>3
<1> HIDE DEF P
<1>2. SUBSET S \subseteq P
  BY <1>1, SetInduction
<1>3. \A s \in SUBSET S : SumOf(v, s) \in Nat
  BY <1>2 DEF P
<1>4. ASSUME NEW x \in S
      PROVE  v[x] <= SumOf(v, S)
  <2>1. SumOf(v, S) = v[x] + SumOf(v, S \ {x})
    BY SumTake
  <2>2. SumOf(v, S \ {x}) \in Nat
    BY <1>3
  <2> QED  BY <2>1, <2>2
<1> QED  BY <1>3, <1>4

\* The sum over two sets without common elements.
LEMMA SumDisjoint ==
    ASSUME NEW D, IsFiniteSet(D), NEW v, \A x \in D : v[x] \in Int,
           NEW S \in SUBSET D, NEW T \in SUBSET D, S \cap T = {}
    PROVE  SumOf(v, S \cup T) = SumOf(v, S) + SumOf(v, T)
<1> DEFINE P == {s \in SUBSET S : SumOf(v, s \cup T) = SumOf(v, s) + SumOf(v, T)}
<1>1. IsFiniteSet(S) /\ \A s \in SUBSET D : IsFiniteSet(s) /\ SumOf(v, s) \in Int
  BY FS_Subset, SumInt
<1>2. ASSUME NEW s \in SUBSET S, \A r \in SUBSET s : r # s => r \in P
      PROVE  s \in P
  <2>1. CASE s = {}
    <3>1. SumOf(v, {}) = 0 /\ s \cup T = T
      BY <2>1, SumEmpty
    <3> QED  BY <1>1, <2>1, <3>1
  <2>2. CASE s # {}
    <3> DEFINE y == Taken(s)
               r == s \ {y}
               both == s \cup T
    <3>1. y \in s /\ r \in SUBSET s /\ r # s
      BY <1>1, <2>2, Smaller
    <3>2. y \in both /\ both \in SUBSET D /\ both \ {y} = r \cup T
      BY <3>1
    <3>3. SumOf(v, s) = v[y] + SumOf(v, r) /\ s \in SUBSET D /\ r \in SUBSET D
      BY <3>1, SumTake
    <3>4. SumOf(v, r \cup T) = SumOf(v, r) + SumOf(v, T)
      BY <1>2, <3>1
    <3> HIDE DEF y, r
    <3>5. SumOf(v, both) = v[y] + SumOf(v, r \cup T)
      <4> HIDE DEF both
      <4>1. SumOf(v, both) = v[y] + SumOf(v, both \ {y})
        BY <3>2, SumTake
      <4> QED  BY <3>2, <4>1
    <3>6. v[y] \in Int /\ SumOf(v, r) \in Int /\ SumOf(v, T) \in Int
      BY <1>1, <3>1, <3>3
    <3>7. SumOf(v, both) = SumOf(v, s) + SumOf(v, T)
      <4> HIDE DEF both
      <4> QED  BY <3>3, <3>4, <3>5, <3>6
    <3> QED  BY <3>7
  <2> QED  BY <2>1, <2>2
<1> HIDE DEF P
<1>3. SUBSET S \subseteq P
  BY <1>1, <1>2, SetInduction
<1>4. S \in P
  BY <1>3
<1> QED  BY <1>4 DEF P

\* The sum of the sums of two functions.
LEMMA SumAdd ==
    ASSUME NEW S, IsFiniteSet(S), NEW u, NEW v, NEW w,
           \A x \in S : v[x] \in Int /\ w[x] \in Int /\ u[x] = v[x] + w[x]
    PROVE  SumOf(u, S) = SumOf(v, S) + SumOf(w, S)
<1> DEFINE P == {s \in SUBSET S : SumOf(u, s) = SumOf(v, s) + SumOf(w, s)}
<1>1. ASSUME NEW s \in SUBSET S, \A r \in SUBSET s : r # s => r \in P
      PROVE  s \in P
  <2>1. IsFiniteSet(s)
    BY FS_Subset
  <2>2. CASE s = {}
    BY <2>2, SumEmpty
  <2>3. CASE s # {}
    <3> DEFINE y == Taken(s)
               r == s \ {y}
    <3>1. y \in S /\ r \in SUBSET s /\ r # s /\ r \in SUBSET S
      BY <2>3, Smaller
    <3>2. /\ SumOf(u, s) = u[y] + SumOf(u, r)
          /\ SumOf(v, s) = v[y] + SumOf(v, r)
          /\ SumOf(w, s) = w[y] + SumOf(w, r)
      BY <2>1, <2>3, SumIs
    <3>3. SumOf(v, r) \in Int /\ SumOf(w, r) \in Int
      BY <3>1, SumInt
    <3> HIDE DEF y, r
    <3>4. SumOf(u, r) = SumOf(v, r) + SumOf(w, r)
      BY <1>1, <3>1
    <3> QED  BY <3>1, <3>2, <3>3, <3>4
  <2> QED  BY <2>2, <2>3
<1> HIDE DEF P
<1>2. SUBSET S \subseteq P
  BY <1>1, SetInduction
<1>3. S \in P
  BY <1>2
<1> QED  BY <1>3 DEF P

\* The sum over disjoint sets is that of the sums over each.
LEMMA SumFamily ==
    ASSUME NEW D, IsFiniteSet(D), NEW v, \A x \in D : v[x] \in Int,
           NEW I, IsFiniteSet(I), NEW F, \A i \in I : F[i] \in SUBSET D,
           \A i, j \in I : i # j => F[i] \cap F[j] = {},
           NEW g, \A i \in I : g[i] = SumOf(v, F[i])
    PROVE  SumOf(g, I) = SumOf(v, UNION {F[i] : i \in I})
<1> DEFINE Of(s) == UNION {F[i] : i \in s}
           P == {s \in SUBSET I : SumOf(g, s) = SumOf(v, Of(s))}
<1>1. ASSUME NEW s \in SUBSET I, \A r \in SUBSET s : r # s => r \in P
      PROVE  s \in P
  <2>1. IsFiniteSet(s)
    BY FS_Subset
  <2>2. CASE s = {}
    <3>1. Of(s) = {}
      BY <2>2
    <3> HIDE DEF Of
    <3> QED  BY <2>2, <3>1, SumEmpty
  <2>3. CASE s # {}
    <3> DEFINE y == Taken(s)
               r == s \ {y}
    <3>1. y \in s /\ y \in I /\ r \in SUBSET s /\ r # s /\ y \notin r
      BY <2>3, Smaller
    <3>2. SumOf(g, s) = g[y] + SumOf(g, r)
      BY <2>1, <2>3, SumIs
    <3>3. SumOf(g, r) = SumOf(v, Of(r))
      BY <1>1, <3>1
    <3>4. /\ Of(s) = F[y] \cup Of(r)
          /\ F[y] \in SUBSET D /\ Of(r) \in SUBSET D
          /\ F[y] \cap Of(r) = {}
      BY <3>1
    <3> HIDE DEF Of, y, r
    <3>5. SumOf(v, F[y] \cup Of(r)) = SumOf(v, F[y]) + SumOf(v, Of(r))
      BY <3>4, SumDisjoint
    <3>6. SumOf(g, s) = SumOf(v, Of(s))
      BY <3>1, <3>2, <3>3, <3>4, <3>5
    <3> QED  BY <3>6
  <2> QED  BY <2>2, <2>3
<1> HIDE DEF P
<1>2. SUBSET I \subseteq P
  BY <1>1, SetInduction
<1>3. I \in P
  BY <1>2
<1> QED  BY <1>3 DEF P

\* Below each element of D stand those of kids, and none is below itself.
Descends(D, kids, depth, n) ==
    \A s \in D : /\ kids[s] \in SUBSET D /\ depth[s] \in 0..n
                 /\ \A c \in kids[s] : depth[s] < depth[c]

\* f adds up the values of u at an element and at all that stand below it.
AddsUp(D, u, kids, f) == f = [s \in D |-> u[s] + SumOf(f, kids[s])]

\* There is such a function: the deepest elements come first.
LEMMA AddsUpExists ==
    ASSUME NEW D, IsFiniteSet(D), NEW u, NEW kids, NEW depth, NEW n \in Nat,
           Descends(D, kids, depth, n)
    PROVE  \E f : AddsUp(D, u, kids, f)
<1> DEFINE Val(f, s) == u[s] + SumOf(f, kids[s])
           From(k, f) == \A s \in D : depth[s] + k > n => f[s] = Val(f, s)
           T == {k \in Nat : \E f : From(k, f)}
<1>1. \A s \in D : /\ kids[s] \in SUBSET D /\ IsFiniteSet(kids[s])
                   /\ depth[s] \in Nat /\ depth[s] <= n
                   /\ \A c \in kids[s] : depth[c] \in Nat /\ depth[s] < depth[c]
  BY FS_Subset DEF Descends
<1>2. 0 \in T
  <2>1. From(0, u)
    BY <1>1
  <2> QED  BY <2>1
<1>3. ASSUME NEW k \in T
      PROVE  k + 1 \in T
  <2>1. PICK f : From(k, f)
    OBVIOUS
  <2> DEFINE g == [s \in D |-> Val(f, s)]
  <2>2. ASSUME NEW s \in D, depth[s] + (k + 1) > n
        PROVE  g[s] = Val(g, s)
    <3>1. ASSUME NEW c \in kids[s]
          PROVE  f[c] = g[c]
      <4>1. c \in D /\ depth[c] + k > n
        BY <1>1, <2>2
      <4>2. f[c] = Val(f, c)
        BY <2>1, <4>1
      <4> QED  BY <4>1, <4>2
    <3> HIDE DEF g
    <3>2. SumOf(f, kids[s]) = SumOf(g, kids[s])
      BY <1>1, <3>1, SumSame
    <3>3. g[s] = Val(f, s)
      BY DEF g
    <3> QED  BY <3>2, <3>3
  <2> HIDE DEF g, Val
  <2>3. From(k + 1, g)
    BY <2>2
  <2> HIDE DEF From
  <2> QED  BY <2>3
<1>4. T = Nat
  <2>1. T \in SUBSET Nat
    OBVIOUS
  <2> HIDE DEF T
  <2> QED  BY <1>2, <1>3, <2>1, NumberInduction
<1>5. PICK f : \A s \in D : f[s] = Val(f, s)
  <2>1. n + 1 \in T
    <3> HIDE DEF T
    <3> QED  BY <1>4
  <2>2. PICK f : From(n + 1, f)
    BY <2>1
  <2>3. \A s \in D : depth[s] + (n + 1) > n
    BY <1>1
  <2> HIDE DEF Val
  <2> QED  BY <2>2, <2>3
<1> DEFINE g == [s \in D |-> Val(f, s)]
<1>6. ASSUME NEW s \in D
      PROVE  Val(f, s) = Val(g, s)
  <2>1. \A c \in kids[s] : f[c] = g[c]
    BY <1>1, <1>5
  <2> HIDE DEF g
  <2>2. SumOf(f, kids[s]) = SumOf(g, kids[s])
    BY <1>1, <2>1, SumSame
  <2> QED  BY <2>2
<1>7. g = [s \in D |-> Val(g, s)]
  <2> DEFINE h == [s \in D |-> Val(g, s)]
  <2>1. g = h
    <3> HIDE DEF Val
    <3> QED  BY <1>6
  <2> QED  BY <2>1
<1> HIDE DEF g
<1> QED  BY <1>7 DEF AddsUp

\* What it adds up are integers if the values are.
LEMMA AddsUpInt ==
    ASSUME NEW D, IsFiniteSet(D), NEW u, NEW kids, NEW depth, NEW n \in Nat,
           Descends(D, kids, depth, n), \A s \in D : u[s] \in Int,
           NEW f, AddsUp(D, u, kids, f)
    PROVE  \A s \in D : f[s] \in Int
<1> DEFINE T == {k \in Nat : \A s \in D : depth[s] + k > n => f[s] \in Int}
<1>1. \A s \in D : /\ kids[s] \in SUBSET D /\ IsFiniteSet(kids[s])
                   /\ depth[s] \in Nat /\ depth[s] <= n
                   /\ \A c \in kids[s] : depth[c] \in Nat /\ depth[s] < depth[c]
  BY FS_Subset DEF Descends
<1>2. 0 \in T
  BY <1>1
<1>3. ASSUME NEW k \in T
      PROVE  k + 1 \in T
  <2> SUFFICES ASSUME NEW s \in D, depth[s] + (k + 1) > n
               PROVE  f[s] \in Int
    OBVIOUS
  <2>1. \A c \in kids[s] : f[c] \in Int
    BY <1>1
  <2>2. SumOf(f, kids[s]) \in Int
    BY <1>1, <2>1, SumInt
  <2>3. f[s] = u[s] + SumOf(f, kids[s])
    BY DEF AddsUp
  <2> QED  BY <2>2, <2>3
<1>4. T = Nat
  <2>1. T \in SUBSET Nat
    OBVIOUS
  <2> HIDE DEF T
  <2> QED  BY <1>2, <1>3, <2>1, NumberInduction
<1>5. n + 1 \in T
  <2> HIDE DEF T
  <2> QED  BY <1>4
<1> QED  BY <1>1, <1>5

\* Where no two have the same below, what is added up at the elements that stand
\* below no other is the sum of all.
LEMMA AddsUpToAll ==
    ASSUME NEW D, IsFiniteSet(D), NEW u, NEW kids, NEW depth, NEW n \in Nat,
           Descends(D, kids, depth, n), \A s \in D : u[s] \in Int,
           \A s, t \in D : s # t => kids[s] \cap kids[t] = {},
           NEW f, AddsUp(D, u, kids, f)
    PROVE  SumOf(f, D \ UNION {kids[s] : s \in D}) = SumOf(u, D)
<1> DEFINE B == UNION {kids[s] : s \in D}
           A == D \ B
           g == [s \in D |-> SumOf(f, kids[s])]
<1>1. \A s \in D : f[s] \in Int
  BY AddsUpInt
<1>2. \A s \in D : kids[s] \in SUBSET D
  BY DEF Descends
<1>3. \A s \in D : g[s] \in Int /\ f[s] = u[s] + g[s]
  <2>1. \A s \in D : SumOf(f, kids[s]) \in Int
    BY <1>1, <1>2, SumInt
  <2>2. \A s \in D : f[s] = u[s] + SumOf(f, kids[s])
    BY DEF AddsUp
  <2> QED  BY <2>1, <2>2
<1>4. SumOf(g, D) = SumOf(f, B)
  <2>1. \A s \in D : g[s] = SumOf(f, kids[s])
    OBVIOUS
  <2> HIDE DEF g
  <2> QED  BY <1>1, <1>2, <2>1, SumFamily
<1> HIDE DEF g
<1>5. SumOf(f, D) = SumOf(u, D) + SumOf(g, D)
  BY <1>3, SumAdd
<1>6. SumOf(f, D) = SumOf(f, A) + SumOf(f, B)
  <2>1. A \in SUBSET D /\ B \in SUBSET D /\ A \cap B = {} /\ A \cup B = D
    BY <1>2
  <2> HIDE DEF A, B
  <2>2. SumOf(f, A \cup B) = SumOf(f, A) + SumOf(f, B)
    BY <1>1, <2>1, SumDisjoint
  <2> QED  BY <2>1, <2>2
<1>7. SumOf(f, A) \in Int /\ SumOf(f, B) \in Int /\ SumOf(u, D) \in Int
  <2>1. A \in SUBSET D /\ B \in SUBSET D
    BY <1>2
  <2> HIDE DEF A, B
  <2> QED  BY <1>1, <2>1, SumInt
<1>8. SumOf(f, A) = SumOf(u, D)
  <2> HIDE DEF A, B
  <2>1. \A a, b, c \in Int : a + b = c + b => a = c
    OBVIOUS
  <2>2. SumOf(f, A) + SumOf(f, B) = SumOf(u, D) + SumOf(f, B)
    BY <1>4, <1>5, <1>6, Zenon
  <2> QED  BY <1>7, <2>1, <2>2, Zenon
<1> QED  BY <1>8
-----------------------------------------------------------------------------
(* What the handlers do to a tracker. *)

SpanType ==
    [tid : Tids, init : Kinds, parent : Nat, children : Seq(Nat), argv : Argvs,
     end : Reasons \cup {NotEnded}, usage : Int]

IsTracker(tr) ==
    /\ tr \in [threads : [Tids -> Nat], spans : Seq(SpanType), root : Nat]
    /\ TrackerType(tr)

\* The spans of q are those of tr, but for n.
SpansKept(tr, q, n) ==
    \A x \in DOMAIN tr.spans : x # n => q.spans[x] = tr.spans[x]

\* A sequence over one set whose elements are in another.
LEMMA SeqNarrow ==
    ASSUME NEW S, NEW T, NEW q \in Seq(S), \A i \in 1..Len(q) : q[i] \in T
    PROVE  q \in Seq(T)
  OBVIOUS

\* The types of a new span and of a new tracker.
LEMMA NewSpanType == \A t \in Tids : NewSpan(t) \in SpanType
  BY DEF NewSpan, SpanType, Kinds, Argvs, NotEnded

\* A new tracker is one.
LEMMA NewTrackerType == IsTracker(NewTracker)
  BY DEF IsTracker, NewTracker, TrackerType, Children

\* The type of a tracker, field by field.
LEMMA TrackerFields ==
    ASSUME NEW tr, IsTracker(tr)
    PROVE  /\ DOMAIN tr = {"threads", "spans", "root"}
           /\ tr.threads \in [Tids -> 0..Len(tr.spans)]
           /\ tr.spans \in Seq(SpanType) /\ Len(tr.spans) \in Nat
           /\ DOMAIN tr.spans = 1..Len(tr.spans)
           /\ tr.root \in 0..Len(tr.spans)
           /\ \A x \in DOMAIN tr.spans :
                 /\ tr.spans[x] \in SpanType
                 /\ tr.spans[x].parent \in 0..Len(tr.spans)
                 /\ tr.spans[x].children \in Seq(DOMAIN tr.spans)
<1>1. tr \in [threads : [Tids -> Nat], spans : Seq(SpanType), root : Nat]
  BY DEF IsTracker
<1>2. TrackerType(tr)
  BY DEF IsTracker
<1>3. /\ tr.spans \in Seq(SpanType) /\ Len(tr.spans) \in Nat
      /\ DOMAIN tr.spans = 1..Len(tr.spans)
      /\ \A x \in DOMAIN tr.spans : tr.spans[x] \in SpanType
  BY <1>1
<1>4. /\ DOMAIN tr = {"threads", "spans", "root"}
      /\ tr.threads \in [Tids -> 0..Len(tr.spans)]
      /\ tr.root \in 0..Len(tr.spans)
  BY <1>1, <1>2 DEF TrackerType
<1>5. ASSUME NEW x \in DOMAIN tr.spans
      PROVE  /\ tr.spans[x].parent \in 0..Len(tr.spans)
             /\ tr.spans[x].children \in Seq(DOMAIN tr.spans)
  <2> DEFINE ch == tr.spans[x].children
  <2>1. ch \in Seq(Nat)
    BY <1>3 DEF SpanType
  <2>2. \A i \in 1..Len(ch) : ch[i] \in DOMAIN tr.spans
    <3>1. \A c \in Children(tr, x) : c \in DOMAIN tr.spans
      BY <1>2 DEF TrackerType
    <3> QED  BY <2>1, <3>1 DEF Children
  <2> HIDE DEF ch
  <2>3. ch \in Seq(DOMAIN tr.spans)
    BY <2>1, <2>2, SeqNarrow
  <2>4. tr.spans[x].parent \in 0..Len(tr.spans)
    BY <1>2 DEF TrackerType
  <2> QED  BY <2>3, <2>4 DEF ch
<1> QED  BY <1>3, <1>4, <1>5

\* What is enough for a record to be a tracker.
LEMMA TrackerFromFields ==
    ASSUME NEW tr,
           tr = [threads |-> tr.threads, spans |-> tr.spans, root |-> tr.root],
           tr.spans \in Seq(SpanType),
           tr.threads \in [Tids -> 0..Len(tr.spans)], tr.root \in 0..Len(tr.spans),
           \A x \in 1..Len(tr.spans) :
                 /\ tr.spans[x].parent \in 0..Len(tr.spans)
                 /\ tr.spans[x].children \in Seq(1..Len(tr.spans))
    PROVE  IsTracker(tr)
<1> DEFINE n == Len(tr.spans)
<1>1. n \in Nat /\ DOMAIN tr.spans = 1..n /\ \A x \in 1..n : tr.spans[x] \in SpanType
  OBVIOUS
<1>2. tr \in [threads : [Tids -> Nat], spans : Seq(SpanType), root : Nat]
  <2>1. tr.threads \in [Tids -> Nat] /\ tr.root \in Nat
    BY <1>1
  <2> QED  BY <2>1
<1>3. ASSUME NEW x \in 1..n
      PROVE  /\ tr.spans[x].tid \in Tids
             /\ tr.spans[x].init \in Kinds
             /\ tr.spans[x].end \in Reasons \cup {NotEnded}
             /\ tr.spans[x].argv \in Argvs
             /\ tr.spans[x].usage \in Int
  BY <1>1 DEF SpanType
<1>4. ASSUME NEW x \in 1..n
      PROVE  \A c \in Children(tr, x) : c \in 1..n
  <2>1. tr.spans[x].children \in Seq(1..n)
    OBVIOUS
  <2> QED  BY <2>1 DEF Children
<1>5. TrackerType(tr)
  BY <1>1, <1>3, <1>4 DEF TrackerType
<1> QED  BY <1>2, <1>5 DEF IsTracker

\* get_thread
LEMMA GetFacts ==
    ASSUME NEW tr, IsTracker(tr), NEW t \in Tids, NEW q, q = GetThread(tr, t)
    PROVE  /\ IsTracker(q) /\ q.root = tr.root
           /\ q.threads[t] \in DOMAIN q.spans
           /\ \A u \in Tids : u # t => q.threads[u] = tr.threads[u]
           /\ tr.threads[t] # 0 => q = tr
           /\ tr.threads[t] = 0 =>
                 /\ q.threads[t] = Len(tr.spans) + 1 /\ Len(q.spans) = Len(tr.spans) + 1
                 /\ q.spans[Len(tr.spans) + 1] = NewSpan(t)
           /\ DOMAIN tr.spans \subseteq DOMAIN q.spans /\ SpansKept(tr, q, 0)
<1> DEFINE n == Len(tr.spans)
<1>1. /\ DOMAIN tr = {"threads", "spans", "root"}
      /\ tr.threads \in [Tids -> 0..n] /\ tr.spans \in Seq(SpanType) /\ n \in Nat
      /\ DOMAIN tr.spans = 1..n /\ tr.root \in 0..n
  BY TrackerFields
<1>2. CASE tr.threads[t] # 0
  BY <1>1, <1>2 DEF GetThread, SpansKept
<1>3. CASE tr.threads[t] = 0
  <2>1. q = [tr EXCEPT !.threads[t] = n + 1, !.spans = Append(tr.spans, NewSpan(t))]
    BY <1>3 DEF GetThread
  <2>2. /\ q.threads = [tr.threads EXCEPT ![t] = n + 1]
        /\ q.spans = Append(tr.spans, NewSpan(t)) /\ q.root = tr.root
        /\ q = [threads |-> q.threads, spans |-> q.spans, root |-> q.root]
    <3> HIDE DEF n
    <3> QED  BY <1>1, <2>1
  <2>3. q.spans \in Seq(SpanType) /\ Len(q.spans) = n + 1
    BY <1>1, <2>2, NewSpanType
  <2>4. /\ \A x \in 1..n : q.spans[x] = tr.spans[x]
        /\ q.spans[n + 1] = NewSpan(t)
    BY <1>1, <2>2
  <2>5. ASSUME NEW x \in 1..n + 1
        PROVE  q.spans[x].parent \in 0..n + 1 /\ q.spans[x].children \in Seq(1..n + 1)
    <3>1. \A y \in 1..n : tr.spans[y].parent \in 0..n /\ tr.spans[y].children \in Seq(1..n)
      BY <1>1, TrackerFields
    <3> HIDE DEF n
    <3>2. CASE x = n + 1
      <4>1. q.spans[x].parent = 0 /\ q.spans[x].children = <<>>
        BY <2>4, <3>2 DEF NewSpan
      <4> QED  BY <1>1, <4>1
    <3>3. CASE x # n + 1
      <4>1. x \in 1..n
        BY <1>1, <3>3
      <4>2. q.spans[x] = tr.spans[x]
        BY <2>4, <4>1
      <4>3. tr.spans[x].parent \in 0..n + 1
        BY <1>1, <3>1, <4>1
      <4>4. tr.spans[x].children \in Seq(1..n + 1)
        <5>1. tr.spans[x].children \in Seq(1..n)
          BY <3>1, <4>1
        <5> QED  BY <1>1, <5>1
      <4> QED  BY <4>2, <4>3, <4>4
    <3> QED  BY <3>2, <3>3
  <2>6. q.threads \in [Tids -> 0..n + 1] /\ q.root \in 0..n + 1
    BY <1>1, <2>2
  <2>7. IsTracker(q)
    <3> HIDE DEF n
    <3> QED  BY <2>2, <2>3, <2>5, <2>6, TrackerFromFields
  <2> QED  BY <1>1, <1>3, <2>2, <2>3, <2>4, <2>7 DEF SpansKept
<1> QED  BY <1>2, <1>3

\* A tracker whose span s is replaced.
WithSpan(tr, s, new) == [tr EXCEPT !.spans[s] = new]

\* Replacing a span by one with parent and children in the tracker.
LEMMA ReplaceSpan ==
    ASSUME NEW tr, IsTracker(tr), NEW s \in DOMAIN tr.spans, NEW new \in SpanType,
           new.parent \in 0..Len(tr.spans), new.children \in Seq(DOMAIN tr.spans)
    PROVE  LET q == WithSpan(tr, s, new) IN
           /\ IsTracker(q)
           /\ q.threads = tr.threads /\ q.root = tr.root
           /\ Len(q.spans) = Len(tr.spans) /\ DOMAIN q.spans = DOMAIN tr.spans
           /\ SpansKept(tr, q, s) /\ q.spans[s] = new
<1> DEFINE n == Len(tr.spans)
           q == WithSpan(tr, s, new)
<1>1. /\ DOMAIN tr = {"threads", "spans", "root"}
      /\ tr.threads \in [Tids -> 0..n] /\ tr.spans \in Seq(SpanType) /\ n \in Nat
      /\ DOMAIN tr.spans = 1..n /\ tr.root \in 0..n
      /\ \A x \in 1..n : /\ tr.spans[x].parent \in 0..n
                         /\ tr.spans[x].children \in Seq(1..n)
  BY TrackerFields
<1>a. q = [tr EXCEPT !.spans[s] = new]
  BY DEF WithSpan
<1> HIDE DEF n, q
<1>2. /\ q.threads = tr.threads /\ q.root = tr.root
      /\ q.spans = [tr.spans EXCEPT ![s] = new]
      /\ q = [threads |-> q.threads, spans |-> q.spans, root |-> q.root]
  BY <1>1, <1>a
<1>3. q.spans \in Seq(SpanType) /\ Len(q.spans) = n
  BY <1>1, <1>2 DEF n
<1>4. /\ \A x \in 1..n : x # s => q.spans[x] = tr.spans[x]
      /\ q.spans[s] = new
  BY <1>1, <1>2
<1>5. \A x \in 1..n : q.spans[x].parent \in 0..n /\ q.spans[x].children \in Seq(1..n)
  BY <1>1, <1>4 DEF n
<1>6. IsTracker(q)
  BY <1>1, <1>2, <1>3, <1>5, TrackerFromFields
<1> QED  BY <1>1, <1>2, <1>3, <1>4, <1>6 DEF SpansKept, n, q

\* Updates of the span s of a tracker.
Ended(tr, s, reason, cpu) == [tr EXCEPT !.spans[s].end = reason, !.spans[s].usage = cpu - @]
WithParent(tr, x, p) == [tr EXCEPT !.spans[x].parent = p]
WithInit(tr, s, kind) == [tr EXCEPT !.spans[s].init = kind]
WithChild(tr, p, s) == [tr EXCEPT !.spans[p].children = Append(@, s)]

\* finish_thread replaces the span it ends.
LEMMA EndedIs ==
    ASSUME NEW tr, IsTracker(tr), NEW s \in DOMAIN tr.spans, NEW reason, NEW cpu
    PROVE  Ended(tr, s, reason, cpu)
             = WithSpan(tr, s, [tr.spans[s] EXCEPT !.end = reason, !.usage = cpu - @])
<1>1. /\ DOMAIN tr = {"threads", "spans", "root"} 
      /\ \A x \in DOMAIN tr.spans : tr.spans[x] \in SpanType
  BY TrackerFields
<1>2. tr.spans[s] \in SpanType
  BY <1>1
<1> QED  BY <1>1, <1>2 DEF Ended, WithSpan

\* finish_thread, after get_thread.
LEMMA FinishFacts ==
    ASSUME NEW tr, IsTracker(tr), NEW t \in Tids, NEW reason \in Reasons, NEW cpu \in Int,
           NEW g, g = GetThread(tr, t), NEW s, s = g.threads[t],
           NEW q, q = FinishThread(tr, t, reason, cpu)
    PROVE  /\ IsTracker(q) /\ q.threads = g.threads /\ q.root = g.root
           /\ Len(q.spans) = Len(g.spans) /\ DOMAIN q.spans = DOMAIN g.spans
           /\ SpansKept(g, q, s) /\ s \in DOMAIN g.spans
           /\ q.spans[s].tid = g.spans[s].tid /\ q.spans[s].init = g.spans[s].init
           /\ q.spans[s].argv = g.spans[s].argv /\ q.spans[s].children = g.spans[s].children
           /\ q.spans[s].parent = g.spans[s].parent
           /\ g.spans[s].end = NotEnded =>
                 q.spans[s].end = reason /\ q.spans[s].usage = cpu - g.spans[s].usage
           /\ g.spans[s].end # NotEnded =>
                 /\ q.spans[s].end = IF reason = "killed" THEN reason ELSE g.spans[s].end
                 /\ q.spans[s].usage = g.spans[s].usage
<1>1. IsTracker(g) /\ s \in DOMAIN g.spans
  BY GetFacts
<1>2. /\ g.spans[s] \in SpanType
      /\ g.spans[s].parent \in 0..Len(g.spans)
      /\ g.spans[s].children \in Seq(DOMAIN g.spans)
  BY <1>1, TrackerFields
<1>3. CASE g.spans[s].end = NotEnded
  <2> DEFINE new == [g.spans[s] EXCEPT !.end = reason, !.usage = cpu - @]
  <2>1. q = [g EXCEPT !.spans[s].end = reason, !.spans[s].usage = cpu - @]
    BY <1>3 DEF FinishThread
  <2>2. q = WithSpan(g, s, new)
    <3>1. q = Ended(g, s, reason, cpu)
      BY <2>1 DEF Ended
    <3>2. Ended(g, s, reason, cpu) = WithSpan(g, s, new)
      BY <1>1, EndedIs DEF new
    <3> QED  BY <3>1, <3>2, Zenon
  <2>3. /\ new \in SpanType /\ new.parent = g.spans[s].parent
        /\ new.children = g.spans[s].children
    <3> DEFINE own == cpu - g.spans[s].usage
    <3>1. own \in Int
      BY <1>2 DEF SpanType
    <3> HIDE DEF own
    <3>2. new = [g.spans[s] EXCEPT !.end = reason, !.usage = own]
      BY <1>2 DEF own, SpanType
    <3> HIDE DEF new
    <3> QED  BY <1>2, <3>1, <3>2 DEF SpanType
  <2> HIDE DEF new
  <2>4. /\ IsTracker(q)
        /\ q.threads = g.threads /\ q.root = g.root
        /\ Len(q.spans) = Len(g.spans) /\ DOMAIN q.spans = DOMAIN g.spans
        /\ SpansKept(g, q, s) /\ q.spans[s] = new
    BY <1>1, <1>2, <2>2, <2>3, ReplaceSpan
  <2>5. /\ new.tid = g.spans[s].tid /\ new.init = g.spans[s].init
        /\ new.argv = g.spans[s].argv /\ new.children = g.spans[s].children
        /\ new.end = reason /\ new.usage = cpu - g.spans[s].usage
    BY <1>2 DEF new, SpanType
  <2> QED  BY <1>1, <1>3, <2>3, <2>4, <2>5
<1>4. CASE g.spans[s].end # NotEnded /\ reason = "killed"
  <2> DEFINE new == [g.spans[s] EXCEPT !.end = reason]
  <2>1. q = [g EXCEPT !.spans[s].end = reason]
    BY <1>4 DEF FinishThread
  <2>2. q = WithSpan(g, s, new)
    <3>1. DOMAIN g = {"threads", "spans", "root"}
      BY <1>1, TrackerFields
    <3> QED  BY <1>1, <1>2, <2>1, <3>1 DEF WithSpan
  <2>3. /\ new \in SpanType /\ new.parent = g.spans[s].parent
        /\ new.children = g.spans[s].children
    BY <1>2 DEF SpanType
  <2> HIDE DEF new
  <2>4. /\ IsTracker(q)
        /\ q.threads = g.threads /\ q.root = g.root
        /\ Len(q.spans) = Len(g.spans) /\ DOMAIN q.spans = DOMAIN g.spans
        /\ SpansKept(g, q, s) /\ q.spans[s] = new
    BY <1>1, <1>2, <2>2, <2>3, ReplaceSpan
  <2>5. /\ new.tid = g.spans[s].tid /\ new.init = g.spans[s].init
        /\ new.argv = g.spans[s].argv /\ new.children = g.spans[s].children
        /\ new.end = reason /\ new.usage = g.spans[s].usage
    BY <1>2 DEF new, SpanType
  <2> QED  BY <1>1, <1>4, <2>3, <2>4, <2>5
<1>5. CASE g.spans[s].end # NotEnded /\ reason # "killed"
  <2>1. q = g
    BY <1>5 DEF FinishThread
  <2> QED  BY <1>1, <1>5, <2>1 DEF SpansKept
<1> QED  BY <1>3, <1>4, <1>5

\* What a spawn event leaves alone in a span.
Lasting(span) == <<span.tid, span.argv, span.end, span.usage>>

\* Setting a parent changes nothing else.
LEMMA ParentSet ==
    ASSUME NEW tr, IsTracker(tr), NEW x, NEW p \in DOMAIN tr.spans,
           NEW q, q = WithParent(tr, x, p)
    PROVE  /\ IsTracker(q) /\ q.threads = tr.threads /\ q.root = tr.root
           /\ DOMAIN q.spans = DOMAIN tr.spans
           /\ \A y \in DOMAIN tr.spans :
                 /\ Lasting(q.spans[y]) = Lasting(tr.spans[y])
                 /\ q.spans[y].init = tr.spans[y].init
                 /\ q.spans[y].children = tr.spans[y].children
                 /\ y # x => q.spans[y].parent = tr.spans[y].parent
<1>1. /\ DOMAIN tr = {"threads", "spans", "root"} /\ DOMAIN tr.spans = 1..Len(tr.spans)
      /\ Len(tr.spans) \in Nat /\ tr.spans \in Seq(SpanType)
      /\ \A y \in DOMAIN tr.spans : tr.spans[y] \in SpanType
  BY TrackerFields
<1>2. CASE x \notin DOMAIN tr.spans
  <2>1. [tr.spans EXCEPT ![x].parent = p] = tr.spans
    <3> DEFINE ss == tr.spans
    <3>1. x \notin DOMAIN ss /\ ss = [y \in DOMAIN ss |-> ss[y]]
      BY <1>1, <1>2
    <3> HIDE DEF ss
    <3>2. [ss EXCEPT ![x].parent = p] = ss
      BY <3>1
    <3> QED  BY <3>2 DEF ss
  <2>2. q = [tr EXCEPT !.spans = [tr.spans EXCEPT ![x].parent = p]]
    BY <1>1 DEF WithParent
  <2>3. q = [tr EXCEPT !.spans = tr.spans]
    BY <2>1, <2>2
  <2>4. tr = [threads |-> tr.threads, spans |-> tr.spans, root |-> tr.root]
    BY DEF IsTracker
  <2>5. /\ q.threads = tr.threads /\ q.root = tr.root /\ q.spans = tr.spans
        /\ q = tr
    BY <2>3, <2>4
  <2> QED  BY <2>5
<1>3. CASE x \in DOMAIN tr.spans
  <2> DEFINE new == [tr.spans[x] EXCEPT !.parent = p]
  <2>1. q = WithSpan(tr, x, new)
    BY <1>1, <1>3 DEF WithSpan, WithParent
  <2>2. /\ tr.spans[x] \in SpanType
        /\ tr.spans[x].children \in Seq(DOMAIN tr.spans)
    BY <1>3, TrackerFields
  <2>3. /\ new \in SpanType /\ new.parent = p /\ new.children = tr.spans[x].children
        /\ new.init = tr.spans[x].init /\ Lasting(new) = Lasting(tr.spans[x])
    <3>1. p \in Nat
      BY <1>1
    <3> QED  BY <2>2, <3>1 DEF SpanType, Lasting
  <2>4. p \in 0..Len(tr.spans)
    BY <1>1
  <2> HIDE DEF new
  <2>5. /\ IsTracker(q)
        /\ q.threads = tr.threads /\ q.root = tr.root
        /\ DOMAIN q.spans = DOMAIN tr.spans
        /\ SpansKept(tr, q, x) /\ q.spans[x] = new
    <3>1. new.parent \in 0..Len(tr.spans) /\ new.children \in Seq(DOMAIN tr.spans)
      BY <2>2, <2>3, <2>4
    <3> QED  BY <1>3, <2>1, <2>3, <3>1, ReplaceSpan
  <2> QED  BY <2>3, <2>5 DEF SpansKept
<1> QED  BY <1>2, <1>3

\* Setting how a span began changes nothing else.
LEMMA InitSet ==
    ASSUME NEW tr, IsTracker(tr), NEW s \in DOMAIN tr.spans, NEW kind \in Kinds,
           NEW q, q = WithInit(tr, s, kind)
    PROVE  /\ IsTracker(q) /\ q.threads = tr.threads /\ q.root = tr.root
           /\ DOMAIN q.spans = DOMAIN tr.spans
           /\ \A y \in DOMAIN tr.spans :
                 /\ Lasting(q.spans[y]) = Lasting(tr.spans[y])
                 /\ y # s => q.spans[y].init = tr.spans[y].init
                 /\ q.spans[y].children = tr.spans[y].children
                 /\ q.spans[y].parent = tr.spans[y].parent
           /\ q.spans[s].init = kind
<1>1. /\ DOMAIN tr = {"threads", "spans", "root"}
      /\ tr.spans[s] \in SpanType
      /\ tr.spans[s].parent \in 0..Len(tr.spans)
      /\ tr.spans[s].children \in Seq(DOMAIN tr.spans)
  BY TrackerFields
<1> DEFINE new == [tr.spans[s] EXCEPT !.init = kind]
<1>2. q = WithSpan(tr, s, new)
  BY <1>1 DEF WithSpan, WithInit
<1>3. /\ new \in SpanType /\ new.parent = tr.spans[s].parent
      /\ new.children = tr.spans[s].children
      /\ new.init = kind /\ Lasting(new) = Lasting(tr.spans[s])
  BY <1>1 DEF SpanType, Lasting
<1> HIDE DEF new
<1>4. /\ IsTracker(q)
      /\ q.threads = tr.threads /\ q.root = tr.root
      /\ DOMAIN q.spans = DOMAIN tr.spans
      /\ SpansKept(tr, q, s) /\ q.spans[s] = new
  <2>1. new.parent \in 0..Len(tr.spans) /\ new.children \in Seq(DOMAIN tr.spans)
    BY <1>1, <1>3
  <2> QED  BY <1>2, <1>3, <2>1, ReplaceSpan
<1> QED  BY <1>3, <1>4 DEF SpansKept

\* Appending a child changes nothing else.
LEMMA ChildAdded ==
    ASSUME NEW tr, IsTracker(tr), NEW p \in DOMAIN tr.spans, NEW s \in DOMAIN tr.spans,
           NEW q, q = WithChild(tr, p, s)
    PROVE  /\ IsTracker(q) /\ q.threads = tr.threads /\ q.root = tr.root
           /\ DOMAIN q.spans = DOMAIN tr.spans
           /\ \A y \in DOMAIN tr.spans :
                 /\ Lasting(q.spans[y]) = Lasting(tr.spans[y])
                 /\ q.spans[y].init = tr.spans[y].init
                 /\ q.spans[y].parent = tr.spans[y].parent
                 /\ y # p => q.spans[y].children = tr.spans[y].children
           /\ q.spans[p].children = Append(tr.spans[p].children, s)
<1>1. /\ DOMAIN tr = {"threads", "spans", "root"}
      /\ tr.spans[p] \in SpanType
      /\ tr.spans[p].parent \in 0..Len(tr.spans)
      /\ tr.spans[p].children \in Seq(DOMAIN tr.spans)
      /\ DOMAIN tr.spans = 1..Len(tr.spans) /\ Len(tr.spans) \in Nat
  BY TrackerFields
<1>a. tr.spans[p].children \in Seq(Nat) /\ s \in Nat
  BY <1>1 DEF SpanType
<1> DEFINE ch == Append(tr.spans[p].children, s)
           new == [tr.spans[p] EXCEPT !.children = ch]
<1>2. q = WithSpan(tr, p, new)
  BY <1>1 DEF WithSpan, WithChild
<1>3. ch \in Seq(DOMAIN tr.spans) /\ ch \in Seq(Nat)
  BY <1>1, <1>a
<1> HIDE DEF ch
<1>4. /\ new \in SpanType /\ new.parent = tr.spans[p].parent /\ new.children = ch
      /\ new.init = tr.spans[p].init /\ Lasting(new) = Lasting(tr.spans[p])
  BY <1>1, <1>3 DEF SpanType, Lasting
<1> HIDE DEF new
<1>5. /\ IsTracker(q)
      /\ q.threads = tr.threads /\ q.root = tr.root
      /\ DOMAIN q.spans = DOMAIN tr.spans
      /\ SpansKept(tr, q, p) /\ q.spans[p] = new
  <2>1. new.parent \in 0..Len(tr.spans) /\ new.children \in Seq(DOMAIN tr.spans)
    BY <1>1, <1>3, <1>4
  <2> QED  BY <1>2, <1>4, <2>1, ReplaceSpan
<1> QED  BY <1>4, <1>5 DEF SpansKept, ch
-----------------------------------------------------------------------------
(* Which spans are below which. *)

Linked(tr, y, x) == y \in DOMAIN tr.spans /\ x \in Children(tr, y)
SameThread(tr, x, y) == tr.spans[x].tid = tr.spans[y].tid

\* An exec put x below y; the event of a spawn did.
Followed(tr, y, x) == Linked(tr, y, x) /\ SameThread(tr, x, y)
Bound(tr, y, x) == Linked(tr, y, x) /\ ~SameThread(tr, x, y)
SpawnSeen(tr, t) == \E x, y \in DOMAIN tr.spans : Bound(tr, y, x) /\ tr.spans[x].tid = t

SpanOf(tr, t) == tr.spans[tr.threads[t]]

\* The spans of a thread follow each other, and one of them at most is below a
\* span of its spawner's.
Chained(tr) ==
    /\ \A s \in DOMAIN tr.spans : tr.threads[tr.spans[s].tid] # 0
    /\ \A t \in Tids : tr.threads[t] # 0 => SpanOf(tr, t).tid = t
    /\ \A x, y \in DOMAIN tr.spans : Followed(tr, y, x) => y < x
    /\ \A x, y, z \in DOMAIN tr.spans : Followed(tr, y, x) /\ Followed(tr, z, x) => y = z
    /\ \A w, x, y, z \in DOMAIN tr.spans :
          Bound(tr, y, x) /\ Bound(tr, z, w) /\ SameThread(tr, x, w) => x = w /\ y = z
    /\ \A y \in DOMAIN tr.spans : \A i, j \in DOMAIN tr.spans[y].children :
          tr.spans[y].children[i] = tr.spans[y].children[j] => i = j

\* q has the links of tr and, it may be, more spans, which have none.
SameLinks(tr, q) ==
    /\ DOMAIN tr.spans \subseteq DOMAIN q.spans
    /\ \A x \in DOMAIN tr.spans : /\ q.spans[x].tid = tr.spans[x].tid
                                  /\ q.spans[x].children = tr.spans[x].children
    /\ \A x \in DOMAIN q.spans \ DOMAIN tr.spans :
          q.spans[x].children = <<>> /\ q.threads[q.spans[x].tid] # 0
    /\ \A t \in Tids : \/ q.threads[t] = tr.threads[t]
                       \/ q.threads[t] \in DOMAIN q.spans /\ SpanOf(q, t).tid = t

\* Spans below and above each other are spans.
LEMMA LinkedInside ==
    ASSUME NEW tr, IsTracker(tr), NEW x, NEW y, Linked(tr, y, x)
    PROVE  x \in DOMAIN tr.spans /\ y \in DOMAIN tr.spans
<1>1. y \in DOMAIN tr.spans /\ tr.spans[y].children \in Seq(DOMAIN tr.spans)
  BY TrackerFields DEF Linked
<1> QED  BY <1>1 DEF Linked, Children

\* The numbers of spans, their threads, and which threads have one.
LEMMA SpanNumbers ==
    ASSUME NEW tr, IsTracker(tr)
    PROVE  /\ \A x \in DOMAIN tr.spans : x \in Nat /\ x # 0 /\ tr.spans[x].tid \in Tids
           /\ \A t \in Tids : tr.threads[t] # 0 <=> tr.threads[t] \in DOMAIN tr.spans
<1>1. /\ DOMAIN tr.spans = 1..Len(tr.spans) /\ Len(tr.spans) \in Nat
      /\ tr.threads \in [Tids -> 0..Len(tr.spans)]
      /\ \A x \in DOMAIN tr.spans : tr.spans[x] \in SpanType
  BY TrackerFields
<1>2. \A x \in DOMAIN tr.spans : x \in Nat /\ x # 0 /\ tr.spans[x].tid \in Tids
  BY <1>1 DEF SpanType
<1>3. \A t \in Tids : tr.threads[t] \in 0..Len(tr.spans)
  BY <1>1
<1> QED  BY <1>1, <1>2, <1>3

\* With the same links the chains are the same.
LEMMA LinksSame ==
    ASSUME NEW tr, IsTracker(tr), NEW q, IsTracker(q), SameLinks(tr, q), Chained(tr)
    PROVE  /\ Chained(q)
           /\ \A x, y : Linked(q, y, x) <=> Linked(tr, y, x)
           /\ \A t : SpawnSeen(q, t) <=> SpawnSeen(tr, t)
<1>1. \A x, y : Linked(q, y, x) <=> Linked(tr, y, x)
  BY DEF Linked, SameLinks, Children
<1>2. \A x, y : Linked(tr, y, x) =>
         /\ x \in DOMAIN tr.spans /\ y \in DOMAIN tr.spans
         /\ SameThread(q, x, y) <=> SameThread(tr, x, y)
  BY LinkedInside DEF SameLinks, SameThread
<1>3. \A x, y : /\ Followed(q, y, x) <=> Followed(tr, y, x)
                /\ Bound(q, y, x) <=> Bound(tr, y, x)
  BY <1>1, <1>2 DEF Followed, Bound
<1>4. \A x, y : Followed(tr, y, x) \/ Bound(tr, y, x) =>
         x \in DOMAIN tr.spans /\ y \in DOMAIN tr.spans
  BY <1>2 DEF Followed, Bound
<1>5. \A t : SpawnSeen(q, t) <=> SpawnSeen(tr, t)
  BY <1>3, <1>4 DEF SpawnSeen, SameLinks
<1>6. /\ \A s \in DOMAIN q.spans : q.threads[q.spans[s].tid] # 0
      /\ \A t \in Tids : q.threads[t] # 0 => SpanOf(q, t).tid = t
  BY SpanNumbers DEF SameLinks, Chained, SpanOf
<1>7. /\ \A x, y \in DOMAIN q.spans : Followed(q, y, x) => y < x
      /\ \A x, y, z \in DOMAIN q.spans : Followed(q, y, x) /\ Followed(q, z, x) => y = z
  BY <1>3, <1>4 DEF Chained
<1>8. \A w, x, y, z \in DOMAIN q.spans :
          Bound(q, y, x) /\ Bound(q, z, w) /\ SameThread(q, x, w) => x = w /\ y = z
  <2>1. \A w, x \in DOMAIN tr.spans : SameThread(q, x, w) <=> SameThread(tr, x, w)
    BY DEF SameThread, SameLinks
  <2> QED  BY <1>3, <1>4, <2>1 DEF Chained
<1>9. \A y \in DOMAIN q.spans : \A i, j \in DOMAIN q.spans[y].children :
          q.spans[y].children[i] = q.spans[y].children[j] => i = j
  BY DEF SameLinks, Chained
<1> QED  BY <1>1, <1>5, <1>6, <1>7, <1>8, <1>9 DEF Chained

\* q is tr with s put below p.
LinkAdded(tr, q, p, s) ==
    /\ q.threads = tr.threads /\ DOMAIN q.spans = DOMAIN tr.spans
    /\ p \in DOMAIN tr.spans /\ s \in DOMAIN tr.spans
    /\ \A x \in DOMAIN tr.spans : q.spans[x].tid = tr.spans[x].tid
    /\ \A x \in DOMAIN tr.spans : x # p => q.spans[x].children = tr.spans[x].children
    /\ q.spans[p].children = Append(tr.spans[p].children, s)

\* The children of p in q are those in tr, with s appended.
OneMoreBelow(tr, q, p, s) == q.spans[p].children = Append(tr.spans[p].children, s)

\* So is the set of them.
LEMMA ChildrenOf ==
    ASSUME NEW tr, IsTracker(tr), NEW p \in DOMAIN tr.spans, NEW s, NEW q,
           OneMoreBelow(tr, q, p, s)
    PROVE  Children(q, p) = Children(tr, p) \cup {s}
<1> DEFINE ch == tr.spans[p].children
<1>1. ch \in Seq(DOMAIN tr.spans)
  BY TrackerFields
<1>2. /\ DOMAIN ch = 1..Len(ch) /\ Len(ch) \in Nat
      /\ DOMAIN Append(ch, s) = 1..Len(ch) + 1
      /\ \A i \in 1..Len(ch) : Append(ch, s)[i] = ch[i]
      /\ Append(ch, s)[Len(ch) + 1] = s
  BY <1>1
<1>3. q.spans[p].children = Append(ch, s)
  BY DEF OneMoreBelow
<1> HIDE DEF ch
<1>4. {Append(ch, s)[i] : i \in DOMAIN Append(ch, s)} = {ch[i] : i \in DOMAIN ch} \cup {s}
  BY <1>2
<1> QED  BY <1>3, <1>4 DEF ch, Children

\* What is below what when s is put below p.
LEMMA LinkAddedLinks ==
    ASSUME NEW tr, IsTracker(tr), NEW p, NEW s, NEW q, LinkAdded(tr, q, p, s)
    PROVE  /\ \A x, y : Linked(q, y, x) <=> Linked(tr, y, x) \/ (y = p /\ x = s)
           /\ \A x, y \in DOMAIN tr.spans : SameThread(q, x, y) <=> SameThread(tr, x, y)
<1>1. p \in DOMAIN tr.spans /\ OneMoreBelow(tr, q, p, s)
  BY DEF LinkAdded, OneMoreBelow
<1>2. Children(q, p) = Children(tr, p) \cup {s}
  BY <1>1, ChildrenOf
<1>3. \A y \in DOMAIN tr.spans : y # p => Children(q, y) = Children(tr, y)
  BY DEF Children, LinkAdded
<1> QED  BY <1>2, <1>3 DEF Linked, LinkAdded, SameThread

\* A span that is put below another once is its child once.
LEMMA ChildrenDistinct ==
    ASSUME NEW tr, IsTracker(tr), Chained(tr), NEW p, NEW s, NEW q, LinkAdded(tr, q, p, s),
           ~Linked(tr, p, s)
    PROVE  \A y \in DOMAIN q.spans : \A i, j \in DOMAIN q.spans[y].children :
              q.spans[y].children[i] = q.spans[y].children[j] => i = j
<1> SUFFICES ASSUME NEW y \in DOMAIN q.spans, NEW i \in DOMAIN q.spans[y].children,
                    NEW j \in DOMAIN q.spans[y].children,
                    q.spans[y].children[i] = q.spans[y].children[j]
             PROVE  i = j
  OBVIOUS
<1>1. CASE y # p
  BY <1>1 DEF LinkAdded, Chained
<1>2. CASE y = p
  <2> DEFINE ch == tr.spans[p].children
  <2>1. ch \in Seq(DOMAIN tr.spans) /\ p \in DOMAIN tr.spans
    BY TrackerFields DEF LinkAdded
  <2>2. \A k \in DOMAIN ch : ch[k] # s
    BY <2>1 DEF Linked, Children
  <2>3. \A k, l \in DOMAIN ch : ch[k] = ch[l] => k = l
    BY <2>1 DEF Chained
  <2>4. q.spans[p].children = Append(ch, s)
    BY DEF LinkAdded
  <2> HIDE DEF ch
  <2>5. /\ DOMAIN ch = 1..Len(ch) /\ Len(ch) \in Nat
        /\ DOMAIN Append(ch, s) = 1..Len(ch) + 1
        /\ \A k \in 1..Len(ch) : Append(ch, s)[k] = ch[k]
        /\ Append(ch, s)[Len(ch) + 1] = s
    BY <2>1
  <2>6. i \in 1..Len(ch) + 1 /\ j \in 1..Len(ch) + 1 /\ Append(ch, s)[i] = Append(ch, s)[j]
    BY <1>2, <2>4, <2>5
  <2> QED  BY <2>2, <2>3, <2>5, <2>6
<1> QED  BY <1>1, <1>2

\* An exec: a new span below the one before it.
LEMMA FollowerAdded ==
    ASSUME NEW tr, IsTracker(tr), Chained(tr), NEW p, NEW s, NEW q, IsTracker(q),
           LinkAdded(tr, q, p, s), SameThread(tr, s, p), p < s,
           \A y : ~Linked(tr, y, s)
    PROVE  /\ Chained(q)
           /\ \A t : SpawnSeen(q, t) <=> SpawnSeen(tr, t)
<1>1. /\ \A x, y : Linked(q, y, x) <=> Linked(tr, y, x) \/ (y = p /\ x = s)
      /\ \A x, y \in DOMAIN tr.spans : SameThread(q, x, y) <=> SameThread(tr, x, y)
  BY LinkAddedLinks
<1>2. /\ DOMAIN q.spans = DOMAIN tr.spans /\ q.threads = tr.threads
      /\ p \in DOMAIN tr.spans /\ s \in DOMAIN tr.spans
      /\ \A x \in DOMAIN tr.spans : q.spans[x].tid = tr.spans[x].tid
  BY DEF LinkAdded
<1>3. \A x, y \in DOMAIN q.spans :
         /\ Followed(q, y, x) <=> Followed(tr, y, x) \/ (y = p /\ x = s)
         /\ Bound(q, y, x) <=> Bound(tr, y, x)
  BY <1>1, <1>2 DEF Followed, Bound
<1>4. \A t : SpawnSeen(q, t) <=> SpawnSeen(tr, t)
  BY <1>2, <1>3 DEF SpawnSeen
<1>5. /\ \A x \in DOMAIN q.spans : q.threads[q.spans[x].tid] # 0
      /\ \A t \in Tids : q.threads[t] # 0 => SpanOf(q, t).tid = t
  BY <1>2, SpanNumbers DEF Chained, SpanOf
<1>6. /\ \A x, y \in DOMAIN q.spans : Followed(q, y, x) => y < x
      /\ \A x, y, z \in DOMAIN q.spans : Followed(q, y, x) /\ Followed(q, z, x) => y = z
  BY <1>2, <1>3 DEF Chained, Followed
<1>7. \A w, x, y, z \in DOMAIN q.spans :
          Bound(q, y, x) /\ Bound(q, z, w) /\ SameThread(q, x, w) => x = w /\ y = z
  BY <1>1, <1>2, <1>3 DEF Chained
<1>8. \A y \in DOMAIN q.spans : \A i, j \in DOMAIN q.spans[y].children :
          q.spans[y].children[i] = q.spans[y].children[j] => i = j
  BY ChildrenDistinct
<1> QED  BY <1>4, <1>5, <1>6, <1>7, <1>8 DEF Chained

\* The event of a spawn: the span of a thread of which none was seen.
LEMMA SpawnAdded ==
    ASSUME NEW tr, IsTracker(tr), Chained(tr), NEW p, NEW s, NEW q, IsTracker(q),
           LinkAdded(tr, q, p, s), ~SameThread(tr, s, p),
           ~SpawnSeen(tr, tr.spans[s].tid)
    PROVE  /\ Chained(q)
           /\ \A t : t # tr.spans[s].tid => (SpawnSeen(q, t) <=> SpawnSeen(tr, t))
<1>1. /\ \A x, y : Linked(q, y, x) <=> Linked(tr, y, x) \/ (y = p /\ x = s)
      /\ \A x, y \in DOMAIN tr.spans : SameThread(q, x, y) <=> SameThread(tr, x, y)
  BY LinkAddedLinks
<1>2. /\ DOMAIN q.spans = DOMAIN tr.spans /\ q.threads = tr.threads
      /\ p \in DOMAIN tr.spans /\ s \in DOMAIN tr.spans
      /\ \A x \in DOMAIN tr.spans : q.spans[x].tid = tr.spans[x].tid
  BY DEF LinkAdded
<1>3. \A x, y \in DOMAIN q.spans :
         /\ Followed(q, y, x) <=> Followed(tr, y, x)
         /\ Bound(q, y, x) <=> Bound(tr, y, x) \/ (y = p /\ x = s)
  BY <1>1, <1>2 DEF Followed, Bound
<1>4. \A t : t # tr.spans[s].tid => (SpawnSeen(q, t) <=> SpawnSeen(tr, t))
  BY <1>2, <1>3 DEF SpawnSeen
<1>5. /\ \A x \in DOMAIN q.spans : q.threads[q.spans[x].tid] # 0
      /\ \A t \in Tids : q.threads[t] # 0 => SpanOf(q, t).tid = t
  BY <1>2, SpanNumbers DEF Chained, SpanOf
<1>6. /\ \A x, y \in DOMAIN q.spans : Followed(q, y, x) => y < x
      /\ \A x, y, z \in DOMAIN q.spans : Followed(q, y, x) /\ Followed(q, z, x) => y = z
  BY <1>2, <1>3 DEF Chained
<1>7. \A x, y \in DOMAIN tr.spans : Bound(tr, y, x) => ~SameThread(tr, x, s)
  BY DEF SpawnSeen, SameThread
<1>8. \A w, x, y, z \in DOMAIN q.spans :
          Bound(q, y, x) /\ Bound(q, z, w) /\ SameThread(q, x, w) => x = w /\ y = z
  <2>1. \A w, x \in DOMAIN tr.spans : SameThread(tr, x, w) <=> SameThread(tr, w, x)
    BY DEF SameThread
  <2> QED  BY <1>1, <1>2, <1>3, <1>7, <2>1 DEF Chained
<1>9. ~Linked(tr, p, s)
  BY <1>2, <1>7 DEF Bound, SameThread
<1>10. \A y \in DOMAIN q.spans : \A i, j \in DOMAIN q.spans[y].children :
          q.spans[y].children[i] = q.spans[y].children[j] => i = j
  BY <1>9, ChildrenDistinct
<1> QED  BY <1>4, <1>5, <1>6, <1>8, <1>10 DEF Chained
-----------------------------------------------------------------------------
(* What the handlers do to spans and links. *)

\* get_thread adds a span without links at most.
LEMMA GetLinks ==
    ASSUME NEW tr, IsTracker(tr), NEW t \in Tids, NEW q, q = GetThread(tr, t)
    PROVE  SameLinks(tr, q)
<1>1. /\ IsTracker(q) /\ q.threads[t] \in DOMAIN q.spans
      /\ \A u \in Tids : u # t => q.threads[u] = tr.threads[u]
      /\ tr.threads[t] # 0 => q = tr
      /\ tr.threads[t] = 0 =>
            /\ q.threads[t] = Len(tr.spans) + 1 /\ Len(q.spans) = Len(tr.spans) + 1
            /\ q.spans[Len(tr.spans) + 1] = NewSpan(t)
      /\ DOMAIN tr.spans \subseteq DOMAIN q.spans /\ SpansKept(tr, q, 0)
  BY GetFacts
<1>2. /\ DOMAIN tr.spans = 1..Len(tr.spans) /\ Len(tr.spans) \in Nat
      /\ DOMAIN q.spans = 1..Len(q.spans)
  BY <1>1, TrackerFields
<1>3. \A x \in DOMAIN tr.spans : q.spans[x] = tr.spans[x]
  BY <1>1, <1>2 DEF SpansKept
<1>4. \A x \in DOMAIN q.spans \ DOMAIN tr.spans :
         x = Len(tr.spans) + 1 /\ tr.threads[t] = 0
  BY <1>1, <1>2
<1>5. NewSpan(t).tid = t /\ NewSpan(t).children = <<>>
  BY DEF NewSpan
<1>6. q.threads[t] # 0
  BY <1>1, <1>2
<1>7. tr.threads[t] = 0 => SpanOf(q, t).tid = t
  BY <1>1, <1>5 DEF SpanOf
<1> QED  BY <1>1, <1>3, <1>4, <1>5, <1>6, <1>7 DEF SameLinks

\* The span that get_thread would find or make.
Before(tr, t) == IF tr.threads[t] = 0 THEN NewSpan(t) ELSE SpanOf(tr, t)

\* finish_thread
LEMMA FinishResult ==
    ASSUME NEW tr, IsTracker(tr), NEW t \in Tids, NEW reason \in Reasons, NEW cpu \in Int,
           NEW q, q = FinishThread(tr, t, reason, cpu)
    PROVE  /\ IsTracker(q) /\ q.root = tr.root /\ SameLinks(tr, q)
           /\ q.threads[t] \in DOMAIN q.spans
           /\ \A u \in Tids : u # t => q.threads[u] = tr.threads[u]
           /\ tr.threads[t] # 0 => q.threads[t] = tr.threads[t]
           /\ DOMAIN q.spans \subseteq DOMAIN tr.spans \cup {q.threads[t]}
           /\ tr.threads[t] = 0 => q.threads[t] = Len(tr.spans) + 1
           /\ SpansKept(tr, q, q.threads[t])
           /\ SpanOf(q, t).tid = Before(tr, t).tid
           /\ SpanOf(q, t).init = Before(tr, t).init
           /\ SpanOf(q, t).argv = Before(tr, t).argv
           /\ SpanOf(q, t).parent = Before(tr, t).parent
           /\ Before(tr, t).end = NotEnded =>
                 /\ SpanOf(q, t).end = reason
                 /\ SpanOf(q, t).usage = cpu - Before(tr, t).usage
           /\ Before(tr, t).end # NotEnded =>
                 /\ SpanOf(q, t).end = IF reason = "killed" THEN reason ELSE Before(tr, t).end
                 /\ SpanOf(q, t).usage = Before(tr, t).usage
<1> DEFINE g == GetThread(tr, t)
           s == g.threads[t]
<1>1. /\ IsTracker(g) /\ g.root = tr.root /\ s \in DOMAIN g.spans
      /\ \A u \in Tids : u # t => g.threads[u] = tr.threads[u]
      /\ tr.threads[t] # 0 => g = tr
      /\ tr.threads[t] = 0 =>
            /\ g.threads[t] = Len(tr.spans) + 1 /\ Len(g.spans) = Len(tr.spans) + 1
            /\ g.spans[Len(tr.spans) + 1] = NewSpan(t)
      /\ DOMAIN tr.spans \subseteq DOMAIN g.spans /\ SpansKept(tr, g, 0)
  BY GetFacts
<1>2. SameLinks(tr, g)
  BY GetLinks
<1>3. /\ IsTracker(q) /\ q.threads = g.threads /\ q.root = g.root
      /\ DOMAIN q.spans = DOMAIN g.spans /\ SpansKept(g, q, s)
      /\ q.spans[s].tid = g.spans[s].tid /\ q.spans[s].init = g.spans[s].init
      /\ q.spans[s].argv = g.spans[s].argv /\ q.spans[s].children = g.spans[s].children
      /\ q.spans[s].parent = g.spans[s].parent
      /\ g.spans[s].end = NotEnded =>
            q.spans[s].end = reason /\ q.spans[s].usage = cpu - g.spans[s].usage
      /\ g.spans[s].end # NotEnded =>
            /\ q.spans[s].end = IF reason = "killed" THEN reason ELSE g.spans[s].end
            /\ q.spans[s].usage = g.spans[s].usage
  <2>1. g = GetThread(tr, t) /\ s = g.threads[t]
    OBVIOUS
  <2> HIDE DEF g, s
  <2> QED  BY <2>1, FinishFacts
<1> HIDE DEF g
<1>6. g.spans[s] = Before(tr, t)
  BY <1>1 DEF Before, SpanOf
<1>7. q.threads[t] = s /\ SpanOf(q, t) = q.spans[s]
  BY <1>3 DEF SpanOf
<1>8. /\ DOMAIN tr.spans = 1..Len(tr.spans) /\ Len(tr.spans) \in Nat
      /\ DOMAIN g.spans = 1..Len(g.spans)
  BY <1>1, TrackerFields
<1>9. DOMAIN g.spans \subseteq DOMAIN tr.spans \cup {s}
  BY <1>1, <1>8
<1>10. \A x \in DOMAIN tr.spans : g.spans[x] = tr.spans[x]
  BY <1>1, <1>8 DEF SpansKept
<1>11. SpansKept(tr, q, s)
  BY <1>1, <1>3, <1>10 DEF SpansKept
<1>12. SameLinks(tr, q)
  <2>1. \A x \in DOMAIN g.spans : /\ q.spans[x].tid = g.spans[x].tid
                                  /\ q.spans[x].children = g.spans[x].children
    BY <1>3 DEF SpansKept
  <2>2. \A u \in Tids : q.threads[u] = g.threads[u]
    BY <1>3
  <2> HIDE DEF s
  <2> QED  BY <1>2, <1>3, <2>1, <2>2 DEF SameLinks, SpanOf
<1> HIDE DEF s
<1> QED  BY <1>1, <1>3, <1>6, <1>7, <1>9, <1>11, <1>12 DEF s

\* handle_exec of the first command
LEMMA FirstExecResult ==
    ASSUME NEW tr, IsTracker(tr), NEW t \in Tids,
           NEW q, q = HandleFirstExec(tr, t)
    PROVE  /\ IsTracker(q) /\ q.root = q.threads[t] /\ SameLinks(tr, q)
           /\ q.threads[t] \in DOMAIN q.spans
           /\ \A u \in Tids : u # t => q.threads[u] = tr.threads[u]
           /\ DOMAIN q.spans \subseteq DOMAIN tr.spans \cup {q.threads[t]}
           /\ tr.threads[t] = 0 => q.threads[t] = Len(tr.spans) + 1
           /\ SpansKept(tr, q, q.threads[t])
           /\ SpanOf(q, t).tid = Before(tr, t).tid
           /\ SpanOf(q, t).argv = "own" /\ SpanOf(q, t).init = "exec"
           /\ SpanOf(q, t).parent = Before(tr, t).parent
           /\ SpanOf(q, t).end = Before(tr, t).end
           /\ SpanOf(q, t).usage = Before(tr, t).usage
<1> DEFINE g == GetThread(tr, t)
           s == g.threads[t]
<1>1. /\ IsTracker(g) /\ g.root = tr.root /\ s \in DOMAIN g.spans
      /\ \A u \in Tids : u # t => g.threads[u] = tr.threads[u]
      /\ tr.threads[t] # 0 => g = tr
      /\ tr.threads[t] = 0 =>
            /\ g.threads[t] = Len(tr.spans) + 1 /\ Len(g.spans) = Len(tr.spans) + 1
            /\ g.spans[Len(tr.spans) + 1] = NewSpan(t)
      /\ DOMAIN tr.spans \subseteq DOMAIN g.spans /\ SpansKept(tr, g, 0)
  BY GetFacts
<1>2. SameLinks(tr, g)
  BY GetLinks
<1>3. q = [g EXCEPT !.spans[s].init = "exec", !.spans[s].argv = "own", !.root = s]
  BY DEF HandleFirstExec
<1> HIDE DEF g
<1>4. /\ g.spans[s] \in SpanType /\ DOMAIN g = {"threads", "spans", "root"}
      /\ g.threads \in [Tids -> 0..Len(g.spans)]
      /\ g.spans \in Seq(SpanType) /\ Len(g.spans) \in Nat
      /\ DOMAIN g.spans = 1..Len(g.spans)
      /\ \A x \in DOMAIN g.spans : /\ g.spans[x].parent \in 0..Len(g.spans)
                                   /\ g.spans[x].children \in Seq(DOMAIN g.spans)
  BY <1>1, TrackerFields
<1> DEFINE new == [g.spans[s] EXCEPT !.init = "exec", !.argv = "own"]
           w == WithSpan(g, s, new)
<1>5. /\ new \in SpanType /\ new.tid = g.spans[s].tid /\ new.argv = "own" /\ new.init = "exec"
      /\ new.end = g.spans[s].end /\ new.usage = g.spans[s].usage
      /\ new.parent = g.spans[s].parent /\ new.children = g.spans[s].children
  BY <1>4 DEF SpanType, Kinds, Argvs
<1>6. q = [w EXCEPT !.root = s]
  BY <1>1, <1>3, <1>4 DEF WithSpan
<1> HIDE DEF new
<1>7. /\ IsTracker(w)
      /\ w.threads = g.threads /\ w.root = g.root
      /\ Len(w.spans) = Len(g.spans) /\ DOMAIN w.spans = DOMAIN g.spans
      /\ SpansKept(g, w, s) /\ w.spans[s] = new
  <2>1. new.parent \in 0..Len(g.spans) /\ new.children \in Seq(DOMAIN g.spans)
    BY <1>1, <1>4, <1>5
  <2> QED  BY <1>1, <1>5, <2>1, ReplaceSpan
<1> HIDE DEF w
<1>8. /\ q.threads = w.threads /\ q.spans = w.spans /\ q.root = s
      /\ q = [threads |-> q.threads, spans |-> q.spans, root |-> q.root]
  <2>1. w = [threads |-> w.threads, spans |-> w.spans, root |-> w.root]
    BY <1>7 DEF IsTracker
  <2> QED  BY <1>6, <2>1
<1>9. IsTracker(q)
  <2>1. /\ w.threads \in [Tids -> 0..Len(w.spans)]
        /\ w.spans \in Seq(SpanType) /\ Len(w.spans) \in Nat
        /\ DOMAIN w.spans = 1..Len(w.spans)
        /\ \A x \in DOMAIN w.spans : /\ w.spans[x].parent \in 0..Len(w.spans)
                                     /\ w.spans[x].children \in Seq(DOMAIN w.spans)
    BY <1>7, TrackerFields
  <2>2. s \in 0..Len(w.spans)
    BY <1>1, <1>7, <2>1
  <2> HIDE DEF s
  <2> QED  BY <1>8, <2>1, <2>2, TrackerFromFields
<1>10. g.spans[s] = Before(tr, t)
  BY <1>1 DEF Before, SpanOf
<1>11. q.threads[t] = s /\ SpanOf(q, t) = new /\ DOMAIN q.spans = DOMAIN g.spans
  BY <1>7, <1>8 DEF SpanOf
<1>12. /\ DOMAIN tr.spans = 1..Len(tr.spans) /\ Len(tr.spans) \in Nat
       /\ DOMAIN g.spans = 1..Len(g.spans)
  BY <1>1, TrackerFields
<1>13. DOMAIN g.spans \subseteq DOMAIN tr.spans \cup {s}
  BY <1>1, <1>12
<1>14. \A x \in DOMAIN tr.spans : g.spans[x] = tr.spans[x]
  BY <1>1, <1>12 DEF SpansKept
<1>15. SpansKept(tr, q, s)
  BY <1>1, <1>7, <1>8, <1>14 DEF SpansKept
<1>16. SameLinks(tr, q)
  <2>1. \A x \in DOMAIN g.spans : /\ q.spans[x].tid = g.spans[x].tid
                                  /\ q.spans[x].children = g.spans[x].children
    BY <1>5, <1>7, <1>8 DEF SpansKept
  <2>2. q.threads = g.threads
    BY <1>7, <1>8
  <2> HIDE DEF s
  <2>3. DOMAIN q.spans = DOMAIN g.spans
    BY <1>11
  <2> QED  BY <1>2, <2>1, <2>2, <2>3 DEF SameLinks, SpanOf
<1>17. /\ \A u \in Tids : u # t => q.threads[u] = tr.threads[u]
       /\ tr.threads[t] = 0 => q.threads[t] = Len(tr.spans) + 1
  BY <1>1, <1>7, <1>8
<1> HIDE DEF s
<1> QED  BY <1>1, <1>5, <1>8, <1>9, <1>10, <1>11, <1>13, <1>15, <1>16, <1>17

\* q is tr with new spans for threads that had none.
Grown(tr, q) ==
    /\ DOMAIN tr.spans \subseteq DOMAIN q.spans
    /\ \A x \in DOMAIN tr.spans : q.spans[x] = tr.spans[x]
    /\ \A x \in DOMAIN q.spans \ DOMAIN tr.spans : 
          \E u \in Tids : q.spans[x] = NewSpan(u) /\ q.threads[u] = x
    /\ \A u \in Tids : \/ q.threads[u] = tr.threads[u]
                       \/ tr.threads[u] = 0 /\ q.threads[u] \in DOMAIN q.spans \ DOMAIN tr.spans

\* get_thread leaves the spans there are alone.
LEMMA GetGrown ==
    ASSUME NEW tr, IsTracker(tr), NEW t \in Tids, NEW q, q = GetThread(tr, t)
    PROVE  Grown(tr, q)
<1>1. /\ IsTracker(q) /\ q.threads[t] \in DOMAIN q.spans
      /\ \A u \in Tids : u # t => q.threads[u] = tr.threads[u]
      /\ tr.threads[t] # 0 => q = tr
      /\ tr.threads[t] = 0 =>
            /\ q.threads[t] = Len(tr.spans) + 1 /\ Len(q.spans) = Len(tr.spans) + 1
            /\ q.spans[Len(tr.spans) + 1] = NewSpan(t)
      /\ DOMAIN tr.spans \subseteq DOMAIN q.spans /\ SpansKept(tr, q, 0)
  BY GetFacts
<1>2. /\ DOMAIN tr.spans = 1..Len(tr.spans) /\ Len(tr.spans) \in Nat
      /\ DOMAIN q.spans = 1..Len(q.spans)
  BY <1>1, TrackerFields
<1>3. \A x \in DOMAIN tr.spans : q.spans[x] = tr.spans[x]
  BY <1>1, <1>2 DEF SpansKept
<1>4. \A x \in DOMAIN q.spans \ DOMAIN tr.spans : q.spans[x] = NewSpan(t) /\ q.threads[t] = x
  BY <1>1, <1>2
<1>5. tr.threads[t] = 0 => q.threads[t] \notin DOMAIN tr.spans
  BY <1>1, <1>2
<1> QED  BY <1>1, <1>3, <1>4, <1>5 DEF Grown

\* Called twice, it does so too.
LEMMA GrownTwice ==
    ASSUME NEW tr, NEW g, NEW q, IsTracker(g), Grown(tr, g), Grown(g, q)
    PROVE  Grown(tr, q)
<1>1. \A x \in DOMAIN g.spans : x # 0
  BY SpanNumbers
<1>2. /\ DOMAIN tr.spans \subseteq DOMAIN q.spans
      /\ \A x \in DOMAIN tr.spans : q.spans[x] = tr.spans[x]
  BY DEF Grown
<1>3. ASSUME NEW x \in DOMAIN q.spans \ DOMAIN tr.spans
      PROVE  \E u \in Tids : q.spans[x] = NewSpan(u) /\ q.threads[u] = x
  <2>1. CASE x \in DOMAIN g.spans
    <3>1. PICK u \in Tids : g.spans[x] = NewSpan(u) /\ g.threads[u] = x
      BY <2>1 DEF Grown
    <3>2. q.spans[x] = g.spans[x] /\ q.threads[u] = g.threads[u]
      BY <1>1, <2>1, <3>1 DEF Grown
    <3> QED  BY <3>1, <3>2
  <2>2. CASE x \notin DOMAIN g.spans
    BY <2>2 DEF Grown
  <2> QED  BY <2>1, <2>2
<1>4. ASSUME NEW u \in Tids
      PROVE  \/ q.threads[u] = tr.threads[u]
             \/ tr.threads[u] = 0 /\ q.threads[u] \in DOMAIN q.spans \ DOMAIN tr.spans
  <2>1. CASE q.threads[u] = g.threads[u]
    <3>1. \/ g.threads[u] = tr.threads[u]
          \/ tr.threads[u] = 0 /\ g.threads[u] \in DOMAIN g.spans \ DOMAIN tr.spans
      BY DEF Grown
    <3> QED  BY <2>1, <3>1 DEF Grown
  <2>2. CASE g.threads[u] = 0 /\ q.threads[u] \in DOMAIN q.spans \ DOMAIN g.spans
    <3>1. tr.threads[u] = 0
      BY <1>1, <2>2 DEF Grown
    <3> QED  BY <2>2, <3>1 DEF Grown
  <2> QED  BY <2>1, <2>2 DEF Grown
<1> QED  BY <1>2, <1>3, <1>4 DEF Grown

\* handle_spawn, once both spans are there: x is the top of the chain of s.
SpawnBelow(g, x, p, s, kind) ==
    [g EXCEPT !.spans[x].parent = p, !.spans[s].init = kind,
              !.spans[p].children = Append(g.spans[p].children, s)]

\* What handle_spawn does to the spans.
LEMMA SpawnSpan ==
    ASSUME NEW g, IsTracker(g), NEW x, NEW p \in DOMAIN g.spans, NEW s \in DOMAIN g.spans,
           NEW kind \in Kinds, NEW q, q = SpawnBelow(g, x, p, s, kind)
    PROVE  /\ IsTracker(q) /\ q.root = g.root /\ q.threads = g.threads
           /\ LinkAdded(g, q, p, s)
           /\ q.spans[s].init = kind
           /\ \A y \in DOMAIN g.spans :
                 /\ Lasting(q.spans[y]) = Lasting(g.spans[y])
                 /\ y # s => q.spans[y].init = g.spans[y].init
                 /\ y # x => q.spans[y].parent = g.spans[y].parent
<1> DEFINE w1 == WithParent(g, x, p)
           w2 == WithInit(w1, s, kind)
<1>1. /\ IsTracker(w1) /\ w1.threads = g.threads /\ w1.root = g.root
      /\ DOMAIN w1.spans = DOMAIN g.spans
      /\ \A y \in DOMAIN g.spans :
            /\ Lasting(w1.spans[y]) = Lasting(g.spans[y])
            /\ w1.spans[y].init = g.spans[y].init
            /\ w1.spans[y].children = g.spans[y].children
            /\ y # x => w1.spans[y].parent = g.spans[y].parent
  BY ParentSet
<1> HIDE DEF w1
<1>2. /\ IsTracker(w2) /\ w2.threads = w1.threads /\ w2.root = w1.root
      /\ DOMAIN w2.spans = DOMAIN w1.spans
      /\ \A y \in DOMAIN w1.spans :
            /\ Lasting(w2.spans[y]) = Lasting(w1.spans[y])
            /\ y # s => w2.spans[y].init = w1.spans[y].init
            /\ w2.spans[y].children = w1.spans[y].children
            /\ w2.spans[y].parent = w1.spans[y].parent
      /\ w2.spans[s].init = kind
  <2>1. s \in DOMAIN w1.spans
    BY <1>1
  <2> QED  BY <1>1, <2>1, InitSet
<1>3. q = WithChild(w2, p, s)
  <2> DEFINE ch == Append(g.spans[p].children, s)
             v == [g EXCEPT !.spans[x].parent = p, !.spans[s].init = kind]
  <2>1. q = [g EXCEPT !.spans[x].parent = p, !.spans[s].init = kind,
                      !.spans[p].children = ch]
    BY DEF SpawnBelow
  <2>2. w2 = v
    BY Zenon DEF WithInit, WithParent, w1
  <2>3. w2.spans[p].children = g.spans[p].children
    BY <1>1, <1>2
  <2> HIDE DEF ch, w2
  <2>4. q = [v EXCEPT !.spans[p].children = ch]
    BY <2>1, Zenon
  <2>5. q = [w2 EXCEPT !.spans[p].children = ch]
    <3> HIDE DEF v
    <3> QED  BY <2>2, <2>4, Zenon
  <2>6. q = [w2 EXCEPT !.spans[p].children = Append(w2.spans[p].children, s)]
    <3>1. ch = Append(w2.spans[p].children, s)
      BY <2>3 DEF ch
    <3> QED  BY <2>5, <3>1, Zenon
  <2> QED  BY <2>6, Zenon DEF WithChild
<1> HIDE DEF w2
<1>4. /\ IsTracker(q) /\ q.threads = w2.threads /\ q.root = w2.root
      /\ DOMAIN q.spans = DOMAIN w2.spans
      /\ \A y \in DOMAIN w2.spans :
            /\ Lasting(q.spans[y]) = Lasting(w2.spans[y])
            /\ q.spans[y].init = w2.spans[y].init
            /\ q.spans[y].parent = w2.spans[y].parent
            /\ y # p => q.spans[y].children = w2.spans[y].children
      /\ q.spans[p].children = Append(w2.spans[p].children, s)
  <2>1. p \in DOMAIN w2.spans /\ s \in DOMAIN w2.spans
    BY <1>1, <1>2
  <2>2. IsTracker(w2)
    BY <1>2
  <2> QED  BY <1>3, <2>1, <2>2, ChildAdded
<1>5. /\ q.threads = g.threads /\ DOMAIN q.spans = DOMAIN g.spans /\ q.root = g.root
      /\ \A y \in DOMAIN g.spans :
            /\ Lasting(q.spans[y]) = Lasting(g.spans[y])
            /\ y # s => q.spans[y].init = g.spans[y].init
            /\ y # x => q.spans[y].parent = g.spans[y].parent
            /\ y # p => q.spans[y].children = g.spans[y].children
      /\ q.spans[p].children = Append(g.spans[p].children, s)
      /\ q.spans[s].init = kind
  <2>1. q.threads = g.threads /\ DOMAIN q.spans = DOMAIN g.spans /\ q.root = g.root
    BY <1>1, <1>2, <1>4
  <2>2. ASSUME NEW y \in DOMAIN g.spans
        PROVE  /\ Lasting(q.spans[y]) = Lasting(g.spans[y])
               /\ y # s => q.spans[y].init = g.spans[y].init
               /\ y # x => q.spans[y].parent = g.spans[y].parent
               /\ y # p => q.spans[y].children = g.spans[y].children
    BY <1>1, <1>2, <1>4
  <2>3. q.spans[p].children = Append(g.spans[p].children, s)
    BY <1>1, <1>2, <1>4
  <2>4. q.spans[s].init = kind
    BY <1>1, <1>2, <1>4
  <2> QED  BY <2>1, <2>2, <2>3, <2>4
<1>6. LinkAdded(g, q, p, s)
  BY <1>5 DEF LinkAdded, Lasting
<1> QED  BY <1>4, <1>5, <1>6

\* The two calls of get_thread that handle_spawn begins with.
WithBoth(tr, c, t) == GetThread(GetThread(tr, t), c)

\* They make spans for threads that had none.
LEMMA BothThere ==
    ASSUME NEW tr, IsTracker(tr), NEW c \in Tids, NEW t \in Tids,
           NEW g, g = WithBoth(tr, c, t)
    PROVE  /\ IsTracker(g) /\ Grown(tr, g) /\ g.root = tr.root
           /\ g.threads[t] \in DOMAIN g.spans /\ g.threads[c] \in DOMAIN g.spans
           /\ Chained(tr) => /\ Chained(g)
                             /\ \A u : SpawnSeen(g, u) <=> SpawnSeen(tr, u)
<1> DEFINE g1 == GetThread(tr, t)
<1>1. /\ IsTracker(g1) /\ g1.root = tr.root /\ g1.threads[t] \in DOMAIN g1.spans
      /\ Grown(tr, g1) /\ SameLinks(tr, g1)
  BY GetFacts, GetGrown, GetLinks
<1>2. g = GetThread(g1, c)
  BY DEF WithBoth
<1> HIDE DEF g1
<1>3. /\ IsTracker(g) /\ g.root = g1.root /\ g.threads[c] \in DOMAIN g.spans
      /\ Grown(g1, g) /\ SameLinks(g1, g)
  BY <1>1, <1>2, GetFacts, GetGrown, GetLinks
<1>4. g.threads[t] \in DOMAIN g.spans
  BY <1>1, <1>3, SpanNumbers DEF Grown
<1>5. Grown(tr, g)
  BY <1>1, <1>3, GrownTwice
<1>6. ASSUME Chained(tr)
      PROVE  Chained(g) /\ \A u : SpawnSeen(g, u) <=> SpawnSeen(tr, u)
  <2>1. Chained(g1) /\ \A u : SpawnSeen(g1, u) <=> SpawnSeen(tr, u)
    BY <1>1, <1>6, LinksSame
  <2>2. Chained(g) /\ \A u : SpawnSeen(g, u) <=> SpawnSeen(g1, u)
    BY <1>1, <1>3, <2>1, LinksSame
  <2> QED  BY <2>1, <2>2
<1> QED  BY <1>1, <1>3, <1>4, <1>5, <1>6

\* handle_spawn puts the one span below the other.
LEMMA SpawnIs ==
    ASSUME NEW tr, NEW c, NEW t, NEW isFork \in BOOLEAN,
           NEW q, q = HandleSpawn(tr, c, t, isFork)
    PROVE  LET g == WithBoth(tr, c, t)
               s == g.threads[c]
           IN  \E kind \in {"forked", "thread"} :
                  q = SpawnBelow(g, Top(g.spans, s), g.threads[t], s, kind)
<1> DEFINE kind == IF isFork THEN "forked" ELSE "thread"
<1>1. kind \in {"forked", "thread"}
  OBVIOUS
<1>2. LET g == WithBoth(tr, c, t)
          s == g.threads[c]
      IN  q = SpawnBelow(g, Top(g.spans, s), g.threads[t], s, kind)
  BY DEF HandleSpawn, WithBoth, SpawnBelow
<1> QED  BY <1>1, <1>2, Zenon

\* What handle_spawn changes, once both spans are there.
LEMMA SpawnChanges ==
    ASSUME NEW tr, IsTracker(tr), NEW c \in Tids, NEW t \in Tids, NEW isFork \in BOOLEAN,
           NEW q, q = HandleSpawn(tr, c, t, isFork)
    PROVE  LET g == WithBoth(tr, c, t)
               s == g.threads[c]
           IN  /\ IsTracker(q) /\ q.root = g.root /\ q.threads = g.threads
               /\ LinkAdded(g, q, g.threads[t], s)
               /\ q.spans[s].init \notin {"exec", "unknown"}
               /\ \A y \in DOMAIN g.spans :
                     /\ Lasting(q.spans[y]) = Lasting(g.spans[y])
                     /\ y # s => q.spans[y].init = g.spans[y].init
                     /\ y # Top(g.spans, s) => q.spans[y].parent = g.spans[y].parent
<1> DEFINE g == WithBoth(tr, c, t)
           p == g.threads[t]
           s == g.threads[c]
           x == Top(g.spans, s)
<1>1. IsTracker(g) /\ p \in DOMAIN g.spans /\ s \in DOMAIN g.spans
  BY BothThere
<1>2. PICK kind \in {"forked", "thread"} : q = SpawnBelow(g, x, p, s, kind)
  BY SpawnIs
<1> HIDE DEF g, p, s, x
<1>3. /\ IsTracker(q) /\ q.root = g.root /\ q.threads = g.threads
      /\ LinkAdded(g, q, p, s)
      /\ q.spans[s].init = kind
      /\ \A y \in DOMAIN g.spans : /\ Lasting(q.spans[y]) = Lasting(g.spans[y])
                                   /\ y # s => q.spans[y].init = g.spans[y].init
                                   /\ y # x => q.spans[y].parent = g.spans[y].parent
  <2>1. kind \in Kinds
    BY DEF Kinds
  <2> QED  BY <1>1, <1>2, <2>1, SpawnSpan
<1> QED  BY <1>3 DEF g, p, s, x

\* handle_spawn
LEMMA SpawnResult ==
    ASSUME NEW tr, IsTracker(tr), NEW c \in Tids, NEW t \in Tids, NEW isFork \in BOOLEAN,
           NEW q, q = HandleSpawn(tr, c, t, isFork)
    PROVE  /\ IsTracker(q) /\ q.root = tr.root
           /\ DOMAIN tr.spans \subseteq DOMAIN q.spans
           /\ \A u \in Tids : \/ q.threads[u] = tr.threads[u]
                              \/ /\ tr.threads[u] = 0
                                 /\ q.threads[u] \in DOMAIN q.spans \ DOMAIN tr.spans
           /\ \A x \in DOMAIN tr.spans :
                 /\ Lasting(q.spans[x]) = Lasting(tr.spans[x])
                 /\ q.spans[x].init = tr.spans[x].init \/ q.spans[x].init # "exec"
           /\ \A x \in DOMAIN q.spans \ DOMAIN tr.spans :
                 /\ q.spans[x].end = NotEnded /\ q.spans[x].usage = 0
                 /\ q.spans[x].init # "exec" /\ q.threads[q.spans[x].tid] = x
           /\ Chained(tr) /\ c # t /\ ~SpawnSeen(tr, c) =>
                 /\ Chained(q)
                 /\ \A u : u # c => (SpawnSeen(q, u) <=> SpawnSeen(tr, u))
<1> DEFINE g == WithBoth(tr, c, t)
           p == g.threads[t]
           s == g.threads[c]
<1>1. /\ IsTracker(g) /\ Grown(tr, g) /\ g.root = tr.root
      /\ p \in DOMAIN g.spans /\ s \in DOMAIN g.spans
      /\ Chained(tr) => /\ Chained(g)
                        /\ \A u : SpawnSeen(g, u) <=> SpawnSeen(tr, u)
  BY BothThere
<1>2. /\ IsTracker(q) /\ q.root = g.root /\ q.threads = g.threads
      /\ LinkAdded(g, q, p, s)
      /\ q.spans[s].init # "exec"
      /\ \A y \in DOMAIN g.spans : /\ Lasting(q.spans[y]) = Lasting(g.spans[y])
                                   /\ y # s => q.spans[y].init = g.spans[y].init
  BY SpawnChanges
<1> HIDE DEF g, p, s
<1>3. /\ DOMAIN q.spans = DOMAIN g.spans
       /\ \A y \in DOMAIN g.spans :
            /\ q.spans[y].tid = g.spans[y].tid /\ q.spans[y].end = g.spans[y].end
            /\ q.spans[y].usage = g.spans[y].usage
            /\ q.spans[y].init = g.spans[y].init \/ q.spans[y].init # "exec"
  BY <1>2 DEF Lasting, LinkAdded
<1>4. /\ DOMAIN tr.spans \subseteq DOMAIN q.spans
       /\ \A u \in Tids : \/ q.threads[u] = tr.threads[u]
                          \/ /\ tr.threads[u] = 0
                             /\ q.threads[u] \in DOMAIN q.spans \ DOMAIN tr.spans
       /\ \A x \in DOMAIN tr.spans :
             /\ Lasting(q.spans[x]) = Lasting(tr.spans[x])
             /\ q.spans[x].init = tr.spans[x].init \/ q.spans[x].init # "exec"
  BY <1>1, <1>2, <1>3 DEF Grown
<1>5. \A x \in DOMAIN q.spans \ DOMAIN tr.spans :
                 /\ q.spans[x].end = NotEnded /\ q.spans[x].usage = 0
                 /\ q.spans[x].init # "exec" /\ q.threads[q.spans[x].tid] = x
  <2>1. \A u : /\ NewSpan(u).end = NotEnded /\ NewSpan(u).usage = 0
               /\ NewSpan(u).init # "exec" /\ NewSpan(u).tid = u
    BY DEF NewSpan
  <2>2. \A x \in DOMAIN q.spans \ DOMAIN tr.spans :
           \E u \in Tids : g.spans[x] = NewSpan(u) /\ g.threads[u] = x
    BY <1>1, <1>2, <1>3 DEF Grown
  <2> QED  BY <1>2, <1>3, <2>1, <2>2
<1>6. ASSUME Chained(tr), c # t, ~SpawnSeen(tr, c)
       PROVE  /\ Chained(q)
              /\ \A u : u # c => (SpawnSeen(q, u) <=> SpawnSeen(tr, u))
  <2>1. g.spans[s].tid = c /\ g.spans[p].tid = t
    BY <1>1, <1>6, SpanNumbers DEF Chained, SpanOf, s, p
  <2>2. ~SameThread(g, s, p)
    BY <1>6, <2>1 DEF SameThread
  <2> QED  BY <1>1, <1>2, <1>6, <2>1, <2>2, SpawnAdded
<1> QED  BY <1>1, <1>2, <1>4, <1>5, <1>6

\* An exec span is made of s, below p.
WithExec(tr, s, argv, p, cpu) ==
    [tr EXCEPT !.spans[s].init = "exec", !.spans[s].argv = argv, !.spans[s].parent = p,
               !.spans[s].usage = cpu]

\* What an exec sets in its new span.
LEMMA ExecSet ==
    ASSUME NEW tr, IsTracker(tr), NEW s \in DOMAIN tr.spans, NEW argv \in Argvs,
           NEW p \in DOMAIN tr.spans, NEW cpu \in Int,
           NEW q, q = WithExec(tr, s, argv, p, cpu)
    PROVE  /\ IsTracker(q) /\ q.threads = tr.threads /\ q.root = tr.root
           /\ DOMAIN q.spans = DOMAIN tr.spans /\ Len(q.spans) = Len(tr.spans)
           /\ SpansKept(tr, q, s)
           /\ q.spans[s].tid = tr.spans[s].tid /\ q.spans[s].init = "exec"
           /\ q.spans[s].argv = argv /\ q.spans[s].end = tr.spans[s].end
           /\ q.spans[s].usage = cpu /\ q.spans[s].children = tr.spans[s].children
           /\ q.spans[s].parent = p
<1>1. /\ DOMAIN tr = {"threads", "spans", "root"}
      /\ tr.spans[s] \in SpanType
      /\ tr.spans[s].children \in Seq(DOMAIN tr.spans)
      /\ DOMAIN tr.spans = 1..Len(tr.spans) /\ Len(tr.spans) \in Nat
  BY TrackerFields
<1> DEFINE new == [tr.spans[s] EXCEPT !.init = "exec", !.argv = argv, !.parent = p, !.usage = cpu]
<1>2. q = WithSpan(tr, s, new)
  BY <1>1 DEF WithSpan, WithExec
<1>3. p \in 0..Len(tr.spans) /\ p \in Nat
  BY <1>1
<1>4. /\ new \in SpanType /\ new.parent = p /\ new.children = tr.spans[s].children
      /\ new.tid = tr.spans[s].tid /\ new.init = "exec" /\ new.argv = argv
      /\ new.end = tr.spans[s].end /\ new.usage = cpu
  BY <1>1, <1>3 DEF SpanType, Kinds
<1> HIDE DEF new
<1>5. /\ IsTracker(q)
      /\ q.threads = tr.threads /\ q.root = tr.root
      /\ Len(q.spans) = Len(tr.spans) /\ DOMAIN q.spans = DOMAIN tr.spans
      /\ SpansKept(tr, q, s) /\ q.spans[s] = new
  <2>1. new \in SpanType
    BY <1>4
  <2>2. new.parent \in 0..Len(tr.spans) /\ new.children \in Seq(DOMAIN tr.spans)
    BY <1>1, <1>3, <1>4
  <2> QED  BY <1>2, <2>1, <2>2, ReplaceSpan
<1> QED  BY <1>4, <1>5

\* The thread is taken out of the map.
Without(tr, t) == [tr EXCEPT !.threads[t] = 0]

\* Taking a thread out of the map leaves its spans.
LEMMA Removed ==
    ASSUME NEW tr, IsTracker(tr), NEW t \in Tids, NEW q, q = Without(tr, t)
    PROVE  /\ IsTracker(q) /\ q.spans = tr.spans /\ q.root = tr.root /\ q.threads[t] = 0
           /\ \A u \in Tids : u # t => q.threads[u] = tr.threads[u]
<1>1. /\ DOMAIN tr = {"threads", "spans", "root"}
      /\ tr.threads \in [Tids -> 0..Len(tr.spans)]
      /\ tr.spans \in Seq(SpanType) /\ Len(tr.spans) \in Nat
      /\ DOMAIN tr.spans = 1..Len(tr.spans)
      /\ tr.root \in 0..Len(tr.spans)
      /\ \A x \in DOMAIN tr.spans : /\ tr.spans[x].parent \in 0..Len(tr.spans)
                                    /\ tr.spans[x].children \in Seq(DOMAIN tr.spans)
  BY TrackerFields
<1>2. /\ q.threads = [tr.threads EXCEPT ![t] = 0] /\ q.spans = tr.spans /\ q.root = tr.root
      /\ q = [threads |-> q.threads, spans |-> q.spans, root |-> q.root]
  BY <1>1 DEF Without
<1>3. q.threads \in [Tids -> 0..Len(tr.spans)]
  BY <1>1, <1>2
<1>4. IsTracker(q)
  BY <1>1, <1>2, <1>3, TrackerFromFields
<1> QED  BY <1>1, <1>2, <1>4

\* handle_exec, once the span of the thread is there.
ExecBelow(g, p, s, argv) ==
    [g EXCEPT !.spans[s].init = "exec", !.spans[s].argv = argv,
              !.spans[s].parent = p, !.spans[s].usage = g.spans[p].usage,
              !.spans[p].children = Append(g.spans[p].children, s)]

\* What handle_exec does to the two spans.
LEMMA ExecSpan ==
    ASSUME NEW g, IsTracker(g), NEW p \in DOMAIN g.spans, NEW s \in DOMAIN g.spans,
           NEW argv \in Argvs,
           NEW q, q = ExecBelow(g, p, s, argv)
    PROVE  /\ IsTracker(q) /\ q.threads = g.threads /\ q.root = g.root
           /\ DOMAIN q.spans = DOMAIN g.spans
           /\ \A x \in DOMAIN g.spans : x # s =>
                 /\ Lasting(q.spans[x]) = Lasting(g.spans[x])
                 /\ q.spans[x].init = g.spans[x].init /\ q.spans[x].parent = g.spans[x].parent
           /\ \A x \in DOMAIN g.spans : x # p => q.spans[x].children = g.spans[x].children
           /\ q.spans[p].children = Append(g.spans[p].children, s)
           /\ q.spans[s].tid = g.spans[s].tid /\ q.spans[s].init = "exec"
           /\ q.spans[s].argv = argv /\ q.spans[s].end = g.spans[s].end
           /\ q.spans[s].usage = g.spans[p].usage /\ q.spans[s].parent = p
<1> DEFINE own == g.spans[p].usage
           e == WithExec(g, s, argv, p, own)
<1>6. own \in Int
  <2>1. g.spans[p] \in SpanType
    BY TrackerFields
  <2> QED  BY <2>1 DEF SpanType
<1> HIDE DEF own
<1>7. /\ IsTracker(e) /\ e.threads = g.threads /\ e.root = g.root
      /\ DOMAIN e.spans = DOMAIN g.spans /\ SpansKept(g, e, s)
      /\ e.spans[s].tid = g.spans[s].tid /\ e.spans[s].init = "exec"
      /\ e.spans[s].argv = argv /\ e.spans[s].end = g.spans[s].end
      /\ e.spans[s].usage = own /\ e.spans[s].children = g.spans[s].children
      /\ e.spans[s].parent = p
  BY <1>6, ExecSet
<1>8. q = WithChild(e, p, s)
  <2> DEFINE ch == Append(g.spans[p].children, s)
  <2>1. q = [g EXCEPT !.spans[s].init = "exec", !.spans[s].argv = argv, !.spans[s].parent = p,
                      !.spans[s].usage = own, !.spans[p].children = ch]
    BY DEF own, ExecBelow
  <2>2. e = [g EXCEPT !.spans[s].init = "exec", !.spans[s].argv = argv, !.spans[s].parent = p,
                      !.spans[s].usage = own]
    BY Zenon DEF WithExec
  <2>3. e.spans[p].children = g.spans[p].children
    BY <1>7 DEF SpansKept
  <2> DEFINE v == [g EXCEPT !.spans[s].init = "exec", !.spans[s].argv = argv,
                            !.spans[s].parent = p, !.spans[s].usage = own]
  <2> HIDE DEF ch, e
  <2>4. q = [v EXCEPT !.spans[p].children = ch]
    BY <2>1, Zenon
  <2>5. q = [e EXCEPT !.spans[p].children = ch]
    <3>1. e = v
      BY <2>2
    <3> HIDE DEF v
    <3> QED  BY <2>4, <3>1, Zenon
  <2>6. q = [e EXCEPT !.spans[p].children = Append(e.spans[p].children, s)]
    <3>1. ch = Append(e.spans[p].children, s)
      BY <2>3 DEF ch
    <3> QED  BY <2>5, <3>1, Zenon
  <2> QED  BY <2>6, Zenon DEF WithChild
<1> HIDE DEF e
<1>9. /\ IsTracker(q) /\ q.threads = e.threads /\ q.root = e.root
      /\ DOMAIN q.spans = DOMAIN e.spans
      /\ \A y \in DOMAIN e.spans :
            /\ Lasting(q.spans[y]) = Lasting(e.spans[y])
            /\ q.spans[y].init = e.spans[y].init
            /\ q.spans[y].parent = e.spans[y].parent
            /\ y # p => q.spans[y].children = e.spans[y].children
      /\ q.spans[p].children = Append(e.spans[p].children, s)
  <2>1. p \in DOMAIN e.spans /\ s \in DOMAIN e.spans
    BY <1>7
  <2>2. IsTracker(e)
    BY <1>7
  <2> QED  BY <1>8, <2>1, <2>2, ChildAdded
<1>10. \A x \in DOMAIN g.spans : e.spans[x].children = g.spans[x].children
  BY <1>7 DEF SpansKept
<1>11. \A x \in DOMAIN g.spans : x # s =>
          /\ Lasting(q.spans[x]) = Lasting(g.spans[x])
          /\ q.spans[x].init = g.spans[x].init /\ q.spans[x].parent = g.spans[x].parent
  <2>1. \A x \in DOMAIN g.spans : x # s => e.spans[x] = g.spans[x]
    BY <1>7 DEF SpansKept
  <2>2. \A x \in DOMAIN g.spans :
           /\ Lasting(q.spans[x]) = Lasting(e.spans[x])
           /\ q.spans[x].init = e.spans[x].init /\ q.spans[x].parent = e.spans[x].parent
    BY <1>7, <1>9
  <2> QED  BY <2>1, <2>2
<1>12. /\ q.spans[s].tid = g.spans[s].tid /\ q.spans[s].init = "exec"
       /\ q.spans[s].argv = argv /\ q.spans[s].end = g.spans[s].end
       /\ q.spans[s].usage = own /\ q.spans[s].parent = p
  <2>1. s \in DOMAIN e.spans
    BY <1>7
  <2> QED  BY <1>7, <1>9, <2>1 DEF Lasting
<1>13. /\ \A x \in DOMAIN g.spans : x # p => q.spans[x].children = g.spans[x].children
       /\ q.spans[p].children = Append(g.spans[p].children, s)
  <2>1. DOMAIN e.spans = DOMAIN g.spans
    BY <1>7
  <2>2. \A x \in DOMAIN g.spans : x # p => q.spans[x].children = e.spans[x].children
    BY <1>9, <2>1
  <2>3. q.spans[p].children = Append(e.spans[p].children, s)
    BY <1>9
  <2> QED  BY <1>10, <2>2, <2>3
<1>14. q.threads = g.threads /\ q.root = g.root /\ DOMAIN q.spans = DOMAIN g.spans
  BY <1>7, <1>9
<1> QED  BY <1>9, <1>11, <1>12, <1>13, <1>14 DEF own

\* handle_exec
LEMMA ExecType ==
    ASSUME NEW tr, IsTracker(tr), NEW pid \in Tids, NEW prev \in Tids, NEW argv \in Argvs,
           NEW cpu \in Int, NEW q, q = HandleExec(tr, pid, prev, argv, cpu)
    PROVE  IsTracker(q) /\ q.root = tr.root /\ q.threads[pid] \in DOMAIN q.spans
<1> DEFINE f == FinishThread(tr, prev, "exec", cpu)
           p == f.threads[prev]
           w == Without(f, prev)
           g == GetThread(w, pid)
           s == g.threads[pid]
<1>1. q = ExecBelow(g, p, s, argv)
  BY DEF HandleExec, Without, ExecBelow
<1>2. IsTracker(f) /\ f.root = tr.root /\ p \in DOMAIN f.spans
  <2>1. "exec" \in Reasons
    BY DEF Reasons
  <2> QED  BY <2>1, FinishResult
<1> HIDE DEF f
<1>3. IsTracker(w) /\ w.spans = f.spans /\ w.root = f.root
  BY <1>2, Removed
<1> HIDE DEF w
<1>4. /\ IsTracker(g) /\ g.root = w.root /\ s \in DOMAIN g.spans
      /\ DOMAIN w.spans \subseteq DOMAIN g.spans
  BY <1>3, GetFacts
<1>5. p \in DOMAIN g.spans
  BY <1>2, <1>3, <1>4
<1> HIDE DEF g
<1>6. IsTracker(q) /\ q.threads = g.threads /\ q.root = g.root
      /\ DOMAIN q.spans = DOMAIN g.spans
  <2> HIDE DEF p, s
  <2> QED  BY <1>1, <1>4, <1>5, ExecSpan
<1> QED  BY <1>2, <1>3, <1>4, <1>6

\* ... of a thread that keeps its thread id.
LEMMA ExecResult ==
    ASSUME NEW tr, IsTracker(tr), NEW t \in Tids, NEW argv \in Argvs,
           NEW cpu \in Int, NEW q, q = HandleExec(tr, t, t, argv, cpu),
           NEW f, f = FinishThread(tr, t, "exec", cpu)
    PROVE  /\ IsTracker(q) /\ q.root = tr.root /\ IsTracker(f)
           /\ DOMAIN f.spans \subseteq DOMAIN q.spans
           /\ \A u \in Tids : u # t => q.threads[u] = f.threads[u]
           /\ q.threads[t] \in DOMAIN q.spans
           /\ DOMAIN q.spans \ DOMAIN f.spans = {q.threads[t]}
           /\ \A x \in DOMAIN f.spans :
                 /\ Lasting(q.spans[x]) = Lasting(f.spans[x])
                 /\ q.spans[x].init = f.spans[x].init /\ q.spans[x].parent = f.spans[x].parent
           /\ SpanOf(q, t).tid = t /\ SpanOf(q, t).init = "exec"
           /\ SpanOf(q, t).argv = argv /\ SpanOf(q, t).end = NotEnded
           /\ SpanOf(q, t).usage = SpanOf(f, t).usage
           /\ SpanOf(q, t).parent = f.threads[t] /\ f.threads[t] \in DOMAIN f.spans
           /\ f.threads[t] < q.threads[t] /\ SpanOf(q, t).children = <<>>
           /\ \A x \in DOMAIN f.spans :
                 x # f.threads[t] => q.spans[x].children = f.spans[x].children
           /\ OneMoreBelow(f, q, f.threads[t], q.threads[t])
           /\ Chained(tr) => /\ Chained(q)
                             /\ \A u : SpawnSeen(q, u) <=> SpawnSeen(tr, u)
<1> DEFINE w == Without(f, t)
           g == GetThread(w, t)
           p == f.threads[t]
           s == g.threads[t]
<1>0. q = ExecBelow(g, p, s, argv)
  BY DEF HandleExec, Without, ExecBelow
<1>a. IsTracker(f) /\ f.root = tr.root /\ p \in DOMAIN f.spans
  <2>1. "exec" \in Reasons
    BY DEF Reasons
  <2> QED  BY <2>1, FinishResult
<1>b. IsTracker(w) /\ w.spans = f.spans /\ w.root = f.root
  BY <1>a, Removed
<1>c. /\ IsTracker(g) /\ g.root = w.root /\ s \in DOMAIN g.spans
      /\ DOMAIN w.spans \subseteq DOMAIN g.spans
  <2> HIDE DEF w
  <2> QED  BY <1>b, GetFacts
<1>d. p \in DOMAIN g.spans
  BY <1>a, <1>b, <1>c
<1>e. /\ IsTracker(q) /\ q.threads = g.threads /\ q.root = g.root
      /\ DOMAIN q.spans = DOMAIN g.spans
      /\ \A x \in DOMAIN g.spans : x # s =>
            /\ Lasting(q.spans[x]) = Lasting(g.spans[x])
            /\ q.spans[x].init = g.spans[x].init /\ q.spans[x].parent = g.spans[x].parent
      /\ \A x \in DOMAIN g.spans : x # p => q.spans[x].children = g.spans[x].children
      /\ q.spans[p].children = Append(g.spans[p].children, s)
      /\ q.spans[s].tid = g.spans[s].tid /\ q.spans[s].init = "exec"
      /\ q.spans[s].argv = argv /\ q.spans[s].end = g.spans[s].end
      /\ q.spans[s].usage = g.spans[p].usage /\ q.spans[s].parent = p
  <2> HIDE DEF p, s, g
  <2> QED  BY <1>0, <1>c, <1>d, ExecSpan
<1>1. /\ IsTracker(f) /\ IsTracker(w) /\ IsTracker(g) /\ IsTracker(q)
      /\ p \in DOMAIN f.spans /\ p \in DOMAIN g.spans /\ s \in DOMAIN g.spans
      /\ q.threads = g.threads /\ q.root = tr.root
      /\ DOMAIN q.spans = DOMAIN g.spans
  BY <1>a, <1>b, <1>c, <1>d, <1>e
<1>2. /\ w.spans = f.spans /\ w.threads[t] = 0
      /\ \A u \in Tids : u # t => w.threads[u] = f.threads[u]
  <2>1. IsTracker(f)
    BY <1>1
  <2> QED  BY <2>1, Removed
<1> HIDE DEF w
<1>3. /\ \A u \in Tids : u # t => g.threads[u] = w.threads[u]
      /\ s = Len(w.spans) + 1 /\ Len(g.spans) = Len(w.spans) + 1
      /\ g.spans[s] = NewSpan(t)
      /\ SpansKept(w, g, 0)
  <2>1. IsTracker(w) /\ g = GetThread(w, t)
    BY <1>1
  <2> HIDE DEF g
  <2> QED  BY <1>2, <2>1, GetFacts
<1> HIDE DEF g
<1>4. /\ DOMAIN w.spans = 1..Len(w.spans) /\ Len(w.spans) \in Nat
      /\ DOMAIN g.spans = 1..Len(g.spans)
  BY <1>1, TrackerFields
<1>5. \A x \in DOMAIN f.spans : g.spans[x] = f.spans[x] /\ x # s /\ x < s
  BY <1>2, <1>3, <1>4 DEF SpansKept
<1>6. DOMAIN g.spans = DOMAIN f.spans \cup {s} /\ s \notin DOMAIN f.spans
  BY <1>2, <1>3, <1>4
<1>7. /\ NewSpan(t).tid = t /\ NewSpan(t).end = NotEnded /\ NewSpan(t).children = <<>>
  BY DEF NewSpan
<1>8. q.threads[t] = s /\ SpanOf(q, t) = q.spans[s] /\ SpanOf(f, t) = f.spans[p]
  BY <1>1 DEF SpanOf
<1> HIDE DEF s, p
<1>9. ASSUME Chained(tr)
      PROVE  Chained(q) /\ \A u : SpawnSeen(q, u) <=> SpawnSeen(tr, u)
  <2>1. SameLinks(tr, f)
    <3>1. "exec" \in Reasons
      BY DEF Reasons
    <3> QED  BY <3>1, FinishResult
  <2>2. Chained(f) /\ \A u : SpawnSeen(f, u) <=> SpawnSeen(tr, u)
    BY <1>1, <1>9, <2>1, LinksSame
  <2>3. g.threads[t] = s /\ SpanOf(g, t) = g.spans[s]
    BY DEF SpanOf, s
  <2>4. SameLinks(f, g)
    <3>1. \A u \in Tids : \/ g.threads[u] = f.threads[u]
                          \/ g.threads[u] \in DOMAIN g.spans /\ SpanOf(g, u).tid = u
      BY <1>1, <1>2, <1>3, <1>7, <2>3
    <3>2. g.spans[s].children = <<>> /\ g.spans[s].tid = t /\ g.threads[t] # 0
      BY <1>3, <1>4, <1>7, <2>3
    <3> QED  BY <1>5, <1>6, <3>1, <3>2 DEF SameLinks
  <2>5. Chained(g) /\ \A u : SpawnSeen(g, u) <=> SpawnSeen(f, u)
    BY <1>1, <2>2, <2>4, LinksSame
  <2>6. \A y : ~Linked(g, y, s)
    <3>1. \A y : Linked(g, y, s) => Linked(f, y, s)
      BY <1>1, <2>2, <2>4, LinksSame
    <3> QED  BY <1>1, <1>6, <3>1, LinkedInside
  <2>7. f.spans[p].tid = t
    BY <1>1, <2>2, SpanNumbers DEF Chained, SpanOf, p
  <2>8. SameThread(g, s, p) /\ p < s
    BY <1>1, <1>3, <1>5, <1>7, <2>7 DEF SameThread
  <2>9. LinkAdded(g, q, p, s)
    BY <1>1, <1>e DEF LinkAdded, Lasting
  <2> QED  BY <1>1, <2>2, <2>5, <2>6, <2>8, <2>9, FollowerAdded
<1>10. \A u \in Tids : u # t => q.threads[u] = f.threads[u]
  BY <1>1, <1>2, <1>3
<1>11. \A x \in DOMAIN f.spans :
          /\ Lasting(q.spans[x]) = Lasting(f.spans[x])
          /\ q.spans[x].init = f.spans[x].init /\ q.spans[x].parent = f.spans[x].parent
  BY <1>1, <1>e, <1>5, <1>6
<1>12. /\ SpanOf(q, t).tid = t /\ SpanOf(q, t).init = "exec"
       /\ SpanOf(q, t).argv = argv /\ SpanOf(q, t).end = NotEnded
       /\ SpanOf(q, t).usage = SpanOf(f, t).usage
       /\ SpanOf(q, t).children = <<>>
  BY <1>1, <1>e, <1>3, <1>5, <1>7, <1>8
<1>13. /\ SpanOf(q, t).parent = f.threads[t] /\ f.threads[t] \in DOMAIN f.spans
       /\ f.threads[t] < q.threads[t]
  BY <1>1, <1>e, <1>5, <1>8 DEF p
<1>14. \A x \in DOMAIN f.spans : x # p => q.spans[x].children = f.spans[x].children
  BY <1>1, <1>e, <1>5, <1>6
<1>15. OneMoreBelow(f, q, p, q.threads[t])
  <2>1. q.spans[p].children = Append(f.spans[p].children, s)
    BY <1>1, <1>e, <1>5
  <2> QED  BY <1>8, <2>1 DEF OneMoreBelow
<1> QED  BY <1>1, <1>6, <1>8, <1>9, <1>10, <1>11, <1>12, <1>13, <1>14, <1>15 DEF p
-----------------------------------------------------------------------------
(* The chain of parents that update_parent climbs. *)

\* Above a span of a thread whose spawn has not been seen are the spans that its
\* execs have put there.
ExecsAbove(tr) ==
    \A x \in DOMAIN tr.spans :
        LET p == tr.spans[x].parent IN
        ~SpawnSeen(tr, tr.spans[x].tid) /\ p # 0 =>
            tr.spans[x].init = "exec" /\ p < x /\ SameThread(tr, p, x)

\* What holds of a span if it holds of its parent, holds of all spans of a thread
\* whose spawn has not been seen.
LEMMA ParentInduction ==
    ASSUME NEW tr, IsTracker(tr), ExecsAbove(tr),
           NEW T \in SUBSET DOMAIN tr.spans,
           \A x \in DOMAIN tr.spans :
              LET p == tr.spans[x].parent IN
              ~SpawnSeen(tr, tr.spans[x].tid)
                /\ (p # 0 => tr.spans[x].init = "exec" /\ SameThread(tr, p, x) /\ p \in T)
              => x \in T
    PROVE  \A x \in DOMAIN tr.spans : ~SpawnSeen(tr, tr.spans[x].tid) => x \in T
<1> DEFINE U == {x \in DOMAIN tr.spans : ~SpawnSeen(tr, tr.spans[x].tid)}
<1> SUFFICES ASSUME U \ T # {}
             PROVE  FALSE
  OBVIOUS
<1>1. \A x \in DOMAIN tr.spans : /\ x \in Nat
                                 /\ tr.spans[x].parent # 0 => tr.spans[x].parent \in DOMAIN tr.spans
  BY TrackerFields, SpanNumbers
<1>2. PICK x \in U \ T : \A y \in U \ T : ~(y < x)
  <2>1. U \ T \in SUBSET Nat
    BY <1>1
  <2> HIDE DEF U
  <2> QED  BY <2>1, LeastNumber
<1> DEFINE p == tr.spans[x].parent
<1>3. x \in DOMAIN tr.spans /\ x \notin T /\ ~SpawnSeen(tr, tr.spans[x].tid)
  BY <1>2
<1>4. ASSUME p # 0
      PROVE  tr.spans[x].init = "exec" /\ SameThread(tr, p, x) /\ p \in T
  <2>1. tr.spans[x].init = "exec" /\ p < x /\ SameThread(tr, p, x)
    BY <1>3, <1>4 DEF ExecsAbove
  <2>2. p \in DOMAIN tr.spans
    BY <1>1, <1>3, <1>4
  <2>3. ~SpawnSeen(tr, tr.spans[p].tid)
    BY <1>3, <2>1 DEF SameThread
  <2>4. p \in U
    BY <2>2, <2>3
  <2> HIDE DEF p
  <2> QED  BY <1>2, <2>1, <2>4
<1> QED  BY <1>3, <1>4

\* One step up, if f has the top from there.
TopStep(spans, f, x) == IF spans[x].parent = 0 THEN x ELSE f[spans[x].parent]
Tops(spans, f) == f = [x \in DOMAIN spans |-> TopStep(spans, f, x)]

\* The tops exist, even if the parents should lead round in a circle.
LEMMA TopExists ==
    ASSUME NEW tr, IsTracker(tr)
    PROVE  \E f : Tops(tr.spans, f)
<1> DEFINE D == DOMAIN tr.spans
           par(x) == tr.spans[x].parent
           Closed(S) == \A z \in S : par(z) # 0 => par(z) \in S
           Up(x) == {y \in D : \A S \in SUBSET D : x \in S /\ Closed(S) => y \in S}
           tops(x) == {y \in Up(x) : par(y) = 0}
           f == [x \in D |-> CHOOSE y : y \in tops(x)]
<1>1. \A x \in D : par(x) # 0 => par(x) \in D
  BY TrackerFields
<1> HIDE DEF par
<1>2. ASSUME NEW x \in D
      PROVE  x \in Up(x) /\ Up(x) \in SUBSET D /\ Closed(Up(x))
  BY <1>1
<1>3. ASSUME NEW x \in D, NEW S \in SUBSET D, x \in S, Closed(S)
      PROVE  Up(x) \subseteq S
  BY <1>3
<1> HIDE DEF Up
<1>4. ASSUME NEW x \in D, par(x) = 0
      PROVE  tops(x) = {x}
  <2>1. Closed({x}) /\ {x} \in SUBSET D
    BY <1>4
  <2>2. Up(x) \subseteq {x}
    <3> HIDE DEF Closed
    <3> QED  BY <1>3, <2>1
  <2> QED  BY <1>2, <1>4, <2>2
<1>5. ASSUME NEW x \in D, par(x) # 0
      PROVE  tops(x) = tops(par(x))
  <2> DEFINE p == par(x)
             S == Up(p) \cup {x}
  <2>1. p \in D
    BY <1>1, <1>5
  <2>2. p \in Up(p) /\ Up(p) \in SUBSET D /\ Closed(Up(p))
    BY <1>2, <2>1
  <2>3. x \in Up(x) /\ Up(x) \in SUBSET D /\ Closed(Up(x))
    BY <1>2
  <2>4. Up(p) \subseteq Up(x)
    <3>1. p \in Up(x)
      BY <1>5, <2>3
    <3> HIDE DEF Closed, p
    <3> QED  BY <1>3, <2>1, <2>3, <3>1
  <2>5. S \in SUBSET D /\ x \in S /\ Closed(S)
    BY <2>2
  <2>6. Up(x) \subseteq S
    <3> HIDE DEF Closed, S
    <3> QED  BY <1>3, <2>5
  <2> QED  BY <1>5, <2>4, <2>6
<1>6. ASSUME NEW x \in D
      PROVE  f[x] = TopStep(tr.spans, f, x)
  <2>1. CASE par(x) = 0
    <3>1. f[x] = x
      BY <1>4, <2>1
    <3> HIDE DEF f
    <3> QED  BY <2>1, <3>1 DEF TopStep, par
  <2>2. CASE par(x) # 0
    <3>1. par(x) \in D /\ tops(x) = tops(par(x))
      BY <1>1, <1>5, <2>2
    <3> HIDE DEF tops
    <3>2. f[x] = f[par(x)]
      BY <3>1
    <3> HIDE DEF f
    <3> QED  BY <2>2, <3>2 DEF TopStep, par
  <2> QED  BY <2>1, <2>2
<1>7. f = [x \in DOMAIN tr.spans |-> TopStep(tr.spans, f, x)]
  <2> DEFINE h == [x \in D |-> TopStep(tr.spans, f, x)]
  <2>1. \A x \in D : f[x] = h[x]
    BY <1>6
  <2> QED  BY <2>1
<1> HIDE DEF f
<1> QED  BY <1>7 DEF Tops

\* The top above a span of a thread whose spawn has not been seen is of the thread.
LEMMA TopThread ==
    ASSUME NEW tr, IsTracker(tr), ExecsAbove(tr), NEW s \in DOMAIN tr.spans,
           ~SpawnSeen(tr, tr.spans[s].tid)
    PROVE  Top(tr.spans, s) \in DOMAIN tr.spans /\ SameThread(tr, Top(tr.spans, s), s)
<1> DEFINE f == CHOOSE f : Tops(tr.spans, f)
           T == {x \in DOMAIN tr.spans : f[x] \in DOMAIN tr.spans /\ SameThread(tr, f[x], x)}
<1>1. Top(tr.spans, s) = f[s]
  BY DEF Top, Tops, TopStep
<1>2. Tops(tr.spans, f)
  BY TopExists
<1> HIDE DEF f
<1>3. \A x \in DOMAIN tr.spans : f[x] = TopStep(tr.spans, f, x)
  BY <1>2 DEF Tops
<1>4. \A x \in DOMAIN tr.spans :
         LET p == tr.spans[x].parent IN
         ~SpawnSeen(tr, tr.spans[x].tid)
           /\ (p # 0 => tr.spans[x].init = "exec" /\ SameThread(tr, p, x) /\ p \in T)
         => x \in T
  BY <1>3 DEF TopStep, SameThread
<1>5. s \in T
  <2>1. T \in SUBSET DOMAIN tr.spans
    OBVIOUS
  <2> HIDE DEF T
  <2> QED  BY <1>4, <2>1, ParentInduction
<1> QED  BY <1>1, <1>5

\* One step of what update_parent asserts on its way up.
BindStep(spans, f, x) ==
    spans[x].parent = 0 \/ (spans[x].init = "exec" /\ f[spans[x].parent])
Binds(spans, f) == f = [x \in DOMAIN spans |-> BindStep(spans, f, x)]

\* What it asserts is defined for every span.
LEMMA BindExists ==
    ASSUME NEW tr, IsTracker(tr)
    PROVE  \E f : Binds(tr.spans, f)
<1> DEFINE D == DOMAIN tr.spans
           Holds(S, x) == \/ tr.spans[x].parent = 0
                          \/ tr.spans[x].init = "exec" /\ tr.spans[x].parent \in S
           Closed(S) == \A x \in D : Holds(S, x) => x \in S
           L == {x \in D : \A S \in SUBSET D : Closed(S) => x \in S}
           f == [x \in D |-> IF x \in L THEN TRUE ELSE FALSE]
<1>1. Closed(L)
  OBVIOUS
<1>2. \A x \in L : Holds(L, x)
  <2> DEFINE S == {x \in L : Holds(L, x)}
  <2>1. Closed(S)
    BY <1>1
  <2>2. S \in SUBSET D
    OBVIOUS
  <2>3. L \subseteq S
    <3> HIDE DEF S, Closed
    <3> QED  BY <2>1, <2>2
  <2> QED  BY <2>3
<1> HIDE DEF L
<1>3. \A x \in D : x \in L <=> Holds(L, x)
  BY <1>1, <1>2
<1>4. \A x \in D : tr.spans[x].parent # 0 => tr.spans[x].parent \in D
  BY TrackerFields
<1>5. ASSUME NEW x \in D
      PROVE  f[x] = BindStep(tr.spans, f, x)
  <2>1. CASE x \in L
    <3>1. f[x] = TRUE /\ Holds(L, x)
      BY <1>3, <2>1
    <3>2. tr.spans[x].parent # 0 => (f[tr.spans[x].parent] <=> tr.spans[x].parent \in L)
      BY <1>4
    <3> HIDE DEF f
    <3> QED  BY <3>1, <3>2 DEF BindStep
  <2>2. CASE x \notin L
    <3>1. f[x] = FALSE /\ ~Holds(L, x)
      BY <1>3, <2>2
    <3>2. tr.spans[x].parent # 0 => (f[tr.spans[x].parent] <=> tr.spans[x].parent \in L)
      BY <1>4
    <3> HIDE DEF f
    <3> QED  BY <3>1, <3>2 DEF BindStep
  <2> QED  BY <2>1, <2>2
<1>6. f = [x \in DOMAIN tr.spans |-> BindStep(tr.spans, f, x)]
  <2> DEFINE h == [x \in D |-> BindStep(tr.spans, f, x)]
  <2>1. \A x \in D : f[x] = h[x]
    BY <1>5
  <2> QED  BY <2>1
<1> HIDE DEF f
<1> QED  BY <1>6 DEF Binds

\* No assertion fails when the first spawn event of a thread is handled.
LEMMA BindsFirst ==
    ASSUME NEW tr, IsTracker(tr), Chained(tr), ExecsAbove(tr), NEW t \in Tids,
           ~SpawnSeen(tr, t)
    PROVE  CanBind(tr, t)
<1> DEFINE f == CHOOSE f : Binds(tr.spans, f)
           T == {x \in DOMAIN tr.spans : f[x]}
           s == tr.threads[t]
<1>1. CanBind(tr, t) <=> (s # 0 => f[s])
  BY DEF CanBind, Binds, BindStep
<1>2. Binds(tr.spans, f)
  BY BindExists
<1> HIDE DEF f
<1>3. \A x \in DOMAIN tr.spans : f[x] = BindStep(tr.spans, f, x)
  BY <1>2 DEF Binds
<1>4. \A x \in DOMAIN tr.spans :
         LET p == tr.spans[x].parent IN
         ~SpawnSeen(tr, tr.spans[x].tid)
           /\ (p # 0 => tr.spans[x].init = "exec" /\ SameThread(tr, p, x) /\ p \in T)
         => x \in T
  BY <1>3 DEF BindStep
<1>5. ASSUME s # 0
      PROVE  s \in T
  <2>1. s \in DOMAIN tr.spans /\ tr.spans[s].tid = t
    BY <1>5, SpanNumbers DEF Chained, SpanOf
  <2>2. T \in SUBSET DOMAIN tr.spans
    OBVIOUS
  <2> HIDE DEF T
  <2> QED  BY <1>4, <2>1, <2>2, ParentInduction
<1> QED  BY <1>1, <1>5

\* Spans that are added are tops, or are put above by execs.
LEMMA AboveKept ==
    ASSUME NEW tr, IsTracker(tr), ExecsAbove(tr), NEW q,
           DOMAIN tr.spans \subseteq DOMAIN q.spans,
           \A x \in DOMAIN tr.spans :
              /\ q.spans[x].tid = tr.spans[x].tid
              /\ ~SpawnSeen(q, tr.spans[x].tid) =>
                    /\ ~SpawnSeen(tr, tr.spans[x].tid)
                    /\ q.spans[x].parent = tr.spans[x].parent
                    /\ q.spans[x].init = tr.spans[x].init,
           \A x \in DOMAIN q.spans \ DOMAIN tr.spans :
              LET p == q.spans[x].parent IN
              p # 0 => q.spans[x].init = "exec" /\ p < x /\ SameThread(q, p, x)
    PROVE  ExecsAbove(q)
<1>1. ASSUME NEW x \in DOMAIN tr.spans, ~SpawnSeen(q, q.spans[x].tid), q.spans[x].parent # 0
      PROVE  LET p == q.spans[x].parent IN
             q.spans[x].init = "exec" /\ p < x /\ SameThread(q, p, x)
  <2> DEFINE p == tr.spans[x].parent
  <2>1. /\ ~SpawnSeen(tr, tr.spans[x].tid) /\ q.spans[x].tid = tr.spans[x].tid
        /\ q.spans[x].parent = p /\ q.spans[x].init = tr.spans[x].init
    BY <1>1
  <2>2. tr.spans[x].init = "exec" /\ p < x /\ SameThread(tr, p, x)
    BY <1>1, <2>1 DEF ExecsAbove
  <2>3. p \in DOMAIN tr.spans
    BY <1>1, <2>1, TrackerFields
  <2> HIDE DEF p
  <2>4. SameThread(q, p, x)
    BY <2>2, <2>3 DEF SameThread
  <2> QED  BY <2>1, <2>2, <2>4
<1> QED  BY <1>1 DEF ExecsAbove

\* finish_thread touches neither how spans began nor their parents.
LEMMA FinishBegun ==
    ASSUME NEW tr, IsTracker(tr), NEW t \in Tids, NEW reason \in Reasons, NEW cpu \in Int,
           NEW q, q = FinishThread(tr, t, reason, cpu)
    PROVE  /\ DOMAIN tr.spans \subseteq DOMAIN q.spans
           /\ \A x \in DOMAIN tr.spans : /\ q.spans[x].tid = tr.spans[x].tid
                                         /\ q.spans[x].parent = tr.spans[x].parent
                                         /\ q.spans[x].init = tr.spans[x].init
           /\ \A x \in DOMAIN q.spans \ DOMAIN tr.spans : q.spans[x].parent = 0
<1>1. /\ IsTracker(q) /\ SameLinks(tr, q) /\ q.threads[t] \in DOMAIN q.spans
      /\ tr.threads[t] # 0 => q.threads[t] = tr.threads[t]
      /\ DOMAIN q.spans \subseteq DOMAIN tr.spans \cup {q.threads[t]}
      /\ tr.threads[t] = 0 => q.threads[t] = Len(tr.spans) + 1
      /\ SpansKept(tr, q, q.threads[t])
      /\ SpanOf(q, t).init = Before(tr, t).init
      /\ SpanOf(q, t).parent = Before(tr, t).parent
  BY FinishResult
<1> DEFINE s == q.threads[t]
<1>2. /\ DOMAIN tr.spans \subseteq DOMAIN q.spans
      /\ \A x \in DOMAIN tr.spans : q.spans[x].tid = tr.spans[x].tid
  BY <1>1 DEF SameLinks
<1>3. s \in DOMAIN tr.spans => tr.threads[t] # 0
  <2>1. DOMAIN tr.spans = 1..Len(tr.spans) /\ Len(tr.spans) \in Nat
    BY TrackerFields
  <2> QED  BY <1>1, <2>1
<1>4. tr.threads[t] # 0 =>
         q.spans[s].init = tr.spans[s].init /\ q.spans[s].parent = tr.spans[s].parent
  BY <1>1 DEF Before, SpanOf
<1>5. tr.threads[t] = 0 => q.spans[s].parent = 0
  BY <1>1 DEF Before, SpanOf, NewSpan
<1>6. s \notin DOMAIN tr.spans => tr.threads[t] = 0
  BY <1>1, SpanNumbers
<1>7. \A x \in DOMAIN tr.spans : /\ q.spans[x].parent = tr.spans[x].parent
                                 /\ q.spans[x].init = tr.spans[x].init
  BY <1>1, <1>3, <1>4 DEF SpansKept
<1>8. \A x \in DOMAIN q.spans \ DOMAIN tr.spans : q.spans[x].parent = 0
  BY <1>1, <1>5, <1>6
<1> QED  BY <1>2, <1>7, <1>8

\* finish_thread
LEMMA FinishAbove ==
    ASSUME NEW tr, IsTracker(tr), Chained(tr), ExecsAbove(tr), NEW t \in Tids,
           NEW reason \in Reasons, NEW cpu \in Int,
           NEW q, q = FinishThread(tr, t, reason, cpu)
    PROVE  ExecsAbove(q)
<1>1. IsTracker(q) /\ SameLinks(tr, q)
  BY FinishResult
<1>2. \A u : SpawnSeen(q, u) <=> SpawnSeen(tr, u)
  BY <1>1, LinksSame
<1>3. /\ DOMAIN tr.spans \subseteq DOMAIN q.spans
      /\ \A x \in DOMAIN tr.spans : /\ q.spans[x].tid = tr.spans[x].tid
                                    /\ q.spans[x].parent = tr.spans[x].parent
                                    /\ q.spans[x].init = tr.spans[x].init
      /\ \A x \in DOMAIN q.spans \ DOMAIN tr.spans : q.spans[x].parent = 0
  BY FinishBegun
<1> QED  BY <1>2, <1>3, AboveKept

\* handle_exec of the first command
LEMMA FirstExecAbove ==
    ASSUME NEW tr, IsTracker(tr), Chained(tr), ExecsAbove(tr), NEW t \in Tids,
           tr.threads[t] = 0, NEW q, q = HandleFirstExec(tr, t)
    PROVE  ExecsAbove(q)
<1>1. /\ IsTracker(q) /\ SameLinks(tr, q)
      /\ DOMAIN q.spans \subseteq DOMAIN tr.spans \cup {q.threads[t]}
      /\ q.threads[t] = Len(tr.spans) + 1
      /\ SpansKept(tr, q, q.threads[t])
      /\ SpanOf(q, t).parent = Before(tr, t).parent
  BY FirstExecResult
<1>2. \A u : SpawnSeen(q, u) <=> SpawnSeen(tr, u)
  BY <1>1, LinksSame
<1>3. /\ DOMAIN tr.spans \subseteq DOMAIN q.spans
      /\ \A x \in DOMAIN tr.spans : q.spans[x].tid = tr.spans[x].tid
  BY <1>1 DEF SameLinks
<1>4. q.threads[t] \notin DOMAIN tr.spans
  <2>1. DOMAIN tr.spans = 1..Len(tr.spans) /\ Len(tr.spans) \in Nat
    BY TrackerFields
  <2> QED  BY <1>1, <2>1
<1>5. \A x \in DOMAIN tr.spans : q.spans[x] = tr.spans[x]
  BY <1>1, <1>4 DEF SpansKept
<1>6. \A x \in DOMAIN q.spans \ DOMAIN tr.spans : q.spans[x].parent = 0
  BY <1>1 DEF SpanOf, Before, NewSpan
<1> QED  BY <1>2, <1>3, <1>5, <1>6, AboveKept

\* handle_exec: the one new parent is the span before, of the same thread.
LEMMA ExecAbove ==
    ASSUME NEW tr, IsTracker(tr), Chained(tr), ExecsAbove(tr), NEW t \in Tids,
           NEW argv \in Argvs, NEW cpu \in Int,
           NEW q, q = HandleExec(tr, t, t, argv, cpu)
    PROVE  ExecsAbove(q)
<1> DEFINE f == FinishThread(tr, t, "exec", cpu)
           p == f.threads[t]
<1>0. "exec" \in Reasons
  BY DEF Reasons
<1>1. ExecsAbove(f) /\ SameLinks(tr, f)
  BY <1>0, FinishAbove, FinishResult
<1>2. /\ IsTracker(f) /\ p \in DOMAIN f.spans
      /\ DOMAIN f.spans \subseteq DOMAIN q.spans
      /\ DOMAIN q.spans \ DOMAIN f.spans = {q.threads[t]}
      /\ \A x \in DOMAIN f.spans :
            /\ Lasting(q.spans[x]) = Lasting(f.spans[x])
            /\ q.spans[x].init = f.spans[x].init /\ q.spans[x].parent = f.spans[x].parent
      /\ SpanOf(q, t).tid = t /\ SpanOf(q, t).init = "exec"
      /\ SpanOf(q, t).parent = p /\ p < q.threads[t]
      /\ \A u : SpawnSeen(q, u) <=> SpawnSeen(tr, u)
  <2> HIDE DEF f
  <2> QED  BY ExecResult DEF f
<1> HIDE DEF f
<1>3. Chained(f) /\ \A u : SpawnSeen(f, u) <=> SpawnSeen(tr, u)
  BY <1>1, <1>2, LinksSame
<1>4. p # 0 /\ f.spans[p].tid = t
  BY <1>2, <1>3, SpanNumbers DEF Chained, SpanOf
<1> HIDE DEF p
<1>5. \A x \in DOMAIN f.spans : q.spans[x].tid = f.spans[x].tid
  BY <1>2 DEF Lasting
<1>6. \A x \in DOMAIN q.spans \ DOMAIN f.spans :
         q.spans[x].parent = p /\ q.spans[x].init = "exec" /\ p < x /\ SameThread(q, p, x)
  BY <1>2, <1>4, <1>5 DEF SameThread, SpanOf
<1> QED  BY <1>1, <1>2, <1>3, <1>5, <1>6, AboveKept

\* handle_spawn: it sets the parent of a span of the thread whose spawn is seen now.
LEMMA SpawnAbove ==
    ASSUME NEW tr, IsTracker(tr), Chained(tr), ExecsAbove(tr), NEW c \in Tids, NEW t \in Tids,
           c # t, ~SpawnSeen(tr, c), NEW isFork \in BOOLEAN,
           NEW q, q = HandleSpawn(tr, c, t, isFork)
    PROVE  ExecsAbove(q)
<1> DEFINE g == WithBoth(tr, c, t)
           p == g.threads[t]
           s == g.threads[c]
           x == Top(g.spans, s)
<1>1. /\ IsTracker(g) /\ Grown(tr, g)
      /\ p \in DOMAIN g.spans /\ s \in DOMAIN g.spans
      /\ Chained(g) /\ \A u : SpawnSeen(g, u) <=> SpawnSeen(tr, u)
  BY BothThere
<1>2. /\ LinkAdded(g, q, p, s)
      /\ \A y \in DOMAIN g.spans :
            /\ Lasting(q.spans[y]) = Lasting(g.spans[y])
            /\ y # s => q.spans[y].init = g.spans[y].init
            /\ y # x => q.spans[y].parent = g.spans[y].parent
  BY SpawnChanges
<1> HIDE DEF g
<1>3. g.spans[s].tid = c /\ g.spans[p].tid = t
  BY <1>1, SpanNumbers DEF Chained, SpanOf
<1>4. ExecsAbove(g)
  <2>1. \A y \in DOMAIN g.spans \ DOMAIN tr.spans : g.spans[y].parent = 0
    <3>1. \A u : NewSpan(u).parent = 0
      BY DEF NewSpan
    <3> QED  BY <1>1, <3>1 DEF Grown
  <2>2. /\ DOMAIN tr.spans \subseteq DOMAIN g.spans
        /\ \A y \in DOMAIN tr.spans : g.spans[y] = tr.spans[y]
    BY <1>1 DEF Grown
  <2> QED  BY <1>1, <2>1, <2>2, AboveKept
<1>5. g.spans[x].tid = c
  <2>1. ~SpawnSeen(g, g.spans[s].tid)
    BY <1>1, <1>3
  <2> HIDE DEF s
  <2>2. SameThread(g, x, s)
    BY <1>1, <1>4, <2>1, TopThread
  <2> QED  BY <1>3, <2>2 DEF SameThread
<1> HIDE DEF p, s, x
<1>6. /\ \A v, y : Linked(q, y, v) <=> Linked(g, y, v) \/ (y = p /\ v = s)
      /\ \A v, y \in DOMAIN g.spans : SameThread(q, v, y) <=> SameThread(g, v, y)
  BY <1>1, <1>2, LinkAddedLinks
<1>7. DOMAIN q.spans = DOMAIN g.spans /\ \A y \in DOMAIN g.spans : q.spans[y].tid = g.spans[y].tid
  BY <1>2 DEF LinkAdded
<1>8. SpawnSeen(q, c)
  <2>1. Bound(q, p, s)
    BY <1>1, <1>3, <1>6 DEF Bound, SameThread
  <2> QED  BY <1>1, <1>3, <1>7, <2>1 DEF SpawnSeen
<1>9. \A u : SpawnSeen(g, u) => SpawnSeen(q, u)
  BY <1>6, <1>7 DEF SpawnSeen, Bound
<1>10. \A y \in DOMAIN g.spans : ~SpawnSeen(q, g.spans[y].tid) =>
          /\ ~SpawnSeen(g, g.spans[y].tid)
          /\ q.spans[y].parent = g.spans[y].parent
          /\ q.spans[y].init = g.spans[y].init
  BY <1>3, <1>5, <1>2, <1>8, <1>9
<1> QED  BY <1>1, <1>4, <1>7, <1>10, AboveKept
-----------------------------------------------------------------------------
(* What the report reaches from the root. *)

\* The spans at most n steps down, if f has those one step less.
DownStep(tr, f, n) ==
    IF n = 0 THEN {tr.root} \ {0}
    ELSE f[n - 1] \cup UNION {Children(tr, s) : s \in f[n - 1]}

\* The spans reached in n steps are defined.
LEMMA DownExists ==
    ASSUME NEW tr, NEW L \in Nat
    PROVE  \E f : f = [n \in 0..L |-> DownStep(tr, f, n)]
<1> DEFINE Upto(k) == \E f : \A n \in 0..k : f[n] = DownStep(tr, f, n)
           T == {k \in Nat : Upto(k)}
<1>1. Upto(0)
  <2> DEFINE f == [n \in {0} |-> {tr.root} \ {0}]
  <2>1. \A n \in 0..0 : f[n] = DownStep(tr, f, n)
    BY DEF DownStep
  <2> QED  BY <2>1
<1>2. ASSUME NEW k \in Nat, Upto(k)
      PROVE  Upto(k + 1)
  <2>1. PICK f : \A n \in 0..k : f[n] = DownStep(tr, f, n)
    BY <1>2
  <2> DEFINE g == [n \in 0..k + 1 |-> IF n <= k THEN f[n] ELSE DownStep(tr, f, n)]
  <2>2. ASSUME NEW n \in 0..k + 1
        PROVE  g[n] = DownStep(tr, g, n)
    <3>1. g[n] = DownStep(tr, f, n)
      BY <2>1
    <3>2. n # 0 => g[n - 1] = f[n - 1]
      OBVIOUS
    <3> HIDE DEF g
    <3> QED  BY <3>1, <3>2 DEF DownStep
  <2> HIDE DEF g
  <2> QED  BY <2>2
<1>3. T = Nat
  <2>1. 0 \in T /\ \A k \in T : k + 1 \in T
    <3> HIDE DEF Upto
    <3> QED  BY <1>1, <1>2
  <2>2. T \in SUBSET Nat
    OBVIOUS
  <2> HIDE DEF T
  <2> QED  BY <2>1, <2>2, NumberInduction
<1>4. PICK f : \A n \in 0..L : f[n] = DownStep(tr, f, n)
  <2>1. L \in T
    BY <1>3
  <2> QED  BY <2>1
<1> DEFINE g == [n \in 0..L |-> f[n]]
<1>5. ASSUME NEW n \in 0..L
      PROVE  g[n] = DownStep(tr, g, n)
  <2>1. n # 0 => g[n - 1] = f[n - 1]
    OBVIOUS
  <2>2. g[n] = f[n]
    OBVIOUS
  <2> HIDE DEF g
  <2> QED  BY <1>4, <2>1, <2>2 DEF DownStep
<1>6. g = [n \in 0..L |-> DownStep(tr, g, n)]
  <2> DEFINE h == [n \in 0..L |-> DownStep(tr, g, n)]
  <2>1. \A n \in 0..L : g[n] = h[n]
    BY <1>5
  <2> QED  BY <2>1
<1> HIDE DEF g
<1> QED  BY <1>6

\* What is closed under going down and has the root has all that is reached.
LEMMA ReachedInside ==
    ASSUME NEW tr, IsTracker(tr), NEW K \in SUBSET DOMAIN tr.spans,
           tr.root # 0 => tr.root \in K,
           \A y \in K : Children(tr, y) \subseteq K
    PROVE  Reached(tr) \subseteq K
<1> DEFINE L == Len(tr.spans)
           f == CHOOSE f : f = [n \in 0..L |-> DownStep(tr, f, n)]
<1>1. L \in Nat
  BY TrackerFields
<1>2. Reached(tr) = f[L]
  BY DEF Reached, DownStep
<1> HIDE DEF L
<1>3. f = [n \in 0..L |-> DownStep(tr, f, n)]
  BY <1>1, DownExists
<1> HIDE DEF f
<1> DEFINE T == {n \in Nat : n \in 0..L => f[n] \subseteq K}
<1>4. 0 \in T
  BY <1>1, <1>3 DEF DownStep
<1>5. ASSUME NEW n \in T
      PROVE  n + 1 \in T
  <2> SUFFICES ASSUME n + 1 \in 0..L
               PROVE  f[n + 1] \subseteq K
    OBVIOUS
  <2>1. f[n] \subseteq K
    BY <1>1
  <2>2. f[n + 1] = f[n] \cup UNION {Children(tr, s) : s \in f[n]}
    <3>1. f[n + 1] = DownStep(tr, f, n + 1)
      BY <1>3
    <3>2. n + 1 # 0 /\ (n + 1) - 1 = n
      OBVIOUS
    <3> QED  BY <3>1, <3>2 DEF DownStep
  <2> QED  BY <2>1, <2>2
<1>6. T = Nat
  <2>1. T \in SUBSET Nat
    OBVIOUS
  <2> HIDE DEF T
  <2> QED  BY <1>4, <1>5, <2>1, NumberInduction
<1> QED  BY <1>1, <1>2, <1>6

\* K has the root, all that is below its members, and one way to each of them.
TreeIn(tr, K) ==
    /\ K \subseteq DOMAIN tr.spans
    /\ tr.root # 0 => tr.root \in K
    /\ \A y \in K : Children(tr, y) \subseteq K
    /\ \A s \in K : tr.root \notin Children(tr, s)
    /\ \A s \in K : \A i, j \in DOMAIN tr.spans[s].children :
          tr.spans[s].children[i] = tr.spans[s].children[j] => i = j
    /\ \A s, u \in K : s # u => Children(tr, s) \cap Children(tr, u) = {}

\* The spans that a later bound span of their thread does not cut off are a tree,
\* if the root's thread was not spawned.
LEMMA ChainedTree ==
    ASSUME NEW tr, IsTracker(tr), Chained(tr),
           tr.root # 0 => tr.root = 1 /\ ~SpawnSeen(tr, tr.spans[1].tid)
    PROVE  \E K : TreeIn(tr, K)
<1> DEFINE D == {x \in DOMAIN tr.spans : \E y, z \in DOMAIN tr.spans :
                    x < z /\ SameThread(tr, x, z) /\ Bound(tr, y, z)}
           K == DOMAIN tr.spans \ D
<1>1. /\ \A x \in DOMAIN tr.spans : x \in Nat /\ x # 0
      /\ tr.root # 0 => tr.root \in DOMAIN tr.spans
  <2>1. /\ DOMAIN tr.spans = 1..Len(tr.spans) /\ Len(tr.spans) \in Nat
        /\ tr.root \in 0..Len(tr.spans)
    BY TrackerFields
  <2> QED  BY <2>1
<1>2. \A x, y : Linked(tr, y, x) => x \in DOMAIN tr.spans /\ y \in DOMAIN tr.spans
  BY LinkedInside
<1>3. tr.root # 0 => tr.root \in K
  <2>1. ASSUME tr.root # 0, tr.root \in D
        PROVE  FALSE
    <3>1. PICK y, z \in DOMAIN tr.spans :
                    tr.root < z /\ SameThread(tr, tr.root, z) /\ Bound(tr, y, z)
      BY <2>1
    <3>2. SpawnSeen(tr, tr.spans[tr.root].tid)
      BY <3>1 DEF SpawnSeen, SameThread
    <3> QED  BY <2>1, <3>2
  <2> QED  BY <1>1, <2>1
<1>4. ASSUME NEW y \in K, NEW x \in Children(tr, y)
      PROVE  x \in K
  <2>1. Linked(tr, y, x) /\ x \in DOMAIN tr.spans /\ y \in DOMAIN tr.spans
    BY <1>2 DEF Linked
  <2> SUFFICES ASSUME x \in D
               PROVE  FALSE
    BY <2>1
  <2>2. PICK v, z \in DOMAIN tr.spans :
                    x < z /\ SameThread(tr, x, z) /\ Bound(tr, v, z)
    OBVIOUS
  <2>3. CASE SameThread(tr, x, y)
    <3>1. y < x
      BY <2>1, <2>3 DEF Chained, Followed
    <3>2. y < z /\ SameThread(tr, y, z)
      BY <1>1, <2>1, <2>2, <2>3, <3>1 DEF SameThread
    <3> QED  BY <2>1, <2>2, <3>2
  <2>4. CASE ~SameThread(tr, x, y)
    <3>1. x = z
      BY <2>1, <2>2, <2>4 DEF Chained, Bound
    <3> QED  BY <1>1, <2>1, <2>2, <3>1
  <2> QED  BY <2>3, <2>4
<1>5. \A s \in K : tr.root \notin Children(tr, s)
  <2> SUFFICES ASSUME NEW s \in K, tr.root \in Children(tr, s)
               PROVE  FALSE
    OBVIOUS
  <2>1. Linked(tr, s, tr.root) /\ tr.root \in DOMAIN tr.spans /\ s \in DOMAIN tr.spans
    BY <1>2 DEF Linked
  <2>2. tr.root = 1 /\ ~SpawnSeen(tr, tr.spans[1].tid)
    BY <1>1, <2>1
  <2>3. SameThread(tr, tr.root, s)
    BY <2>1, <2>2 DEF SpawnSeen, Bound
  <2>4. s < 1
    BY <2>1, <2>2, <2>3 DEF Chained, Followed
  <2> QED  BY <1>1, <2>1, <2>4
<1>6. \A s \in K : \A i, j \in DOMAIN tr.spans[s].children :
              tr.spans[s].children[i] = tr.spans[s].children[j] => i = j
  BY DEF Chained
<1>7. \A s, u \in K : s # u => Children(tr, s) \cap Children(tr, u) = {}
  <2> SUFFICES ASSUME NEW s \in K, NEW u \in K, NEW x, x \in Children(tr, s),
                      x \in Children(tr, u), s # u
               PROVE  FALSE
    OBVIOUS
  <2>1. /\ Linked(tr, s, x) /\ Linked(tr, u, x)
        /\ x \in DOMAIN tr.spans /\ s \in DOMAIN tr.spans /\ u \in DOMAIN tr.spans
    BY <1>2 DEF Linked
  <2>2. ASSUME NEW v \in K, NEW w \in K, Followed(tr, v, x), Bound(tr, w, x)
        PROVE  FALSE
    <3>1. v \in DOMAIN tr.spans /\ w \in DOMAIN tr.spans /\ v < x /\ SameThread(tr, v, x)
      BY <2>1, <2>2 DEF Chained, Followed, SameThread
    <3>2. v \in D
      BY <2>1, <2>2, <3>1
    <3> QED  BY <3>2
  <2>3. CASE SameThread(tr, x, s) /\ SameThread(tr, x, u)
    BY <2>1, <2>3 DEF Chained, Followed
  <2>4. CASE ~SameThread(tr, x, s) /\ ~SameThread(tr, x, u)
    <3>1. Bound(tr, s, x) /\ Bound(tr, u, x) /\ SameThread(tr, x, x)
      BY <2>1, <2>4 DEF Bound, SameThread
    <3> QED  BY <2>1, <3>1 DEF Chained
  <2>5. CASE SameThread(tr, x, s) /\ ~SameThread(tr, x, u)
    BY <2>1, <2>2, <2>5 DEF Followed, Bound
  <2>6. CASE ~SameThread(tr, x, s) /\ SameThread(tr, x, u)
    BY <2>1, <2>2, <2>6 DEF Followed, Bound
  <2> QED  BY <2>3, <2>4, <2>5, <2>6
<1>8. TreeIn(tr, K)
  <2>1. K \subseteq DOMAIN tr.spans /\ \A y \in K : Children(tr, y) \subseteq K
    BY <1>4
  <2> HIDE DEF K
  <2> QED  BY <1>3, <1>5, <1>6, <1>7, <2>1 DEF TreeIn
<1> HIDE DEF K
<1> QED  BY <1>8

\* What is reached is in the tree.
LEMMA ReachedInTree ==
    ASSUME NEW tr, IsTracker(tr), NEW K, TreeIn(tr, K)
    PROVE  Reached(tr) \subseteq K
<1>1. /\ K \in SUBSET DOMAIN tr.spans /\ (tr.root # 0 => tr.root \in K)
      /\ \A y \in K : Children(tr, y) \subseteq K
  BY DEF TreeIn
<1> QED  BY <1>1, ReachedInside

\* Spans in chains of execs, with one spawn at most each, are a tree under a root
\* whose thread was not spawned.
THEOREM ChainedIsTree ==
    ASSUME NEW tr, IsTracker(tr), Chained(tr),
           tr.root # 0 => tr.root = 1 /\ ~SpawnSeen(tr, tr.spans[1].tid)
    PROVE  IsTree(tr)
<1>1. PICK K : TreeIn(tr, K)
  BY ChainedTree
<1>2. Reached(tr) \subseteq K
  BY <1>1, ReachedInTree
<1> QED  BY <1>1, <1>2 DEF IsTree, TreeIn

\* A tracker with another root is one.
LEMMA NewRoot ==
    ASSUME NEW tr, IsTracker(tr), NEW c \in DOMAIN tr.spans, NEW q, q = [tr EXCEPT !.root = c]
    PROVE  IsTracker(q) /\ q.root = c /\ q.spans = tr.spans
<1>1. /\ DOMAIN tr = {"threads", "spans", "root"}
      /\ tr.threads \in [Tids -> 0..Len(tr.spans)]
      /\ tr.spans \in Seq(SpanType) /\ Len(tr.spans) \in Nat
      /\ DOMAIN tr.spans = 1..Len(tr.spans)
      /\ \A x \in DOMAIN tr.spans : /\ tr.spans[x].parent \in 0..Len(tr.spans)
                                    /\ tr.spans[x].children \in Seq(DOMAIN tr.spans)
  BY TrackerFields
<1>2. tr = [threads |-> tr.threads, spans |-> tr.spans, root |-> tr.root]
  BY DEF IsTracker
<1>3. /\ q.threads = tr.threads /\ q.spans = tr.spans /\ q.root = c
      /\ q = [threads |-> q.threads, spans |-> q.spans, root |-> q.root]
  BY <1>2
<1>4. c \in 0..Len(tr.spans)
  BY <1>1
<1> QED  BY <1>1, <1>3, <1>4, TrackerFromFields

\* On the way down such a tree no span is its own descendant.
LEMMA BorrowedOnce ==
    ASSUME NEW tr, IsTracker(tr), Chained(tr),
           tr.root # 0 => tr.root = 1 /\ ~SpawnSeen(tr, tr.spans[1].tid)
    PROVE  ~BorrowedTwice(tr)
<1> SUFFICES ASSUME NEW s \in Reached(tr), NEW c \in Children(tr, s),
                    s \in Reached([tr EXCEPT !.root = c])
             PROVE  FALSE
  BY DEF BorrowedTwice
<1> DEFINE q == [tr EXCEPT !.root = c]
<1>1. PICK K : TreeIn(tr, K)
  BY ChainedTree
<1>2. s \in K /\ K \in SUBSET DOMAIN tr.spans
  BY <1>1, ReachedInTree DEF TreeIn
<1>3. c \in K
  BY <1>1, <1>2 DEF TreeIn
<1> DEFINE Closed(S) == \A y \in S : Children(tr, y) \subseteq S
           Below == {z \in K : \A S \in SUBSET K : c \in S /\ Closed(S) => z \in S}
<1>4. c \in Below /\ Closed(Below) /\ Below \in SUBSET K
  BY <1>1, <1>3 DEF TreeIn
<1>5. ASSUME NEW S \in SUBSET K, c \in S, Closed(S)
      PROVE  Below \subseteq S
  BY <1>5
<1> HIDE DEF Below
<1>6. s \in Below
  <2>1. /\ IsTracker(q) /\ q.root = c /\ q.spans = tr.spans
    BY <1>2, <1>3, NewRoot
  <2> HIDE DEF q
  <2>2. \A y : Children(q, y) = Children(tr, y)
    BY <2>1 DEF Children
  <2>3. Reached(q) \subseteq Below
    BY <1>2, <1>4, <2>1, <2>2, ReachedInside
  <2> QED  BY <2>3 DEF q
<1>7. ASSUME NEW z \in Below, z # c
      PROVE  \E y \in Below : z \in Children(tr, y)
  <2> SUFFICES ASSUME \A y \in Below : z \notin Children(tr, y)
               PROVE  FALSE
    OBVIOUS
  <2> DEFINE S == Below \ {z}
  <2>1. S \in SUBSET K /\ c \in S /\ Closed(S)
    BY <1>4, <1>7
  <2>2. Below \subseteq S
    <3> HIDE DEF S, Closed
    <3> QED  BY <1>5, <2>1
  <2> QED  BY <2>2
<1>8. ASSUME NEW z \in Below
      PROVE  \E y \in Below : z \in Children(tr, y)
  BY <1>6, <1>7
<1>9. \A y \in K \ Below : Children(tr, y) \subseteq K \ Below
  <2> SUFFICES ASSUME NEW y \in K \ Below, NEW z \in Children(tr, y), z \in Below
               PROVE  FALSE
    BY <1>1 DEF TreeIn
  <2>1. PICK w \in Below : z \in Children(tr, w)
    BY <1>8
  <2>2. w \in K /\ w # y
    BY <1>4
  <2> QED  BY <1>1, <2>1, <2>2 DEF TreeIn
<1>10. tr.root # 0 => tr.root \in K \ Below
  <2> SUFFICES ASSUME tr.root # 0, tr.root \in Below
               PROVE  FALSE
    BY <1>1 DEF TreeIn
  <2>1. PICK w \in Below : tr.root \in Children(tr, w)
    BY <1>8
  <2> QED  BY <1>1, <1>4, <2>1 DEF TreeIn
<1>11. Reached(tr) \subseteq K \ Below
  BY <1>2, <1>9, <1>10, ReachedInside
<1> QED  BY <1>6, <1>11
-----------------------------------------------------------------------------
(* Which command is above another. *)

\* The root is reached, and what is below a span that is reached: with every step
\* down that is not the last there is at least one span more.
LEMMA ReachedClosed ==
    ASSUME NEW tr, IsTracker(tr)
    PROVE  /\ Reached(tr) \subseteq DOMAIN tr.spans
           /\ tr.root # 0 => tr.root \in Reached(tr)
           /\ \A y \in Reached(tr) : Children(tr, y) \subseteq Reached(tr)
<1> DEFINE L == Len(tr.spans)
           D == DOMAIN tr.spans
           f == CHOOSE f : f = [n \in 0..L |-> DownStep(tr, f, n)]
           Closed(S) == \A y \in S : Children(tr, y) \subseteq S
<1>1. /\ L \in Nat /\ D = 1..L /\ tr.root \in 0..L
      /\ \A y \in D : tr.spans[y].children \in Seq(D)
  BY TrackerFields
<1>2. IsFiniteSet(D) /\ Cardinality(D) = L
  <2> HIDE DEF L, D
  <2>1. 1 \in Int /\ L \in Int
    BY <1>1
  <2>2. IsFiniteSet(1..L) /\ Cardinality(1..L) = IF 1 > L THEN 0 ELSE L - 1 + 1
    BY <2>1, FS_Interval
  <2> QED  BY <1>1, <2>2
<1>3. \A y \in D : Children(tr, y) \subseteq D
  <2> HIDE DEF D
  <2> QED  BY <1>1 DEF Children
<1>4. tr.root # 0 => tr.root \in D
  BY <1>1
<1>5. Reached(tr) = f[L]
  BY DEF Reached, DownStep
<1>6. Reached(tr) \subseteq D
  BY <1>3, <1>4, ReachedInside
<1> HIDE DEF L, D
<1>7. f = [n \in 0..L |-> DownStep(tr, f, n)]
  BY <1>1, DownExists
<1> HIDE DEF f
<1>8. f[0] = {tr.root} \ {0}
  BY <1>1, <1>7 DEF DownStep
<1>9. ASSUME NEW n \in Nat, n + 1 \in 0..L
      PROVE  f[n + 1] = f[n] \cup UNION {Children(tr, s) : s \in f[n]}
  <2>1. f[n + 1] = DownStep(tr, f, n + 1)
    BY <1>7, <1>9
  <2>2. n + 1 # 0 /\ (n + 1) - 1 = n
    OBVIOUS
  <2> QED  BY <2>1, <2>2 DEF DownStep
<1> DEFINE Good(n) == /\ f[n] \subseteq D /\ {tr.root} \ {0} \subseteq f[n]
                      /\ IsFiniteSet(f[n]) /\ Cardinality(f[n]) \in Nat
                      /\ Closed(f[n]) \/ Cardinality(f[n]) >= n
           T == {n \in Nat : n \in 0..L => Good(n)}
<1>10. 0 \in T
  <2>1. f[0] \subseteq D /\ {tr.root} \ {0} \subseteq f[0]
    BY <1>4, <1>8
  <2>2. IsFiniteSet(f[0]) /\ Cardinality(f[0]) \in Nat
    BY <1>2, <2>1, FS_Subset, FS_CardinalityType
  <2> QED  BY <2>1, <2>2
<1>11. ASSUME NEW n \in T
       PROVE  n + 1 \in T
  <2> SUFFICES ASSUME n + 1 \in 0..L
               PROVE  Good(n + 1)
    OBVIOUS
  <2>1. Good(n)
    BY <1>1
  <2> DEFINE U == UNION {Children(tr, s) : s \in f[n]}
  <2>2. f[n + 1] = f[n] \cup U
    BY <1>9
  <2>3. U \subseteq D
    BY <1>3, <2>1
  <2>4. f[n + 1] \subseteq D /\ {tr.root} \ {0} \subseteq f[n + 1]
    BY <2>1, <2>2, <2>3
  <2>5. IsFiniteSet(f[n + 1]) /\ Cardinality(f[n + 1]) \in Nat
    BY <1>2, <2>4, FS_Subset, FS_CardinalityType
  <2>6. CASE U \subseteq f[n]
    <3>1. f[n + 1] = f[n]
      BY <2>2, <2>6
    <3>2. Closed(f[n])
      BY <2>6
    <3> QED  BY <2>4, <2>5, <3>1, <3>2
  <2>7. CASE ~(U \subseteq f[n])
    <3>1. PICK z \in f[n + 1] : z \notin f[n]
      BY <2>2, <2>7
    <3>2. ~Closed(f[n])
      BY <2>7
    <3>3. Cardinality(f[n] \cup {z}) = Cardinality(f[n]) + 1
      BY <2>1, <3>1, FS_AddElement
    <3>4. Cardinality(f[n] \cup {z}) <= Cardinality(f[n + 1])
      <4>1. f[n] \cup {z} \in SUBSET f[n + 1]
        BY <2>2, <3>1
      <4> QED  BY <2>5, <4>1, FS_Subset
    <3> HIDE DEF Closed
    <3>5. Cardinality(f[n]) >= n /\ Cardinality(f[n]) \in Nat
      BY <2>1, <3>2
    <3>6. Cardinality(f[n + 1]) >= n + 1
      BY <2>5, <3>3, <3>4, <3>5
    <3> QED  BY <2>4, <2>5, <3>6
  <2> QED  BY <2>6, <2>7
<1>12. Good(L)
  <2>1. T \in SUBSET Nat
    OBVIOUS
  <2>2. T = Nat
    <3> HIDE DEF T
    <3> QED  BY <1>10, <1>11, <2>1, NumberInduction
  <2>3. L \in T
    <3> HIDE DEF T
    <3> QED  BY <1>1, <2>2
  <2>4. L \in 0..L
    BY <1>1
  <2> HIDE DEF Good
  <2> QED  BY <2>3, <2>4
<1>13. Closed(f[L])
  <2>1. CASE Cardinality(f[L]) >= L
    <3>1. Cardinality(f[L]) <= L
      BY <1>2, <1>12, FS_Subset
    <3>2. Cardinality(D) = Cardinality(f[L])
      BY <1>1, <1>2, <1>12, <2>1, <3>1
    <3>3. f[L] = D
      BY <1>2, <1>12, <3>2, FS_Subset
    <3> QED  BY <1>3, <3>3
  <2> QED  BY <1>12, <2>1
<1>14. tr.root # 0 => tr.root \in f[L]
  BY <1>12
<1> QED  BY <1>5, <1>6, <1>13, <1>14 DEF D

\* What the root has, and each span that is reached hands down, all have.
LEMMA ReachedInduction ==
    ASSUME NEW tr, IsTracker(tr), NEW T,
           tr.root # 0 => tr.root \in T,
           \A y \in Reached(tr) : y \in T => Children(tr, y) \cap Reached(tr) \subseteq T
    PROVE  Reached(tr) \subseteq T
<1> DEFINE K == Reached(tr) \cap T
<1>1. /\ K \in SUBSET DOMAIN tr.spans /\ (tr.root # 0 => tr.root \in K)
      /\ \A y \in K : Children(tr, y) \subseteq K
  BY ReachedClosed
<1> HIDE DEF K
<1>2. Reached(tr) \subseteq K
  BY <1>1, ReachedInside
<1> QED  BY <1>2 DEF K

\* The reached span above x.
Upper(tr, x) == CHOOSE y \in Reached(tr) : x \in Children(tr, y)

\* There is one unless x is the root, and in a tree one only.
LEMMA UpperIs ==
    ASSUME NEW tr, IsTracker(tr)
    PROVE  /\ \A x \in Reached(tr) : x # tr.root =>
                 Upper(tr, x) \in Reached(tr) /\ x \in Children(tr, Upper(tr, x))
           /\ \A K : TreeIn(tr, K) =>
                 \A y \in Reached(tr) : \A x \in Children(tr, y) :
                    x \in Reached(tr) /\ x # tr.root /\ Upper(tr, x) = y
<1>1. ASSUME NEW x \in Reached(tr), x # tr.root
      PROVE  Upper(tr, x) \in Reached(tr) /\ x \in Children(tr, Upper(tr, x))
  <2> DEFINE T == {tr.root} \cup {z \in Reached(tr) : \E y \in Reached(tr) : z \in Children(tr, y)}
  <2>1. /\ tr.root # 0 => tr.root \in T
        /\ \A y \in Reached(tr) : y \in T => Children(tr, y) \cap Reached(tr) \subseteq T
    OBVIOUS
  <2> HIDE DEF T
  <2>2. Reached(tr) \subseteq T
    BY <2>1, ReachedInduction
  <2>3. \E y \in Reached(tr) : x \in Children(tr, y)
    BY <1>1, <2>2 DEF T
  <2> QED  BY <2>3 DEF Upper
<1>2. ASSUME NEW K, TreeIn(tr, K), NEW y \in Reached(tr), NEW x \in Children(tr, y)
      PROVE  x \in Reached(tr) /\ x # tr.root /\ Upper(tr, x) = y
  <2>1. Reached(tr) \subseteq K
    BY <1>2, ReachedInTree
  <2>2. x \in Reached(tr)
    BY ReachedClosed
  <2>3. x # tr.root
    BY <1>2, <2>1 DEF TreeIn
  <2>4. \A z \in Reached(tr) : x \in Children(tr, z) => z = y
    BY <1>2, <2>1 DEF TreeIn
  <2>5. Upper(tr, x) \in Reached(tr) /\ x \in Children(tr, Upper(tr, x))
    BY <1>1, <2>2, <2>3
  <2> QED  BY <2>2, <2>3, <2>4, <2>5
<1> QED  BY <1>1, <1>2

\* One step up to the command above x.
AboveStep(tr, f, x) ==
    IF x = tr.root THEN 0
    ELSE IF tr.spans[Upper(tr, x)].init = "exec" THEN Upper(tr, x) ELSE f[Upper(tr, x)]
Aboves(tr, f) == f = [x \in Reached(tr) |-> AboveStep(tr, f, x)]

\* The command above is defined for every span that is reached.
LEMMA AboveExists ==
    ASSUME NEW tr, IsTracker(tr)
    PROVE  \E f : Aboves(tr, f)
<1> DEFINE R == Reached(tr)
           up(x) == Upper(tr, x)
           Final(x) == x = tr.root \/ tr.spans[up(x)].init = "exec"
           val(x) == IF x = tr.root THEN 0 ELSE up(x)
           Closed(S) == \A z \in S : Final(z) \/ up(z) \in S
           Way(x) == {y \in R : \A S \in SUBSET R : x \in S /\ Closed(S) => y \in S}
           Stops(x) == {z \in Way(x) : Final(z)}
           f == [x \in R |-> CHOOSE v : \E z \in Stops(x) : v = val(z)]
<1>1. \A x \in R : ~Final(x) => up(x) \in R
  BY UpperIs
<1>2. \A x \in R : \A g : AboveStep(tr, g, x) = IF Final(x) THEN val(x) ELSE g[up(x)]
  BY DEF AboveStep
<1> HIDE DEF R, up, Final, val
<1>3. ASSUME NEW x \in R
      PROVE  x \in Way(x) /\ Closed(Way(x)) /\ Way(x) \in SUBSET R
  BY <1>1
<1>4. ASSUME NEW x \in R, NEW S \in SUBSET R, x \in S, Closed(S)
      PROVE  Way(x) \subseteq S
  BY <1>4
<1> HIDE DEF Way
<1>5. ASSUME NEW x \in R, Final(x)
      PROVE  Stops(x) = {x}
  <2>1. Way(x) \subseteq {x}
    BY <1>4, <1>5
  <2> QED  BY <1>3, <1>5, <2>1
<1>6. ASSUME NEW x \in R, ~Final(x)
      PROVE  Stops(x) = Stops(up(x))
  <2>1. up(x) \in R /\ up(x) \in Way(x)
    BY <1>1, <1>3, <1>6
  <2>2. Way(up(x)) \subseteq Way(x)
    <3>1. Closed(Way(x)) /\ Way(x) \in SUBSET R
      BY <1>3
    <3> HIDE DEF Closed
    <3> QED  BY <1>4, <2>1, <3>1
  <2>3. Way(x) \subseteq Way(up(x)) \cup {x}
    <3> DEFINE S == Way(up(x)) \cup {x}
    <3>1. S \in SUBSET R /\ x \in S /\ Closed(S)
      BY <1>3, <2>1
    <3> HIDE DEF S, Closed
    <3>2. Way(x) \subseteq S
      BY <1>4, <3>1
    <3> QED  BY <3>2 DEF S
  <2> QED  BY <1>6, <2>2, <2>3
<1> HIDE DEF Stops
<1>7. ASSUME NEW x \in R
      PROVE  f[x] = AboveStep(tr, f, x)
  <2>1. f[x] = CHOOSE v : \E z \in Stops(x) : v = val(z)
    OBVIOUS
  <2>2. CASE Final(x)
    <3>1. f[x] = val(x)
      BY <1>5, <2>1, <2>2
    <3> HIDE DEF f
    <3> QED  BY <1>2, <2>2, <3>1
  <2>3. CASE ~Final(x)
    <3>1. up(x) \in R /\ Stops(x) = Stops(up(x))
      BY <1>1, <1>6, <2>3
    <3>2. f[up(x)] = CHOOSE v : \E z \in Stops(up(x)) : v = val(z)
      BY <3>1
    <3> HIDE DEF f
    <3>3. f[x] = f[up(x)]
      BY <2>1, <3>1, <3>2
    <3> QED  BY <1>2, <2>3, <3>3
  <2> QED  BY <2>2, <2>3
<1>8. Aboves(tr, f)
  <2> DEFINE h == [x \in R |-> AboveStep(tr, f, x)]
  <2>1. \A x \in R : f[x] = h[x]
    BY <1>7
  <2>2. f = h
    BY <2>1
  <2> HIDE DEF f
  <2> QED  BY <2>2 DEF Aboves, R
<1> HIDE DEF f
<1> QED  BY <1>8

\* The command a span belongs to: its own, or the one above.
Command(tr, x) == IF tr.spans[x].init = "exec" THEN x ELSE CommandAbove(tr, x)

\* In a tree the command above a span is that of the span above it.
LEMMA AboveIs ==
    ASSUME NEW tr, IsTracker(tr), NEW K, TreeIn(tr, K)
    PROVE  \A y \in Reached(tr) : \A x \in Children(tr, y) : CommandAbove(tr, x) = Command(tr, y)
<1> DEFINE f == CHOOSE f : Aboves(tr, f)
<1>1. \A x : CommandAbove(tr, x) = f[x]
  BY Zenon DEF CommandAbove, Aboves, AboveStep, Upper
<1>2. f = [x \in Reached(tr) |-> AboveStep(tr, f, x)]
  <2>1. Aboves(tr, f)
    BY AboveExists
  <2> HIDE DEF f
  <2> QED  BY <2>1 DEF Aboves
<1> HIDE DEF f
<1>3. ASSUME NEW y \in Reached(tr), NEW x \in Children(tr, y)
      PROVE  f[x] = IF tr.spans[y].init = "exec" THEN y ELSE f[y]
  <2>1. x \in Reached(tr) /\ x # tr.root /\ Upper(tr, x) = y
    BY UpperIs
  <2> QED  BY <1>2, <2>1 DEF AboveStep
<1> QED  BY <1>1, <1>3 DEF Command

\* The root has none above.
LEMMA AboveRoot ==
    ASSUME NEW tr, IsTracker(tr), tr.root # 0
    PROVE  CommandAbove(tr, tr.root) = 0
<1> DEFINE f == CHOOSE f : Aboves(tr, f)
<1>1. \A x : CommandAbove(tr, x) = f[x]
  BY Zenon DEF CommandAbove, Aboves, AboveStep, Upper
<1>2. f = [x \in Reached(tr) |-> AboveStep(tr, f, x)]
  <2>1. Aboves(tr, f)
    BY AboveExists
  <2> HIDE DEF f
  <2> QED  BY <2>1 DEF Aboves
<1> HIDE DEF f
<1>3. tr.root \in Reached(tr)
  BY ReachedClosed
<1> QED  BY <1>1, <1>2, <1>3 DEF AboveStep

\* In q the spans that tr reaches are where they were, with more below them.
Continued(tr, q) ==
    /\ q.root = tr.root
    /\ \A y \in Reached(tr) : /\ Children(tr, y) \subseteq Children(q, y)
                              /\ q.spans[y].init = "exec" <=> tr.spans[y].init = "exec"

\* Then they are reached still, and their commands are the same.
LEMMA AboveSame ==
    ASSUME NEW tr, IsTracker(tr), NEW q, IsTracker(q), Continued(tr, q),
           NEW K, TreeIn(tr, K), NEW L, TreeIn(q, L)
    PROVE  \A x \in Reached(tr) :
              /\ x \in Reached(q)
              /\ CommandAbove(q, x) = CommandAbove(tr, x) /\ Command(q, x) = Command(tr, x)
<1> DEFINE T == {x \in Reached(tr) : /\ x \in Reached(q)
                                    /\ CommandAbove(q, x) = CommandAbove(tr, x)}
<1>1. tr.root # 0 => tr.root \in T
  BY ReachedClosed, AboveRoot DEF Continued
<1>2. ASSUME NEW y \in Reached(tr), y \in T, NEW x \in Children(tr, y) \cap Reached(tr)
      PROVE  x \in T
  <2>1. x \in Children(q, y) /\ y \in Reached(q)
    BY <1>2 DEF Continued
  <2>2. x \in Reached(q)
    BY <2>1, ReachedClosed
  <2>3. CommandAbove(tr, x) = Command(tr, y)
    BY AboveIs
  <2>4. CommandAbove(q, x) = Command(q, y)
    BY <2>1, AboveIs
  <2>5. Command(q, y) = Command(tr, y)
    BY <1>2 DEF Command, Continued
  <2> QED  BY <2>2, <2>3, <2>4, <2>5
<1> HIDE DEF T
<1>3. Reached(tr) \subseteq T
  BY <1>1, <1>2, ReachedInduction
<1> QED  BY <1>3 DEF T, Command, Continued

\* The threads of what is reached have been spawned, as far as is seen, but the root's.
LEMMA ReachedSeen ==
    ASSUME NEW tr, IsTracker(tr), tr.root # 0
    PROVE  \A x \in Reached(tr) :
              tr.spans[x].tid = tr.spans[tr.root].tid \/ SpawnSeen(tr, tr.spans[x].tid)
<1> DEFINE T == {x \in Reached(tr) : tr.spans[x].tid = tr.spans[tr.root].tid
                                       \/ SpawnSeen(tr, tr.spans[x].tid)}
<1>1. tr.root \in T
  BY ReachedClosed
<1>2. ASSUME NEW y \in Reached(tr), y \in T, NEW x \in Children(tr, y) \cap Reached(tr)
      PROVE  x \in T
  <2>1. x \in DOMAIN tr.spans /\ y \in DOMAIN tr.spans /\ Linked(tr, y, x)
    BY ReachedClosed DEF Linked
  <2>2. CASE SameThread(tr, x, y)
    BY <1>2, <2>2 DEF SameThread
  <2>3. CASE ~SameThread(tr, x, y)
    <3>1. SpawnSeen(tr, tr.spans[x].tid)
      BY <2>1, <2>3 DEF SpawnSeen, Bound
    <3> QED  BY <3>1
  <2> QED  BY <2>2, <2>3
<1> HIDE DEF T
<1>3. Reached(tr) \subseteq T
  BY <1>1, <1>2, ReachedInduction
<1> QED  BY <1>3 DEF T

\* finish_thread leaves every span where it is.
LEMMA FinishContinued ==
    ASSUME NEW tr, IsTracker(tr), NEW t \in Tids, NEW reason \in Reasons, NEW cpu \in Int,
           NEW q, q = FinishThread(tr, t, reason, cpu)
    PROVE  /\ Continued(tr, q) /\ DOMAIN tr.spans \subseteq DOMAIN q.spans
           /\ \A y \in DOMAIN tr.spans : Children(q, y) = Children(tr, y)
<1>1. q.root = tr.root /\ SameLinks(tr, q)
  BY FinishResult
<1>2. /\ DOMAIN tr.spans \subseteq DOMAIN q.spans
      /\ \A y \in DOMAIN tr.spans : q.spans[y].init = tr.spans[y].init
  BY FinishBegun
<1>3. \A y \in DOMAIN tr.spans : Children(q, y) = Children(tr, y)
  BY <1>1 DEF SameLinks, Children
<1>4. Reached(tr) \subseteq DOMAIN tr.spans
  BY ReachedClosed
<1> QED  BY <1>1, <1>2, <1>3, <1>4 DEF Continued

\* handle_exec puts the new span below the one before it.
LEMMA ExecContinued ==
    ASSUME NEW tr, IsTracker(tr), NEW t \in Tids, NEW argv \in Argvs,
           NEW cpu \in Int, NEW q, q = HandleExec(tr, t, t, argv, cpu)
    PROVE  /\ Continued(tr, q) /\ DOMAIN tr.spans \subseteq DOMAIN q.spans
           /\ q.threads[t] \in DOMAIN q.spans \ DOMAIN tr.spans
           /\ q.spans[q.threads[t]].init = "exec"
           /\ \A u \in Tids : u # t => q.threads[u] = tr.threads[u]
           /\ tr.threads[t] # 0 => q.threads[t] \in Children(q, tr.threads[t])
           /\ Chained(tr) => \A u : SpawnSeen(q, u) <=> SpawnSeen(tr, u)
<1> DEFINE f == FinishThread(tr, t, "exec", cpu)
           p == f.threads[t]
           s == q.threads[t]
<1>1. "exec" \in Reasons
  BY DEF Reasons
<1>2. /\ Continued(tr, f) /\ DOMAIN tr.spans \subseteq DOMAIN f.spans
      /\ \A y \in DOMAIN tr.spans : Children(f, y) = Children(tr, y)
  BY <1>1, FinishContinued
<1>3. /\ f.root = tr.root /\ (tr.threads[t] # 0 => p = tr.threads[t])
      /\ \A u \in Tids : u # t => f.threads[u] = tr.threads[u]
  BY <1>1, FinishResult
<1> f = FinishThread(tr, t, "exec", cpu)
  OBVIOUS
<1> HIDE DEF f
<1>4. /\ q.root = tr.root /\ IsTracker(f) /\ p \in DOMAIN f.spans
      /\ DOMAIN f.spans \subseteq DOMAIN q.spans
      /\ \A u \in Tids : u # t => q.threads[u] = f.threads[u]
      /\ s \in DOMAIN q.spans /\ DOMAIN q.spans \ DOMAIN f.spans = {s}
      /\ SpanOf(q, t).init = "exec"
  BY ExecResult, SMTT(30)
<1>5. /\ \A x \in DOMAIN f.spans : q.spans[x].init = f.spans[x].init
      /\ \A x \in DOMAIN f.spans : x # p => q.spans[x].children = f.spans[x].children
  BY ExecResult, SMTT(30)
<1>6. OneMoreBelow(f, q, p, s)
  BY ExecResult, SMTT(30)
<1>7. Chained(tr) => \A u : SpawnSeen(q, u) <=> SpawnSeen(tr, u)
  BY ExecResult, SMTT(30)
<1>8. Children(q, p) = Children(f, p) \cup {s}
  <2> HIDE DEF p, s
  <2> QED  BY <1>4, <1>6, ChildrenOf
<1>9. \A y \in DOMAIN f.spans : y # p => Children(q, y) = Children(f, y)
  BY <1>5 DEF Children
<1>10. Reached(tr) \subseteq DOMAIN tr.spans
  BY ReachedClosed
<1> HIDE DEF p, s
<1>11. \A y \in Reached(tr) : Children(tr, y) \subseteq Children(q, y)
  BY <1>2, <1>8, <1>9, <1>10
<1>12. \A y \in Reached(tr) : q.spans[y].init = "exec" <=> tr.spans[y].init = "exec"
  BY <1>2, <1>10, <1>5 DEF Continued
<1>13. Continued(tr, q)
  BY <1>4, <1>11, <1>12 DEF Continued
<1>14. s \in DOMAIN q.spans \ DOMAIN tr.spans /\ DOMAIN tr.spans \subseteq DOMAIN q.spans
  BY <1>2, <1>4
<1>15. q.spans[s].init = "exec"
  BY <1>4 DEF SpanOf, s
<1>16. \A u \in Tids : u # t => q.threads[u] = tr.threads[u]
  BY <1>3, <1>4
<1>17. tr.threads[t] # 0 => s \in Children(q, tr.threads[t])
  BY <1>3, <1>8
<1> QED  BY <1>4, <1>13, <1>14, <1>15, <1>16, <1>17, <1>7 DEF s

\* handle_spawn puts the span of a thread that was not reached below its spawner's.
LEMMA SpawnContinued ==
    ASSUME NEW tr, IsTracker(tr), Chained(tr), NEW c \in Tids, NEW t \in Tids,
           c # t, ~SpawnSeen(tr, c), NEW isFork \in BOOLEAN,
           tr.root # 0 => tr.spans[tr.root].tid # c,
           NEW q, q = HandleSpawn(tr, c, t, isFork)
    PROVE  /\ Continued(tr, q) /\ DOMAIN tr.spans \subseteq DOMAIN q.spans
           /\ \A u \in Tids : tr.threads[u] # 0 => q.threads[u] = tr.threads[u]
           /\ q.threads[c] \in Children(q, q.threads[t]) /\ q.threads[c] # 0
           /\ q.spans[q.threads[c]].init # "exec"
<1> DEFINE g == WithBoth(tr, c, t)
           p == g.threads[t]
           s == g.threads[c]
<1>1. /\ IsTracker(g) /\ Grown(tr, g) /\ g.root = tr.root
      /\ p \in DOMAIN g.spans /\ s \in DOMAIN g.spans /\ Chained(g)
  BY BothThere
<1>2. /\ q.root = g.root /\ q.threads = g.threads
      /\ LinkAdded(g, q, p, s) /\ q.spans[s].init # "exec"
      /\ \A y \in DOMAIN g.spans : y # s => q.spans[y].init = g.spans[y].init
  BY SpawnChanges
<1> HIDE DEF g
<1>3. /\ DOMAIN tr.spans \subseteq DOMAIN g.spans
      /\ \A x \in DOMAIN tr.spans : g.spans[x] = tr.spans[x]
      /\ \A u \in Tids : tr.threads[u] # 0 => g.threads[u] = tr.threads[u]
  BY <1>1 DEF Grown
<1>4. s # 0 /\ g.spans[s].tid = c
  BY <1>1, SpanNumbers DEF Chained, SpanOf
<1> HIDE DEF p, s
<1>5. \A x, y : Linked(q, y, x) <=> Linked(g, y, x) \/ (y = p /\ x = s)
  BY <1>1, <1>2, LinkAddedLinks
<1>6. DOMAIN q.spans = DOMAIN g.spans
  BY <1>2 DEF LinkAdded
<1>7. Reached(tr) \subseteq DOMAIN tr.spans
  BY ReachedClosed
<1>8. s \notin Reached(tr)
  <2> SUFFICES ASSUME s \in Reached(tr)
               PROVE  FALSE
    OBVIOUS
  <2>1. tr.spans[s].tid = c
    BY <1>3, <1>4, <1>7
  <2>2. tr.root # 0
    <3> SUFFICES ASSUME tr.root = 0
                 PROVE  FALSE
      OBVIOUS
    <3>1. /\ {} \in SUBSET DOMAIN tr.spans /\ (tr.root # 0 => tr.root \in {})
          /\ \A y \in {} : Children(tr, y) \subseteq {}
      OBVIOUS
    <3>2. Reached(tr) \subseteq {}
      BY <3>1, ReachedInside
    <3> QED  BY <3>2
  <2> QED  BY <2>1, <2>2, ReachedSeen
<1>9. ASSUME NEW y \in Reached(tr)
      PROVE  /\ Children(tr, y) \subseteq Children(q, y)
             /\ q.spans[y].init = "exec" <=> tr.spans[y].init = "exec"
  <2>1. y \in DOMAIN tr.spans /\ y # s /\ y \in DOMAIN g.spans
    BY <1>3, <1>7, <1>8
  <2>2. Children(tr, y) = Children(g, y)
    BY <1>3, <2>1 DEF Children
  <2>3. Children(g, y) \subseteq Children(q, y)
    BY <1>5, <1>6, <2>1 DEF Linked
  <2>4. q.spans[y].init = tr.spans[y].init
    BY <1>2, <1>3, <2>1
  <2> QED  BY <2>2, <2>3, <2>4
<1>10. Continued(tr, q)
  BY <1>1, <1>2, <1>9 DEF Continued
<1>11. s \in Children(q, p)
  BY <1>5 DEF Linked
<1> QED  BY <1>2, <1>3, <1>4, <1>6, <1>10, <1>11 DEF p, s
-----------------------------------------------------------------------------
(* What the report adds up. *)

\* In a tree each step down leads deeper.
LEMMA DepthExists ==
    ASSUME NEW tr, IsTracker(tr), NEW K, TreeIn(tr, K)
    PROVE  \E depth : \A s \in Reached(tr) :
              /\ depth[s] \in 0..Len(tr.spans)
              /\ \A c \in Children(tr, s) : depth[s] < depth[c]
<1> DEFINE L == Len(tr.spans)
           f == CHOOSE f : f = [n \in 0..L |-> DownStep(tr, f, n)]
<1>1. L \in Nat
  BY TrackerFields
<1>2. Reached(tr) = f[L]
  BY DEF Reached, DownStep
<1> HIDE DEF L
<1>3. f = [n \in 0..L |-> DownStep(tr, f, n)]
  BY <1>1, DownExists
<1> HIDE DEF f
<1>4. f[0] = {tr.root} \ {0}
  BY <1>1, <1>3 DEF DownStep
<1>5. ASSUME NEW n \in Nat, n + 1 \in 0..L
      PROVE  f[n + 1] = f[n] \cup UNION {Children(tr, s) : s \in f[n]}
  <2>1. f[n + 1] = DownStep(tr, f, n + 1)
    BY <1>3, <1>5
  <2>2. n + 1 # 0 /\ (n + 1) - 1 = n
    OBVIOUS
  <2> QED  BY <2>1, <2>2 DEF DownStep
<1>6. \A n \in 0..L : f[n] \subseteq K
  <2> DEFINE T == {n \in Nat : n \in 0..L => f[n] \subseteq K}
  <2>1. 0 \in T
    BY <1>4 DEF TreeIn
  <2>2. ASSUME NEW n \in T
        PROVE  n + 1 \in T
    <3> SUFFICES ASSUME n + 1 \in 0..L
                 PROVE  f[n + 1] \subseteq K
      OBVIOUS
    <3>1. f[n] \subseteq K
      BY <1>1
    <3>2. f[n + 1] = f[n] \cup UNION {Children(tr, s) : s \in f[n]}
      BY <1>5
    <3> QED  BY <3>1, <3>2 DEF TreeIn
  <2>3. T = Nat
    <3>1. T \in SUBSET Nat
      OBVIOUS
    <3> HIDE DEF T
    <3> QED  BY <2>1, <2>2, <3>1, NumberInduction
  <2> QED  BY <1>1, <2>3
<1> DEFINE At(x) == {n \in 0..L : x \in f[n]}
           Least(x, n) == n \in At(x) /\ \A m \in At(x) : ~(m < n)
           depth == [x \in Reached(tr) |-> CHOOSE n : Least(x, n)]
<1>7. ASSUME NEW x \in Reached(tr)
      PROVE  Least(x, depth[x])
  <2>1. At(x) \in SUBSET Nat /\ At(x) # {}
    BY <1>1, <1>2
  <2> HIDE DEF At
  <2>2. \E n : Least(x, n)
    BY <2>1, LeastNumber
  <2> HIDE DEF Least
  <2> QED  BY <2>2
<1> HIDE DEF depth
<1>8. ASSUME NEW s \in Reached(tr), NEW c \in Children(tr, s)
      PROVE  depth[s] < depth[c]
  <2>1. c \in Reached(tr) /\ s \in K
    BY ReachedClosed, ReachedInTree
  <2>2. Least(c, depth[c]) /\ Least(s, depth[s])
    BY <1>7, <2>1
  <2> DEFINE n == depth[c]
  <2>3. n \in 0..L /\ c \in f[n] /\ depth[s] \in 0..L
    BY <2>2
  <2>4. n # 0
    BY <1>4, <2>1, <2>3 DEF TreeIn
  <2>5. n - 1 \in Nat /\ (n - 1) + 1 = n /\ n - 1 \in 0..L
    BY <1>1, <2>3, <2>4
  <2>6. c \notin f[n - 1]
    BY <2>2, <2>5
  <2> HIDE DEF n
  <2>7. PICK y \in f[n - 1] : c \in Children(tr, y)
    <3>1. f[n] = f[n - 1] \cup UNION {Children(tr, z) : z \in f[n - 1]}
      BY <1>5, <2>3, <2>5
    <3> QED  BY <2>3, <2>6, <3>1
  <2>8. y = s
    <3>1. y \in K
      BY <1>6, <2>5, <2>7
    <3> QED  BY <2>1, <2>7, <3>1 DEF TreeIn
  <2>9. ~(n - 1 < depth[s])
    BY <2>2, <2>5, <2>7, <2>8
  <2> QED  BY <2>3, <2>5, <2>9 DEF n
<1> QED  BY <1>7, <1>8 DEF L

\* How a span began is known of every span that stands below another.
Kinded(tr) ==
    \A y \in DOMAIN tr.spans : \A c \in Children(tr, y) : tr.spans[c].init # "unknown"

\* It is after finish_thread, for which the links stay as they are.
LEMMA FinishKinded ==
    ASSUME NEW tr, IsTracker(tr), Kinded(tr), NEW t \in Tids, NEW reason \in Reasons,
           NEW cpu \in Int, NEW q, q = FinishThread(tr, t, reason, cpu)
    PROVE  Kinded(q)
<1>1. /\ \A y \in DOMAIN tr.spans : Children(q, y) = Children(tr, y)
      /\ \A y \in DOMAIN tr.spans : q.spans[y].init = tr.spans[y].init
  BY FinishContinued, FinishBegun
<1>2. \A y \in DOMAIN q.spans \ DOMAIN tr.spans : Children(q, y) = {}
  <2>1. \A y \in DOMAIN q.spans \ DOMAIN tr.spans : q.spans[y].children = <<>>
    BY FinishResult DEF SameLinks
  <2> QED  BY <2>1 DEF Children
<1>3. \A y \in DOMAIN tr.spans : \A c \in Children(tr, y) : c \in DOMAIN tr.spans
  BY LinkedInside DEF Linked
<1> QED  BY <1>1, <1>2, <1>3 DEF Kinded

\* After the first exec.
LEMMA FirstExecKinded ==
    ASSUME NEW tr, IsTracker(tr), Kinded(tr), NEW t \in Tids,
           NEW q, q = HandleFirstExec(tr, t)
    PROVE  Kinded(q)
<1>1. /\ SameLinks(tr, q) /\ SpansKept(tr, q, q.threads[t])
      /\ q.spans[q.threads[t]].init = "exec"
  BY FirstExecResult DEF SpanOf
<1>2. \A y \in DOMAIN tr.spans : \A c \in Children(tr, y) : c \in DOMAIN tr.spans
  BY LinkedInside DEF Linked
<1>3. /\ \A y \in DOMAIN tr.spans : Children(q, y) = Children(tr, y)
      /\ \A y \in DOMAIN q.spans \ DOMAIN tr.spans : Children(q, y) = {}
  BY <1>1 DEF SameLinks, Children
<1>4. \A c \in DOMAIN tr.spans : q.spans[c].init \in {tr.spans[c].init, "exec"}
  BY <1>1 DEF SpansKept
<1> QED  BY <1>2, <1>3, <1>4 DEF Kinded

\* After handle_exec, whose new span is the only one put below another.
LEMMA ExecKinded ==
    ASSUME NEW tr, IsTracker(tr), Kinded(tr), NEW t \in Tids, NEW argv \in Argvs,
           NEW cpu \in Int, NEW q, q = HandleExec(tr, t, t, argv, cpu)
    PROVE  Kinded(q)
<1> DEFINE f == FinishThread(tr, t, "exec", cpu)
           p == f.threads[t]
           s == q.threads[t]
<1>1. Kinded(f)
  <2>1. "exec" \in Reasons
    BY DEF Reasons
  <2> QED  BY <2>1, FinishKinded
<1>2. /\ IsTracker(f) /\ DOMAIN f.spans \subseteq DOMAIN q.spans
      /\ DOMAIN q.spans \ DOMAIN f.spans = {s} /\ p \in DOMAIN f.spans
      /\ \A x \in DOMAIN f.spans : q.spans[x].init = f.spans[x].init
      /\ q.spans[s].init = "exec" /\ q.spans[s].children = <<>>
      /\ \A x \in DOMAIN f.spans : x # p => q.spans[x].children = f.spans[x].children
      /\ OneMoreBelow(f, q, p, s)
  BY ExecResult DEF SpanOf
<1> HIDE DEF f, p, s
<1>3. /\ Children(q, p) = Children(f, p) \cup {s} /\ Children(q, s) = {}
      /\ \A x \in DOMAIN f.spans : x # p => Children(q, x) = Children(f, x)
  <2>1. Children(q, p) = Children(f, p) \cup {s}
    BY <1>2, ChildrenOf
  <2>2. Children(q, s) = {}
    <3>1. q.spans[s].children = <<>>
      BY <1>2
    <3> QED  BY <3>1 DEF Children
  <2>3. ASSUME NEW x \in DOMAIN f.spans, x # p
        PROVE  Children(q, x) = Children(f, x)
    <3>1. q.spans[x].children = f.spans[x].children
      BY <1>2, <2>3
    <3> QED  BY <3>1 DEF Children
  <2> QED  BY <2>1, <2>2, <2>3
<1>4. \A y \in DOMAIN f.spans : \A c \in Children(f, y) : c \in DOMAIN f.spans
  BY <1>2, LinkedInside DEF Linked
<1>5. \A y \in DOMAIN f.spans : \A c \in Children(f, y) : q.spans[c].init # "unknown"
  BY <1>1, <1>2, <1>4 DEF Kinded
<1> QED  BY <1>2, <1>3, <1>5 DEF Kinded

\* And after handle_spawn.
LEMMA SpawnKinded ==
    ASSUME NEW tr, IsTracker(tr), Kinded(tr), NEW c \in Tids, NEW t \in Tids,
           NEW isFork \in BOOLEAN, NEW q, q = HandleSpawn(tr, c, t, isFork)
    PROVE  Kinded(q)
<1> DEFINE g == WithBoth(tr, c, t)
           p == g.threads[t]
           s == g.threads[c]
<1>1. IsTracker(g) /\ Grown(tr, g) /\ p \in DOMAIN g.spans
  BY BothThere
<1>2. /\ LinkAdded(g, q, p, s) /\ q.spans[s].init # "unknown"
      /\ \A y \in DOMAIN g.spans : y # s => q.spans[y].init = g.spans[y].init
  BY SpawnChanges
<1> HIDE DEF g, p, s
<1>3. Kinded(g)
  <2>1. /\ \A y \in DOMAIN tr.spans : g.spans[y] = tr.spans[y] /\ Children(g, y) = Children(tr, y)
        /\ \A y \in DOMAIN g.spans \ DOMAIN tr.spans : Children(g, y) = {}
    <3>1. /\ \A y \in DOMAIN tr.spans : g.spans[y] = tr.spans[y]
          /\ \A y \in DOMAIN g.spans \ DOMAIN tr.spans : g.spans[y].children = <<>>
      <4>1. \A u \in Tids : NewSpan(u).children = <<>>
        BY DEF NewSpan
      <4>2. \A y \in DOMAIN g.spans \ DOMAIN tr.spans : \E u \in Tids : g.spans[y] = NewSpan(u)
        BY <1>1 DEF Grown
      <4>3. \A y \in DOMAIN tr.spans : g.spans[y] = tr.spans[y]
        BY <1>1 DEF Grown
      <4> QED  BY <4>1, <4>2, <4>3
    <3>2. \A y \in DOMAIN tr.spans : Children(g, y) = Children(tr, y)
      BY <3>1 DEF Children
    <3>3. \A y \in DOMAIN g.spans \ DOMAIN tr.spans : Children(g, y) = {}
      BY <3>1 DEF Children
    <3> QED  BY <3>1, <3>2, <3>3
  <2>2. \A y \in DOMAIN tr.spans : \A x \in Children(tr, y) : x \in DOMAIN tr.spans
    BY LinkedInside DEF Linked
  <2> QED  BY <2>1, <2>2 DEF Kinded
<1>4. \A x, y : Linked(q, y, x) => Linked(g, y, x) \/ x = s
  BY <1>1, <1>2, LinkAddedLinks
<1>5. \A y \in DOMAIN q.spans : \A x \in Children(q, y) :
         x = s \/ (x \in DOMAIN g.spans /\ g.spans[x].init # "unknown")
  <2> TAKE y \in DOMAIN q.spans
  <2> TAKE x \in Children(q, y)
  <2>1. DOMAIN q.spans = DOMAIN g.spans
    BY <1>2 DEF LinkAdded
  <2>2. Linked(g, y, x) \/ x = s
    BY <1>4 DEF Linked
  <2>3. ASSUME Linked(g, y, x)
        PROVE  x \in DOMAIN g.spans /\ g.spans[x].init # "unknown"
    <3>1. y \in DOMAIN g.spans /\ x \in DOMAIN g.spans /\ x \in Children(g, y)
      BY <1>1, <2>3, LinkedInside DEF Linked
    <3> QED  BY <1>3, <3>1 DEF Kinded
  <2> QED  BY <2>2, <2>3
<1> QED  BY <1>2, <1>5 DEF Kinded

\* The usages of all spans, and what is below each that is of one of the kinds.
Usages(tr) == [s \in DOMAIN tr.spans |-> tr.spans[s].usage]
Below(tr, kinds) ==
    [s \in DOMAIN tr.spans |-> {c \in Children(tr, s) : tr.spans[c].init \in kinds}]

\* The root and all spans are a tree, whose links show how each span began.
AllInTree(tr) ==
    /\ tr.root # 0 /\ Reached(tr) = DOMAIN tr.spans /\ \E K : TreeIn(tr, K)
    /\ tr.spans[tr.root].init = "exec"
    /\ Kinded(tr)

\* Whatever kinds are looked at, what is added up at those that stand below no other
\* is the sum of all usages.
LEMMA BelowAddsUp ==
    ASSUME NEW tr, IsTracker(tr), AllInTree(tr), NEW kinds
    PROVE  LET D == DOMAIN tr.spans
               kids == Below(tr, kinds)
           IN  /\ \E f : AddsUp(D, Usages(tr), kids, f)
               /\ \A f : AddsUp(D, Usages(tr), kids, f) =>
                     /\ SumOf(f, D \ UNION {kids[s] : s \in D}) = SumOf(Usages(tr), D)
                     /\ f[tr.root] \in Int
<1> DEFINE D == DOMAIN tr.spans
           kids == Below(tr, kinds)
           u == Usages(tr)
           n == Len(tr.spans)
<1>1. /\ n \in Nat /\ D = 1..n /\ \A s \in D : tr.spans[s] \in SpanType
      /\ tr.root \in 0..n
  BY TrackerFields
<1>2. IsFiniteSet(D) /\ tr.root \in D /\ Reached(tr) = D
  <2>1. tr.root # 0 /\ Reached(tr) = D
    BY DEF AllInTree
  <2> HIDE DEF D, n
  <2> QED  BY <1>1, <2>1, FS_Interval
<1>3. \A s \in D : u[s] \in Int
  BY <1>1 DEF Usages, SpanType
<1>4. PICK K : TreeIn(tr, K)
  BY DEF AllInTree
<1>5. \A s \in D : kids[s] \in SUBSET Children(tr, s) /\ Children(tr, s) \subseteq D
  BY <1>2, ReachedClosed DEF Below
<1>6. \A s, t \in D : s # t => Children(tr, s) \cap Children(tr, t) = {}
  BY <1>2, <1>4, ReachedInTree DEF TreeIn
<1>7. PICK depth : \A s \in D : /\ depth[s] \in 0..n
                                /\ \A c \in Children(tr, s) : depth[s] < depth[c]
  BY <1>2, <1>4, DepthExists
<1> HIDE DEF D, kids, u, n
<1>8. Descends(D, kids, depth, n)
  BY <1>5, <1>7 DEF Descends
<1>9. \A s, t \in D : s # t => kids[s] \cap kids[t] = {}
  BY <1>5, <1>6
<1>10. \E f : AddsUp(D, u, kids, f)
  BY <1>1, <1>2, <1>8, AddsUpExists
<1>11. ASSUME NEW f, AddsUp(D, u, kids, f)
       PROVE  SumOf(f, D \ UNION {kids[s] : s \in D}) = SumOf(u, D) /\ f[tr.root] \in Int
  BY <1>1, <1>2, <1>3, <1>8, <1>9, <1>11, AddsUpToAll, AddsUpInt
<1> QED  BY <1>10, <1>11 DEF D, kids, u

\* The sum of one number.
LEMMA SumOne ==
    ASSUME NEW v, NEW x, v[x] \in Int
    PROVE  SumOf(v, {x}) = v[x]
<1>1. IsFiniteSet({x}) /\ {x} \ {Taken({x})} = {} /\ Taken({x}) = x
  BY FS_Singleton DEF Taken
<1>2. SumOf(v, {x}) = v[Taken({x})] + SumOf(v, {x} \ {Taken({x})})
  BY <1>1, SumIs
<1> QED  BY <1>1, <1>2, SumEmpty

\* compile_tree arrives at the sum of all usages at the root, and shares it out among
\* the commands.
THEOREM TreeAddsUp ==
    ASSUME NEW tr, IsTracker(tr), AllInTree(tr)
    PROVE  LET all == SumOf(Usages(tr), DOMAIN tr.spans)
           IN  /\ TreeCpu(tr)[tr.root] = all
               /\ SumOf(SelfCpu(tr), Commands(tr)) = all
<1> DEFINE D == DOMAIN tr.spans
           u == Usages(tr)
           started == Kinds \ {"unknown"}
           forks == {"forked", "thread"}
<1>1. /\ \A s \in D : /\ tr.spans[s].init \in Kinds
                      /\ \A c \in Children(tr, s) : tr.spans[c].init \in started
      /\ tr.root \in D /\ Reached(tr) = D
  <2>1. \A s \in D : tr.spans[s].init \in Kinds
    BY DEF IsTracker, TrackerType
  <2>2. tr.root \in D /\ Reached(tr) = D
    BY TrackerFields DEF AllInTree
  <2>3. \A s \in D : \A c \in Children(tr, s) : c \in D /\ tr.spans[c].init # "unknown"
    BY <2>2, ReachedClosed DEF AllInTree, Kinded
  <2> QED  BY <2>1, <2>2, <2>3
<1>2. /\ \A x \in D : x # tr.root => \E y \in D : x \in Children(tr, y)
      /\ \A y \in D : tr.root \notin Children(tr, y)
  <2>1. PICK K : TreeIn(tr, K)
    BY DEF AllInTree
  <2> QED  BY <1>1, <2>1, UpperIs
<1>3. TreeCpu(tr)[tr.root] = SumOf(u, D)
  <2> DEFINE kids == Below(tr, started)
             f == CHOOSE f : f = [s \in D |-> tr.spans[s].usage
                        + SumOf(f, {c \in Children(tr, s) : tr.spans[c].init # "unknown"})]
  <2>1. TreeCpu(tr) = f
    BY DEF TreeCpu, SumOf
  <2>2. \A s \in D : /\ kids[s] = Children(tr, s) /\ u[s] = tr.spans[s].usage
                     /\ {c \in Children(tr, s) : tr.spans[c].init # "unknown"} = Children(tr, s)
    BY <1>1 DEF Below, Usages
  <2> HIDE DEF u, kids
  <2>3. \A g : AddsUp(D, u, kids, g) <=>
                  g = [s \in D |-> tr.spans[s].usage
                        + SumOf(g, {c \in Children(tr, s) : tr.spans[c].init # "unknown"})]
    BY <2>2 DEF AddsUp
  <2>4. AddsUp(D, u, kids, f)
    <3>1. \E g : AddsUp(D, u, kids, g)
      BY BelowAddsUp DEF u, kids
    <3> HIDE DEF D
    <3> QED  BY <2>3, <3>1
  <2> HIDE DEF f
  <2>5. SumOf(f, D \ UNION {kids[s] : s \in D}) = SumOf(u, D) /\ f[tr.root] \in Int
    BY <2>4, BelowAddsUp DEF u, kids
  <2>6. D \ UNION {kids[s] : s \in D} = {tr.root}
    BY <1>1, <1>2, <2>2
  <2> QED  BY <2>1, <2>5, <2>6, SumOne
<1>4. SumOf(SelfCpu(tr), Commands(tr)) = SumOf(u, D)
  <2> DEFINE kids == Below(tr, forks)
             f == CHOOSE f : f = [s \in D |-> tr.spans[s].usage
                        + SumOf(f, {c \in Children(tr, s) : tr.spans[c].init \in forks})]
  <2>1. SelfCpu(tr) = f
    BY DEF SelfCpu, SumOf
  <2>2. \A s \in D : /\ kids[s] = {c \in Children(tr, s) : tr.spans[c].init \in forks}
                     /\ u[s] = tr.spans[s].usage
    BY DEF Below, Usages
  <2>3. D \ UNION {kids[s] : s \in D} = Commands(tr)
    <3>1. started \ forks = {"exec"} /\ "exec" \notin forks
      BY DEF Kinds
    <3>2. tr.spans[tr.root].init = "exec"
      BY DEF AllInTree
    <3> HIDE DEF started, forks, kids
    <3>3. ASSUME NEW x \in D, \A s \in D : x \notin kids[s]
          PROVE  tr.spans[x].init = "exec"
      <4>1. CASE x = tr.root
        BY <3>2, <4>1
      <4>2. CASE x # tr.root
        <5>1. PICK y \in D : x \in Children(tr, y)
          BY <1>2, <4>2
        <5> QED  BY <1>1, <2>2, <3>1, <3>3, <5>1
      <4> QED  BY <4>1, <4>2
    <3>4. ASSUME NEW x \in D, tr.spans[x].init = "exec", NEW s \in D
          PROVE  x \notin kids[s]
      BY <2>2, <3>1, <3>4
    <3> QED  BY <1>1, <3>3, <3>4 DEF Commands
  <2> HIDE DEF u, kids, forks
  <2>4. \A g : AddsUp(D, u, kids, g) <=>
                  g = [s \in D |-> tr.spans[s].usage
                        + SumOf(g, {c \in Children(tr, s) : tr.spans[c].init \in forks})]
    BY <2>2 DEF AddsUp
  <2>5. AddsUp(D, u, kids, f)
    <3>1. \E g : AddsUp(D, u, kids, g)
      BY BelowAddsUp DEF u, kids
    <3> HIDE DEF D
    <3> QED  BY <2>4, <3>1
  <2> HIDE DEF f
  <2>6. SumOf(f, D \ UNION {kids[s] : s \in D}) = SumOf(u, D)
    BY <2>5, BelowAddsUp DEF u, kids
  <2> QED  BY <2>1, <2>3, <2>6
<1> QED  BY <1>3, <1>4
=============================================================================
