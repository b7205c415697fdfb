------------------------------ MODULE UnitWalks ------------------------------
(***************************************************************************)
(* The recursive walks over cargo's unit graph that everything else of     *)
(* cargo-zb starts from, one step for each call and each return:           *)
(*                                                                         *)
(*   topo_order (cargo_interop.rs) and compute_cache_keys (hash.rs) order  *)
(*   the units, dependencies first;                                        *)
(*                                                                         *)
(*   lto_vendored::generate gives every unit the LTO mode that goes into   *)
(*   the names of its artifacts, going down again from a unit whose mode   *)
(*   changed because another parent asks for something else.               *)
(*                                                                         *)
(* The graph is any of Graphs; the order in which roots and dependencies   *)
(* are listed is any order.                                                *)
(***************************************************************************)
EXTENDS Naturals, Sequences, FiniteSets

CONSTANTS
    Units,
    Graphs,   \* unit graphs: functions from a unit to its dependencies
    Members,  \* sets of units that may be roots although others depend on them
    NoMode    \* a unit that calculate has not seen

VARIABLES
    deps,     \* the unit graph
    roots,    \* its roots
    class,    \* class[u]: what kind of target u is (see Classes)
    profile,  \* profile.lto
    walk,     \* "topo", "lto" or "done"
    todo,     \* roots still to start from
    stack,    \* the calls of visit, then of calculate: [unit, left]
    visited,  \* topo_order: units entered
    order,    \* topo_order: units in order
    lto       \* generate: the map from units to modes

graph == <<deps, roots, class, profile>>
vars == <<graph, walk, todo, stack, visited, order, lto>>

\* The graph has no cycle: dependencies can be given higher ranks.
ASSUME GraphsAssumption ==
    /\ IsFiniteSet(Units)
    /\ Members \subseteq SUBSET Units
    /\ Graphs \subseteq [Units -> SUBSET Units]
    /\ \A g \in Graphs : \E rank \in [Units -> 1..Cardinality(Units)] :
          \A u \in Units : \A d \in g[u] : rank[u] < rank[d]

\* Kinds of targets: proc macros and build scripts; binaries, cdylibs and
\* staticlibs; rlibs; dylibs; libraries that are also built as a cdylib.
Classes == {"host", "bin", "lib", "dylib", "mixed"}

Modes == {"Run", "Off", "OnlyObject", "OnlyBitcode", "ObjectAndBitcode"}

Profiles == {"lto", "off", "false"}

ASSUME ModesAssumption == NoMode \notin Modes

Sources(g) == {u \in Units : \A v \in Units : u \notin g[v]}
-----------------------------------------------------------------------------
(* The modes. *)

NeedsObject(c) == c \in {"bin", "dylib", "mixed"}

LtoWhenNeedsObject(c) == IF c = "dylib" THEN "OnlyObject" ELSE "ObjectAndBitcode"

\* generate: what a root is asked for.
RootMode(u) ==
    CASE profile = "false"       -> "OnlyObject"
      [] profile = "off"         -> "Off"
      [] OTHER -> IF class[u] = "host" THEN "OnlyObject"
                  ELSE IF NeedsObject(class[u]) THEN LtoWhenNeedsObject(class[u])
                  ELSE "OnlyBitcode"

\* Mutant of ModeUnder: a library with its own code is asked for what it was.
ModeUnderKept(u, parent) ==
    CASE class[u] = "host" -> "OnlyObject"
      [] class[u] = "bin"  -> (CASE profile = "lto"   -> "Run"
                                 [] profile = "off"   -> "Off"
                                 [] profile = "false" -> "OnlyObject")
      [] class[u] \in {"lib", "dylib", "mixed"} ->
            IF parent = "Run" THEN "OnlyBitcode" ELSE parent

\* calculate: the mode of u when a parent of mode `parent` uses it.
ModeUnder(u, parent) ==
    CASE class[u] = "host" -> "OnlyObject"
      [] class[u] = "bin"  -> (CASE profile = "lto"   -> "Run"
                                 [] profile = "off"   -> "Off"
                                 [] profile = "false" -> "OnlyObject")
      [] class[u] = "lib"  -> IF parent = "Run" THEN "OnlyBitcode" ELSE parent
      [] class[u] \in {"dylib", "mixed"} ->
            IF parent \in {"Run", "OnlyBitcode"} THEN LtoWhenNeedsObject(class[u])
            ELSE parent

\* Mutant of Merge: the mode some other parent asked for is replaced.
MergeLast(new, old) == new

\* calculate: what two parents ask for, together.
Merge(new, old) ==
    CASE old \in {NoMode, new} -> new
      [] OTHER -> IF "Run" \in {new, old} THEN "Run"
                  ELSE IF "Off" \in {new, old} THEN "Off"
                  ELSE "ObjectAndBitcode"
-----------------------------------------------------------------------------
Init ==
    /\ deps \in Graphs
    /\ roots \in {Sources(deps) \cup R : R \in Members}
    /\ class = [u \in Units |-> "lib"] /\ profile = "false"
    /\ walk = "topo"
    /\ todo = roots
    /\ stack = <<>>
    /\ visited = {}
    /\ order = <<>>
    /\ lto = [u \in Units |-> NoMode]

Top == stack[Len(stack)]
Pop == SubSeq(stack, 1, Len(stack) - 1)
Frame(u) == [unit |-> u, left |-> deps[u]]

\* Either the next root, or the next dependency of the unit at hand; `rest` is
\* the stack of calls without the new one.
NextRoot(u) ==
    /\ stack = <<>>
    /\ u \in todo
    /\ todo' = todo \ {u}

NextDep(u) ==
    /\ stack # <<>>
    /\ u \in Top.left
    /\ UNCHANGED todo

Waiting(u) ==
    IF stack = <<>> THEN <<>>
    ELSE Append(Pop, [Top EXCEPT !.left = @ \ {u}])

\* Mutant of Visit: the unit is listed when it is entered.
VisitPreorder(u) ==
    /\ walk = "topo"
    /\ NextRoot(u) \/ NextDep(u)
    /\ \/ u \in visited /\ stack' = Waiting(u) /\ UNCHANGED <<visited, order>>
       \/ /\ u \notin visited
          /\ visited' = visited \cup {u}
          /\ stack' = Append(Waiting(u), [unit |-> u, left |-> deps[u]])
          /\ order' = Append(order, u)
    /\ UNCHANGED <<graph, walk, lto>>

\* topo_order: a unit seen before is passed over, otherwise its dependencies
\* come first.
Visit(u) ==
    /\ walk = "topo"
    /\ NextRoot(u) \/ NextDep(u)
    /\ \/ u \in visited /\ stack' = Waiting(u) /\ UNCHANGED visited
       \/ /\ u \notin visited
          /\ visited' = visited \cup {u}
          /\ stack' = Append(Waiting(u), Frame(u))
    /\ UNCHANGED <<graph, walk, order, lto>>

\* The unit follows its dependencies.
Leave ==
    /\ walk = "topo" /\ stack # <<>> /\ Top.left = {}
    /\ order' = Append(order, Top.unit)
    /\ stack' = Pop
    /\ UNCHANGED <<graph, walk, todo, visited, lto>>

\* All roots are done; generate begins, with targets of some kinds.
BeginLto ==
    /\ walk = "topo" /\ stack = <<>> /\ todo = {}
    /\ walk' = "lto"
    /\ class' \in [Units -> Classes]
    /\ profile' \in Profiles
    /\ todo' = roots
    /\ visited' = {} /\ order' = <<>>
    /\ UNCHANGED <<deps, roots, stack, lto>>

\* The mode asked for by the caller.
Asked(u) == IF stack = <<>> THEN RootMode(u) ELSE lto[Top.unit]

\* Mutant of Calculate: a unit passes on only what its first parent asked for.
CalculateOnce(u) ==
    /\ walk = "lto"
    /\ NextRoot(u) \/ NextDep(u)
    /\ LET merged == Merge(ModeUnder(u, Asked(u)), lto[u]) IN
       /\ lto' = [lto EXCEPT ![u] = merged]
       /\ stack' = IF lto[u] # NoMode THEN Waiting(u) ELSE Append(Waiting(u), Frame(u))
    /\ UNCHANGED <<graph, walk, visited, order>>

\* Mutant of Calculate: the mode of a host unit is fixed, so it returns there.
CalculateHostStops(u) ==
    /\ walk = "lto"
    /\ NextRoot(u) \/ NextDep(u)
    /\ LET merged == Merge(ModeUnder(u, Asked(u)), lto[u]) IN
       /\ lto' = [lto EXCEPT ![u] = merged]
       /\ stack' = IF merged = lto[u] \/ class[u] = "host" THEN Waiting(u)
                   ELSE Append(Waiting(u), Frame(u))
    /\ UNCHANGED <<graph, walk, visited, order>>

\* calculate returns at once if nothing changes for u, otherwise it goes on to
\* all its dependencies with the new mode.
Calculate(u) ==
    /\ walk = "lto"
    /\ NextRoot(u) \/ NextDep(u)
    /\ LET merged == Merge(ModeUnder(u, Asked(u)), lto[u]) IN
       /\ lto' = [lto EXCEPT ![u] = merged]
       /\ stack' = IF merged = lto[u] THEN Waiting(u)
                   ELSE Append(Waiting(u), Frame(u))
    /\ UNCHANGED <<graph, walk, visited, order>>

Return ==
    /\ walk = "lto" /\ stack # <<>> /\ Top.left = {}
    /\ stack' = Pop
    /\ UNCHANGED <<graph, walk, todo, visited, order, lto>>

EndLto ==
    /\ walk = "lto" /\ stack = <<>> /\ todo = {}
    /\ walk' = "done"
    /\ UNCHANGED <<graph, todo, stack, visited, order, lto>>

\* Both walks are done, and nothing else may keep them from it (no deadlock).
Finished == walk = "done" /\ UNCHANGED vars

Next ==
    \/ \E u \in Units : Visit(u) \/ Calculate(u)
    \/ Leave \/ BeginLto
    \/ Return \/ EndLto
    \/ Finished

Spec == Init /\ [][Next]_vars
-----------------------------------------------------------------------------
\* The walks never go in circles, and generate ends with a mode for every unit:
\* cargo's compute_metadata panics for one that has none.
TypeOK ==
    /\ deps \in Graphs /\ roots \subseteq Units
    /\ class \in [Units -> Classes] /\ profile \in Profiles
    /\ walk \in {"topo", "lto", "done"}
    /\ todo \subseteq roots
    /\ Len(stack) <= Cardinality(Units)
    /\ visited \subseteq Units
    /\ lto \in [Units -> Modes \cup {NoMode}]
    /\ walk = "done" => lto \in [Units -> Modes]

\* Every unit is listed once, after all its dependencies, and none is left out,
\* whatever the order of roots and dependencies: the lookup, the harvest and the
\* keys use what was found for the dependencies.
TopoOrder ==
    /\ \A i \in 1..Len(order) : \A d \in deps[order[i]] :
          \E j \in 1..i - 1 : order[j] = d
    /\ \A i, j \in 1..Len(order) : order[i] = order[j] => i = j
    /\ walk = "topo" /\ stack = <<>> /\ todo = {} =>
          \A u \in Units : \E i \in 1..Len(order) : order[i] = u

\* The least mode that serves several parents.
Join(modes) ==
    IF "Run" \in modes THEN "Run"
    ELSE IF "Off" \in modes THEN "Off"
    ELSE IF Cardinality(modes) = 1 THEN CHOOSE m \in modes : TRUE
    ELSE "ObjectAndBitcode"

\* What every unit is asked for by its final parents, all of them together.
Wanted ==
    LET mode[u \in Units] ==
            Join({ModeUnder(u, mode[p]) : p \in {v \in Units : u \in deps[v]}}
                 \cup {ModeUnder(u, RootMode(u)) : r \in roots \cap {u}})
    IN  mode

\* The modes do not depend on the order of the walk: what cargo-zb recomputes
\* after the build names the files that cargo wrote in it.
LtoAgrees == walk = "done" => lto = Wanted

HasObject(u) == lto[u] \in {"Off", "OnlyObject", "ObjectAndBitcode"}
HasBitcode(u) == lto[u] \in {"Off", "OnlyBitcode", "ObjectAndBitcode"}

\* Whichever parent settled its mode, a library has what every one of its
\* parents links: bitcode where LTO runs above it, object code where the parent
\* is linked as it is; and what is a dynamic library itself has object code.
LinksWhatItNeeds ==
    walk = "done" => \A u \in Units :
        /\ class[u] \in {"dylib", "mixed"} => HasObject(u)
        /\ \A d \in {e \in deps[u] : class[e] \in {"lib", "mixed"}} :
              /\ lto[u] \in {"Run", "OnlyBitcode", "ObjectAndBitcode"} => HasBitcode(d)
              /\ lto[u] \in {"OnlyObject", "ObjectAndBitcode"} => HasObject(d)
=============================================================================
