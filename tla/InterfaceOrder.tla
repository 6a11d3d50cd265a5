---------------------------- MODULE InterfaceOrder ----------------------------
(***************************************************************************)
(* The order in which interfaces are updated and numbered:                 *)
(* _sort_interface_objects of src/dros/plugins/network_interfaces.py.      *)
(***************************************************************************)
EXTENDS Naturals, Sequences, SequencesExt, FiniteSetsExt

CONSTANTS
    Interfaces,      \* names
    Rank             \* per name: its place by (type, name), _interface_sort_key

ASSUME RankAssumption ==
    /\ Rank \in [Interfaces -> Nat]
    /\ \A i, j \in Interfaces : Rank[i] = Rank[j] => i = j

ByRank(names) == SetToSortSeq(names, LAMBDA a, b : Rank[a] < Rank[b])

\* walk = [ordered, done, cyclic]: the names in order, those visited, a cycle met.
Walk == [ordered : Seq(Interfaces), done : SUBSET Interfaces, cyclic : BOOLEAN]

EmptyWalk == [ordered |-> <<>>, done |-> {}, cyclic |-> FALSE]

\* visit, for every name of names in turn: above holds the names being visited, deps
\* the dependencies of each name.
Visited(names, deps) ==
    LET visit[walk \in Walk, name \in Interfaces, above \in SUBSET Interfaces] ==
          IF name \in walk.done THEN walk
          ELSE IF name \in above THEN [walk EXCEPT !.cyclic = TRUE]
          ELSE LET below == FoldLeft(LAMBDA w, d : visit[w, d, above \cup {name}],
                                     walk, ByRank(deps[name]))
               IN [below EXCEPT !.ordered = Append(@, name), !.done = @ \cup {name}]
    IN FoldLeft(LAMBDA w, n : visit[w, n, {}], EmptyWalk, ByRank(names))

\* Slip: a name that is being visited counts as visited.
SortIgnoresCycles(names, roots, deps) ==
    [ordered |-> Visited(roots \cap names, deps).ordered, cyclic |-> FALSE]

Sort(names, roots, deps) ==
    LET walk == Visited(roots \cap names, deps)
    IN IF walk.cyclic THEN [ordered |-> <<>>, cyclic |-> TRUE]
       ELSE [ordered |-> walk.ordered, cyclic |-> FALSE]

\* _interface_dependencies: only references to interfaces of the configuration.
DepsWithin(names, refs) == [n \in Interfaces |-> {r[2] : r \in {x \in refs : x[1] = n}} \cap names]

-----------------------------------------------------------------------------
(* Reference definitions. *)

\* The names reached from roots along deps, and those reachable from one name.
Closure(roots, deps) ==
    LET step[k \in 0..Cardinality(Interfaces)] ==
          IF k = 0 THEN roots ELSE step[k - 1] \cup UNION {deps[n] : n \in step[k - 1]}
    IN step[Cardinality(Interfaces)]

Below(name, deps) == Closure(deps[name], deps)

Cyclic(roots, deps) == \E n \in Closure(roots, deps) : n \in Below(n, deps)
=============================================================================
