-------------------------- MODULE InterfaceOrderCheck --------------------------
(***************************************************************************)
(* The interface order for every configuration: any set of interfaces, any *)
(* references between them (vlan.parent, bridge.ports, pppoe.device), and  *)
(* any selection of gw update.                                             *)
(***************************************************************************)
EXTENDS InterfaceOrder

VARIABLES
    names,           \* interfaces of the configuration
    refs,            \* pairs <<a, b>>: a refers to b, defined or not
    roots,           \* the selection
    sorted           \* the result

vars == <<names, refs, roots, sorted>>

Init ==
    /\ names \in SUBSET Interfaces
    /\ refs \in SUBSET (Interfaces \X Interfaces)
    /\ roots \in SUBSET names
    /\ sorted = [ordered |-> <<>>, cyclic |-> FALSE]

\* _validate_interface_dependency_graph
Validate ==
    /\ sorted.ordered = <<>> /\ ~sorted.cyclic
    /\ sorted' = Sort(names, roots, DepsWithin(names, refs))
    /\ UNCHANGED <<names, refs, roots>>

Next == Validate

Spec == Init /\ [][Next]_vars

-----------------------------------------------------------------------------
(* Properties *)

Deps == DepsWithin(names, refs)

\* The depth-first sort finds a cycle exactly when an interface reachable from
\* the selection depends on itself; otherwise it returns the selection and all it
\* depends on, each once and after everything it depends on, directly or not.
SortedOrCyclic(result) ==
    LET s == result.ordered IN
    IF Cyclic(roots, Deps) THEN result.cyclic
    ELSE /\ ~result.cyclic
         /\ ToSet(s) = Closure(roots, Deps)
         /\ IsInjective(s)
         /\ \A i, j \in DOMAIN s : s[j] \in Below(s[i], Deps) => j < i
=============================================================================
