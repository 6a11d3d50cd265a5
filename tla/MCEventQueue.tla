---------------------------- MODULE MCEventQueue ----------------------------
(* The event queue on small instances.                                     *)
EXTENDS EventQueue, TLC

\* Hooks, daemons, terminals and keys are only compared for equality.
Symmetry ==
    Permutations(Hooks) \cup Permutations(Daemons) \cup Permutations(Appliers)
        \cup Permutations(Keys)
=============================================================================
