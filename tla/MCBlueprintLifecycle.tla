------------------------ MODULE MCBlueprintLifecycle ------------------------
(***************************************************************************)
(* Instances of BlueprintLifecycle for TLC.                                *)
(***************************************************************************)
EXTENDS BlueprintLifecycle, TLC

\* Identifiers are generated and threads are alike: exchanging them changes
\* nothing a safety property sees.
Symmetry == Permutations(Blueprint) \cup Permutations(Thread)
=============================================================================
