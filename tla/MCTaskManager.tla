--------------------------- MODULE MCTaskManager ---------------------------
(***************************************************************************)
(* Instances of TaskManager for TLC.                                       *)
(***************************************************************************)
EXTENDS TaskManager, TLC

\* Tasks have fresh ids; request threads are alike, and so are worker threads.
Symmetry == Permutations(Task) \cup Permutations(Client) \cup Permutations(Worker)
=============================================================================
