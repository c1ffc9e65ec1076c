---------------------------- MODULE MCNetworkPools ----------------------------
(***************************************************************************)
(* Instances of NetworkPools for TLC.                                      *)
(***************************************************************************)
EXTENDS NetworkPools

CONSTANTS b1, b2, b3, c1, c2

Pool(name, start, end) == [name |-> name, start |-> start, end |-> end]

\* Pools that overlap: the second is refused while the first is there, and
\* meets ranges of the first when it is added after the first was removed.
ShiftedPools == {Pool("low", 1, 2), Pool("high", 2, 3)}
\* Pools with a gap between them: one reservation becomes two ranges.
GapPools == {Pool("low", 1, 1), Pool("high", 3, 4)}

OneCluster == [b \in Blueprint |-> c1]

\* Worker threads are alike, and so are blueprints on the same cluster.
Symmetry == Permutations(Worker) \cup
    {f \in Permutations(Blueprint) : \A b \in Blueprint : ClusterOf[f[b]] = ClusterOf[b]}
=============================================================================
