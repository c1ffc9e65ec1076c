----------------------------- MODULE HelmCharts -----------------------------
(***************************************************************************)
(* The Helm chart of each blueprint on the Kubernetes cluster of its area.  *)
(* The release and its namespace are on the cluster; the namespace is also  *)
(* in the blueprint's provider data, and the blueprint in the list of the   *)
(* topology's cluster that keeps the cluster from being deleted.  Blueprints *)
(* run in different workers, users change the clusters meanwhile.           *)
(***************************************************************************)
EXTENDS Naturals, Sequences, FiniteSets, SequencesExt

CONSTANTS Blueprint, Cluster,   \* clusters users may list, all for one area
          NoCluster,
          MaxUpdates,   \* bound: clusters added, updated or deleted by force
          MaxFaults,    \* bound: calls to a cluster that fail
          MaxStops      \* bound: stops of the process

VARIABLES listed,            \* the clusters of the topology, in order
          deployed,          \* deployed_blueprints of each
          installed, spaces, \* the releases and namespaces of each cluster
          known, knownDb,    \* whether data.namespaces has it, likewise saved
          pc, bound,         \* the blueprint, and the cluster of its provider
          left,              \* history: blueprints with something left behind
          touched,           \* history: clusters whose list a user replaced
          updates, faults, stops

helmVars == <<listed, deployed, installed, spaces, known, knownDb, pc, bound, left, touched,
              updates, faults, stops>>

States == {"new", "namespace", "release", "record", "list", "running", "failed",
           "uninstall", "unlist", "cleanup", "gone"}

\* Every variable keeps the shape the topology and the provider data give it.
TypeOK ==
    /\ listed \in Seq(Cluster) /\ deployed \in [Cluster -> SUBSET Blueprint]
    /\ installed \in [Cluster -> SUBSET Blueprint] /\ spaces \in [Cluster -> SUBSET Blueprint]
    /\ known \cup knownDb \cup left \subseteq Blueprint /\ pc \in [Blueprint -> States]
    /\ bound \in [Blueprint -> Cluster \cup {NoCluster}] /\ touched \subseteq Cluster

Init ==
    /\ listed = <<>> /\ deployed = [c \in Cluster |-> {}]
    /\ installed = deployed /\ spaces = deployed
    /\ known = {} /\ knownDb = {} /\ pc = [b \in Blueprint |-> "new"]
    /\ bound = [b \in Blueprint |-> NoCluster]
    /\ left = {} /\ touched = {} /\ updates = 0 /\ faults = 0 /\ stops = 0

(* get_k8s_cluster_by_area: the first one of the list.                      *)
AreaCluster == IF listed = <<>> THEN NoCluster ELSE Head(listed)
Moves(b, from, to) == pc[b] = from /\ pc' = [pc EXCEPT ![b] = to]
Fault == faults < MaxFaults /\ faults' = faults + 1
Leaves(b) == left' = left \cup {b}
TopologyKept == UNCHANGED <<listed, deployed, touched>>
ClustersKept == UNCHANGED <<installed, spaces>>
DataKept == UNCHANGED <<known, knownDb, bound>>
Runs == UNCHANGED <<updates, stops>>
-----------------------------------------------------------------------------
(* The provider is built with the cluster the area has then.                *)
Create(b) ==
    /\ AreaCluster # NoCluster /\ Moves(b, "new", "namespace")
    /\ bound' = [bound EXCEPT ![b] = AreaCluster]
    /\ UNCHANGED <<known, knownDb, left, faults>> /\ TopologyKept /\ ClustersKept /\ Runs

(* install_helm_chart.  A namespace that is there already is an error; the  *)
(* installation is atomic: a failed one leaves the namespace, not recorded. *)
CreateNamespace(b) ==
    /\ UNCHANGED installed /\ TopologyKept /\ DataKept /\ Runs
    /\ \/ /\ Moves(b, "namespace", "release") /\ b \notin spaces[bound[b]]
          /\ spaces' = [spaces EXCEPT ![bound[b]] = @ \cup {b}] /\ UNCHANGED <<left, faults>>
       \/ Moves(b, "namespace", "failed") /\ Fault /\ UNCHANGED <<spaces, left>>

InstallRelease(b) ==
    /\ UNCHANGED spaces /\ TopologyKept /\ DataKept /\ Runs
    /\ \/ /\ Moves(b, "release", "record") /\ UNCHANGED <<left, faults>>
          /\ installed' = [installed EXCEPT ![bound[b]] = @ \cup {b}]
       \/ Moves(b, "release", "failed") /\ Fault /\ UNCHANGED installed /\ Leaves(b)

RecordNamespace(b) ==
    /\ Moves(b, "record", "list") /\ known' = known \cup {b} /\ knownDb' = knownDb \cup {b}
    /\ UNCHANGED <<bound, left, faults>> /\ TopologyKept /\ ClustersKept /\ Runs

(* The status of the release is checked; the cluster is looked up again.    *)
ListBlueprint(b) ==
    /\ UNCHANGED <<listed, touched, left>> /\ ClustersKept /\ DataKept /\ Runs
    /\ \/ /\ AreaCluster # NoCluster /\ Moves(b, "list", "running") /\ UNCHANGED faults
          /\ deployed' = [deployed EXCEPT ![AreaCluster] = @ \cup {b}]
       \/ AreaCluster = NoCluster /\ Moves(b, "list", "failed") /\ UNCHANGED <<deployed, faults>>
       \/ Moves(b, "list", "failed") /\ Fault /\ UNCHANGED deployed

(* update_values_helm_chart installs what is not there, and its namespace.  *)
UpdateValues(b) ==
    /\ pc[b] = "running" /\ UNCHANGED <<pc, left>> /\ TopologyKept /\ DataKept /\ Runs
    /\ \/ /\ installed' = [installed EXCEPT ![bound[b]] = @ \cup {b}]
          /\ spaces' = [spaces EXCEPT ![bound[b]] = @ \cup {b}] /\ UNCHANGED faults
       \/ Fault /\ ClustersKept
-----------------------------------------------------------------------------
(* The deletion: the release, if there is one; the list of the cluster the  *)
(* area has now; the recorded namespaces, whose errors are swallowed.       *)
Delete(b) ==
    /\ Moves(b, "running", "uninstall") \/ Moves(b, "failed", "uninstall")
    /\ UNCHANGED <<left, faults>> /\ TopologyKept /\ ClustersKept /\ DataKept /\ Runs

Uninstall(b) ==
    /\ UNCHANGED <<spaces, left>> /\ TopologyKept /\ DataKept /\ Runs
    /\ \/ /\ Moves(b, "uninstall", "unlist") /\ UNCHANGED faults
          /\ installed' = [installed EXCEPT ![bound[b]] = @ \ {b}]
       \/ Moves(b, "uninstall", "failed") /\ Fault /\ UNCHANGED installed

KeepListed(b) ==            \* mutant: the cluster still lists the blueprint
    /\ Moves(b, "unlist", "cleanup") /\ UNCHANGED <<left, faults>>
    /\ TopologyKept /\ ClustersKept /\ DataKept /\ Runs

Unlist(b) ==
    /\ UNCHANGED <<listed, touched, left, faults>> /\ ClustersKept /\ DataKept /\ Runs
    /\ \/ /\ AreaCluster # NoCluster /\ Moves(b, "unlist", "cleanup")
          /\ deployed' = [deployed EXCEPT ![AreaCluster] = @ \ {b}]
       \/ AreaCluster = NoCluster /\ Moves(b, "unlist", "failed") /\ UNCHANGED deployed

Cleanup(b) ==
    /\ Moves(b, "cleanup", "gone") /\ UNCHANGED installed /\ TopologyKept /\ DataKept /\ Runs
    /\ \/ b \in known /\ spaces' = [spaces EXCEPT ![bound[b]] = @ \ {b}] /\ UNCHANGED <<left, faults>>
       \/ b \notin known /\ UNCHANGED <<spaces, left, faults>>
       \/ b \in known /\ Fault /\ Leaves(b) /\ UNCHANGED spaces

(* A forced deletion whose steps failed forgets the blueprint.              *)
ForgetByForce(b) ==
    /\ Moves(b, "failed", "gone") /\ Leaves(b) /\ UNCHANGED faults
    /\ TopologyKept /\ ClustersKept /\ DataKept /\ Runs
-----------------------------------------------------------------------------
(* Users: a cluster replaced as a whole has the list that came with it.     *)
Update == updates < MaxUpdates /\ updates' = updates + 1
UsersOnly == UNCHANGED <<known, knownDb, pc, bound, faults, stops>> /\ ClustersKept

AddCluster(c) ==
    /\ Update /\ c \notin Range(listed) /\ listed' = Append(listed, c)
    /\ deployed' = [deployed EXCEPT ![c] = {}] /\ UNCHANGED <<touched, left>> /\ UsersOnly

ReplaceCluster(c) ==
    /\ Update /\ c \in Range(listed) /\ touched' = touched \cup {c}
    /\ deployed' = [deployed EXCEPT ![c] = {}] /\ UNCHANGED <<listed, left>> /\ UsersOnly

(* Without force, a cluster that lists a blueprint is refused.              *)
DropCluster(c) ==
    /\ \E i \in DOMAIN listed : listed[i] = c /\ listed' = RemoveAt(listed, i)
    /\ deployed' = [deployed EXCEPT ![c] = {}]

DeleteCluster(c) ==
    /\ c \in Range(listed) /\ deployed[c] = {} /\ DropCluster(c)
    /\ UNCHANGED <<touched, left, updates>> /\ UsersOnly

ForceDelete(c) ==
    /\ Update /\ c \in Range(listed) /\ deployed[c] # {} /\ DropCluster(c)
    /\ touched' = touched \cup {c} /\ UNCHANGED left /\ UsersOnly

(* A stop: a loaded blueprint finds its provider data as saved and the      *)
(* cluster its area has by then; without one it cannot be loaded.           *)
Loaded(b) == pc[b] \notin {"new", "gone"}
Restart ==
    /\ stops < MaxStops /\ stops' = stops + 1 /\ AreaCluster # NoCluster
    /\ pc' = [b \in Blueprint |-> IF Loaded(b) /\ pc[b] # "running" THEN "failed" ELSE pc[b]]
    /\ known' = knownDb
    /\ bound' = [b \in Blueprint |-> IF Loaded(b) THEN AreaCluster ELSE bound[b]]
    /\ left' = left \cup {b \in Blueprint : Loaded(b) /\ (b \notin knownDb \/ bound[b] # AreaCluster)}
    /\ UNCHANGED <<listed, deployed, installed, spaces, knownDb, touched, updates, faults>>

Works(b) ==
    \/ Create(b) \/ CreateNamespace(b) \/ InstallRelease(b) \/ RecordNamespace(b) \/ ListBlueprint(b)
    \/ UpdateValues(b) \/ Delete(b) \/ Uninstall(b) \/ Unlist(b) \/ Cleanup(b) \/ ForgetByForce(b)

Next ==
    \/ \E b \in Blueprint : Works(b)
    \/ \E c \in Cluster : AddCluster(c) \/ ReplaceCluster(c) \/ DeleteCluster(c) \/ ForceDelete(c)
    \/ Restart
Spec == Init /\ [][Next]_helmVars
-----------------------------------------------------------------------------
\* A blueprint that runs is listed by the cluster its area has, so that the
\* cluster is not deleted under it, unless a user replaced or forced one.
RunningIsListed ==
    touched = {} => \A b \in Blueprint : pc[b] = "running" =>
        \E c \in Range(listed) : b \in deployed[c]

\* A blueprint that is gone has left no release and no namespace, unless its
\* installation or a stop fell between the namespace and its record, the area
\* got another cluster, or the deletion was forced or met an error.
GoneIsClean ==
    \A b \in Blueprint \ left : pc[b] = "gone" =>
        \A c \in Cluster : b \notin installed[c] \cup spaces[c]

\* A cluster does not list a blueprint that is gone, which would keep it from
\* being deleted for ever, unless users moved the area between clusters.
ListedIsThere ==
    touched = {} => \A c \in Range(listed) : \A b \in deployed[c] : pc[b] = "gone" => b \in left
=============================================================================
