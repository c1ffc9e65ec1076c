--------------------------- MODULE HelmChartsProofs ---------------------------
(***************************************************************************)
(* The charts of the blueprints and the clusters of the topology, for any  *)
(* number of blueprints and clusters, and however often users change the   *)
(* clusters, calls fail and the process stops.                             *)
(*                                                                         *)
(* Listing: the provider looks the cluster of the area up again to list    *)
(* its blueprint and to take it off the list.  Both look-ups find the same *)
(* cluster because only the first one has a list that is not empty, and    *)
(* such a cluster is not deleted without force.                            *)
(* Tidy: a release or a namespace is on the cluster the provider is bound  *)
(* to, and from the moment the installation has ended it is recorded, in   *)
(* memory and in the document, so that the clean-up finds it after a stop. *)
(***************************************************************************)
EXTENDS HelmCharts, TLAPS

\* The list without one of its entries: what pop leaves of it.
LEMMA Remaining ==
    ASSUME NEW list \in Seq(Cluster), NEW i \in DOMAIN list, NEW rest, rest = RemoveAt(list, i)
    PROVE  /\ rest \in Seq(Cluster) /\ Len(rest) = Len(list) - 1
           /\ \A k \in DOMAIN rest : rest[k] = IF k < i THEN list[k] ELSE list[k + 1]
<1> DEFINE before == SubSeq(list, 1, i - 1)
           after == SubSeq(list, i + 1, Len(list))
<1>1. /\ before \in Seq(Cluster) /\ Len(before) = i - 1
      /\ \A k \in 1..(i - 1) : before[k] = list[k]
  OBVIOUS
<1>2. /\ after \in Seq(Cluster) /\ Len(after) = Len(list) - i
      /\ \A k \in 1..(Len(list) - i) : after[k] = list[i + k]
  OBVIOUS
<1>3. rest = before \o after
  BY DEF RemoveAt
<1> HIDE DEF before, after
<1>4. rest \in Seq(Cluster)
  BY <1>1, <1>2, <1>3
<1>5. Len(rest) = Len(list) - 1
  BY <1>1, <1>2, <1>3
<1>6. ASSUME NEW k \in DOMAIN rest PROVE rest[k] = IF k < i THEN list[k] ELSE list[k + 1]
  <2>1. k \in 1..(Len(list) - 1) /\ i \in 1..Len(list)
    BY <1>4, <1>5
  <2>2. CASE k < i
    BY <1>1, <1>2, <1>3, <2>1, <2>2
  <2>3. CASE ~(k < i)
    <3>1. rest[k] = after[k - (i - 1)]
      BY <1>1, <1>2, <1>3, <2>1, <2>3
    <3>2. after[k - (i - 1)] = list[i + (k - (i - 1))]
      BY <1>2, <2>1, <2>3
    <3> QED BY <2>1, <2>3, <3>1, <3>2
  <2> QED BY <2>2, <2>3
<1> QED BY <1>4, <1>5, <1>6
-----------------------------------------------------------------------------
\* The types.
LEMMA TypesInit == Init => TypeOK
BY DEF Init, TypeOK, States

LEMMA Dropped ==
    ASSUME TypeOK, NEW c \in Cluster, DropCluster(c)
    PROVE  /\ listed' \in Seq(Cluster) /\ deployed' \in [Cluster -> SUBSET Blueprint]
           /\ Range(listed)' \subseteq Range(listed)
           /\ \A d \in Range(listed) : d = Head(listed) /\ d # c => listed' # <<>> /\ Head(listed') = d
<1>1. PICK i \in DOMAIN listed : listed[i] = c /\ listed' = RemoveAt(listed, i)
  BY DEF DropCluster
<1>2. PICK rest : rest = listed'
  OBVIOUS
<1>3. /\ rest \in Seq(Cluster) /\ Len(rest) = Len(listed) - 1
      /\ \A k \in DOMAIN rest : rest[k] = IF k < i THEN listed[k] ELSE listed[k + 1]
  BY <1>1, <1>2, Remaining DEF TypeOK
<1>4. deployed' \in [Cluster -> SUBSET Blueprint]
  BY DEF DropCluster, TypeOK
<1>5. \A k \in DOMAIN rest : \E j \in DOMAIN listed : rest[k] = listed[j]
  <2> SUFFICES ASSUME NEW k \in DOMAIN rest PROVE \E j \in DOMAIN listed : rest[k] = listed[j]
    OBVIOUS
  <2>1. k \in DOMAIN listed /\ k + 1 \in DOMAIN listed
    BY <1>3 DEF TypeOK
  <2> QED BY <1>3, <2>1
<1>6. Range(listed)' \subseteq Range(listed)
  BY <1>2, <1>5 DEF Range
<1>7. ASSUME NEW d \in Range(listed), d = Head(listed), d # c
      PROVE  rest # <<>> /\ Head(rest) = d
  <2>1. listed # <<>> /\ i # 1 /\ 1 \in DOMAIN rest
    BY <1>1, <1>3, <1>7 DEF Range, TypeOK
  <2>2. rest[1] = listed[1]
    BY <1>1, <1>3, <2>1 DEF TypeOK
  <2> QED BY <1>3, <1>7, <2>1, <2>2 DEF TypeOK
<1> QED BY <1>2, <1>3, <1>4, <1>6, <1>7

\* The variables keep their types in every step.
LEMMA TypesInductive == TypeOK /\ [Next]_helmVars => TypeOK'
<1> SUFFICES ASSUME TypeOK, [Next]_helmVars PROVE TypeOK'
  OBVIOUS
<1>1. AreaCluster \in Cluster \cup {NoCluster}
  BY DEF AreaCluster, TypeOK
<1> USE DEF TypeOK, States, Moves, TopologyKept, ClustersKept, DataKept, Runs, UsersOnly
<1>2. ASSUME NEW b \in Blueprint, Works(b) PROVE TypeOK'
  <2>1. CASE Create(b) BY <1>1, <2>1 DEF Create
  <2>2. CASE CreateNamespace(b) BY <2>2 DEF CreateNamespace
  <2>3. CASE InstallRelease(b) BY <2>3 DEF InstallRelease, Leaves
  <2>4. CASE RecordNamespace(b) BY <2>4 DEF RecordNamespace
  <2>5. CASE ListBlueprint(b) BY <2>5 DEF ListBlueprint
  <2>6. CASE UpdateValues(b)
    <3>1. installed' \in [Cluster -> SUBSET Blueprint]
      BY <2>6 DEF UpdateValues
    <3>2. spaces' \in [Cluster -> SUBSET Blueprint]
      BY <2>6 DEF UpdateValues
    <3>3. UNCHANGED <<listed, deployed, known, knownDb, pc, bound, left, touched>>
      BY <2>6 DEF UpdateValues
    <3> QED BY <3>1, <3>2, <3>3
  <2>7. CASE Delete(b) BY <2>7 DEF Delete
  <2>8. CASE Uninstall(b) BY <2>8 DEF Uninstall
  <2>9. CASE Unlist(b) BY <2>9 DEF Unlist
  <2>10. CASE Cleanup(b) BY <2>10 DEF Cleanup, Leaves
  <2>11. CASE ForgetByForce(b) BY <2>11 DEF ForgetByForce, Leaves
  <2> QED BY <1>2, <2>1, <2>2, <2>3, <2>4, <2>5, <2>6, <2>7, <2>8, <2>9, <2>10, <2>11 DEF Works
<1>3. ASSUME NEW c \in Cluster, AddCluster(c) \/ ReplaceCluster(c) PROVE TypeOK'
  <2>1. listed' \in Seq(Cluster)
    BY <1>3 DEF AddCluster, ReplaceCluster
  <2>2. deployed' \in [Cluster -> SUBSET Blueprint]
    BY <1>3 DEF AddCluster, ReplaceCluster
  <2>3. touched' \subseteq Cluster
    BY <1>3 DEF AddCluster, ReplaceCluster
  <2> QED BY <1>3, <2>1, <2>2, <2>3 DEF AddCluster, ReplaceCluster
<1>4. ASSUME NEW c \in Cluster, DeleteCluster(c) \/ ForceDelete(c) PROVE TypeOK'
  BY <1>4, Dropped DEF DeleteCluster, ForceDelete
<1>5. CASE Restart
  BY <1>1, <1>5 DEF Restart
<1>6. CASE UNCHANGED helmVars
  BY <1>6 DEF helmVars
<1> QED BY <1>2, <1>3, <1>4, <1>5, <1>6 DEF Next
-----------------------------------------------------------------------------
\* The lists of blueprints, as long as users neither replace nor force a cluster: only the
\* first cluster has one that is not empty, it has the blueprints that run, and none that
\* was taken off it.
Listing ==
    touched = {} =>
        /\ \A c \in Range(listed) : deployed[c] # {} => c = Head(listed)
        /\ \A b \in Blueprint : pc[b] = "running" => listed # <<>> /\ b \in deployed[Head(listed)]
        /\ \A b \in Blueprint \ left, c \in Range(listed) :
              pc[b] \in {"cleanup", "gone"} => b \notin deployed[c]

LEMMA First ==
    ASSUME TypeOK
    PROVE  /\ listed # <<>> => Head(listed) \in Range(listed) /\ Head(listed) \in Cluster
           /\ AreaCluster # NoCluster => listed # <<>> /\ AreaCluster = Head(listed)
           /\ Range(listed) \subseteq Cluster
           /\ listed = <<>> => Range(listed) = {}
           /\ \A c \in Cluster :
                 /\ Range(Append(listed, c)) = Range(listed) \cup {c}
                 /\ Head(Append(listed, c)) = IF listed = <<>> THEN c ELSE Head(listed)
                 /\ Append(listed, c) # <<>>
<1>1. listed \in Seq(Cluster)
  BY DEF TypeOK
<1>2. listed # <<>> => 1 \in DOMAIN listed /\ Head(listed) = listed[1]
  BY <1>1
<1>3. ASSUME NEW c \in Cluster PROVE Range(Append(listed, c)) = Range(listed) \cup {c}
  <2>1. \A k \in DOMAIN Append(listed, c) :
           (k \in DOMAIN listed /\ Append(listed, c)[k] = listed[k]) \/ Append(listed, c)[k] = c
    BY <1>1
  <2>2. /\ \A k \in DOMAIN listed : k \in DOMAIN Append(listed, c) /\ Append(listed, c)[k] = listed[k]
        /\ Len(listed) + 1 \in DOMAIN Append(listed, c) /\ Append(listed, c)[Len(listed) + 1] = c
    BY <1>1
  <2> QED BY <2>1, <2>2 DEF Range
<1>4. ASSUME NEW c \in Cluster
      PROVE  /\ Head(Append(listed, c)) = IF listed = <<>> THEN c ELSE Head(listed)
             /\ Append(listed, c) # <<>>
  <2>1. PICK longer : longer = Append(listed, c)
    OBVIOUS
  <2>2. longer \in Seq(Cluster) /\ Len(longer) = Len(listed) + 1
    BY <1>1, <2>1
  <2>3. longer # <<>> /\ Head(longer) = longer[1]
    BY <1>1, <2>2
  <2>4. longer[1] = IF listed = <<>> THEN c ELSE listed[1]
    BY <1>1, <2>1
  <2> QED BY <1>1, <2>1, <2>3, <2>4
<1>5. Range(listed) \subseteq Cluster /\ (listed = <<>> => Range(listed) = {})
  BY <1>1 DEF Range
<1>6. AreaCluster # NoCluster => listed # <<>> /\ AreaCluster = Head(listed)
  BY DEF AreaCluster
<1> QED BY <1>1, <1>2, <1>3, <1>4, <1>5, <1>6 DEF Range

LEMMA ListingInit == Init => Listing
BY DEF Init, Listing, Range

LEMMA ListingInductive == TypeOK /\ Listing /\ [Next]_helmVars => Listing'
<1> SUFFICES ASSUME TypeOK, Listing, [Next]_helmVars, touched' = {} PROVE Listing'
  BY DEF Listing
<1>1. touched = {}
  <2>1. touched \subseteq touched'
    BY DEF Next, Works, Create, CreateNamespace, InstallRelease, RecordNamespace, ListBlueprint,
           UpdateValues, Delete, Uninstall, Unlist, Cleanup, ForgetByForce, AddCluster,
           ReplaceCluster, DeleteCluster, ForceDelete, Restart, TopologyKept, helmVars
  <2> QED BY <2>1
<1>2. ASSUME NEW b \in Blueprint, UNCHANGED <<listed, deployed>>, left \subseteq left',
             \A a \in Blueprint \ {b} : pc'[a] = pc[a],
             pc'[b] = "running" => pc[b] = "running",
             pc'[b] \in {"cleanup", "gone"} => pc[b] \in {"cleanup", "gone"} \/ b \in left'
      PROVE  Listing'
  BY <1>1, <1>2 DEF Listing, Range
<1> USE DEF Moves, TopologyKept, ClustersKept, DataKept, Runs, UsersOnly
<1>3. ASSUME NEW b \in Blueprint, Works(b) PROVE Listing'
  <2>1. CASE Create(b) BY <1>2, <2>1 DEF Create, TypeOK
  <2>2. CASE CreateNamespace(b) BY <1>2, <2>2 DEF CreateNamespace, TypeOK
  <2>3. CASE InstallRelease(b) BY <1>2, <2>3 DEF InstallRelease, Leaves, TypeOK
  <2>4. CASE RecordNamespace(b) BY <1>2, <2>4 DEF RecordNamespace, TypeOK
  <2>5. CASE ListBlueprint(b)
    <3>1. CASE Moves(b, "list", "failed") /\ UNCHANGED deployed
      BY <1>2, <2>5, <3>1 DEF ListBlueprint, TypeOK
    <3>2. ASSUME deployed' = [deployed EXCEPT ![AreaCluster] = @ \cup {b}], AreaCluster # NoCluster,
                 pc' = [pc EXCEPT ![b] = "running"]
          PROVE  Listing'
      BY <1>1, <2>5, <3>2, First DEF ListBlueprint, Listing, TypeOK, Range
    <3> QED BY <2>5, <3>1, <3>2 DEF ListBlueprint
  <2>6. CASE UpdateValues(b) BY <1>2, <2>6 DEF UpdateValues, TypeOK
  <2>7. CASE Delete(b) BY <1>2, <2>7 DEF Delete, TypeOK
  <2>8. CASE Uninstall(b) BY <1>2, <2>8 DEF Uninstall, TypeOK
  <2>9. CASE Unlist(b)
    <3>1. CASE Moves(b, "unlist", "failed") /\ UNCHANGED deployed
      BY <1>2, <2>9, <3>1 DEF Unlist, TypeOK
    <3>2. ASSUME deployed' = [deployed EXCEPT ![AreaCluster] = @ \ {b}], AreaCluster # NoCluster,
                 pc[b] = "unlist", pc' = [pc EXCEPT ![b] = "cleanup"]
          PROVE  Listing'
      BY <1>1, <2>9, <3>2, First DEF Unlist, Listing, TypeOK, Range
    <3> QED BY <2>9, <3>1, <3>2 DEF Unlist
  <2>10. CASE Cleanup(b) BY <1>2, <2>10 DEF Cleanup, Leaves, TypeOK
  <2>11. CASE ForgetByForce(b) BY <1>2, <2>11 DEF ForgetByForce, Leaves, TypeOK
  <2> QED BY <1>3, <2>1, <2>2, <2>3, <2>4, <2>5, <2>6, <2>7, <2>8, <2>9, <2>10, <2>11 DEF Works
<1>4. ASSUME NEW c \in Cluster, AddCluster(c) PROVE Listing'
  <2>1. /\ c \notin Range(listed) /\ UNCHANGED <<pc, left>>
        /\ deployed' = [deployed EXCEPT ![c] = {}] /\ listed' = Append(listed, c)
    BY <1>4 DEF AddCluster
  <2>2. /\ Range(listed)' = Range(listed) \cup {c} /\ listed' # <<>>
        /\ Head(listed)' = IF listed = <<>> THEN c ELSE Head(listed)
    BY <2>1, First
  <2> QED BY <1>1, <2>1, <2>2, First DEF Listing, TypeOK
<1>5. ASSUME NEW c \in Cluster, ReplaceCluster(c) \/ ForceDelete(c) PROVE FALSE
  BY <1>5 DEF ReplaceCluster, ForceDelete
<1>6. ASSUME NEW c \in Cluster, DeleteCluster(c) PROVE Listing'
  <2>1. /\ deployed[c] = {} /\ UNCHANGED <<pc, left>> /\ DropCluster(c)
        /\ deployed' = [deployed EXCEPT ![c] = {}]
    BY <1>6 DEF DeleteCluster, DropCluster
  <2>2. /\ Range(listed)' \subseteq Range(listed)
        /\ \A d \in Range(listed) : d = Head(listed) /\ d # c => listed' # <<>> /\ Head(listed)' = d
    BY <2>1, Dropped
  <2>3. deployed' = deployed
    BY <2>1 DEF TypeOK
  <2> QED BY <1>1, <2>1, <2>2, <2>3, First DEF Listing, TypeOK
<1>7. CASE Restart
  <2>1. /\ UNCHANGED <<listed, deployed>> /\ left \subseteq left'
        /\ \A b \in Blueprint : /\ pc'[b] = "running" => pc[b] = "running"
                                /\ pc'[b] \in {"cleanup", "gone"} => pc[b] \in {"cleanup", "gone"}
    BY <1>7 DEF Restart, Loaded, TypeOK
  <2> QED BY <1>1, <2>1 DEF Listing, Range
<1>8. CASE UNCHANGED helmVars
  BY <1>8 DEF helmVars, Listing, Range
<1> QED BY <1>3, <1>4, <1>5, <1>6, <1>7, <1>8 DEF Next
-----------------------------------------------------------------------------
\* What a blueprint has on the clusters, unless something of it was left behind.
Tidied(b) ==
    /\ \A c \in Cluster : b \in installed[c] \cup spaces[c] => c = bound[b]
    /\ pc[b] \in {"new", "namespace", "gone"} => \A c \in Cluster : b \notin installed[c] \cup spaces[c]
    /\ pc[b] \in {"unlist", "cleanup"} => \A c \in Cluster : b \notin installed[c]
    /\ pc[b] \in {"list", "running"} => b \in known
    /\ pc[b] \in {"failed", "uninstall", "unlist", "cleanup"} =>
          b \in known \/ \A c \in Cluster : b \notin spaces[c]
Tidy == known = knownDb /\ \A b \in Blueprint \ left : Tidied(b)

LEMMA TidyInit == Init => Tidy
BY DEF Init, Tidy, Tidied

LEMMA TidyInductive == TypeOK /\ Tidy /\ [Next]_helmVars => Tidy'
<1> SUFFICES ASSUME TypeOK, Tidy, [Next]_helmVars PROVE Tidy'
  OBVIOUS
<1>1. ASSUME NEW b \in Blueprint, left' = left \cup {b} \/ (left' = left /\ (b \in left \/ Tidied(b)')),
             known' = knownDb',
             \A a \in Blueprint \ {b} : /\ pc'[a] = pc[a] /\ bound'[a] = bound[a]
                                        /\ a \in known' <=> a \in known
                                        /\ \A c \in Cluster : /\ a \in installed'[c] <=> a \in installed[c]
                                                              /\ a \in spaces'[c] <=> a \in spaces[c]
      PROVE  Tidy'
  BY <1>1 DEF Tidy, Tidied
<1> USE DEF Moves, TopologyKept, ClustersKept, DataKept, Runs, UsersOnly, Leaves
<1>2. ASSUME NEW b \in Blueprint, Works(b) PROVE Tidy'
  <2>1. b \in left \/ Tidied(b)
    BY DEF Tidy
  <2>2. CASE Create(b)
    BY <1>1, <2>1, <2>2 DEF Create, TypeOK, Tidied, Tidy
  <2>3. CASE CreateNamespace(b)
    BY <1>1, <2>1, <2>3 DEF CreateNamespace, TypeOK, Tidied, Tidy
  <2>4. CASE InstallRelease(b)
    BY <1>1, <2>1, <2>4 DEF InstallRelease, TypeOK, Tidied, Tidy
  <2>5. CASE RecordNamespace(b)
    BY <1>1, <2>1, <2>5 DEF RecordNamespace, TypeOK, Tidied, Tidy
  <2>6. CASE ListBlueprint(b)
    BY <1>1, <2>1, <2>6 DEF ListBlueprint, TypeOK, Tidied, Tidy
  <2>7. CASE UpdateValues(b)
    BY <1>1, <2>1, <2>7 DEF UpdateValues, TypeOK, Tidied, Tidy
  <2>8. CASE Delete(b)
    BY <1>1, <2>1, <2>8 DEF Delete, TypeOK, Tidied, Tidy
  <2>9. CASE Uninstall(b)
    <3>1. CASE UNCHANGED installed
      BY <1>1, <2>1, <2>9, <3>1 DEF Uninstall, TypeOK, Tidied, Tidy
    <3>2. ASSUME installed' = [installed EXCEPT ![bound[b]] = @ \ {b}],
                 pc[b] = "uninstall", pc' = [pc EXCEPT ![b] = "unlist"]
          PROVE  Tidy'
      <4>1. \A c \in Cluster : /\ b \in installed'[c] => b \in installed[c] /\ c # bound[b]
                              /\ \A a \in Blueprint \ {b} : a \in installed'[c] <=> a \in installed[c]
        BY <3>2 DEF TypeOK
      <4> QED BY <1>1, <2>1, <2>9, <3>2, <4>1 DEF Uninstall, TypeOK, Tidied, Tidy
    <3> QED BY <2>9, <3>1, <3>2 DEF Uninstall
  <2>10. CASE Unlist(b)
    BY <1>1, <2>1, <2>10 DEF Unlist, TypeOK, Tidied, Tidy
  <2>11. CASE Cleanup(b)
    <3>1. CASE UNCHANGED spaces
      BY <1>1, <2>1, <2>11, <3>1 DEF Cleanup, TypeOK, Tidied, Tidy
    <3>2. ASSUME spaces' = [spaces EXCEPT ![bound[b]] = @ \ {b}],
                 pc[b] = "cleanup", pc' = [pc EXCEPT ![b] = "gone"], left' = left
          PROVE  Tidy'
      <4>1. \A c \in Cluster : /\ b \in spaces'[c] => b \in spaces[c] /\ c # bound[b]
                              /\ \A a \in Blueprint \ {b} : a \in spaces'[c] <=> a \in spaces[c]
        BY <3>2 DEF TypeOK
      <4> QED BY <1>1, <2>1, <2>11, <3>2, <4>1 DEF Cleanup, TypeOK, Tidied, Tidy
    <3> QED BY <2>11, <3>1, <3>2 DEF Cleanup
  <2>12. CASE ForgetByForce(b)
    BY <1>1, <2>1, <2>12 DEF ForgetByForce, TypeOK, Tidied, Tidy
  <2> QED BY <1>2, <2>2, <2>3, <2>4, <2>5, <2>6, <2>7, <2>8, <2>9, <2>10, <2>11, <2>12 DEF Works
<1>3. ASSUME NEW c \in Cluster,
             AddCluster(c) \/ ReplaceCluster(c) \/ DeleteCluster(c) \/ ForceDelete(c)
      PROVE  Tidy'
  <2>1. UNCHANGED <<known, knownDb, pc, bound, installed, spaces, left>>
    BY <1>3 DEF AddCluster, ReplaceCluster, DeleteCluster, ForceDelete
  <2> QED BY <2>1 DEF Tidy, Tidied
<1>4. CASE Restart
  <2>1. /\ known' = knownDb' /\ known' = known /\ UNCHANGED <<installed, spaces>>
    BY <1>4 DEF Restart, Tidy
  <2>2. ASSUME NEW b \in Blueprint \ left' PROVE Tidied(b)'
    <3>1. b \notin left /\ (Loaded(b) => b \in known /\ bound[b] = AreaCluster)
      BY <1>4, <2>2 DEF Restart, Tidy
    <3>2. bound'[b] = bound[b]
      BY <1>4, <3>1 DEF Restart, TypeOK
    <3>3. pc'[b] = IF Loaded(b) /\ pc[b] # "running" THEN "failed" ELSE pc[b]
      BY <1>4 DEF Restart
    <3> QED BY <2>1, <3>1, <3>2, <3>3 DEF Tidy, Tidied, Loaded
  <2> QED BY <2>1, <2>2 DEF Tidy
<1>5. CASE UNCHANGED helmVars
  BY <1>5 DEF helmVars, Tidy, Tidied
<1> QED BY <1>2, <1>3, <1>4, <1>5 DEF Next
-----------------------------------------------------------------------------
LEMMA ListingAgrees == TypeOK /\ Listing => RunningIsListed /\ ListedIsThere
BY First DEF Listing, RunningIsListed, ListedIsThere, TypeOK

LEMMA TidyAgrees == Tidy => GoneIsClean
BY DEF Tidy, Tidied, GoneIsClean

\* The topology's clusters, the releases and the provider data keep their types.
THEOREM ChartTypes == Spec => []TypeOK
BY TypesInit, TypesInductive, PTL DEF Spec

\* A blueprint that runs is on the list of a cluster of the topology, so that the cluster
\* is not deleted under it: install_helm_chart and uninstall_helm_chart look the cluster
\* up again, and yet find the same one until a user replaces or forces one.
THEOREM RunningStaysListed == Spec => []RunningIsListed
<1>1. TypeOK /\ Listing => RunningIsListed
  BY ListingAgrees
<1> QED BY <1>1, TypesInit, TypesInductive, ListingInit, ListingInductive, PTL DEF Spec

\* Nor does a list keep a blueprint that is gone, which would keep the cluster for ever.
THEOREM ListsForget == Spec => []ListedIsThere
<1>1. TypeOK /\ Listing => ListedIsThere
  BY ListingAgrees
<1> QED BY <1>1, TypesInit, TypesInductive, ListingInit, ListingInductive, PTL DEF Spec

\* final_cleanup leaves no release and no namespace of a blueprint on any cluster, stops in
\* the middle of installations and deletions included, but for what left names.
THEOREM GoneStaysClean == Spec => []GoneIsClean
<1>1. Tidy => GoneIsClean
  BY TidyAgrees
<1> QED BY <1>1, TypesInit, TypesInductive, TidyInit, TidyInductive, PTL DEF Spec
=============================================================================
