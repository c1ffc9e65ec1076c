------------------------------ MODULE Simple5G ------------------------------
(***************************************************************************)
(* A simple_5g blueprint: the networks of its areas, and as its children a  *)
(* Kubernetes cluster, a UERANSIM and one 5G core for each area, whose      *)
(* charts run on that cluster and have to leave it before it goes.          *)
(***************************************************************************)
EXTENDS Naturals, Sequences, Functions

CONSTANTS Area,
          VimOf,       \* a function: the VIM of an area
          Requests,    \* the areas asked for: sequences of them
          MaxFaults    \* bound: remote steps that fail

VARIABLES phase,       \* new, creating, made, ending (its deletion was tried), gone
          areas,       \* the areas of create_config, in order
          nets, left,  \* networks made and recorded; made by a step that failed
          child,       \* none, half (its creation failed), made or gone; a core is its area
          children,    \* children_blue_ids, in the order of their registration
          coreIds,     \* areas whose state has a core_blueprint_id
          cluster,     \* the servers of the cluster: none, up or down
          uses,        \* charts of a core on it: none, registered or listed by the cluster
          job, faults

simpleVars == <<phase, areas, nets, left, child, children, coreIds, cluster, uses, job, faults>>

Child == {"k8s", "ueransim"} \cup Area
NetNames == <<"n3", "n6", "gnb", "data">>
NoJob == [op |-> "none", todo |-> <<>>, ok |-> TRUE]

Init ==
    /\ phase = "new" /\ areas = <<>> /\ nets = {} /\ left = {}
    /\ child = [c \in Child |-> "none"] /\ children = <<>> /\ coreIds = {}
    /\ cluster = "none" /\ uses = [a \in Area |-> "none"] /\ job = NoJob /\ faults = 0

Resting == job.todo = <<>>
Step == Head(job.todo)
At(name) == ~ Resting /\ Step[1] = name
Fault == faults < MaxFaults /\ faults' = faults + 1
Settled(end) == phase' = IF phase = "creating" THEN "made" ELSE end
Fail == job' = [job EXCEPT !.todo = <<>>, !.ok = FALSE] /\ Settled(phase)
Proceed ==
    /\ job' = [job EXCEPT !.todo = Tail(@)]
    /\ IF Len(job.todo) > 1 THEN UNCHANGED phase
       ELSE Settled(IF job.op = "destroy" THEN "gone" ELSE phase)
Cores(request) == [i \in DOMAIN request |-> <<"core", request[i]>>]
NetsOf(request) ==
    [i \in 1 .. 4 * Len(request) |-> <<"net", <<VimOf[request[1 + ((i - 1) \div 4)]],
                                                NetNames[1 + ((i - 1) % 4)]>> >>]

Begin(op, todo) ==
    /\ Resting /\ job' = [op |-> op, todo |-> todo, ok |-> TRUE]
    /\ UNCHANGED <<nets, left, child, children, coreIds, cluster, uses, faults>>
\* force: pods are kept in the area of their blueprint, by a webhook of the cluster.
Create(request, force) ==
    /\ phase = "new" /\ phase' = "creating" /\ areas' = request
    /\ Begin("create", NetsOf(request) \o <<<<"k8s">>>> \o
                       (IF force THEN <<<<"webhook">>>> ELSE <<>>) \o
                       <<<<"ueransim">>>> \o Cores(request))
ChildrenOnly ==     \* mutant: the children go in the order they were made
    /\ phase \in {"made", "ending"} /\ phase' = "ending" /\ UNCHANGED areas
    /\ Begin("destroy", <<<<"children">>, <<"others">>, <<"cleanup">>>>)

\* destroy: first the cores the state knows, then the children, see below.
Destroy ==
    /\ phase \in {"made", "ending"} /\ phase' = "ending" /\ UNCHANGED areas
    /\ Begin("destroy", SelectSeq(Cores(areas), LAMBDA s : s[2] \in coreIds) \o
                        <<<<"children">>, <<"others">>, <<"cleanup">>>>)
-----------------------------------------------------------------------------
ChildrenKept == UNCHANGED <<child, children, coreIds, cluster, uses>>

(* _create_networks: one of each on every VIM.                              *)
CreateNet ==
    LET net == Step[2]
    IN  /\ At("net") /\ UNCHANGED areas /\ ChildrenKept
        /\ \/ /\ Proceed /\ nets' = nets \cup {net} /\ UNCHANGED <<left, faults>>
           \/ /\ net \notin nets /\ Fail /\ Fault /\ UNCHANGED nets
              /\ left' \in {left, left \cup {net}}

(* A child whose creation fails is not registered; the blueprint manager    *)
(* has it with its parent.                                                  *)
Registered(c) == child' = [child EXCEPT ![c] = "made"] /\ children' = Append(children, c)
Abandoned(c) == child' = [child EXCEPT ![c] = "half"] /\ UNCHANGED <<children, coreIds>>
WorldKept == UNCHANGED <<areas, nets, left>>

CreateK8s ==
    /\ At("k8s") /\ WorldKept /\ UNCHANGED uses
    /\ \/ Proceed /\ Registered("k8s") /\ cluster' = "up" /\ UNCHANGED <<coreIds, faults>>
       \/ Fail /\ Fault /\ Abandoned("k8s") /\ UNCHANGED cluster
InstallWebhook ==
    /\ At("webhook") /\ WorldKept /\ ChildrenKept
    /\ \/ Proceed /\ UNCHANGED faults
       \/ Fail /\ Fault
CreateUeransim ==
    /\ At("ueransim") /\ WorldKept /\ UNCHANGED <<cluster, uses>>
    /\ \/ Proceed /\ Registered("ueransim") /\ UNCHANGED <<coreIds, faults>>
       \/ Fail /\ Fault /\ Abandoned("ueransim")
CreateCore ==
    LET a == Step[2]
    IN  /\ At("core") /\ job.op = "create" /\ WorldKept /\ UNCHANGED cluster
        /\ \/ /\ Proceed /\ Registered(a) /\ coreIds' = coreIds \cup {a} /\ UNCHANGED faults
              /\ uses' = [uses EXCEPT ![a] = "listed"]
           \/ /\ Fail /\ Fault /\ Abandoned(a)
              /\ \E u \in {"none", "registered", "listed"} : uses' = [uses EXCEPT ![a] = u]
-----------------------------------------------------------------------------
(* The deletion of a child.  The charts of a core are uninstalled from a    *)
(* cluster that has to answer; the servers of a cluster are destroyed, and  *)
(* then the topology refuses to lose it while it lists a chart.             *)
Blocked(c) == c \in Area /\ uses[c] # "none" /\ cluster = "down"
Listing == \E a \in Area : uses[a] = "listed"
Gone(c) ==
    /\ child' = [child EXCEPT ![c] = "gone"]
    /\ uses' = [a \in Area |-> IF a = c THEN "none" ELSE uses[a]]
    /\ cluster' = IF c = "k8s" /\ cluster = "up" THEN "down" ELSE cluster
Deletable(c) == child[c] \in {"half", "made"} /\ ~ Blocked(c) /\ ~ (c = "k8s" /\ Listing)
NotDeleted(c) ==
    /\ Fail /\ UNCHANGED <<child, children>>
    /\ \/ /\ child[c] \notin {"half", "made"} \/ Blocked(c)
          /\ UNCHANGED <<cluster, uses, faults>>
       \/ /\ child[c] \in {"half", "made"} /\ c = "k8s" /\ Listing /\ UNCHANGED <<uses, faults>>
          /\ cluster' = IF cluster = "up" THEN "down" ELSE cluster
       \/ /\ Deletable(c) /\ Fault
          /\ uses' \in {uses, [a \in Area |-> IF a = c THEN "none" ELSE uses[a]]}
          /\ cluster' \in {cluster} \cup (IF c = "k8s" /\ cluster = "up" THEN {"down"} ELSE {})
Deregistered(c) == children' = SelectSeq(children, LAMBDA x : x # c)

(* The core's id stays in the state of its area.                            *)
DestroyCore ==
    LET a == Step[2]
    IN  /\ At("core") /\ job.op = "destroy" /\ WorldKept /\ UNCHANGED coreIds
        /\ \/ Deletable(a) /\ Gone(a) /\ Deregistered(a) /\ Proceed /\ UNCHANGED faults
           \/ NotDeleted(a)
DestroyChild ==
    LET c == Head(children)
    IN  /\ At("children") /\ children # <<>> /\ WorldKept /\ UNCHANGED coreIds
        /\ \/ Deletable(c) /\ Gone(c) /\ Deregistered(c) /\ UNCHANGED <<phase, job, faults>>
           \/ NotDeleted(c)
ChildrenDone ==
    /\ At("children") /\ children = <<>> /\ Proceed /\ WorldKept /\ ChildrenKept /\ UNCHANGED faults

(* Those of the manager that were not registered go last.                   *)
Others == {c \in Child \ Range(children) : child[c] = "half"}
DestroyOther(c) ==
    /\ At("others") /\ c \in Others /\ WorldKept /\ UNCHANGED coreIds
    /\ \/ Deletable(c) /\ Gone(c) /\ UNCHANGED <<children, phase, job, faults>>
       \/ NotDeleted(c)
OthersDone ==
    /\ At("others") /\ Others = {} /\ Proceed /\ WorldKept /\ ChildrenKept /\ UNCHANGED faults
Cleanup ==
    /\ At("cleanup") /\ UNCHANGED <<areas, left>> /\ ChildrenKept
    /\ \/ Proceed /\ nets' = {} /\ UNCHANGED faults
       \/ Fail /\ Fault /\ nets' \in {nets, {}}

\* A user deletes a child as any other blueprint.
UserDeletes(c) ==
    /\ Resting /\ c # "k8s" /\ Deletable(c) /\ Gone(c)
    /\ WorldKept /\ UNCHANGED <<phase, children, coreIds, job, faults>>

Steps ==
    \/ CreateNet \/ CreateK8s \/ InstallWebhook \/ CreateUeransim \/ CreateCore
    \/ DestroyCore \/ DestroyChild \/ ChildrenDone \/ OthersDone \/ Cleanup
    \/ \E c \in Child : DestroyOther(c)
Next ==
    \/ \E request \in Requests, force \in BOOLEAN : Create(request, force)
    \/ Destroy \/ Steps \/ \E c \in Child : UserDeletes(c)
Spec == Init /\ [][Next]_simpleVars
-----------------------------------------------------------------------------
\* The servers of the cluster go only after the charts of the cores that were
\* created, since nothing can uninstall them afterwards; a core whose creation
\* failed is deleted too late, and may be left on a cluster without servers.
CoresBeforeCluster ==
    cluster = "down" => \A a \in Area : uses[a] # "none" => child[a] = "half"

\* After a creation that succeeds every area has its networks and its core.
MadeTogether == phase = "made" /\ job.ok =>
    /\ \A a \in Range(areas) : /\ \A n \in Range(NetNames) : <<VimOf[a], n>> \in nets
                               /\ child[a] # "none" /\ a \in coreIds
    /\ cluster = "up" /\ child["ueransim"] # "none"

\* A blueprint that is deleted has left no child and no network, but for one
\* made by a step that failed.
GoneIsClean == phase = "gone" => nets = {} /\ \A c \in Child : child[c] \in {"none", "gone"}

TypeOK ==
    /\ phase \in {"new", "creating", "made", "ending", "gone"}
    /\ areas \in Seq(Area) /\ children \in Seq(Child) /\ coreIds \subseteq Area
    /\ child \in [Child -> {"none", "half", "made", "gone"}] /\ cluster \in {"none", "up", "down"}
    /\ uses \in [Area -> {"none", "registered", "listed"}] /\ faults \in 0 .. MaxFaults
=============================================================================
