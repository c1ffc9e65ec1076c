-------------------------------- MODULE Upf --------------------------------
(***************************************************************************)
(* A UPF blueprint and the router blueprint that is its child.  SD-Core     *)
(* runs one machine (or chart) per data network, OpenAirInterface and       *)
(* Free5GC run one for all of them.  A slice is the set of its data         *)
(* networks; the N6 network of the charts is a Multus network.              *)
(***************************************************************************)
EXTENDS Naturals, Sequences, Functions

CONSTANTS Kinds,       \* implementations: sdcore, oai, free5gc, sdcore_k8s, chart
          Dnn,
          Configs,     \* the configurations asked for: sets of slices
          MaxUpdates,  \* bound: updates
          MaxFaults    \* bound: remote steps that fail

VARIABLES kind, phase,
          config,      \* current_config.slices
          job,         \* the call in progress, or the last one
          machines,    \* every machine or chart made, in order; tried: to remove it, and failed
          deployed,    \* currently_deployed_dnns: the machine of a network, or 0
          list,        \* upf_list: a machine, the slices it serves, whether its gNB address is set
          shared,      \* machines whose entry in list and in deployed are one object
          router,      \* none, own, external, or gone
          listed, hop, \* next hop of a network: in the router's document, on the router
          updates, faults

upfVars == <<kind, phase, config, job, machines, deployed, list, shared,
             router, listed, hop, updates, faults>>

PerDnn == kind \in {"sdcore", "sdcore_k8s"}
OnK8s == kind \in {"sdcore_k8s", "chart"}
Asked == UNION config
DeployedDnns == {d \in Dnn : deployed[d] # 0}
Machine(there, runs) == [there |-> there, runs |-> runs, registered |-> TRUE,
                        kept |-> FALSE, tried |-> FALSE, gnb |-> FALSE]
Entry(m, slices) == [machine |-> m, serves |-> slices, gnb |-> FALSE]
Kept == {m \in DOMAIN machines : machines[m].kept}   \* vm_resources, helm_chart_resources
Nowhere == [d \in Dnn |-> 0]
NoJob == [op |-> "none", todo |-> <<>>, list |-> <<>>, core |-> TRUE, ok |-> TRUE]

Init ==
    /\ kind \in Kinds /\ phase = "new" /\ config = {} /\ job = NoJob
    /\ machines = <<>> /\ deployed = Nowhere /\ list = <<>> /\ shared = {}
    /\ router = "none" /\ listed = Nowhere /\ hop = Nowhere
    /\ updates = 0 /\ faults = 0

Resting == job.todo = <<>>
At(step) == ~ Resting /\ Head(job.todo) = step
Fault == faults < MaxFaults /\ faults' = faults + 1
RouterKept == UNCHANGED <<router, listed, hop>>
MachinesKept == UNCHANGED <<machines, deployed, list, shared>>

Proceed ==
    /\ job' = [job EXCEPT !.todo = Tail(@)]
    /\ phase' = IF Len(job.todo) > 1 THEN phase
                ELSE IF job.op = "delete" THEN "gone" ELSE "made"
Fail == job' = [job EXCEPT !.todo = <<>>, !.ok = FALSE] /\ phase' = "made"

(* create and update of the generic UPF with the steps each kind overrides. *)
Script(op) ==
    CASE op = "create" /\ OnK8s -> IF PerDnn THEN <<"router", "machines">>
                                   ELSE <<"router", "boot", "values", "configure">>
      [] op = "create" /\ ~ OnK8s -> IF PerDnn THEN <<"router", "machines", "routes">>
                                     ELSE <<"router", "boot", "configure", "routes">>
      [] op = "update" /\ OnK8s -> IF PerDnn THEN <<"machines">> ELSE <<"values", "configure">>
      [] op = "update" /\ ~ OnK8s -> IF PerDnn THEN <<"routes", "machines">>
                                     ELSE <<"routes", "configure">>
      [] op = "delete" -> <<"children", "destroy">>

Begin(op, slices, core) ==
    /\ Resting /\ config' = slices
    /\ job' = [op |-> op, todo |-> Script(op), list |-> list, core |-> core, ok |-> TRUE]
    /\ UNCHANGED <<kind, faults>> /\ MachinesKept /\ RouterKept

\* A core that is not deployed yet gives no NRF and SMF, which the UPF of OAI needs.
CoreKnown == IF kind = "oai" THEN BOOLEAN ELSE {TRUE}

Create(slices, core) ==
    phase = "new" /\ phase' = "creating" /\ Begin("create", slices, core) /\ UNCHANGED updates
Update(slices, core) ==
    /\ phase = "made" /\ updates < MaxUpdates /\ updates' = updates + 1 /\ UNCHANGED phase
    /\ Begin("update", slices, core)
Delete == phase = "made" /\ UNCHANGED <<phase, updates>> /\ Begin("delete", config, TRUE)
-----------------------------------------------------------------------------
(* update_router_deployment: the router given with the request, or a child. *)
Given == {"own", "external"}
DeployRouter(given) ==
    /\ At("router") /\ MachinesKept /\ UNCHANGED <<kind, config, updates, listed, hop>>
    /\ \/ Proceed /\ router' = given /\ UNCHANGED faults
       \/ given = "own" /\ Fail /\ Fault /\ UNCHANGED router

(* Every route is a call of the router, which adds it to those it has and   *)
(* is configured with all of them; the last route of a network wins.        *)
Later(hops, r) == [d \in Dnn |-> IF r[d] # 0 THEN r[d] ELSE hops[d]]
Hops(entries) ==
    [d \in Dnn |-> LET serve == {i \in DOMAIN entries : d \in UNION entries[i].serves}
                   IN  IF serve = {} THEN 0
                       ELSE entries[CHOOSE i \in serve : \A j \in serve : j <= i].machine]
Partly(entries) ==
    {Hops(Append(SubSeq(entries, 1, i - 1), [entries[i] EXCEPT !.serves = {ds}])) :
        i \in DOMAIN entries, ds \in SUBSET UNION {UNION entries[j].serves : j \in DOMAIN entries}}

AddRoutes(entries) ==
    LET r == Hops(entries)
    IN  /\ MachinesKept /\ UNCHANGED <<kind, config, updates, router>>
        /\ \/ /\ router = "own" \/ r = Nowhere \/ router = "external"
              /\ Proceed /\ UNCHANGED faults
              /\ listed' = IF router = "own" THEN Later(listed, r) ELSE listed
              /\ hop' = IF router = "own" /\ r # Nowhere THEN Later(listed, r) ELSE hop
           \/ /\ router = "gone" /\ r # Nowhere /\ Fail /\ UNCHANGED <<faults, listed, hop>>
           \/ /\ router = "own" /\ r # Nowhere /\ Fail /\ Fault
              /\ \E done \in Partly(entries) : /\ listed' = Later(listed, done)
                                               /\ hop' \in {hop, Later(listed, done)}

\* Without a router to ask for its addresses, the update of a machine ends here.
UpdateRoutes ==
    /\ At("routes")
    /\ IF router = "none" THEN /\ Fail /\ MachinesKept /\ RouterKept
                               /\ UNCHANGED <<kind, config, updates, faults>>
       ELSE AddRoutes(list)

\* The values of a chart, whose routes are those of the new configuration.
UpdateValues ==
    /\ At("values")
    /\ IF Kept = {} THEN /\ Fail /\ MachinesKept /\ RouterKept
                         /\ UNCHANGED <<kind, config, updates, faults>>
       ELSE AddRoutes(<<Entry(CHOOSE m \in Kept : TRUE, config)>>)
-----------------------------------------------------------------------------
(* The one machine of OAI and Free5GC is registered, made and kept; a chart *)
(* is kept before it is installed.                                          *)
Boot ==
    /\ At("boot") /\ UNCHANGED <<kind, config, updates, deployed, list, shared>> /\ RouterKept
    /\ \/ /\ Proceed /\ UNCHANGED faults
          /\ machines' = Append(machines, [Machine(~ OnK8s, {}) EXCEPT !.kept = TRUE])
       \/ /\ ~ OnK8s /\ Fail /\ Fault
          /\ \E there \in BOOLEAN : machines' = Append(machines, Machine(there, {}))

(* It is configured with every network; what it serves is told to the core, *)
(* by Free5GC's machine once, at its creation.                              *)
Told(m) == <<Entry(m, config)>>
Configure ==
    LET m == CHOOSE x \in Kept : TRUE
        new == [machines EXCEPT ![m].there = TRUE, ![m].runs = Asked]
        possible == Kept # {} /\ (OnK8s \/ machines[m].there \/ ~ job.core)
    IN  /\ At("configure") /\ UNCHANGED <<kind, config, updates, deployed, shared>> /\ RouterKept
        /\ \/ /\ ~ possible /\ Fail /\ UNCHANGED <<machines, list, faults>>
           \/ /\ possible /\ Proceed /\ UNCHANGED faults
              /\ machines' = IF job.core THEN new ELSE machines
              /\ list' = IF kind = "free5gc" /\ job.op = "update" THEN list ELSE Told(m)
           \/ /\ possible /\ job.core /\ Fail /\ Fault
              /\ machines' \in {machines, new} /\ UNCHANGED list

(* update_deployments of SD-Core: machines for networks that have none.  A  *)
(* chart needs a namespace that is not there yet, and addresses of the      *)
(* router that an update does not set.                                      *)
SlicesFor(d) == {s \in config : d \in s}
Refused == OnK8s /\ (job.op = "update" \/ machines # <<>>)
Deploy(d) ==
    LET m == Len(machines) + 1
        Made(there, runs) == Append(machines, [Machine(there, runs) EXCEPT !.kept = OnK8s])
        routed == IF OnK8s /\ router = "own" THEN [listed EXCEPT ![d] = m] ELSE listed
        routedHop == IF OnK8s /\ router = "own" THEN routed ELSE hop
    IN  /\ At("machines") /\ d \in Asked \ DeployedDnns
        /\ UNCHANGED <<kind, config, updates, router>>
        /\ \/ /\ ~ Refused /\ UNCHANGED <<job, phase, faults>>
              /\ machines' = [Made(TRUE, {d}) EXCEPT ![m].kept = TRUE]
              /\ deployed' = [deployed EXCEPT ![d] = m]
              /\ list' = Append(list, Entry(m, SlicesFor(d))) /\ shared' = shared \cup {m}
              /\ listed' = routed /\ hop' = routedHop
           \/ /\ ~ Refused /\ Fail /\ Fault /\ UNCHANGED <<deployed, list, shared>>
              /\ \E there \in BOOLEAN : machines' = Made(there, {})
              /\ listed' \in {listed, routed}
              /\ hop' \in {hop} \cup (IF listed' = routed THEN {routedHop} ELSE {})
           \/ /\ Refused /\ Fail /\ UNCHANGED <<deployed, list, shared, faults>>
              /\ machines' = Made(FALSE, {})
              /\ IF job.op = "update" THEN UNCHANGED <<listed, hop>>
                 ELSE listed' = routed /\ hop' = routedHop

(* Those of networks that are no longer asked for go, without their routes. *)
(* The entry to remove from upf_list is one that equals the other record.   *)
Removed(m) == [machines EXCEPT ![m].there = FALSE, ![m].registered = FALSE, ![m].kept = OnK8s]
Undeploy(d) ==
    LET m == deployed[d]
        entry == CHOOSE e \in Range(list) : e.machine = m
    IN  /\ At("machines") /\ Asked \subseteq DeployedDnns /\ d \in DeployedDnns \ Asked
        /\ UNCHANGED <<kind, config, updates, shared>> /\ RouterKept
        /\ \/ /\ machines[m].kept /\ entry.gnb = machines[m].gnb
              /\ UNCHANGED <<job, phase, faults>> /\ machines' = Removed(m)
              /\ deployed' = [deployed EXCEPT ![d] = 0]
              /\ list' = SelectSeq(list, LAMBDA e : e.machine # m)
           \/ /\ machines[m].kept /\ entry.gnb # machines[m].gnb
              /\ Fail /\ UNCHANGED <<deployed, list, faults>>
              /\ machines' = [Removed(m) EXCEPT ![m].tried = TRUE]
           \/ ~ machines[m].kept /\ Fail /\ UNCHANGED <<machines, deployed, list, faults>>
           \/ /\ machines[m].kept /\ Fail /\ Fault /\ UNCHANGED <<deployed, list>>
              /\ \E there \in BOOLEAN :
                    machines' = [machines EXCEPT ![m].there = there, ![m].tried = TRUE]

\* At the end the gNB address of the router is set, in the objects of the list.
MachinesDone ==
    /\ At("machines") /\ Asked = DeployedDnns /\ Proceed
    /\ list' = [i \in DOMAIN list |-> [list[i] EXCEPT !.gnb = TRUE]]
    /\ machines' = [m \in DOMAIN machines |-> [machines[m] EXCEPT !.gnb = @ \/ m \in shared]]
    /\ UNCHANGED <<kind, config, deployed, shared, updates, faults>> /\ RouterKept

\* A blueprint loaded from the database has two objects where it had one.
Restart ==
    /\ Resting /\ phase = "made" /\ shared # {} /\ shared' = {}
    /\ UNCHANGED <<kind, phase, config, job, machines, deployed, list, updates, faults>>
    /\ RouterKept
-----------------------------------------------------------------------------
(* destroy: the router goes first, then everything that is registered.      *)
DestroyRouter ==
    /\ At("children") /\ UNCHANGED <<kind, config, updates, listed, hop>> /\ MachinesKept
    /\ \/ Proceed /\ router' = (IF router = "own" THEN "gone" ELSE router) /\ UNCHANGED faults
       \/ router = "own" /\ Fail /\ Fault /\ UNCHANGED router

DestroyMachines ==
    LET Without(gone) == [m \in DOMAIN machines |->
                            [machines[m] EXCEPT !.there = @ /\ m \notin gone, !.tried = TRUE]]
        mine == {m \in DOMAIN machines : machines[m].registered}
    IN  /\ At("destroy") /\ UNCHANGED <<kind, config, updates, deployed, list, shared>> /\ RouterKept
        /\ \/ Proceed /\ machines' = Without(mine) /\ UNCHANGED faults
           \/ /\ mine # {} /\ Fail /\ Fault
              /\ \E some \in SUBSET mine : machines' = Without(some)

Steps ==
    \/ \E given \in Given : DeployRouter(given)
    \/ UpdateRoutes \/ UpdateValues \/ Boot \/ Configure
    \/ \E d \in Dnn : Deploy(d) \/ Undeploy(d)
    \/ MachinesDone \/ DestroyRouter \/ DestroyMachines
Next ==
    \/ \E slices \in Configs, core \in CoreKnown : Create(slices, core) \/ Update(slices, core)
    \/ Delete \/ Steps \/ Restart
Spec == Init /\ [][Next]_upfVars
-----------------------------------------------------------------------------
\* A machine or chart that exists is registered, or the deletion of the
\* blueprint would leave it: what update_deployments makes and forgets.
InSight == \A m \in DOMAIN machines : machines[m].there => machines[m].registered

\* One whose removal was tried in vain may be gone, and counts as there.
IsThere(m) == machines[m].there \/ machines[m].tried
Succeeded == Resting /\ job.ok /\ job.op \in {"create", "update"}

\* After a call that succeeds every network asked for is served by a machine
\* that is there and configured for it, and no other network has a machine.
NetworksServed == Succeeded /\ job.core =>
    IF PerDnn
    THEN /\ DeployedDnns = Asked
         /\ \A d \in Asked : machines[deployed[d]].runs = {d} /\ IsThere(deployed[d])
         /\ \A d, e \in Asked : deployed[d] = deployed[e] => d = e
    ELSE \A m \in Kept : machines[m].runs = Asked /\ IsThere(m)

\* What the core is told are machines that exist, and each serves a network
\* it is told to serve.
ToldExists == Succeeded =>
    /\ \A i \in DOMAIN list : IsThere(list[i].machine) \/ ~ job.core
    /\ PerDnn => {list[i].machine : i \in DOMAIN list} = {deployed[d] : d \in DeployedDnns}

\* The router sends a network to the machine that serves it, if that was told
\* before the update began and no slice has two networks.
Single == \A i \in DOMAIN job.list : \A s \in job.list[i].serves : s = {} \/ \E d \in Dnn : s = {d}
Before == IF job.op = "create" \/ kind = "chart" THEN Asked
          ELSE UNION {UNION job.list[i].serves : i \in DOMAIN job.list}
Routed == Succeeded /\ router = "own" /\ (PerDnn => Single /\ \A s \in config : \E d \in Dnn : s \subseteq {d}) =>
    \A d \in Asked \cap Before :
        hop[d] = (IF PerDnn THEN deployed[d] ELSE CHOOSE m \in Kept : TRUE)

\* A blueprint that is deleted has left neither machine nor router.
GoneIsClean == phase = "gone" => router # "own" /\ \A m \in DOMAIN machines : ~ machines[m].there

TypeOK ==
    /\ kind \in Kinds /\ phase \in {"new", "creating", "made", "gone"}
    /\ config \subseteq SUBSET Dnn /\ updates \in 0 .. MaxUpdates /\ faults \in 0 .. MaxFaults
    /\ \A d \in Dnn : {deployed[d], listed[d], hop[d]} \subseteq 0 .. Len(machines)
    /\ \A m \in DOMAIN machines : machines[m].runs \subseteq Dnn
    /\ \A i \in DOMAIN list : list[i].machine \in DOMAIN machines /\ list[i].serves \subseteq SUBSET Dnn
    /\ shared \subseteq DOMAIN machines /\ router \in {"none", "own", "external", "gone"}
=============================================================================
