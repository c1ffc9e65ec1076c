----------------------------- MODULE K8sCluster -----------------------------
(***************************************************************************)
(* The blueprint that deploys a Kubernetes cluster on virtual machines     *)
(* (nfvcl/blueprints_ng/modules/k8s/k8s_blueprint.py).  One operation runs *)
(* at a time, under the lock of the blueprint; each call of the provider   *)
(* or of the cluster may fail, which ends the operation and leaves what it *)
(* did.  A worker is its number, from which the name of its machine is     *)
(* made.  Areas, networks, flavours and plugins only pass through.         *)
(***************************************************************************)
EXTENDS Naturals, FiniteSets, SequencesExt

CONSTANTS Number,       \* worker numbers, 0 .. 17 in the code
          MaxWorkers,   \* workers of one request
          MaxCalls, MaxFaults, MaxStops

VARIABLES st,       \* the state of the blueprint
          db,       \* as it was last saved
          made,     \* made[n]: complete servers on the VIM with worker n's name
          half,     \* half[n]: servers with that name whose creation failed
          nodes,    \* the workers the cluster has as nodes
          listed,   \* the topology has the cluster
          used,     \* other blueprints are deployed on the cluster
          op,       \* the operation that runs
          calls, faults, stops
vars == <<st, db, made, half, nodes, listed, used, op, calls, faults, stops>>

Idle == [kind |-> "none", left |-> <<>>, servers |-> <<>>]
\* The workers, those created, the configurators, and those still to be executed.
NewState == [master |-> "none", numbers |-> {}, workers |-> {}, created |-> {},
             configurators |-> {}, toExec |-> <<>>, onboarded |-> FALSE]
Init ==
    /\ st = NewState /\ db = NewState
    /\ made = [n \in Number |-> 0] /\ half = [n \in Number |-> 0]
    /\ nodes = {} /\ listed = FALSE /\ used = FALSE
    /\ op = Idle /\ calls = 0 /\ faults = 0 /\ stops = 0

Vim == <<made, half>>
OnCluster == <<nodes, listed, used>>
Servers(n) == made[n] + half[n]
Start(kind, left) ==
    /\ op.kind = "none" /\ calls < MaxCalls
    /\ calls' = calls + 1
    /\ op' = [kind |-> kind, left |-> left, servers |-> left]
Fine == UNCHANGED <<db, calls, faults, stops>>
Continue(kind, left) == op' = [op EXCEPT !.kind = kind, !.left = left] /\ Fine
Advance == op' = [op EXCEPT !.left = Tail(@)] /\ Fine
\* The manager saves the blueprint when an operation ends, also by an exception.
Save(state) == st' = state /\ db' = state /\ op' = Idle
Return(state) == Save(state) /\ UNCHANGED <<calls, faults, stops>>
Raise(state) == /\ faults < MaxFaults /\ faults' = faults + 1
                /\ Save(state) /\ UNCHANGED <<calls, stops>>
-----------------------------------------------------------------------------
\* reserve_worker_number: the first number that is free.
FirstFree(state, n) ==
    n \in Number \ state.numbers /\ \A k \in Number \ state.numbers : n <= k

\* A mutant of Forget: the number is free again although nobody held it.
ForgetFreeing(state, n) ==
    [state EXCEPT !.workers = @ \ {n}, !.created = @ \ {n}, !.numbers = @ \ {n},
                  !.configurators = @ \ {n},
                  !.toExec = SelectSeq(@, LAMBDA k : k # n)]

\* remove_worker: the number is released with the configurator that holds it.
\* A worker that was not completely created has none.
Forget(state, n) ==
    [state EXCEPT !.workers = @ \ {n}, !.created = @ \ {n},
                  !.numbers = IF n \in state.configurators THEN @ \ {n} ELSE @,
                  !.configurators = @ \ {n},
                  !.toExec = SelectSeq(@, LAMBDA k : k # n)]

\* create: the master, the workers of each area, day 0, the rest.
Create(k) ==
    /\ db = NewState /\ Start("create", [i \in 1..k |-> i])
    /\ db' = [st EXCEPT !.master = "absent"] /\ st' = [st EXCEPT !.master = "named"]
    /\ UNCHANGED <<Vim, OnCluster, faults, stops>>
DeployMaster ==
    /\ op.kind = "create"
    /\ \/ st' = [st EXCEPT !.master = "created"] /\ Continue("deploy-all", op.left)
       \/ Raise(st)
    /\ UNCHANGED <<Vim, OnCluster>>

\* add_worker.
AddWorkers(k) ==
    /\ db # NewState /\ Start("deploy", [i \in 1..k |-> i])
    /\ UNCHANGED <<st, db, Vim, OnCluster, faults, stops>>

\* deploy_area, one worker: a number, the machine, its configurator.  create_vm
\* fails before or after the server exists.
Deploying == op.kind \in {"deploy", "deploy-all"}
DeployWorker(n) ==
    LET known == [st EXCEPT !.numbers = @ \cup {n}, !.workers = @ \cup {n}] IN
    /\ Deploying /\ op.left # <<>> /\ FirstFree(st, n)
    /\ \/ /\ st' = [known EXCEPT !.created = @ \cup {n}, !.configurators = @ \cup {n},
                                 !.toExec = Append(@, n)]
          /\ made' = [made EXCEPT ![n] = @ + 1]
          /\ Advance /\ UNCHANGED half
       \/ /\ Raise(known)
          /\ half' \in {half, [half EXCEPT ![n] = @ + 1]}
          /\ UNCHANGED made
    /\ UNCHANGED OnCluster
NumbersRunOut ==
    /\ Deploying /\ op.left # <<>> /\ st.numbers = Number
    /\ Return(st) /\ UNCHANGED <<Vim, OnCluster>>
AreaDone ==
    /\ Deploying /\ op.left = <<>>
    /\ IF op.kind = "deploy" THEN Continue("join", st.toExec) ELSE Continue("configure", <<>>)
    /\ UNCHANGED <<st, Vim, OnCluster>>

\* day0conf: the master on creation, then every worker still to be executed;
\* the list is emptied after the last one.  The playbook leaves a worker that
\* has joined as it is; one that has no command to join with does not join.
ConfigureMaster ==
    /\ op.kind = "configure"
    /\ \/ st' = [st EXCEPT !.master = "configured"] /\ Continue("join-all", st.toExec)
       \/ Raise(st)
    /\ UNCHANGED <<Vim, OnCluster>>
Joining == op.kind \in {"join", "join-all"}
JoinWorker ==
    /\ Joining /\ op.left # <<>>
    /\ \/ /\ made[Head(op.left)] > 0
          /\ nodes' = IF st.master = "configured" THEN nodes \cup {Head(op.left)} ELSE nodes
          /\ Advance /\ UNCHANGED st
       \/ made[Head(op.left)] = 0 /\ Return(st) /\ UNCHANGED nodes
       \/ Raise(st) /\ UNCHANGED nodes
    /\ UNCHANGED <<Vim, listed, used>>
Day0Done ==
    LET done == [st EXCEPT !.toExec = <<>>] IN
    /\ Joining /\ op.left = <<>>
    /\ IF op.kind = "join" THEN Return(done) ELSE st' = done /\ Continue("onboard", <<>>)
    /\ UNCHANGED <<Vim, OnCluster>>

\* The end of create: DNS, labels and plugins, which may fail, then the topology;
\* the blueprint is saved after it.
Onboard ==
    /\ op.kind = "onboard"
    /\ \/ listed' = TRUE /\ st' = [st EXCEPT !.onboarded = TRUE] /\ Continue("created", <<>>)
       \/ Raise(st) /\ UNCHANGED listed
    /\ UNCHANGED <<Vim, nodes, used>>
Created == op.kind = "created" /\ Return(st) /\ UNCHANGED <<Vim, OnCluster>>
-----------------------------------------------------------------------------
\* del_workers, up to the playbook.  How many workers there are is looked at
\* before the request is; a worker that was never completely created is taken
\* from the state at once, and nobody deletes its server.
TooFew(state) == Cardinality(state.workers) <= 1
Unmade(state, names) == {n \in state.workers \ state.created : n \in Range(names)}
DelWorkers(names) ==
    /\ st.master \notin {"none", "absent"} /\ ~TooFew(st)
    /\ Start("drain", SelectSeq(names, LAMBDA n : n \in st.created))
    /\ st' = FoldSet(LAMBDA n, state : Forget(state, n), st, Unmade(st, names))
    /\ UNCHANGED <<db, Vim, OnCluster, faults, stops>>

\* The playbook on the master drains and deletes the nodes one after the other;
\* one that the cluster does not have makes it fail.
DrainNode ==
    /\ op.kind = "drain" /\ op.left # <<>>
    /\ \/ /\ Head(op.left) \in nodes /\ nodes' = nodes \ {Head(op.left)}
          /\ Advance /\ UNCHANGED st
       \/ Head(op.left) \notin nodes /\ Return(st) /\ UNCHANGED nodes
       \/ Raise(st) /\ UNCHANGED nodes
    /\ UNCHANGED <<Vim, listed, used>>
Drained ==
    /\ op.kind = "drain" /\ op.left = <<>>
    /\ Continue("remove", op.servers) /\ UNCHANGED <<st, Vim, OnCluster>>

\* destroy_vm: the servers with that name are gone, or it fails.
Gone(n) == made' = [made EXCEPT ![n] = 0] /\ half' = [half EXCEPT ![n] = 0]
RemoveWorker ==
    /\ op.kind = "remove" /\ op.left # <<>>
    /\ \/ Gone(Head(op.left)) /\ st' = Forget(st, Head(op.left)) /\ Advance
       \/ Raise(st) /\ UNCHANGED Vim
       \/ Raise(st) /\ Gone(Head(op.left))
    /\ UNCHANGED OnCluster
Removed == op.kind = "remove" /\ op.left = <<>> /\ Return(st) /\ UNCHANGED <<Vim, OnCluster>>

\* destroy: the machines the state registers, then the cluster of the topology,
\* which refuses while blueprints are deployed on it or when it is not there.
Destroy ==
    /\ db # NewState /\ Start("destroy", SetToSeq(st.workers))
    /\ UNCHANGED <<st, db, Vim, OnCluster, faults, stops>>
DestroyServer ==
    /\ op.kind = "destroy" /\ op.left # <<>>
    /\ \/ Gone(Head(op.left)) /\ nodes' = nodes \ {Head(op.left)} /\ Advance /\ UNCHANGED st
       \/ Raise(st) /\ UNCHANGED <<Vim, nodes>>
    /\ UNCHANGED <<listed, used>>
Refused == st.onboarded /\ (used \/ ~listed)
DestroyRefused ==
    /\ op.kind = "destroy" /\ op.left = <<>> /\ Refused
    /\ Return(st) /\ UNCHANGED <<Vim, OnCluster>>
DestroyDone ==
    /\ op.kind = "destroy" /\ op.left = <<>> /\ ~Refused
    /\ listed' = (listed /\ ~st.onboarded)
    /\ st' = [NewState EXCEPT !.master = "gone"] /\ db' = st' /\ op' = Idle
    /\ nodes' = {} /\ UNCHANGED <<Vim, used, calls, faults, stops>>

\* The other users of the topology, while the cluster is in it.
DeployOn == /\ listed /\ used' = ~used
            /\ UNCHANGED <<st, db, Vim, nodes, listed, op, calls, faults, stops>>
Offboard == /\ listed /\ ~used /\ listed' = FALSE
            /\ UNCHANGED <<st, db, Vim, nodes, used, op, calls, faults, stops>>

\* The process stops and loads what was saved.
Stop ==
    /\ stops < MaxStops /\ stops' = stops + 1
    /\ op.kind # "none" /\ st' = db /\ op' = Idle
    /\ UNCHANGED <<db, Vim, OnCluster, calls, faults>>

Alive == st.master # "gone"
Names == UNION {[1..k -> Number] : k \in 1..MaxWorkers}
Next ==
    \/ \E k \in 0..MaxWorkers : Alive /\ (Create(k) \/ (k > 0 /\ AddWorkers(k)))
    \/ \E n \in Number : DeployWorker(n)
    \/ \E names \in Names : Alive /\ DelWorkers(names)
    \/ DeployMaster \/ NumbersRunOut \/ AreaDone \/ ConfigureMaster \/ JoinWorker \/ Day0Done
    \/ Onboard \/ Created \/ DrainNode \/ Drained \/ RemoveWorker \/ Removed
    \/ (Alive /\ Destroy) \/ DestroyServer \/ DestroyRefused \/ DestroyDone
    \/ DeployOn \/ Offboard \/ Stop
Spec == Init /\ [][Next]_vars
-----------------------------------------------------------------------------
\* The variables have the shape of the code's data.
TypeOK ==
    /\ \A s \in {st, db} :
           /\ s.master \in {"none", "absent", "named", "created", "configured", "gone"}
           /\ s.configurators = s.created /\ s.created \subseteq s.workers
           /\ s.workers \subseteq s.numbers /\ s.numbers \subseteq Number
           /\ Range(s.toExec) \subseteq s.configurators
    /\ nodes \subseteq Number
    /\ calls <= MaxCalls /\ faults <= MaxFaults /\ stops <= MaxStops

\* A name belongs to one server at a time, complete ones are known to the
\* blueprint, and the name of an incomplete one is never used again.
NamesAreFree == (stops = 0 /\ Alive) => \A n \in Number :
    /\ Servers(n) <= 1
    /\ made[n] > 0 => n \in st.workers
    /\ half[n] > 0 => n \in st.numbers

\* A node of the cluster has its server: the nodes go before the servers do.
NodesHaveServers == \A n \in nodes : made[n] > 0

\* When the blueprint is gone, so are its servers, except those whose creation
\* failed and which del_workers took from the state, and so is the cluster.
GoneIsGone == (stops = 0 /\ ~Alive) =>
    (\A n \in Number : made[n] = 0) /\ ~listed

\* destroy: "Blueprint ... will not be destroyed" when the topology refuses to
\* delete its cluster (line 593): until then it has no server less.
RefusedStands ==
    [][op.kind = "destroy" /\ st.onboarded /\ listed /\ used => UNCHANGED Vim]_vars
=============================================================================
