-------------------------- MODULE OpenStackProvider --------------------------
(***************************************************************************)
(* The virtual machines, flavors and networks of blueprints on an OpenStack *)
(* VIM: VirtualizationProviderOpenstack, called by the code of a blueprint  *)
(* (create and day-2 functions) and by BlueprintNG.destroy.  The VIM and    *)
(* the database are two stores: a resource is created on the VIM first and  *)
(* its identifier reaches the provider data, and the database, later.  A    *)
(* step is a call to the VIM or a save; any call may fail half done, and    *)
(* the process may stop between two steps.                                  *)
(***************************************************************************)
EXTENDS ProviderHost

CONSTANT Named         \* the VMs whose flavor is asked for by name

Empty == [registered |-> {}, created |-> {}, os_dict |-> {}, flavors |-> {},
          networks |-> {}, subnets |-> {}]
DataType == [registered : SUBSET Vm, created : SUBSET Vm, os_dict : SUBSET Vm,
             flavors : SUBSET Vm, networks : SUBSET Net, subnets : SUBSET Net]
Kinds == {"server", "flavor", "network", "subnet"}
Steps == {"absent", "ready", "error", "code", "prepare", "flavor", "server", "record",
          "network", "delete", "cleanup", "erase", "gone"}

\* Every variable keeps the shape the provider data, the database document and
\* the calls of VirtualizationProviderOpenstack give it.
TypeOK ==
    /\ cloud \in [Kinds -> SUBSET (Blueprint \X (Vm \cup Net))]
    /\ lost \in [Kinds -> SUBSET (Blueprint \X (Vm \cup Net))]
    /\ mem \in [Blueprint -> DataType] /\ db \in [Blueprint -> DataType]
    /\ phase \in [Blueprint -> [step : Steps, vms : SUBSET Vm]]
    /\ faults \in 0..MaxFaults /\ stops \in 0..MaxStops

Init == HostInit(Kinds, Empty)
OfVm(b) == {b} \X phase[b].vms
-----------------------------------------------------------------------------
(* register_resource, then create_vm: the networks must exist, the image is *)
(* found or downloaded.                                                     *)
CreateVm(b, v) ==
    /\ In(b, "code") /\ v \notin mem[b].registered \cup mem[b].os_dict
    /\ Becomes(b, [mem[b] EXCEPT !.registered = @ \cup {v}])
    /\ Goto(b, "prepare", {v})
    /\ UNCHANGED <<cloud, db>> /\ NoFault

PrepareImage(b) ==
    /\ In(b, "prepare") /\ UNCHANGED <<cloud, mem, lost, stops>>
    /\ \/ Goto(b, "flavor", phase[b].vms) /\ UNCHANGED <<db, faults>>
       \/ Fault /\ Raise(b)

(* A flavor asked for by name is shared and not recorded; another one gets  *)
(* the VM's name, access for the project, and a place in data.flavors.      *)
CreateGetFlavor(b) ==
    /\ In(b, "flavor") /\ UNCHANGED stops
    /\ IF phase[b].vms \subseteq Named
       THEN Goto(b, "server", phase[b].vms) /\ UNCHANGED <<cloud, mem, db, lost, faults>>
       ELSE /\ Exist("flavor", OfVm(b))
            /\ \/ /\ Becomes(b, [mem[b] EXCEPT !.flavors = @ \cup phase[b].vms])
                  /\ Goto(b, "server", phase[b].vms) /\ UNCHANGED <<db, lost, faults>>
               \/ /\ Fault /\ Lose("flavor", OfVm(b))
                  /\ UNCHANGED mem /\ Raise(b)

CreateServer(b) ==
    /\ In(b, "server") /\ UNCHANGED <<mem, stops>>
    /\ \/ /\ Exist("server", OfVm(b))
          /\ Goto(b, "record", phase[b].vms) /\ UNCHANGED <<db, lost, faults>>
       \/ Fault /\ Raise(b) /\ UNCHANGED <<cloud, lost>>
       \/ /\ Fault /\ Raise(b) /\ Exist("server", OfVm(b))       \* wait=True timed out
          /\ Lose("server", OfVm(b))

RecordServer(b) ==
    /\ In(b, "record")
    /\ Becomes(b, [mem[b] EXCEPT !.os_dict = @ \cup phase[b].vms]) /\ SaveToDb(b)
    /\ Goto(b, "network", phase[b].vms)
    /\ UNCHANGED cloud /\ NoFault

(* __update_net_info_vm runs a playbook in the VM; then the port security.  *)
UpdateNetInfo(b) ==
    /\ In(b, "network") /\ UNCHANGED <<cloud, lost, stops>>
    /\ \/ /\ Becomes(b, [mem[b] EXCEPT !.created = @ \cup phase[b].vms]) /\ SaveToDb(b)
          /\ Goto(b, "code", {}) /\ UNCHANGED faults
       \/ Fault /\ UNCHANGED mem /\ Raise(b)

(* The network, its subnet, then both identifiers; nothing is saved.        *)
CreateNet(b, n) ==
    /\ In(b, "code") /\ UNCHANGED stops
    /\ IF \E c \in Blueprint : <<c, n>> \in cloud["network"]
       THEN UNCHANGED <<cloud, mem, lost, faults>> /\ Raise(b)
       ELSE \/ /\ cloud' = [cloud EXCEPT !["network"] = @ \cup {<<b, n>>},
                                         !["subnet"] = @ \cup {<<b, n>>}]
               /\ Becomes(b, [mem[b] EXCEPT !.networks = @ \cup {n}, !.subnets = @ \cup {n}])
               /\ UNCHANGED <<db, phase, lost, faults>>
            \/ /\ Fault /\ Exist("network", {<<b, n>>})
               /\ Lose("network", {<<b, n>>})
               /\ UNCHANGED mem /\ Raise(b)

(* Calls about a VM that exists: they only save, or raise.                  *)
ConfigureVm(b, v) ==
    /\ In(b, "code") /\ v \in mem[b].registered /\ UNCHANGED <<cloud, mem, lost, stops>>
    /\ \/ v \in mem[b].created /\ SaveToDb(b) /\ UNCHANGED <<phase, faults>>
       \/ v \in mem[b].created /\ Fault /\ Raise(b)
       \/ v \notin mem[b].created /\ Raise(b) /\ UNCHANGED faults

AttachNets(b, v) ==
    /\ In(b, "code") /\ v \in mem[b].created /\ UNCHANGED <<cloud, mem, lost, stops>>
    /\ \/ SaveToDb(b) /\ UNCHANGED <<phase, faults>>
       \/ Fault /\ Raise(b)

AskVim(b, v) ==            \* raises when the VIM does not know the VM
    /\ In(b, "code") /\ v \in mem[b].registered /\ UNCHANGED <<cloud, mem, lost, stops>>
    /\ Raise(b)
    /\ \/ ~ (v \in mem[b].os_dict /\ <<b, v>> \in cloud["server"]) /\ UNCHANGED faults
       \/ Fault

RebootVm(b, v) == AskVim(b, v)
CheckVmStatus(b, v) == AskVim(b, v)

(* delete_server waits; a server that is not there is no error.             *)
DeleteServer(b, v) ==
    /\ cloud' = IF v \in mem[b].os_dict
                THEN [cloud EXCEPT !["server"] = @ \ {<<b, v>>}] ELSE cloud
    /\ SaveToDb(b)

DestroyVm(b, v) == DeleteServer(b, v)

(* Day-2 code destroys the VM and then deregisters it.                      *)
RemoveVm(b, v) ==
    /\ In(b, "code") /\ v \in mem[b].registered
    /\ mem' = [mem EXCEPT ![b].registered = @ \ {v}]
    /\ DestroyVm(b, v)
    /\ UNCHANGED phase /\ NoFault
-----------------------------------------------------------------------------
(* delete_blueprint: every registered VM, then the provider's resources.    *)
DestroyNext(b) ==
    /\ In(b, "delete") /\ UNCHANGED <<mem, lost, stops>>
    /\ \E v \in phase[b].vms :
         \/ DestroyVm(b, v) /\ Goto(b, "delete", phase[b].vms \ {v}) /\ UNCHANGED faults
         \/ Fault /\ Raise(b) /\ UNCHANGED cloud

Of(b, names) == {b} \X names

KeepSubnets(b) ==          \* mutant: only the flavors are deleted
    /\ In(b, "cleanup") /\ UNCHANGED <<mem, db, lost, stops, faults>>
    /\ cloud' = [cloud EXCEPT !["flavor"] = @ \ Of(b, mem[b].flavors)]
    /\ Goto(b, "erase", {})

(* Flavors, then subnets, then networks: a failure leaves the later ones.   *)
FinalCleanup(b) ==
    /\ In(b, "cleanup") /\ UNCHANGED <<mem, lost, stops>>
    /\ \/ /\ cloud' = [cloud EXCEPT !["flavor"] = @ \ Of(b, mem[b].flavors),
                                    !["subnet"] = @ \ Of(b, mem[b].subnets),
                                    !["network"] = @ \ Of(b, mem[b].networks)]
          /\ Goto(b, "erase", {}) /\ UNCHANGED <<db, faults>>
       \/ /\ Fault /\ Raise(b)
          /\ \/ \E f \in SUBSET mem[b].flavors :
                   cloud' = [cloud EXCEPT !["flavor"] = @ \ Of(b, f)]
             \/ cloud' = [cloud EXCEPT !["flavor"] = @ \ Of(b, mem[b].flavors),
                                       !["subnet"] = @ \ Of(b, mem[b].subnets)]

(* Created since the last save: the server only between its two steps.      *)
Unsaved ==
    [k \in Kinds |->
       UNION {CASE k = "server" -> IF In(b, "record") THEN OfVm(b) ELSE {}
                [] k = "flavor" -> {b} \X (mem[b].flavors \ db[b].flavors)
                [] OTHER -> {b} \X (mem[b].networks \ db[b].networks) : b \in Blueprint}]

Destroys(b) == DestroyNext(b) \/ AllDestroyed(b) \/ FinalCleanup(b) \/ Erase(b, Empty)
Calls(b) ==
    \/ PrepareImage(b) \/ CreateGetFlavor(b) \/ CreateServer(b)
    \/ RecordServer(b) \/ UpdateNetInfo(b)
Code(b) ==
    \/ \E v \in Vm : \/ CreateVm(b, v) \/ ConfigureVm(b, v) \/ AttachNets(b, v)
                     \/ RebootVm(b, v) \/ CheckVmStatus(b, v) \/ RemoveVm(b, v)
    \/ \E n \in Net : CreateNet(b, n)

Next ==
    \/ \E b \in Blueprint : Hosts(b) \/ Code(b) \/ Calls(b) \/ Destroys(b)
    \/ RestartLosing(Unsaved)

(* The worker thread that destroys a blueprint goes on.                     *)
Fairness == \A b \in Blueprint : WF_hostVars(Destroys(b))
Spec == Init /\ [][Next]_hostVars /\ Fairness
-----------------------------------------------------------------------------
\* A server on the VIM is known to the database, so that a blueprint that
\* crashes in create_vm can be deleted; only between create_server and the save
\* that follows is it known to nobody else.
ServersKnown ==
    \A r \in cloud["server"] \ lost["server"] :
        \/ r[2] \in db[r[1]].os_dict
        \/ In(r[1], "record") /\ r[2] \in phase[r[1]].vms

Deletable(b) == In(b, "delete") /\ faults = MaxFaults /\ stops = MaxStops

\* A deletion is never stuck: once the VIM fails no more, it ends with the
\* blueprint gone, whatever earlier deletions and stops have left.
DeletionSucceeds == \A b \in Blueprint : Deletable(b) ~> In(b, "gone")
=============================================================================
