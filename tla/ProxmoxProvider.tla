--------------------------- MODULE ProxmoxProvider ---------------------------
(***************************************************************************)
(* The virtual machines and vnets of blueprints on a Proxmox cluster:       *)
(* VirtualizationProviderProxmox.  A VM is known by a number, the vmid,     *)
(* that the provider chooses among the free ones and the cluster gives      *)
(* again to anybody once the VM is gone; the provider data names the vmid   *)
(* of each VM, and the cloud-init file the VM boots with is named after it. *)
(* Deleting a VM, a file or a vnet that is not there is an error here.      *)
(***************************************************************************)
EXTENDS ProviderHost

CONSTANT Vmid          \* the range of vmids the provider takes from

Empty == [registered |-> {}, created |-> {}, proxmox_dict |-> [v \in Vm |-> {}],
          proxmox_vnet |-> {}]
DataType == [registered : SUBSET Vm, created : SUBSET Vm,
             proxmox_dict : [Vm -> SUBSET Vmid], proxmox_vnet : SUBSET Net]
Kinds == {"vm", "file", "vnet"}
Resources == [vm |-> Blueprint \X Vm \X Vmid, file |-> Blueprint \X Vmid,
              vnet |-> Blueprint \X Net]
Steps == {"absent", "ready", "error", "code", "check", "post", "record", "cloud_init",
          "start", "delete", "cleanup", "erase", "gone"}

\* Every variable keeps the shape VirtualizationProviderDataProxmox gives it;
\* in particular a VM has at most one vmid.
TypeOK ==
    /\ \A k \in Kinds : cloud[k] \subseteq Resources[k] /\ lost[k] \subseteq Resources[k]
    /\ mem \in [Blueprint -> DataType] /\ db \in [Blueprint -> DataType]
    /\ \A b \in Blueprint : /\ phase[b].step \in Steps
                            /\ phase[b].vms \subseteq Vm \cup (Vm \X Vmid)
                            /\ \A v \in Vm : Cardinality(mem[b].proxmox_dict[v]) < 2
    /\ faults \in 0..MaxFaults /\ stops \in 0..MaxStops

Init == HostInit(Kinds, Empty)
Taken == {r[3] : r \in cloud["vm"]}
Nowhere == UNCHANGED <<cloud, lost>>
-----------------------------------------------------------------------------
CreateVm(b, v) ==
    /\ In(b, "code") /\ v \notin mem[b].registered \cup mem[b].created
    /\ mem[b].proxmox_dict[v] = {}
    /\ Becomes(b, [mem[b] EXCEPT !.registered = @ \cup {v}])
    /\ Goto(b, "check", {v})
    /\ UNCHANGED <<cloud, db>> /\ NoFault

(* The checks and the download may raise; then nextid finds a free vmid.    *)
GetFreeVmid(b) ==
    /\ In(b, "check") /\ Nowhere /\ UNCHANGED <<mem, stops>>
    /\ \/ /\ Vmid \ Taken # {} /\ UNCHANGED <<db, faults>>
          /\ LET id == CHOOSE i \in Vmid \ Taken : \A j \in Vmid \ Taken : i <= j
             IN  \E v \in phase[b].vms : Goto(b, "post", {<<v, id>>})
       \/ Vmid \subseteq Taken /\ Raise(b) /\ UNCHANGED faults
       \/ Fault /\ Raise(b)

(* Another thread may have taken the vmid since it was read as free.        *)
PostVm(b) ==
    /\ In(b, "post") /\ UNCHANGED <<mem, stops>>
    /\ \E v \in Vm, id \in Vmid :
         /\ phase[b].vms = {<<v, id>>}
         /\ \/ id \in Taken /\ Raise(b) /\ Nowhere /\ UNCHANGED faults
            \/ Fault /\ Raise(b) /\ Nowhere
            \/ /\ id \notin Taken /\ Exist("vm", {<<b, v, id>>})
               /\ \/ Goto(b, "record", phase[b].vms) /\ UNCHANGED <<db, lost, faults>>
                  \/ Fault /\ Raise(b) /\ Lose("vm", {<<b, v, id>>})

RecordVmid(b) ==
    /\ In(b, "record") /\ NoFault /\ UNCHANGED cloud
    /\ \E v \in Vm, id \in Vmid :
         /\ phase[b].vms = {<<v, id>>}
         /\ Becomes(b, [mem[b] EXCEPT !.proxmox_dict[v] = {id}])
    /\ SaveToDb(b) /\ Goto(b, "cloud_init", phase[b].vms)

(* Resize, MAC addresses, then the cloud-init file and the configuration.   *)
LoadCloudInit(b) ==
    /\ In(b, "cloud_init") /\ UNCHANGED <<mem, lost, stops>>
    /\ \/ Fault /\ Raise(b) /\ UNCHANGED cloud
       \/ /\ Exist("file", {<<b, p[2]>> : p \in phase[b].vms})
          /\ Goto(b, "start", phase[b].vms) /\ UNCHANGED <<db, faults>>

StartVm(b) ==
    /\ In(b, "start") /\ Nowhere /\ UNCHANGED stops
    /\ \/ Fault /\ UNCHANGED mem /\ Raise(b)
       \/ /\ Becomes(b, [mem[b] EXCEPT !.created = @ \cup {p[1] : p \in phase[b].vms}])
          /\ SaveToDb(b) /\ Goto(b, "code", {}) /\ UNCHANGED faults

(* The vnet is posted and applied, recorded, then gets its subnet.          *)
CreateNet(b, n) ==
    /\ In(b, "code") /\ UNCHANGED stops
    /\ \/ /\ n \in {r[2] : r \in cloud["vnet"]}
          /\ UNCHANGED <<mem, faults>> /\ Raise(b) /\ Nowhere
       \/ /\ n \notin {r[2] : r \in cloud["vnet"]} /\ Exist("vnet", {<<b, n>>})
          /\ \/ Fault /\ UNCHANGED mem /\ Raise(b) /\ Lose("vnet", {<<b, n>>})
             \/ /\ Becomes(b, [mem[b] EXCEPT !.proxmox_vnet = @ \cup {n}]) /\ UNCHANGED lost
                /\ \/ UNCHANGED <<db, phase, faults>>
                   \/ Fault /\ Raise(b)

ConfigureVm(b, v) ==
    /\ In(b, "code") /\ v \in mem[b].registered /\ Nowhere /\ UNCHANGED <<mem, stops>>
    /\ \/ v \in mem[b].created /\ SaveToDb(b) /\ UNCHANGED <<phase, faults>>
       \/ (v \in mem[b].created => Fault) /\ Raise(b)
          /\ (v \notin mem[b].created => UNCHANGED faults)

(* A network the blueprint did not create is a KeyError, as is the VM.      *)
AttachNets(b, v, n) ==
    /\ In(b, "code") /\ v \in mem[b].registered /\ Nowhere /\ UNCHANGED <<mem, stops>>
    /\ \/ /\ n \in mem[b].proxmox_vnet /\ mem[b].proxmox_dict[v] # {}
          /\ SaveToDb(b) /\ UNCHANGED <<phase, faults>>
       \/ /\ n \notin mem[b].proxmox_vnet \/ mem[b].proxmox_dict[v] = {}
          /\ Raise(b) /\ UNCHANGED faults
       \/ Fault /\ Raise(b)

AskVim(b, v) ==
    /\ In(b, "code") /\ v \in mem[b].registered /\ Nowhere /\ UNCHANGED <<mem, stops>>
    /\ Raise(b)
    /\ \/ mem[b].proxmox_dict[v] \cap Taken = {} /\ UNCHANGED faults
       \/ Fault

RebootVm(b, v) == AskVim(b, v)
CheckVmStatus(b, v) == AskVim(b, v)
-----------------------------------------------------------------------------
(* The VM that has the vmid is stopped and deleted, whoever created it;     *)
(* then the file; then the entry, which the next save makes durable.        *)
Owners(id) == {r \in cloud["vm"] : r[3] = id}

KeptEntry(b, v, registered) ==      \* mutant: the entry is not deleted
    mem' = [mem EXCEPT ![b].registered = registered]

Forget(b, v, registered) ==
    mem' = [mem EXCEPT ![b].proxmox_dict[v] = {}, ![b].registered = registered]

OnlyCreated(b, v) == v \in mem[b].created /\ mem[b].proxmox_dict[v] = {}    \* mutant

NotCreated(b, v) == mem[b].proxmox_dict[v] = {}

DestroyVm(b, v, registered) ==
    /\ UNCHANGED faults /\ Forget(b, v, registered)
    /\ \/ NotCreated(b, v) /\ Nowhere
       \/ \E id \in mem[b].proxmox_dict[v] \cap Taken :
            /\ <<b, id>> \in cloud["file"] /\ Lose("vm", Owners(id) \ {<<b, v, id>>})
            /\ cloud' = [cloud EXCEPT !["vm"] = @ \ Owners(id), !["file"] = @ \ {<<b, id>>}]

(* A VM that is not there cannot be stopped.  Half done: the VM is deleted, *)
(* its file is missing or stays, and the entry names a free vmid.           *)
DestroyVmRaises(b, v) ==
    /\ UNCHANGED mem /\ Raise(b)
    /\ \/ Fault /\ Nowhere
       \/ mem[b].proxmox_dict[v] \ Taken # {} /\ Nowhere /\ UNCHANGED faults
       \/ \E id \in mem[b].proxmox_dict[v] \cap Taken :
            /\ Perish("vm", Owners(id)) /\ Lose("vm", Owners(id) \cup {<<b, v, id>>})
            /\ \/ <<b, id>> \in cloud["file"] /\ Fault
               \/ <<b, id>> \notin cloud["file"] /\ UNCHANGED faults

(* Day-2 code destroys a VM and deregisters it; nothing is saved yet.       *)
RemoveVm(b, v) ==
    /\ In(b, "code") /\ v \in mem[b].registered /\ UNCHANGED stops
    /\ \/ DestroyVm(b, v, mem[b].registered \ {v}) /\ UNCHANGED <<db, phase>>
       \/ DestroyVmRaises(b, v)

DestroyNext(b) ==
    /\ In(b, "delete") /\ UNCHANGED stops
    /\ \E v \in phase[b].vms :
         \/ /\ DestroyVm(b, v, mem[b].registered) /\ UNCHANGED db
            /\ Goto(b, "delete", phase[b].vms \ {v})
         \/ DestroyVmRaises(b, v)

(* Each vnet: its subnets, the vnet, then the entry.  A vnet that is not    *)
(* there is an error; the entry of a deleted one stays when apply fails.    *)
FinalCleanup(b) ==
    /\ In(b, "cleanup") /\ UNCHANGED <<lost, stops>>
    /\ \/ mem[b].proxmox_vnet = {} /\ Goto(b, "erase", {}) /\ UNCHANGED <<cloud, mem, db, faults>>
       \/ \E n \in mem[b].proxmox_vnet :
            \/ /\ <<b, n>> \in cloud["vnet"] /\ Perish("vnet", {<<b, n>>})
               /\ \/ /\ Becomes(b, [mem[b] EXCEPT !.proxmox_vnet = @ \ {n}])
                     /\ UNCHANGED <<db, phase, faults>>
                  \/ Fault /\ UNCHANGED mem /\ Raise(b)
            \/ /\ <<b, n>> \notin cloud["vnet"]
               /\ UNCHANGED <<cloud, mem, faults>> /\ Raise(b)

(* Made, or unmade, since the last save.                                    *)
Unsaved ==
    [k \in Kinds |->
       UNION {CASE k = "vm" -> (IF In(b, "record") THEN {<<b, p[1], p[2]>> : p \in phase[b].vms} ELSE {})
                               \cup {r \in {b} \X Vm \X Vmid :
                                       r[3] \in db[b].proxmox_dict[r[2]] \ mem[b].proxmox_dict[r[2]]}
                [] k = "vnet" -> {b} \X (mem[b].proxmox_vnet \ db[b].proxmox_vnet)
                [] OTHER -> {} : b \in Blueprint}]

Destroys(b) == DestroyNext(b) \/ AllDestroyed(b) \/ FinalCleanup(b) \/ Erase(b, Empty)
Calls(b) ==
    \/ GetFreeVmid(b) \/ PostVm(b) \/ RecordVmid(b) \/ LoadCloudInit(b) \/ StartVm(b)
Code(b) ==
    \/ \E v \in Vm : \/ CreateVm(b, v) \/ ConfigureVm(b, v) \/ RebootVm(b, v)
                     \/ CheckVmStatus(b, v) \/ RemoveVm(b, v)
                     \/ \E n \in Net : AttachNets(b, v, n)
    \/ \E n \in Net : CreateNet(b, n)

Next ==
    \/ \E b \in Blueprint : Hosts(b) \/ Code(b) \/ Calls(b) \/ Destroys(b)
    \/ RestartLosing(Unsaved)

Fairness == \A b \in Blueprint : WF_hostVars(Destroys(b))
Spec == Init /\ [][Next]_hostVars /\ Fairness
-----------------------------------------------------------------------------
\* The vmid of a VM names that very VM and not one that got the number later,
\* unless a destruction raised or a stop fell after the VM was deleted: then, and
\* only then, destroying the VM again may destroy another blueprint's.
NamesOwnVm ==
    /\ faults + stops = 0 => lost["vm"] = {}
    /\ \A b \in Blueprint, v \in Vm : \A id \in mem[b].proxmox_dict[v] :
           <<b, v, id>> \in cloud["vm"] \cup lost["vm"]

\* A VM on the cluster is known to the database, so that a blueprint that
\* crashes in create_vm can be deleted.
VmsKnown ==
    \A r \in cloud["vm"] \ lost["vm"] :
        \/ r[3] \in db[r[1]].proxmox_dict[r[2]]
        \/ In(r[1], "record") /\ <<r[2], r[3]>> \in phase[r[1]].vms

Dangling(b) ==
    \/ \E v \in Vm : \E id \in mem[b].proxmox_dict[v] :
         <<b, v, id>> \notin cloud["vm"] \/ <<b, id>> \notin cloud["file"]
    \/ \E n \in mem[b].proxmox_vnet : <<b, n>> \notin cloud["vnet"]

Deletable(b) ==
    In(b, "delete") /\ faults = MaxFaults /\ stops = MaxStops /\ lost["vm"] = {} /\ ~ Dangling(b)

\* A deletion ends with the blueprint gone once the cluster fails no more, when
\* no entry of the blueprint names a VM, file or vnet that is not there and no
\* VM of anybody was lost before.
DeletionSucceeds == \A b \in Blueprint : Deletable(b) ~> In(b, "gone")
=============================================================================
