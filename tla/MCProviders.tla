---------------------------- MODULE MCProviders ----------------------------
(***************************************************************************)
(* The virtualization providers for TLC.  They do not talk to each other:   *)
(* a behaviour is one of the OpenStack provider, of the Proxmox provider,   *)
(* or of the REST provider and its server, and the others stay where they   *)
(* begin.                                                                   *)
(***************************************************************************)
CONSTANTS Blueprint, Vm, Net, Named, Vmid, Worker, MaxCalls, MaxFaults, MaxStops

VARIABLES provider,                                 \* the one that runs
          cloud, mem, db, phase, lost,              \* OpenStack or Proxmox
          client, known, created, calls, givenUp,   \* REST: the client,
          queue, working, history, group, data,     \* its server,
          onVim,                                    \* and the VIM
          faults, stops

OpenStack == INSTANCE OpenStackProvider
Proxmox == INSTANCE ProxmoxProvider
Remote == INSTANCE RemoteProvider

Init ==
    /\ provider \in {"openstack", "proxmox", "rest"}
    /\ IF provider = "proxmox" THEN Proxmox!Init ELSE OpenStack!Init
    /\ Remote!Init

OnVim(step) == step /\ UNCHANGED
    <<provider, client, known, created, calls, givenUp, queue, working, history, group, data, onVim>>
Next ==
    \/ provider = "openstack" /\ OnVim(OpenStack!Next)
    \/ provider = "proxmox" /\ OnVim(Proxmox!Next)
    \/ provider = "rest" /\ Remote!Next /\ UNCHANGED <<provider, cloud, mem, db, phase, lost>>

vars == <<provider, cloud, mem, db, phase, lost, client, known, created, calls, givenUp,
          queue, working, history, group, data, onVim, faults, stops>>
Fairness == \A b \in Blueprint :
    /\ WF_vars(provider = "openstack" /\ OnVim(OpenStack!Destroys(b)))
    /\ WF_vars(provider = "proxmox" /\ OnVim(Proxmox!Destroys(b)))
Spec == Init /\ [][Next]_vars /\ Fairness
-----------------------------------------------------------------------------
\* What a deleted blueprint created on its VIM is gone, unless the call that
\* created it never returned.
NothingLeft == OpenStack!NothingLeft

\* A machine on the VIM is known to the database, so that a blueprint that
\* crashes in create_vm can be deleted, and the vmid a blueprint keeps never
\* names a machine of somebody else, unless a destruction raised or a stop fell
\* in the middle of one.
MachinesKnown ==
    /\ provider = "openstack" => OpenStack!TypeOK /\ OpenStack!ServersKnown
    /\ provider = "proxmox" => Proxmox!TypeOK /\ Proxmox!VmsKnown /\ Proxmox!NamesOwnVm

\* Once the VIM fails no more a deletion ends with the blueprint gone, whatever
\* failed deletions and stops have left (Proxmox: what can be found again).
DeletionsEnd ==
    /\ \A b \in Blueprint :
          (provider = "openstack" /\ OpenStack!Deletable(b)) ~> OpenStack!In(b, "gone")
    /\ \A b \in Blueprint :
          (provider = "proxmox" /\ Proxmox!Deletable(b)) ~> Proxmox!In(b, "gone")

\* A provider server has each VM whose creation its client saw succeed, in the
\* group where the destruction looks for it, and what a blueprint leaves behind
\* the server is what it gave up on.
ServerAgrees == provider = "rest" =>
    /\ Remote!TypeOK /\ Remote!CreatedIsServed /\ Remote!DestroyFinds /\ Remote!LeftIsGivenUp
=============================================================================
