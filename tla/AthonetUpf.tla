------------------------------ MODULE AthonetUpf ------------------------------
(***************************************************************************)
(* The UPF of Athonet, also a PDU, that the blueprint of an area locks,      *)
(* configures and gives back.  A slice is the set of its data networks.     *)
(***************************************************************************)
EXTENDS Naturals, Sequences

CONSTANTS Dnn, Supported,   \* the data networks, and those of the PDU's dnnvrf mapping
          Configs,          \* the configurations asked for: sets of slices
          MaxUpdates,       \* bound: updates
          MaxFaults         \* bound: requests that fail

VARIABLES phase, config, job,
          lock,     \* whose the PDU is: free, other or upf
          links,    \* the data networks it routes, or what it had of its own
          base,     \* backup_config
          list,     \* upf_list: the slices of its entry
          refused,  \* history: the PDU refused the last configuration
          updates, faults
upfVars == <<phase, config, job, lock, links, base, list, refused, updates, faults>>

Own == {"own"}
NoBackup == {"none"}
Init ==
    /\ phase = "new" /\ config = {} /\ job = [op |-> "none", todo |-> <<>>, ok |-> TRUE]
    /\ lock \in {"free", "other"} /\ links = Own /\ base = NoBackup
    /\ list = <<>> /\ refused = FALSE /\ updates = 0 /\ faults = 0

Resting == job.todo = <<>>
At(step) == ~ Resting /\ Head(job.todo) = step
Fault == faults < MaxFaults /\ faults' = faults + 1
Proceed == job' = [job EXCEPT !.todo = Tail(@)] /\ UNCHANGED phase
Fail == job' = [job EXCEPT !.todo = <<>>, !.ok = FALSE] /\ UNCHANGED phase
Begin(op, script) == job' = [op |-> op, todo |-> script, ok |-> TRUE]

Create(slices) ==
    /\ phase = "new" /\ phase' = "made" /\ config' = slices
    /\ Begin("create", <<"lock", "backup", "configure", "info">>)
    /\ UNCHANGED <<lock, links, base, list, refused, updates, faults>>
Update(slices) ==
    /\ phase = "made" /\ Resting /\ updates < MaxUpdates /\ updates' = updates + 1
    /\ config' = slices /\ Begin("update", <<"configure">>)
    /\ UNCHANGED <<phase, lock, links, base, list, refused, faults>>
Destroy ==
    /\ phase = "made" /\ Resting /\ Begin("destroy", <<"restore", "release">>)
    /\ UNCHANGED <<phase, config, lock, links, base, list, refused, updates, faults>>
-----------------------------------------------------------------------------
Same == UNCHANGED <<config, list, updates>>
LockPdu ==
    /\ At("lock") /\ Same /\ UNCHANGED <<links, base, refused>>
    /\ \/ lock = "other" /\ Fail /\ UNCHANGED <<lock, faults>>
       \/ lock = "free" /\ lock' = "upf" /\ Proceed /\ UNCHANGED faults
       \/ lock = "free" /\ lock' = "upf" /\ Fail /\ Fault
Backup ==
    /\ At("backup") /\ Same /\ UNCHANGED <<lock, links, refused>>
    /\ \/ base' = links /\ Proceed /\ UNCHANGED faults
       \/ UNCHANGED base /\ Fail /\ Fault

(* The status of the request is not looked at.                              *)
Put(new) ==
    \/ links' = new /\ refused' = FALSE /\ Proceed /\ UNCHANGED faults
    \/ links' = links /\ refused' = TRUE /\ Proceed /\ Fault
    \/ links' \in {links, new} /\ UNCHANGED refused /\ Fail /\ Fault
Routed == Supported \cap UNION config
Configure ==
    /\ At("configure") /\ Same /\ UNCHANGED <<lock, base>>
    /\ IF lock = "upf" THEN Put(Routed) ELSE Fail /\ UNCHANGED <<links, refused, faults>>
UpdateUpfInfo ==
    /\ At("info") /\ UNCHANGED <<config, lock, links, base, refused, updates>>
    /\ \/ list' = <<config>> /\ Proceed /\ UNCHANGED faults
       \/ UNCHANGED list /\ Fail /\ Fault
RestoreBaseConfig ==
    /\ At("restore") /\ Same /\ UNCHANGED <<lock, base>>
    /\ IF lock = "upf" /\ base # NoBackup THEN Put(base)
       ELSE Fail /\ UNCHANGED <<links, refused, faults>>
Release ==
    /\ At("release") /\ Same /\ UNCHANGED <<links, base, refused, faults>>
    /\ phase' = "gone" /\ lock' = "free" /\ job' = [job EXCEPT !.todo = <<>>]

Next ==
    \/ \E c \in Configs : Create(c) \/ Update(c)
    \/ Destroy \/ LockPdu \/ Backup \/ Configure \/ UpdateUpfInfo \/ RestoreBaseConfig \/ Release
Spec == Init /\ [][Next]_upfVars
-----------------------------------------------------------------------------
\* After a creation or an update that was not refused, the PDU routes the data
\* networks asked for that it supports, whatever failed before; what the core
\* is told is served is listed only once the PDU is the blueprint's.
ConfigurationFollows ==
    /\ phase = "made" /\ Resting /\ job.ok /\ job.op # "none" /\ ~ refused => links = Routed
    /\ list # <<>> => lock = "upf" \/ phase = "gone"

\* A PDU that the blueprint does not hold is as it was, and so is one it has no
\* backup of, unless it was told to update what it had not finished to create.
GivenBack == lock # "upf" \/ (base = NoBackup /\ updates = 0) => links = Own \/ refused
=============================================================================
