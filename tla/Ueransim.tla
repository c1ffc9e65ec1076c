------------------------------ MODULE Ueransim ------------------------------
(***************************************************************************)
(* A UERANSIM blueprint: in each area the machine of a gNB and those of the *)
(* UEs that use its radio network, with the SIMs each UE simulates, and the *)
(* PDU through which a 5G core configures the gNB.                          *)
(***************************************************************************)
EXTENDS Naturals, Sequences

CONSTANTS Area, UeId, Sim,
          FirstUes,           \* the UEs the first area is created with: sequences
          MaxOps, MaxMachines, MaxFaults   \* bounds: calls, machines, failing steps

VARIABLES phase,       \* new, creating, made, ending (its deletion was tried), gone
          areas,       \* areas: the gNB's machine in it, or 0
          ues,         \* and its ues: id, machine, and the SIMs it is to simulate
          machines,    \* every machine made, in order
          pdu,         \* in the topology: none, free, locked; left, stray: likewise, of a gNB gone
          job, ops, faults

ueransimVars == <<phase, areas, ues, machines, pdu, job, ops, faults>>

NoJob == [op |-> "none", todo |-> <<>>, ok |-> TRUE]
Ue(id, m, sims) == [id |-> id, vm |-> m, sims |-> sims]
\* stray: SIMs whose removal failed; fresh: its last playbook was run to the end;
\* tried: its removal failed, and it may be gone.
Machine(there) == [there |-> there, registered |-> TRUE, runs |-> {}, stray |-> {},
                   fresh |-> FALSE, tried |-> FALSE]

Init ==
    /\ phase = "new" /\ areas = [a \in Area |-> 0] /\ ues = [a \in Area |-> <<>>]
    /\ machines = <<>> /\ pdu = [a \in Area |-> "none"]
    /\ job = NoJob /\ ops = 0 /\ faults = 0

Resting == job.todo = <<>>
Step == Head(job.todo)
At(name) == ~ Resting /\ Step[1] = name
Fault == faults < MaxFaults /\ faults' = faults + 1
Settled(end) == phase' = IF phase = "creating" THEN "made" ELSE end
Fail == job' = [job EXCEPT !.todo = <<>>, !.ok = FALSE] /\ Settled(phase)
Proceed ==
    /\ job' = [job EXCEPT !.todo = Tail(@)]
    /\ IF Len(job.todo) > 1 THEN UNCHANGED phase
       ELSE Settled(IF job.op = "destroy" THEN "gone" ELSE phase)
Room == Len(machines) < MaxMachines

Begin(op, todo) ==
    /\ Resting /\ job' = [op |-> op, todo |-> todo, ok |-> TRUE]
    /\ UNCHANGED <<areas, ues, machines, pdu, faults>>
Call(op, todo) ==
    /\ phase \in {"made", "ending"} /\ ops < MaxOps /\ ops' = ops + 1 /\ UNCHANGED phase
    /\ Begin(op, todo)

\* create makes the gNB and the UEs of an area, and every call is one of these.
Create(a, first) ==
    /\ phase = "new" /\ phase' = "creating" /\ UNCHANGED ops
    /\ Begin("create", <<<<"gnb", a>>, <<"list", a>>>> \o
                       [i \in DOMAIN first |-> <<"ue", a, first[i], {}>>])
AddGnb(a) == Call("add_gnb", <<<<"gnb", a>>, <<"list", a>>>>)
DelGnb(a) == Call("del_gnb", [i \in DOMAIN ues[a] |-> <<"drop", a, ues[a][i]>>]
                             \o <<<<"dropGnb", a>>>>)
AddUe(a, id, sims) == Call("add_ue", <<<<"ue", a, id, sims>>>>)
\* The loop over the UEs of the area ends with an error at one of another id.
DelUe(a, id) == ues[a] # <<>> /\ Call("del_ue", [i \in DOMAIN ues[a] |-> <<"match", a, ues[a][i], id>>])
Named(a, id) == SelectSeq(ues[a], LAMBDA ue : ue.id = id)
AddSim(a, id, sim) ==
    LET these == Named(a, id)
    IN  these # <<>> /\ Call("add_sim", [i \in DOMAIN these |-> <<"addSim", a, these[i], sim>>])
DelSim(a, id, sim) ==
    Named(a, id) # <<>> /\ Call("del_sim", <<<<"delSim", a, Named(a, id)[1], sim>>>>)
ConfigureGnb(a) == Call("configure_gnb", <<<<"configure", a>>>>)
Destroy ==
    /\ phase \in {"made", "ending"} /\ phase' = "ending" /\ UNCHANGED ops
    /\ Begin("destroy", <<<<"unlist">>, <<"destroy">>>>)

\* A 5G core locks the PDU of a gNB, and lets go of it.
LockPdu(a) ==
    /\ \E turn \in {<<"free", "locked">>, <<"left", "stray">>} : \E i \in {1, 2} :
          pdu[a] = turn[i] /\ pdu' = [pdu EXCEPT ![a] = turn[3 - i]]
    /\ UNCHANGED <<phase, areas, ues, machines, job, ops, faults>>
-----------------------------------------------------------------------------
Newest == Len(machines) + 1
Refused == Fail /\ UNCHANGED <<areas, ues, machines, pdu, ops, faults>>

(* _create_gnb: the machine is registered before it is made, and the area   *)
(* is known before the PDU is added.                                        *)
CreateGnb ==
    LET a == Step[2]
    IN  /\ At("gnb")
        /\ \/ areas[a] # 0 /\ Refused
           \/ /\ areas[a] = 0 /\ Room /\ UNCHANGED <<pdu, ops>>
              /\ \/ /\ Proceed /\ UNCHANGED faults /\ machines' = Append(machines, Machine(TRUE))
                    /\ areas' = [areas EXCEPT ![a] = Newest] /\ ues' = [ues EXCEPT ![a] = <<>>]
                 \/ /\ Fail /\ Fault /\ UNCHANGED <<areas, ues>>
                    /\ \E there \in BOOLEAN : machines' = Append(machines, Machine(there))

(* One that stayed in the topology because it was locked is in the way.     *)
AddPdu ==
    LET a == Step[2]
    IN  /\ At("list")
        /\ \/ pdu[a] # "none" /\ Refused
           \/ /\ pdu[a] = "none" /\ Proceed /\ pdu' = [pdu EXCEPT ![a] = "free"]
              /\ UNCHANGED <<areas, ues, machines, ops, faults>>

(* _create_ue: one that could not be configured is a machine of no UE.      *)
CreateUe ==
    LET a == Step[2]
        Ready == [Machine(TRUE) EXCEPT !.runs = Step[4], !.fresh = TRUE]
    IN  /\ At("ue")
        /\ \/ areas[a] = 0 /\ Refused
           \/ /\ areas[a] # 0 /\ Room /\ UNCHANGED <<areas, pdu, ops>>
              /\ \/ /\ Proceed /\ UNCHANGED faults /\ machines' = Append(machines, Ready)
                    /\ ues' = [ues EXCEPT ![a] = Append(@, Ue(Step[3], Newest, Step[4]))]
                 \/ /\ Fail /\ Fault /\ UNCHANGED ues
                    /\ \E m \in {Machine(FALSE), Machine(TRUE), Ready} : machines' = Append(machines, m)

(* The machine of a UE goes, then its registration.  _delete_gnb leaves the *)
(* UE in the list, and cannot deregister it a second time.                  *)
Gone(m) == [machines EXCEPT ![m].there = FALSE, ![m].registered = FALSE]
DropUe ==
    LET m == Step[3].vm
    IN  /\ At("drop") \/ (At("match") /\ Step[3].id = Step[4])
        /\ UNCHANGED <<areas, pdu, ops>>
        /\ \/ /\ machines[m].registered /\ Proceed /\ machines' = Gone(m) /\ UNCHANGED faults
              /\ ues' = IF At("drop") THEN ues
                        ELSE [ues EXCEPT ![Step[2]] = SelectSeq(@, LAMBDA ue : ue.vm # m)]
           \/ ~ machines[m].registered /\ Fail /\ UNCHANGED <<machines, ues, faults>>
           \/ /\ machines[m].registered /\ Fail /\ Fault /\ UNCHANGED ues
              /\ \E there \in BOOLEAN :
                    machines' = [machines EXCEPT ![m].there = there, ![m].tried = TRUE]
MissUe == At("match") /\ Step[3].id # Step[4] /\ Refused

(* The PDU of a gNB leaves the topology unless it is locked, which is logged. *)
Unlisted(a) == IF pdu[a] \in {"locked", "stray"} THEN "stray" ELSE "none"
DropGnb ==
    LET a == Step[2]
        m == areas[a]
    IN  /\ At("dropGnb")
        /\ \/ m = 0 /\ Refused
           \/ /\ m # 0 /\ UNCHANGED ops
              /\ \/ /\ Proceed /\ machines' = Gone(m) /\ UNCHANGED faults
                    /\ areas' = [areas EXCEPT ![a] = 0] /\ ues' = [ues EXCEPT ![a] = <<>>]
                    /\ pdu' = [pdu EXCEPT ![a] = Unlisted(a)]
                 \/ /\ Fail /\ Fault /\ UNCHANGED <<areas, ues, pdu>>
                    /\ \E there \in BOOLEAN :
                          machines' = [machines EXCEPT ![m].there = there, ![m].tried = TRUE]

(* The record of a UE changes before its playbook runs, with the SIMs of    *)
(* the record; those to delete are forgotten when the playbook is written.  *)
Record(a, m, sims) ==
    ues' = [ues EXCEPT ![a] = [i \in DOMAIN ues[a] |->
              IF ues[a][i].vm = m THEN [ues[a][i] EXCEPT !.sims = sims] ELSE ues[a][i]]]
Play(m, sims, dropped) ==
    LET new == [machines[m] EXCEPT !.runs = (@ \ dropped) \cup sims, !.fresh = TRUE,
                                   !.stray = (@ \ dropped) \ sims]
    IN  \/ /\ machines[m].there /\ Proceed /\ UNCHANGED faults
           /\ machines' = [machines EXCEPT ![m] = new]
        \/ /\ Fail /\ (IF machines[m].there THEN Fault ELSE UNCHANGED faults)
           /\ \E done \in {machines[m], new} : machines' =
                 [machines EXCEPT ![m] = [done EXCEPT !.fresh = FALSE, !.stray = @ \cup dropped]]
PlaySim ==
    LET a == Step[2]
        ue == Step[3]
    IN  \/ At("addSim") /\ Step[4] \in ue.sims /\ Refused
        \/ At("delSim") /\ Step[4] \notin ue.sims /\ Refused
        \/ /\ At("addSim") /\ Step[4] \notin ue.sims /\ Record(a, ue.vm, ue.sims \cup {Step[4]})
           /\ Play(ue.vm, ue.sims \cup {Step[4]}, {}) /\ UNCHANGED <<areas, pdu, ops>>
        \/ /\ At("delSim") /\ Step[4] \in ue.sims /\ Record(a, ue.vm, ue.sims \ {Step[4]})
           /\ Play(ue.vm, ue.sims \ {Step[4]}, {Step[4]}) /\ UNCHANGED <<areas, pdu, ops>>

ConfigureStep ==
    LET a == Step[2]
    IN  /\ At("configure")
        /\ \/ areas[a] = 0 /\ Refused
           \/ areas[a] # 0 /\ Play(areas[a], {}, {}) /\ UNCHANGED <<areas, ues, pdu, ops>>

(* destroy: the PDUs of the areas, then every machine that is registered.   *)
DeletePdus ==
    /\ At("unlist") /\ Proceed /\ UNCHANGED <<areas, ues, machines, ops, faults>>
    /\ pdu' = [a \in Area |-> IF areas[a] # 0 THEN Unlisted(a) ELSE pdu[a]]
DestroyMachines ==
    LET Without(gone) == [m \in DOMAIN machines |->
                            [machines[m] EXCEPT !.there = @ /\ m \notin gone, !.tried = TRUE]]
        mine == {m \in DOMAIN machines : machines[m].registered}
    IN  /\ At("destroy") /\ UNCHANGED <<areas, ues, pdu, ops>>
        /\ \/ Proceed /\ machines' = Without(mine) /\ UNCHANGED faults
           \/ /\ mine # {} /\ Fail /\ Fault
              /\ \E some \in SUBSET mine : machines' = Without(some)

Calls ==
    \/ \E a \in Area : AddGnb(a) \/ DelGnb(a) \/ ConfigureGnb(a) \/ LockPdu(a)
    \/ \E a \in Area, first \in FirstUes : Create(a, first)
    \/ \E a \in Area, id \in UeId : DelUe(a, id) \/ AddUe(a, id, Sim)
    \/ \E a \in Area, id \in UeId, sim \in Sim : AddSim(a, id, sim) \/ DelSim(a, id, sim)
    \/ Destroy
Steps ==
    \/ CreateGnb \/ AddPdu \/ CreateUe \/ DropUe \/ MissUe \/ DropGnb
    \/ PlaySim \/ ConfigureStep \/ DeletePdus \/ DestroyMachines
Next == Calls \/ Steps
Spec == Init /\ [][Next]_ueransimVars
-----------------------------------------------------------------------------
\* A machine that exists is registered, so that the deletion of the blueprint
\* removes it, whichever step of which call failed.
InSight == \A m \in DOMAIN machines : machines[m].there => machines[m].registered

\* An area that is known has its gNB, and the UEs listed in it have machines of
\* their own; only one whose removal was tried, in vain or before del_gnb failed, is gone.
IsThere(m) == machines[m].there \/ machines[m].tried
Listed == {x \in Area \X (1 .. MaxMachines) : x[2] \in DOMAIN ues[x[1]]}
EntriesExist ==
    /\ \A a \in Area : areas[a] # 0 => IsThere(areas[a])
    /\ \A e \in Listed : areas[e[1]] # 0
    /\ \A e \in Listed : LET m == ues[e[1]][e[2]].vm
                         IN  IsThere(m) \/ ~ machines[m].registered
    /\ \A e, f \in Listed : ues[e[1]][e[2]].vm = ues[f[1]][f[2]].vm => e = f

\* A UE whose last playbook ended well simulates its SIMs, and besides them
\* only those whose removal failed.
SimsRun == \A e \in Listed :
    LET ue == ues[e[1]][e[2]]
        m == machines[ue.vm]
    IN  m.fresh => ue.sims \subseteq m.runs /\ m.runs \subseteq ue.sims \cup m.stray

\* A gNB is offered to the cores in the areas that are known, and no other.
OfferedIsThere == \A a \in Area : pdu[a] \in {"free", "locked"} => areas[a] # 0
GoneIsClean == phase = "gone" => \A m \in DOMAIN machines : ~ machines[m].there

TypeOK ==
    /\ phase \in {"new", "creating", "made", "ending", "gone"} /\ Len(machines) <= MaxMachines
    /\ areas \in [Area -> 0 .. Len(machines)]
    /\ \A e \in Listed : /\ ues[e[1]][e[2]].id \in UeId /\ ues[e[1]][e[2]].sims \subseteq Sim
                         /\ ues[e[1]][e[2]].vm \in DOMAIN machines
    /\ pdu \in [Area -> {"none", "free", "locked", "left", "stray"}]
    /\ ops \in 0 .. MaxOps /\ faults \in 0 .. MaxFaults
=============================================================================
