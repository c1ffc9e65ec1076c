---------------------------- MODULE UeransimK8s ----------------------------
(***************************************************************************)
(* UERANSIM on Kubernetes: a chart for each area with a gNB and a UE for    *)
(* every SIM.  The configuration changes first and the chart follows it;    *)
(* the charts of the areas of one cluster want the same namespace.          *)
(***************************************************************************)
EXTENDS Naturals, Sequences

CONSTANTS Area, UeId, Sim,
          Setting,            \* what a core configures in a gNB, routes apart
          Route,              \* the routes it adds
          ClusterOf,          \* the cluster of an area
          MaxOps, MaxFaults   \* bounds: calls, failing steps

VARIABLES phase,    \* new, creating, made, ending (its deletion was tried), gone
          ues,      \* areas of current_config: the SIMs of a UE, or Absent
          values,   \* ueransim_config_values of an area: the gNB and the UEs, or NoValues
          chart,    \* what the release of an area was given last, or NoValues
          runs,     \* what the pods of its gNB have read
          fresh,    \* areas whose last upgrade ended well
          pdu,      \* in the topology: none, free, locked; stray when its gNB is gone
          job, ops, faults

ueransimVars == <<phase, ues, values, chart, runs, fresh, pdu, job, ops, faults>>

Absent == {"absent"}   \* the SIMs of a UE that is not there
NoValues == [gnb |-> "none", routes |-> {}, instances |-> {}]
Fresh == [gnb |-> "default", routes |-> {}, instances |-> {}]
NoJob == [op |-> "none", area |-> "none", todo |-> <<>>, ok |-> TRUE]

Init ==
    /\ phase = "new" /\ ues = [a \in Area |-> [u \in UeId |-> Absent]]
    /\ values = [a \in Area |-> NoValues] /\ chart = values /\ runs = [a \in Area |-> "none"]
    /\ fresh = {} /\ pdu = [a \in Area |-> "none"]
    /\ job = NoJob /\ ops = 0 /\ faults = 0

Resting == job.todo = <<>>
Step == Head(job.todo)
At(name) == ~ Resting /\ Step = name
Here == job.area
Fault == faults < MaxFaults /\ faults' = faults + 1
Settled(end) == phase' = IF phase = "creating" THEN "made" ELSE end
Fail == job' = [job EXCEPT !.todo = <<>>, !.ok = FALSE] /\ Settled(phase)
Proceed ==
    /\ job' = [job EXCEPT !.todo = Tail(@)]
    /\ IF Len(job.todo) > 1 THEN UNCHANGED phase
       ELSE Settled(IF job.op = "destroy" THEN "gone" ELSE phase)

Begin(op, a, todo) ==
    /\ Resting /\ job' = [op |-> op, area |-> a, todo |-> todo, ok |-> TRUE]
    /\ UNCHANGED <<chart, runs, fresh, pdu, faults>>
Call(op, a, todo) ==
    /\ phase \in {"made", "ending"} /\ ops < MaxOps /\ ops' = ops + 1 /\ UNCHANGED phase
    /\ Begin(op, a, todo)

\* The areas are made one after the other; the first has the UE of the request.
Create(a, first) ==
    /\ phase = "new" /\ phase' = "creating" /\ UNCHANGED <<values, ops>>
    /\ ues' = [ues EXCEPT ![a] = first] /\ Begin("create", a, <<"install", "list", "next">>)
\* A call that asks for what is there, or for something of what is not, is refused.
Change(op, a, u, sims) ==
    /\ ues' = [ues EXCEPT ![a][u] = sims] /\ UNCHANGED values /\ Call(op, a, <<"upgrade">>)
AddUe(a, u) == ues[a][u] = Absent /\ Change("add_ue", a, u, Sim)
DelUe(a, u) == ues[a][u] # Absent /\ Change("del_ue", a, u, Absent)
AddSim(a, u, s) ==
    ues[a][u] # Absent /\ s \notin ues[a][u] /\ Change("add_sim", a, u, ues[a][u] \cup {s})
DelSim(a, u, s) ==
    ues[a][u] # Absent /\ s \in ues[a][u] /\ Change("del_sim", a, u, ues[a][u] \ {s})
ConfigureGnb(a, setting, routes) ==
    /\ values[a] # NoValues /\ UNCHANGED ues
    /\ values' = [values EXCEPT ![a] = [@ EXCEPT !.gnb = setting, !.routes = @ \cup routes]]
    /\ Call("configure_gnb", a, <<"upgrade", "restart">>)
Destroy ==
    /\ phase \in {"made", "ending"} /\ phase' = "ending" /\ UNCHANGED <<ues, values, ops>>
    /\ Begin("destroy", "none", <<"unlist", "uninstall">>)

\* A 5G core locks the PDU of a gNB, and lets go of it.
LockPdu(a) ==
    /\ \/ pdu[a] = "free" /\ pdu' = [pdu EXCEPT ![a] = "locked"]
       \/ pdu[a] = "locked" /\ pdu' = [pdu EXCEPT ![a] = "free"]
    /\ UNCHANGED <<phase, ues, values, chart, runs, fresh, job, ops, faults>>
-----------------------------------------------------------------------------
\* update_ueransim_values: a UE instance for every SIM of the configuration.
Instances(a) == {x \in UeId \X Sim : ues[a][x[1]] # Absent /\ x[2] \in ues[a][x[1]]}
Updated(a) == [values[a] EXCEPT !.instances = Instances(a)]

\* The new UEs are started with the upgrade, the gNB if it is the first time.
Given(a, v) ==
    /\ chart' = [chart EXCEPT ![a] = v]
    /\ runs' = [runs EXCEPT ![a] = IF @ = "none" THEN v.gnb ELSE @]
Released(a, v) ==
    \/ Given(a, v) /\ fresh' = fresh \cup {a} /\ Proceed /\ UNCHANGED faults
    \/ /\ fresh' = fresh \ {a} /\ Fail /\ Fault
       /\ Given(a, v) \/ UNCHANGED <<chart, runs>>

(* spawn_gnb_ues: the namespace is that of the blueprint, and creating it   *)
(* again on the same cluster is an error.                                   *)
Install ==
    LET v == [Fresh EXCEPT !.instances = Instances(Here)]
        taken == \E a \in Area \ {Here} : values[a] # NoValues /\ ClusterOf[a] = ClusterOf[Here]
    IN  /\ At("install") /\ values' = [values EXCEPT ![Here] = v] /\ UNCHANGED <<ues, pdu, ops>>
        /\ IF taken THEN Fail /\ UNCHANGED <<chart, runs, fresh, faults>> ELSE Released(Here, v)
AddPdu ==
    /\ At("list") /\ pdu' = [pdu EXCEPT ![Here] = "free"] /\ Proceed
    /\ UNCHANGED <<ues, values, chart, runs, fresh, ops, faults>>
NextArea ==
    /\ At("next") /\ UNCHANGED <<ues, values, chart, runs, fresh, pdu, ops, faults>>
    /\ \/ \A a \in Area : values[a] # NoValues /\ Proceed
       \/ \E a \in Area : /\ values[a] = NoValues /\ UNCHANGED phase
                          /\ job' = [job EXCEPT !.area = a, !.todo = <<"install", "list", "next">>]

(* update_ueransim: an area its creation did not reach has no values.       *)
Upgrade ==
    /\ At("upgrade") /\ UNCHANGED <<ues, pdu, ops>>
    /\ IF values[Here] = NoValues
       THEN Fail /\ UNCHANGED <<values, chart, runs, fresh, faults>>
       ELSE values' = [values EXCEPT ![Here] = Updated(Here)] /\ Released(Here, Updated(Here))

(* restart_ran: the gNB, then the UEs.                                      *)
Restart ==
    /\ At("restart") /\ UNCHANGED <<ues, values, chart, fresh, pdu, ops>>
    /\ \/ runs' = [runs EXCEPT ![Here] = chart[Here].gnb] /\ Proceed /\ UNCHANGED faults
       \/ Fail /\ Fault /\ (UNCHANGED runs \/ runs' = [runs EXCEPT ![Here] = chart[Here].gnb])

(* destroy: the PDUs leave the topology unless they are locked, which is    *)
(* logged; then the charts are uninstalled one by one.                      *)
DeletePdus ==
    /\ At("unlist") /\ Proceed /\ UNCHANGED <<ues, values, chart, runs, fresh, ops, faults>>
    /\ pdu' = [a \in Area |-> IF pdu[a] \in {"locked", "stray"} THEN "stray" ELSE "none"]
Uninstall ==
    LET Without(gone) == /\ chart' = [a \in Area |-> IF a \in gone THEN NoValues ELSE chart[a]]
                         /\ runs' = [a \in Area |-> IF a \in gone THEN "none" ELSE runs[a]]
    IN  /\ At("uninstall") /\ UNCHANGED <<ues, values, pdu, ops>> /\ fresh' = {}
        /\ \/ Without({a \in Area : values[a] # NoValues}) /\ Proceed /\ UNCHANGED faults
           \/ Fail /\ Fault /\ \E gone \in SUBSET {a \in Area : values[a] # NoValues} : Without(gone)

Calls ==
    \/ \E a \in Area, sims \in {Absent, {}, Sim} : \E u \in UeId :
          Create(a, [w \in UeId |-> IF w = u THEN sims ELSE Absent])
    \/ \E a \in Area, u \in UeId : AddUe(a, u) \/ DelUe(a, u)
    \/ \E a \in Area, u \in UeId, s \in Sim : AddSim(a, u, s) \/ DelSim(a, u, s)
    \/ \E a \in Area, x \in Setting, rs \in SUBSET Route : ConfigureGnb(a, x, rs)
    \/ \E a \in Area : LockPdu(a)
    \/ Destroy
Steps ==
    \/ Install \/ AddPdu \/ NextArea \/ Upgrade \/ Restart \/ DeletePdus \/ Uninstall
Next == Calls \/ Steps
Spec == Init /\ [][Next]_ueransimVars
-----------------------------------------------------------------------------
\* Once an upgrade of an area ended well its release has a UE for every SIM of
\* the configuration and for no other, however the calls before it ended.
ReleaseFollows == \A a \in fresh :
    Resting => chart[a].instances = Instances(a) /\ chart[a] = values[a]

\* After a configuration that succeeds the gNB runs it.
GnbConfigured == Resting /\ job.ok /\ job.op = "configure_gnb" => runs[Here] = values[Here].gnb

\* A gNB is offered to the cores only in the areas where it is installed.
OfferedIsThere == \A a \in Area : pdu[a] \in {"free", "locked"} => chart[a] # NoValues
GoneIsClean == phase = "gone" => \A a \in Area : chart[a] = NoValues

TypeOK ==
    /\ phase \in {"new", "creating", "made", "ending", "gone"}
    /\ ues \in [Area -> [UeId -> SUBSET Sim \cup {Absent}]] /\ fresh \subseteq Area
    /\ pdu \in [Area -> {"none", "free", "locked", "stray"}]
    /\ \A a \in Area : values[a].routes \subseteq Route /\ runs[a] \in Setting \cup {"none", "default"}
    /\ ops \in 0 .. MaxOps /\ faults \in 0 .. MaxFaults
=============================================================================
