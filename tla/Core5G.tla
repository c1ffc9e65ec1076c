------------------------------- MODULE Core5G -------------------------------
(***************************************************************************)
(* A 5G core and what it keeps in line: one UPF blueprint in each of its    *)
(* areas, its network functions, the physical gNBs, and the subscribers.    *)
(* The core is OpenAirInterface, whose steps on top of the generic 5G       *)
(* blueprint are the richest.  Calls are sequential; each of their remote   *)
(* steps may fail, and a failing day-2 call restores the configuration and  *)
(* nothing else.                                                            *)
(***************************************************************************)
EXTENDS Naturals, Sequences

CONSTANTS Area, Slice, Dnn, Ue,
          CoreArea, FirstSlice, FirstDnn,  \* what the core is created with
          DnnOf,       \* a function: the data network in the dnnList of a slice
          PduArea,     \* areas with a gNB in the topology
          MaxOps,      \* bound: day-2 calls
          MaxFaults    \* bound: remote steps that fail

VARIABLES phase,         \* new, creating, ready or failed
          config,        \* current_config
          backup,        \* backup_config of the call in progress
          job,           \* the call in progress, or the last one
          edge,          \* edge_areas: the UPF and its configuration, if any
          ran,           \* ran_areas
          ueDict,        \* ue_dict: the subscribers associated with a slice
          upf, pushed,   \* the UPF blueprints; the helm values of the core
          owner, gnb,    \* who locks the gNB of an area, what it was configured with
          udr,           \* the subscribers the core's database knows
          broken,        \* history: subscribers whose call failed half-way
          ops, faults

coreVars == <<phase, config, backup, job, edge, ran, ueDict, upf, pushed, owner, gnb,
              udr, broken, ops, faults>>

None == [st |-> "none", slices |-> {}, nrf |-> FALSE]
NoUpf == [None EXCEPT !.st = "noupf"]
Idle == [op |-> "none", todo |-> <<>>, areas |-> {}, ues |-> {}, first |-> FirstSlice, ok |-> TRUE]
Config == [areas : SUBSET Area, gnbs : SUBSET Area, slices : [Area -> SUBSET Slice],
           profiles : SUBSET Slice, dnns : SUBSET Dnn, ues : SUBSET Ue]

Served(c) == {x \in Area \X Slice : x[1] \in c.areas /\ x[2] \in c.slices[x[1]]}

\* Every variable keeps the shape the blueprint's state gives it.
TypeOK ==
    /\ config \in Config /\ backup \in Config
    /\ \A a \in Area : edge[a].st \in {"none", "noupf", "upf"} /\ edge[a].slices \subseteq Slice
    /\ \A a \in Area : upf[a].st \in {"none", "upf"} /\ upf[a].slices \subseteq Slice
    /\ ran \subseteq Area /\ ueDict \cup udr \cup broken \subseteq Ue
    /\ \A a \in Area : owner[a] \in {"nobody", "core", "other"}
    /\ job.areas \subseteq Area /\ job.ues \subseteq Ue
    /\ pushed \subseteq Area \X Slice

Init ==
    /\ phase = "new"
    /\ \E g \in SUBSET {CoreArea}, u \in SUBSET Ue :
         config = [areas |-> {CoreArea}, gnbs |-> g, profiles |-> {FirstSlice}, dnns |-> {FirstDnn},
                   slices |-> [a \in Area |-> IF a = CoreArea THEN {FirstSlice} ELSE {}], ues |-> u]
    /\ backup = config /\ job = Idle
    /\ edge = [a \in Area |-> None] /\ ran = {} /\ ueDict = {}
    /\ upf = [a \in Area |-> None] /\ pushed = {}
    /\ owner = [a \in Area |-> "nobody"] /\ gnb = [a \in Area |-> {}]
    /\ udr = {} /\ broken = {} /\ ops = 0 /\ faults = 0

Resting == job.todo = <<>>
At(step) == ~ Resting /\ Head(job.todo) = step
WorldKept == UNCHANGED <<edge, ran, ueDict, upf, pushed, owner, gnb, udr>>
Fault == faults < MaxFaults /\ faults' = faults + 1

(* The next step of the call starts with every area still to visit.         *)
Proceed ==
    /\ job' = [job EXCEPT !.todo = Tail(@),
                           !.areas = IF Len(job.todo) = 1 THEN {} ELSE config.areas]
    /\ phase' = IF Len(job.todo) = 1 /\ phase = "creating" THEN "ready" ELSE phase
    /\ UNCHANGED <<config, backup, broken>>
Visited(a) == job' = [job EXCEPT !.areas = @ \ {a}] /\ UNCHANGED <<phase, config, backup, broken>>

(* Every day-2 function catches what its steps raise, restores              *)
(* current_config and raises again.                                         *)
Fail ==
    /\ job' = [job EXCEPT !.todo = <<>>, !.areas = {}, !.ues = {}, !.ok = FALSE]
    /\ phase' = IF phase = "creating" THEN "failed" ELSE phase
    /\ config' = IF phase = "creating" THEN config ELSE backup
    /\ broken' = IF job.op \in {"add_ues", "del_ues"} THEN broken \cup job.ues ELSE broken
    /\ UNCHANGED backup
-----------------------------------------------------------------------------
(* What each call does, in its order.                                       *)
Script(op) ==
    CASE op = "create" -> <<"edges", "install", "ues", "edges", "gnbs">>
      [] op \in {"add_slice", "del_slice"} -> <<"edges", "core", "force", "gnbs">>
      [] op \in {"add_tac", "del_tac"} -> <<"edges", "core", "force", "restart", "gnbs">>
      [] op \in {"add_dnn", "del_dnn"} -> <<"core">>
      [] op = "add_ues" -> <<"ues">>
      [] op = "del_ues" -> <<"dissociate", "core", "gnbs", "forget">>

Call(op, new) ==
    /\ Resting /\ backup' = config /\ config' = new
    /\ job' = [Idle EXCEPT !.op = op, !.todo = Script(op), !.areas = new.areas]
    /\ UNCHANGED <<broken, faults>> /\ WorldKept

(* create: networks are feasible; a locked gNB is refused.                  *)
Create ==
    /\ phase = "new" /\ phase' = "creating" /\ UNCHANGED <<config, ops>>
    /\ \A a \in config.gnbs : a \in PduArea /\ owner[a] = "nobody"
    /\ Resting /\ backup' = config /\ UNCHANGED <<broken, faults>> /\ WorldKept
    /\ job' = [Idle EXCEPT !.op = "create", !.todo = Script("create"),
                           !.areas = config.areas, !.ues = config.ues]

Day2(op, new) ==
    phase = "ready" /\ ops < MaxOps /\ ops' = ops + 1 /\ UNCHANGED phase /\ Call(op, new)

AddTac(a, slices, gnbToo) ==
    /\ a \notin config.areas
    /\ Day2("add_tac", [config EXCEPT !.areas = @ \cup {a}, !.slices[a] = slices,
                                      !.gnbs = IF gnbToo THEN @ \cup {a} ELSE @])

DelTac(a) ==
    /\ a \in config.areas
    /\ Day2("del_tac", [config EXCEPT !.areas = @ \ {a}, !.gnbs = @ \ {a}, !.slices[a] = {}])

(* day2_add_slice_generic, for an operator (areas may be empty) or for OSS; *)
(* the DNNs of the profiles have to differ.                                 *)
AddSlice(s, areas) ==
    /\ s \notin config.profiles /\ areas \subseteq config.areas
    /\ \A t \in config.profiles : DnnOf[t] # DnnOf[s]
    /\ Day2("add_slice", [config EXCEPT !.profiles = @ \cup {s},
             !.slices = [a \in Area |-> IF a \in areas THEN @[a] \cup {s} ELSE @[a]]])

(* del_slice compares the slice with the subscribers' in decimal: the       *)
(* association of its subscribers stays.                                    *)
DelSlice(s) ==
    Day2("del_slice", [config EXCEPT !.profiles = @ \ {s}, !.slices = [a \in Area |-> @[a] \ {s}]])

AddDnn(d) == d \notin config.dnns /\ Day2("add_dnn", [config EXCEPT !.dnns = @ \cup {d}])

DelDnn(d) ==
    /\ d \in config.dnns /\ \A s \in config.profiles : DnnOf[s] # d
    /\ Day2("del_dnn", [config EXCEPT !.dnns = @ \ {d}])

(* One of the subscriber's slices has to exist; the first one is used.      *)
AddUes(u, first, other) ==
    /\ u \notin config.ues /\ {first, other} \cap config.profiles # {}
    /\ phase = "ready" /\ ops < MaxOps /\ ops' = ops + 1 /\ Resting
    /\ backup' = config /\ config' = [config EXCEPT !.ues = @ \cup {u}]
    /\ job' = [Idle EXCEPT !.op = "add_ues", !.todo = <<"ues">>, !.ues = {u}, !.first = first]
    /\ UNCHANGED <<phase, broken, faults>> /\ WorldKept

DelUes(u) ==
    /\ u \in config.ues
    /\ phase = "ready" /\ ops < MaxOps /\ ops' = ops + 1 /\ Resting
    /\ backup' = config /\ config' = [config EXCEPT !.ues = @ \ {u}]
    /\ job' = [Idle EXCEPT !.op = "del_ues", !.todo = Script("del_ues"), !.ues = {u},
                           !.areas = config.areas]
    /\ UNCHANGED <<phase, broken, faults>> /\ WorldKept
-----------------------------------------------------------------------------
(* update_edge_areas, with or without force, visits the areas; then those   *)
(* it no longer finds in the configuration lose their UPF.                  *)
Edging == At("edges") \/ At("force")
Deployed == "install" \notin {job.todo[i] : i \in DOMAIN job.todo}
Wanted(a) == [st |-> "upf", slices |-> config.slices[a], nrf |-> Deployed]
Configurable(a) == config.slices[a] \subseteq config.profiles
EdgeKept == UNCHANGED <<ran, ueDict, pushed, owner, gnb, udr, ops>>

DeployUpf(a) ==
    /\ Edging /\ a \in job.areas /\ edge[a].st = "none" /\ EdgeKept
    /\ \/ /\ Configurable(a) /\ Visited(a) /\ UNCHANGED faults
          /\ edge' = [edge EXCEPT ![a] = Wanted(a)] /\ upf' = [upf EXCEPT ![a] = Wanted(a)]
       \/ /\ Fail /\ edge' = [edge EXCEPT ![a] = NoUpf]
          /\ \/ ~ Configurable(a) /\ UNCHANGED <<upf, faults>>
             \/ Configurable(a) /\ Fault /\ upf' = [upf EXCEPT ![a] = Wanted(a)]

(* An area whose UPF could not be deployed has no upf to compare with.      *)
EdgeWithoutUpf(a) ==
    /\ Edging /\ edge[a].st = "noupf"
    /\ a \in job.areas \/ (job.areas = {} /\ a \notin config.areas)
    /\ Fail /\ UNCHANGED <<ops, faults>> /\ WorldKept

NeverUpdate(a) ==            \* mutant: a deployed UPF is left as it is
    /\ Edging /\ a \in job.areas /\ edge[a].st = "upf"
    /\ Visited(a) /\ UNCHANGED <<edge, upf, faults>> /\ EdgeKept

UpdateUpf(a) ==
    /\ Edging /\ a \in job.areas /\ edge[a].st = "upf" /\ EdgeKept
    /\ \/ ~ Configurable(a) /\ Fail /\ UNCHANGED <<edge, upf, faults>>
       \/ /\ Configurable(a) /\ ~ At("force") /\ edge[a] = Wanted(a)
          /\ Visited(a) /\ UNCHANGED <<edge, upf, faults>>
       \/ /\ Configurable(a) /\ (At("force") \/ edge[a] # Wanted(a))
          /\ \/ /\ Visited(a) /\ UNCHANGED faults
                /\ edge' = [edge EXCEPT ![a] = Wanted(a)] /\ upf' = [upf EXCEPT ![a] = Wanted(a)]
             \/ /\ Fail /\ Fault /\ UNCHANGED edge
                /\ upf' \in {upf, [upf EXCEPT ![a] = Wanted(a)]}

UndeployUpf(a) ==
    /\ Edging /\ job.areas = {} /\ a \notin config.areas /\ edge[a].st = "upf" /\ EdgeKept
    /\ \/ /\ edge' = [edge EXCEPT ![a] = None] /\ upf' = [upf EXCEPT ![a] = None]
          /\ UNCHANGED <<phase, config, backup, job, broken, faults>>
       \/ Fail /\ Fault /\ UNCHANGED <<edge, upf>>

EdgesDone ==
    /\ Edging /\ job.areas = {} /\ \A a \in Area \ config.areas : edge[a].st = "none"
    /\ Proceed /\ UNCHANGED <<ops, faults>> /\ WorldKept
-----------------------------------------------------------------------------
(* update_core_values, then the chart with the new values: every area has a *)
(* UPF, every slice a profile and data networks, and no slice two areas.    *)
Consistent ==
    /\ \A a \in config.areas : edge[a].st = "upf" /\ Configurable(a)
    /\ \A x, y \in Served(config) : DnnOf[x[2]] \in config.dnns /\ (x[2] = y[2] => x = y)

PushCore ==
    /\ At("core") \/ At("install")
    /\ UNCHANGED <<edge, ran, ueDict, upf, owner, gnb, udr, ops>>
    /\ \/ Consistent /\ pushed' = Served(config) /\ Proceed /\ UNCHANGED faults
       \/ Consistent /\ pushed' \in {pushed, Served(config)} /\ Fail /\ Fault
       \/ ~ Consistent /\ UNCHANGED <<pushed, faults>> /\ Fail

RestartSmf ==
    /\ At("restart") /\ UNCHANGED ops /\ WorldKept
    /\ \/ Proceed /\ UNCHANGED faults
       \/ Fail /\ Fault

(* add_subscriber_to_conf, then the association, which is noted before the  *)
(* data networks are looked up and before it is sent.                       *)
UeKept == UNCHANGED <<edge, ran, upf, pushed, owner, gnb, ops>>
Associable(u) == u \notin ueDict /\ job.first \in config.profiles

AddUe(u) ==
    LET known == DnnOf[job.first] \in config.dnns
    IN  /\ At("ues") /\ u \in job.ues /\ UeKept
        /\ \/ /\ Associable(u) /\ known /\ UNCHANGED <<phase, config, backup, broken, faults>>
              /\ udr' = udr \cup {u} /\ ueDict' = ueDict \cup {u}
              /\ job' = [job EXCEPT !.ues = @ \ {u}]
           \/ Fail /\ Fault /\ UNCHANGED <<udr, ueDict>>
           \/ /\ Fail /\ udr' = udr \cup {u}
              /\ \/ ~ Associable(u) /\ UNCHANGED <<ueDict, faults>>
                 \/ Associable(u) /\ ueDict' = ueDict \cup {u} /\ IF known THEN Fault ELSE UNCHANGED faults

UesDone == At("ues") /\ job.ues = {} /\ Proceed /\ UNCHANGED <<ops, faults>> /\ WorldKept

(* An answer other than 204 leaves the association and is not an error.     *)
Dissociate ==
    LET known == job.ues \subseteq ueDict
    IN  /\ At("dissociate") /\ UeKept /\ UNCHANGED udr
        /\ \/ ~ known /\ Fail /\ UNCHANGED <<ueDict, faults>>
           \/ known /\ Proceed /\ ueDict' = ueDict \ job.ues /\ UNCHANGED faults
           \/ known /\ Fail /\ Fault /\ UNCHANGED ueDict
           \/ /\ known /\ Fault /\ UNCHANGED <<ueDict, phase, config, backup>>
              /\ job' = [job EXCEPT !.todo = Tail(@), !.areas = config.areas]
              /\ broken' = broken \cup job.ues

ForgetUe ==
    /\ At("forget") /\ UeKept /\ UNCHANGED ueDict
    /\ \/ Proceed /\ udr' = udr \ job.ues /\ UNCHANGED faults
       \/ Fail /\ Fault /\ UNCHANGED udr
-----------------------------------------------------------------------------
(* update_gnb_config: each gNB is found, locked, and configured with the    *)
(* slices of its area and the UPF of the first of them; the gNBs of areas   *)
(* that left are looked up by a method the provider does not have.          *)
GnbKept == UNCHANGED <<edge, ueDict, upf, pushed, udr, ops>>
Lockable(a) == owner[a] # "other"
ServedBy(s) == \E e \in Area : edge[e].st = "upf" /\ s \in edge[e].slices
Routable(a) == edge[a].st = "upf" /\ \A e \in Area : edge[e].st # "noupf"
ToConfigure == job.areas \cap config.gnbs

ConfigureGnb(a) ==
    LET lock == [owner EXCEPT ![a] = "core"]
        possible == config.slices[a] # {} /\ Routable(a)
    IN  /\ At("gnbs") /\ a \in ToConfigure /\ config.gnbs \subseteq PduArea /\ GnbKept
        /\ \/ ~ Lockable(a) /\ Fail /\ UNCHANGED <<owner, gnb, ran, faults>>
           \/ /\ Lockable(a) /\ possible /\ \E s \in config.slices[a] : ServedBy(s)
              /\ owner' = lock /\ gnb' = [gnb EXCEPT ![a] = config.slices[a]]
              /\ ran' = ran \cup {a} /\ Visited(a) /\ UNCHANGED faults
           \/ /\ Lockable(a) /\ (possible => \E s \in config.slices[a] : ~ ServedBy(s))
              /\ Fail /\ owner' = lock /\ UNCHANGED <<gnb, ran, faults>>
           \/ /\ Lockable(a) /\ possible /\ Fault /\ Fail /\ owner' = lock
              /\ gnb' \in {gnb, [gnb EXCEPT ![a] = config.slices[a]]} /\ UNCHANGED ran

GnbsDone ==
    /\ At("gnbs") /\ (config.gnbs \subseteq PduArea => ToConfigure = {}) /\ GnbKept
    /\ IF config.gnbs \subseteq PduArea /\ ran \subseteq config.areas THEN Proceed
       ELSE Fail
    /\ UNCHANGED <<owner, gnb, ran, faults>>

(* Another core takes a gNB that is free, and gives it back.                *)
OtherLocks(a) ==
    /\ a \in PduArea /\ owner[a] # "core"
    /\ owner' = [owner EXCEPT ![a] = IF @ = "other" THEN "nobody" ELSE "other"]
    /\ UNCHANGED <<phase, config, backup, job, edge, ran, ueDict, upf, pushed, gnb, udr, broken, ops, faults>>

Steps ==
    \/ \E a \in Area : DeployUpf(a) \/ EdgeWithoutUpf(a) \/ UpdateUpf(a) \/ UndeployUpf(a) \/ ConfigureGnb(a)
    \/ EdgesDone \/ PushCore \/ RestartSmf \/ \E u \in Ue : AddUe(u)
    \/ UesDone \/ Dissociate \/ ForgetUe \/ GnbsDone

Next ==
    \/ Create
    \/ \E a \in Area, ss \in SUBSET Slice, g \in BOOLEAN : AddTac(a, ss, g)
    \/ \E a \in Area : DelTac(a) \/ OtherLocks(a)
    \/ \E s \in Slice, as \in SUBSET Area : AddSlice(s, as)
    \/ \E s \in Slice : DelSlice(s)
    \/ \E d \in Dnn : AddDnn(d) \/ DelDnn(d)
    \/ \E u \in Ue, s, t \in Slice : AddUes(u, s, t)
    \/ \E u \in Ue : DelUes(u)
    \/ Steps
Spec == Init /\ [][Next]_coreVars
-----------------------------------------------------------------------------
\* After a call on slices or areas succeeds, the UPFs, the network functions
\* and the gNBs all have what the configuration says, however many calls before
\* it failed half-way and had only the configuration restored.
Agreement ==
    phase = "ready" /\ Resting /\ job.ok /\ job.op \notin {"none", "add_dnn", "del_dnn", "add_ues", "del_ues"} =>
        /\ pushed = Served(config)
        /\ \A a \in Area : upf[a] = edge[a] /\ edge[a] = (IF a \in config.areas THEN Wanted(a) ELSE None)
        /\ \A a \in config.gnbs : owner[a] = "core" /\ gnb[a] = config.slices[a]

\* A UPF blueprint is never lost sight of: its area stays an edge area until it
\* is destroyed, and an edge area's UPF exists, after failed calls too.
UpfsInSight ==
    \A a \in Area : /\ upf[a].st = "upf" => edge[a].st # "none"
                    /\ edge[a].st = "upf" => upf[a].st = "upf"

\* Between calls, what the areas serve are profiles whose data networks exist,
\* each in one area, since a call that meets anything else is undone.
SlicesServable ==
    phase = "ready" /\ Resting =>
        \A x, y \in Served(config) :
            x[2] \in config.profiles /\ DnnOf[x[2]] \in config.dnns /\ (x[2] = y[2] => x = y)

\* Between calls, the configuration, the core's database and ue_dict have the
\* same subscribers, but for those whose call failed half-way.
SubscribersKnown ==
    phase = "ready" /\ Resting =>
        \A u \in Ue \ broken : (u \in config.ues <=> u \in udr) /\ (u \in config.ues <=> u \in ueDict)
=============================================================================
