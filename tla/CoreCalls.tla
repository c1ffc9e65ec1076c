------------------------------ MODULE CoreCalls ------------------------------
(***************************************************************************)
(* What the 5G cores have in common when they are called: the configuration *)
(* each call edits, keeps if it succeeds and restores if it fails, and      *)
(* update_edge_areas, which gives every area a UPF.  Free5gcCore and SdCore *)
(* add what their network functions are configured with.  (Core5G models    *)
(* the same part step by step with OpenAirInterface on top.)                *)
(***************************************************************************)
EXTENDS Naturals, Sequences, FiniteSets, FiniteSetsExt

CONSTANTS Area, Slice, Dnn, Ue,
          CoreArea, FirstSlice,
          DnnsOf,      \* a function: the dnnList of each slice
          SlicesOf,    \* a function: the snssai of each subscriber
          PerSlice,    \* the UPFs have a machine for every slice
          MaxOps,      \* bound: day-2 calls
          MaxFaults    \* bound: remote steps that fail

VARIABLES phase,           \* new, creating, ready or failed
          config, backup,  \* current_config, and its copy
          job,             \* the call in progress, or the last one
          edge,            \* edge_areas: the UPF of an area as the core knows it
          upf,             \* what the UPF of an area really serves
          rough,           \* history: areas whose last UPF update failed
          ops, faults

callVars == <<phase, config, backup, job, edge, upf, rough, ops, faults>>

Nothing5G == [slices |-> {}, core |-> FALSE]
NoUpf == [st |-> "none", serves |-> Nothing5G, machine |-> [s \in Slice |-> 0]]
Config == [areas : SUBSET Area, slices : [Area -> SUBSET Slice], profiles : SUBSET Slice,
           dnns : SUBSET Dnn, ues : SUBSET Ue]
Served(c) == {x \in Area \X Slice : x[1] \in c.areas /\ x[2] \in c.slices[x[1]]}

CallsTypeOK ==
    /\ config \in Config /\ backup \in Config /\ rough \subseteq Area
    /\ \A a \in Area : /\ edge[a].st \in {"none", "noupf", "upf"}
                       /\ edge[a].machine \in [Slice -> {0, 1}]
                       /\ edge[a].serves.slices \cup upf[a].slices \subseteq Slice \X SUBSET Dnn

CallsInit ==
    /\ phase = "new" /\ ops = 0 /\ faults = 0 /\ rough = {}
    /\ \E u \in SUBSET Ue :
         config = [areas |-> {CoreArea}, profiles |-> {FirstSlice}, dnns |-> DnnsOf[FirstSlice],
                   slices |-> [a \in Area |-> IF a = CoreArea THEN {FirstSlice} ELSE {}], ues |-> u]
    /\ backup = config /\ job = [op |-> "none", todo |-> <<>>, of |-> {}, ok |-> TRUE]
    /\ edge = [a \in Area |-> NoUpf] /\ upf = [a \in Area |-> Nothing5G]

Resting == job.todo = <<>>
At(step) == ~ Resting /\ Head(job.todo) = step
Fault == faults < MaxFaults /\ faults' = faults + 1

Proceed ==
    /\ job' = [job EXCEPT !.todo = Tail(@)]
    /\ phase' = IF phase = "creating" /\ Len(job.todo) = 1 THEN "ready" ELSE phase
    /\ UNCHANGED <<config, backup>>

(* Every day-2 function restores the configuration, and raises again.       *)
Fail ==
    /\ job' = [job EXCEPT !.todo = <<>>, !.ok = FALSE]
    /\ phase' = IF phase = "creating" THEN "failed" ELSE phase
    /\ config' = IF phase = "creating" THEN config ELSE backup
    /\ UNCHANGED backup
-----------------------------------------------------------------------------
(* "of" is the slice or the subscribers a call is about.                    *)
Create(script) ==
    /\ phase = "new" /\ phase' = "creating" /\ backup' = config
    /\ job' = [op |-> "create", todo |-> script, of |-> config.ues, ok |-> TRUE]
    /\ UNCHANGED <<config, edge, upf, rough, ops, faults>>

Day2(op, script, of, new) ==
    /\ phase = "ready" /\ Resting /\ ops < MaxOps /\ ops' = ops + 1
    /\ backup' = config /\ config' = new
    /\ job' = [op |-> op, todo |-> script, of |-> of, ok |-> TRUE]
    /\ UNCHANGED <<phase, edge, upf, rough, faults>>

AddTac(script, a, slices) ==
    /\ a \notin config.areas
    /\ Day2("add_tac", script, {},
            [config EXCEPT !.areas = @ \cup {a}, !.slices[a] = slices])

DelTac(script, a) ==
    /\ a \in config.areas
    /\ Day2("del_tac", script, {},
            [config EXCEPT !.areas = @ \ {a}, !.slices[a] = {}])

AddSlice(script, s, areas) ==
    /\ s \notin config.profiles /\ areas \subseteq config.areas
    /\ \A t \in config.profiles : DnnsOf[t] \cap DnnsOf[s] = {}
    /\ Day2("add_slice", script, {s}, [config EXCEPT !.profiles = @ \cup {s},
             !.slices = [a \in Area |-> IF a \in areas THEN @[a] \cup {s} ELSE @[a]]])

DelSlice(script, s) ==
    Day2("del_slice", script, {s},
         [config EXCEPT !.profiles = @ \ {s}, !.slices = [a \in Area |-> @[a] \ {s}]])

AddDnn(script, d) ==
    d \notin config.dnns /\ Day2("add_dnn", script, {d}, [config EXCEPT !.dnns = @ \cup {d}])

DelDnn(script, d) ==
    /\ d \in config.dnns /\ \A s \in config.profiles : d \notin DnnsOf[s]
    /\ Day2("del_dnn", script, {d}, [config EXCEPT !.dnns = @ \ {d}])

(* One of the subscriber's slices has to exist, not all of them.            *)
AddUes(script, u) ==
    /\ u \notin config.ues /\ SlicesOf[u] \cap config.profiles # {}
    /\ Day2("add_ues", script, {u}, [config EXCEPT !.ues = @ \cup {u}])

DelUes(script, u) ==
    u \in config.ues /\ Day2("del_ues", script, {u}, [config EXCEPT !.ues = @ \ {u}])
-----------------------------------------------------------------------------
(* update_edge_areas: the areas of the configuration get their UPF, or an   *)
(* update if what it should serve has changed; the others lose theirs.  A   *)
(* UPF that could not be deployed is there without one to compare with.     *)
CoreDeployed == "install" \notin {job.todo[i] : i \in DOMAIN job.todo}
Wanted(a) == [slices |-> {<<s, DnnsOf[s] \cap config.dnns>> : s \in config.slices[a]},
              core |-> CoreDeployed]
Visits == config.areas \cup {a \in Area : edge[a].st # "none"}
Impossible(a) == edge[a].st = "noupf" \/ ~ config.slices[a] \subseteq config.profiles
Changes(a) == a \notin config.areas \/ edge[a].st = "none" \/ edge[a].serves # Wanted(a)
NewMachine(a, s) ==
    \/ edge[a].st # "upf"
    \/ PerSlice /\ s \in config.slices[a] /\ \A x \in edge[a].serves.slices : x[1] # s
Deployed(a) ==
    [st |-> "upf", serves |-> Wanted(a),
     machine |-> [s \in Slice |-> IF NewMachine(a, s) THEN 1 - edge[a].machine[s]
                                  ELSE edge[a].machine[s]]]
Undeployed(a) == [NoUpf EXCEPT !.machine = edge[a].machine]
After(a) == IF a \in config.areas THEN Deployed(a) ELSE Undeployed(a)

UpdateEdges ==
    /\ At("edges") /\ \A a \in Visits : ~ Impossible(a)
    /\ edge' = [a \in Area |-> IF a \in Visits /\ Changes(a) THEN After(a) ELSE edge[a]]
    /\ upf' = [a \in Area |-> IF a \in Visits /\ Changes(a) THEN After(a).serves ELSE upf[a]]
    /\ rough' = {a \in rough : ~ Changes(a)}
    /\ Proceed /\ UNCHANGED <<ops, faults>>

(* What was visited before the area that fails has been updated.            *)
FailEdges(a, done) ==
    LET changed == {x \in done : Changes(x)}
        spoilt == IF edge[a].st = "none" THEN [edge[a] EXCEPT !.st = "noupf"] ELSE edge[a]
    IN  /\ At("edges") /\ a \notin done /\ \A x \in done : ~ Impossible(x)
        /\ IF a \in config.areas THEN done \subseteq config.areas ELSE config.areas \subseteq done
        /\ edge' = [x \in Area |-> IF x = a THEN spoilt ELSE IF x \in changed THEN After(x) ELSE edge[x]]
        /\ \E left \in {upf[a], IF a \in config.areas THEN Wanted(a) ELSE upf[a]} :
             /\ Impossible(a) => left = upf[a]
             /\ upf' = [x \in Area |-> IF x = a THEN left
                                       ELSE IF x \in changed THEN After(x).serves ELSE upf[x]]
        /\ IF Impossible(a) THEN UNCHANGED faults ELSE Changes(a) /\ Fault
        /\ rough' = (rough \ changed) \cup (IF Impossible(a) THEN {} ELSE {a})
        /\ Fail /\ UNCHANGED ops

Edges == UpdateEdges \/ \E a \in Visits : \E done \in SUBSET Visits : FailEdges(a, done)
=============================================================================
