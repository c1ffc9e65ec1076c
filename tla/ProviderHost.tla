---------------------------- MODULE ProviderHost ----------------------------
(***************************************************************************)
(* What every virtualization provider lives in: the thread that holds a     *)
(* blueprint's lock and runs its code, the data the blueprint keeps in      *)
(* memory and in the database, and the VIM, which is neither.  The modules  *)
(* of the providers extend this one with the calls of their VIM.            *)
(***************************************************************************)
EXTENDS Naturals, FiniteSets

CONSTANTS Blueprint, Vm, Net,
          MaxFaults,   \* bound: calls to the VIM that fail
          MaxStops     \* bound: stops of the process

VARIABLES cloud,   \* what exists on the VIM, of each kind
          mem,     \* registered VMs and provider data of each blueprint
          db,      \* their copy in the database
          phase,   \* what the thread that holds the blueprint is at
          lost,    \* history: resources whose creating call never returned
          faults, stops

hostVars == <<cloud, mem, db, phase, lost, faults, stops>>

At(step) == [step |-> step, vms |-> {}]
In(b, step) == phase[b].step = step
Goto(b, step, vms) == phase' = [phase EXCEPT ![b] = [step |-> step, vms |-> vms]]
Becomes(b, data) == mem' = [mem EXCEPT ![b] = data]
Exist(kind, resources) == cloud' = [cloud EXCEPT ![kind] = @ \cup resources]
Perish(kind, resources) == cloud' = [cloud EXCEPT ![kind] = @ \ resources]
Lose(kind, resources) == lost' = [lost EXCEPT ![kind] = @ \cup resources]

HostInit(kinds, empty) ==
    /\ cloud = [k \in kinds |-> {}] /\ lost = cloud
    /\ mem = [b \in Blueprint |-> empty] /\ db = mem
    /\ phase = [b \in Blueprint |-> At("absent")]
    /\ faults = 0 /\ stops = 0

(* The persistence function of the provider: the whole blueprint.           *)
SaveToDb(b) == db' = [db EXCEPT ![b] = mem'[b]]

(* The exception leaves the blueprint's code; set_blueprint_status saves.   *)
Raise(b) == Goto(b, "error", {}) /\ SaveToDb(b)

Fault == faults < MaxFaults /\ faults' = faults + 1
NoFault == UNCHANGED <<lost, faults, stops>>

(* The code of a blueprint runs from the moment it is created or updated    *)
(* until it returns: each time the status is set and saved.                 *)
Enter(b) ==
    /\ In(b, "absent") \/ In(b, "ready") \/ In(b, "error")
    /\ Goto(b, "code", {}) /\ UNCHANGED mem /\ SaveToDb(b) /\ UNCHANGED cloud /\ NoFault

Leave(b) ==
    /\ In(b, "code") /\ Goto(b, "ready", {})
    /\ UNCHANGED mem /\ SaveToDb(b) /\ UNCHANGED cloud /\ NoFault

(* BlueprintNG.destroy: every registered VM, then final_cleanup; then       *)
(* delete_blueprint erases the blueprint.                                   *)
Delete(b) ==
    /\ In(b, "ready") \/ In(b, "error")
    /\ Goto(b, "delete", mem[b].registered) /\ UNCHANGED mem /\ SaveToDb(b)
    /\ UNCHANGED cloud /\ NoFault

AllDestroyed(b) ==
    /\ In(b, "delete") /\ phase[b].vms = {} /\ Goto(b, "cleanup", {})
    /\ UNCHANGED <<cloud, mem, db>> /\ NoFault

Erase(b, empty) ==
    /\ In(b, "erase") /\ Goto(b, "gone", {})
    /\ Becomes(b, empty) /\ SaveToDb(b) /\ UNCHANGED cloud /\ NoFault

(* The process stops; ProvidersAggregator loads what was saved.  What the   *)
(* database does not know, unsaved, has no owner any more.                  *)
RestartLosing(unsaved) ==
    /\ stops < MaxStops /\ stops' = stops + 1
    /\ mem' = db
    /\ lost' = [k \in DOMAIN lost |-> lost[k] \cup unsaved[k]]
    /\ phase' = [b \in Blueprint |->
                   IF In(b, "absent") \/ In(b, "gone") THEN phase[b] ELSE At("ready")]
    /\ UNCHANGED <<cloud, db, faults>>

Hosts(b) == Enter(b) \/ Leave(b) \/ Delete(b)

\* Once a blueprint has been deleted, nothing it created stays on the VIM, but
\* for what a creating call made without returning to the provider.
NothingLeft ==
    \A k \in DOMAIN cloud, b \in Blueprint : In(b, "gone") =>
        \A r \in cloud[k] \ lost[k] : r[1] # b
=============================================================================
