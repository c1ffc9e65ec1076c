--------------------------- MODULE RemoteProvider ---------------------------
(***************************************************************************)
(* The REST virtualization provider of a blueprint and the provider server  *)
(* it calls.  The client posts an operation, gets the identifier of a task  *)
(* and polls its status; the server puts the task in a queue that its       *)
(* workers serve.  The server keeps the VMs of the blueprint (its resource  *)
(* group) and the data of the VIM's provider in memory.                     *)
(***************************************************************************)
EXTENDS Naturals, Sequences, FiniteSets

CONSTANTS Vm, Worker,
          MaxCalls,    \* bound: operations the client posts
          MaxFaults,   \* bound: calls to the VIM that fail
          MaxStops     \* bound: restarts of the server

VARIABLES client,      \* what the blueprint's code is at
          known,       \* VMs registered in the blueprint
          created,     \* VMs whose creation the client saw succeed
          calls,       \* the tasks posted so far
          givenUp,     \* history: tasks whose result the client never saw
          queue, working, history,      \* TaskManager of the server
          group, data,                  \* vm_resources and provider data
          onVim,                        \* the VMs that exist
          faults, stops

clientVars == <<client, known, created, calls, givenUp>>
serverVars == <<queue, working, history, group, data>>
remoteVars == <<clientVars, serverVars, onVim, faults, stops>>

NoVm == "none"
NoTask == [id |-> 0, op |-> "none", vm |-> NoVm, step |-> "idle"]
Task == [id : 1..MaxCalls, op : {"create", "destroy", "cleanup"}, vm : Vm \cup {NoVm},
         step : {"queued", "manager", "vim"}] \cup {NoTask}

\* Every variable keeps the shape the client, the task manager and the
\* virtualization manager give it.
TypeOK ==
    /\ client \in [at : {"code", "wait", "error", "gone"}, deleting : BOOLEAN,
                   todo : SUBSET Vm, task : Task]
    /\ known \subseteq Vm /\ created \subseteq known /\ group \subseteq Vm
    /\ calls \in 0..MaxCalls /\ givenUp \subseteq Task
    /\ queue \in Seq(Task) /\ working \in [Worker -> Task]
    /\ history \in [1..MaxCalls -> {"unknown", "running", "done", "error"}]
    /\ data \subseteq Vm /\ onVim \subseteq Vm

Init ==
    /\ client = [at |-> "code", deleting |-> FALSE, todo |-> {}, task |-> NoTask]
    /\ known = {} /\ created = {} /\ calls = 0 /\ givenUp = {}
    /\ queue = <<>> /\ working = [w \in Worker |-> NoTask]
    /\ history = [i \in 1..MaxCalls |-> "unknown"]
    /\ group = {} /\ data = {} /\ onVim = {} /\ faults = 0 /\ stops = 0
-----------------------------------------------------------------------------
(* __http_request: the POST is answered with the task's identifier.         *)
Request(op, v) ==
    LET task == [id |-> calls + 1, op |-> op, vm |-> v, step |-> "queued"]
    IN  /\ client.at = "code" /\ calls < MaxCalls
        /\ calls' = calls + 1 /\ queue' = Append(queue, task)
        /\ client' = [client EXCEPT !.at = "wait", !.task = task]
        /\ UNCHANGED <<created, givenUp, working, history, group, data, onVim, faults, stops>>

CreateVm(v) ==
    /\ ~ client.deleting /\ v \notin known
    /\ known' = known \cup {v} /\ Request("create", v)

Delete ==
    /\ client.at \in {"code", "error"} /\ ~ (client.at = "code" /\ client.deleting)
    /\ client' = [client EXCEPT !.at = "code", !.deleting = TRUE, !.todo = known]
    /\ UNCHANGED <<known, created, calls, givenUp, serverVars, onVim, faults, stops>>

DestroyVm(v) == client.deleting /\ v \in client.todo /\ UNCHANGED known /\ Request("destroy", v)
FinalCleanup == client.deleting /\ client.todo = {} /\ UNCHANGED known /\ Request("cleanup", NoVm)

(* GET tasks/<id>: a task the server does not know is a 404.                *)
Raises ==
    /\ client' = [client EXCEPT !.at = "error", !.task = NoTask]
    /\ UNCHANGED <<created, known, calls>>

KeepTodo ==                \* mutant: a VM destroyed is destroyed again
    /\ client.at = "wait" /\ history[client.task.id] = "done"
    /\ client' = [client EXCEPT !.at = IF client.task.op = "cleanup" THEN "gone" ELSE "code", !.task = NoTask]
    /\ created' = IF client.task.op = "create" THEN created \cup {client.task.vm} ELSE created
    /\ UNCHANGED <<known, calls, givenUp, serverVars, onVim, faults, stops>>

PollDone ==
    /\ client.at = "wait" /\ history[client.task.id] = "done"
    /\ client' = [client EXCEPT !.at = IF client.task.op = "cleanup" THEN "gone" ELSE "code",
                                !.todo = @ \ {client.task.vm}, !.task = NoTask]
    /\ created' = IF client.task.op = "create" THEN created \cup {client.task.vm} ELSE created
    /\ UNCHANGED <<known, calls, givenUp, serverVars, onVim, faults, stops>>

PollError ==
    /\ client.at = "wait" /\ history[client.task.id] = "error" /\ Raises
    /\ UNCHANGED <<givenUp, serverVars, onVim, faults, stops>>

PollUnknown ==
    /\ client.at = "wait" /\ history[client.task.id] = "unknown" /\ Raises
    /\ givenUp' = givenUp \cup {client.task}
    /\ UNCHANGED <<serverVars, onVim, faults, stops>>

PollTimeout ==
    /\ client.at = "wait" /\ history[client.task.id] = "running" /\ Raises
    /\ givenUp' = givenUp \cup {client.task}
    /\ UNCHANGED <<serverVars, onVim, faults, stops>>
-----------------------------------------------------------------------------
(* The worker takes the task, and only now the history knows it.            *)
Take(w) ==
    /\ working[w] = NoTask /\ queue # <<>>
    /\ working' = [working EXCEPT ![w] = [Head(queue) EXCEPT !.step = "manager"]]
    /\ queue' = Tail(queue) /\ history' = [history EXCEPT ![Head(queue).id] = "running"]
    /\ UNCHANGED <<clientVars, group, data, onVim, faults, stops>>

Doing(w, op, step) == working[w].op = op /\ working[w].step = step
Finish(w, how) ==
    /\ history' = [history EXCEPT ![working[w].id] = how]
    /\ working' = [working EXCEPT ![w] = NoTask] /\ UNCHANGED queue
ToVim(w) ==
    /\ working' = [working EXCEPT ![w].step = "vim"] /\ UNCHANGED <<queue, history>>
Fault == faults < MaxFaults /\ faults' = faults + 1
NoFault == UNCHANGED <<clientVars, faults, stops>>

ServeCreate(w) ==
    \/ /\ Doing(w, "create", "manager") /\ group' = group \cup {working[w].vm}
       /\ ToVim(w) /\ UNCHANGED <<data, onVim>> /\ NoFault
    \/ /\ Doing(w, "create", "vim") /\ onVim' = onVim \cup {working[w].vm}
       /\ data' = data \cup {working[w].vm} /\ Finish(w, "done")
       /\ UNCHANGED group /\ NoFault

(* The VM leaves the group before the provider destroys it.                 *)
ServeDestroy(w) ==
    \/ /\ Doing(w, "destroy", "manager") /\ working[w].vm \notin group
       /\ Finish(w, "error") /\ UNCHANGED <<group, data, onVim>> /\ NoFault
    \/ /\ Doing(w, "destroy", "manager") /\ working[w].vm \in group
       /\ group' = group \ {working[w].vm} /\ ToVim(w) /\ UNCHANGED <<data, onVim>> /\ NoFault
    \/ /\ Doing(w, "destroy", "vim")
       /\ onVim' = onVim \ ({working[w].vm} \cap data) /\ data' = data \ {working[w].vm}
       /\ Finish(w, "done") /\ UNCHANGED group /\ NoFault

ServeCleanup(w) ==
    /\ Doing(w, "cleanup", "manager") /\ group' = {} /\ Finish(w, "done")
    /\ UNCHANGED <<data, onVim>> /\ NoFault

VimFails(w) ==
    /\ working[w].step = "vim" \/ Doing(w, "cleanup", "manager")
    /\ Fault /\ Finish(w, "error") /\ UNCHANGED <<clientVars, group, data, onVim, stops>>

(* update_one without upsert stores nothing of an agent nobody inserted: a  *)
(* server that restarts knows no group and no provider data.                *)
ServerRestarts ==
    /\ stops < MaxStops /\ stops' = stops + 1
    /\ queue' = <<>> /\ working' = [w \in Worker |-> NoTask]
    /\ history' = [i \in 1..MaxCalls |-> "unknown"] /\ group' = {} /\ data' = {}
    /\ \E vms \in SUBSET {working[w].vm : w \in {x \in Worker : Doing(x, "create", "vim")}} :
         onVim' = onVim \cup vms
    /\ UNCHANGED <<clientVars, faults>>

Serve(w) == Take(w) \/ ServeCreate(w) \/ ServeDestroy(w) \/ ServeCleanup(w) \/ VimFails(w)

Next ==
    \/ \E v \in Vm : CreateVm(v) \/ DestroyVm(v)
    \/ Delete \/ FinalCleanup \/ PollDone \/ PollError \/ PollUnknown \/ PollTimeout
    \/ \E w \in Worker : Serve(w)
    \/ ServerRestarts
Spec == Init /\ [][Next]_remoteVars
-----------------------------------------------------------------------------
\* A VM whose creation the client saw succeed exists and can be destroyed: the
\* server's group and provider data name it, until its destruction is asked for.
CreatedIsServed ==
    ~ client.deleting /\ stops = 0 => created \subseteq group \cap data \cap onVim

\* When the blueprint is gone, a VM that is still there, or will be, belongs to
\* a creation the client gave up on, by time-out or because its task was unknown.
LeftIsGivenUp ==
    client.at = "gone" =>
        \A v \in onVim : \E task \in givenUp : task.op = "create" /\ task.vm = v

\* Without faults, restarts and calls given up, the destruction of a VM the
\* blueprint still has to destroy finds it in the group: no deletion is stuck.
DestroyFinds ==
    givenUp = {} /\ faults + stops = 0 /\ client.deleting /\ client.task.op # "destroy" =>
        client.todo \subseteq group
=============================================================================
