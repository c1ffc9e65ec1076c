----------------------------- MODULE TaskManager -----------------------------
(***************************************************************************)
(* TaskManager and the way the NFVCL facade uses it.  A request thread     *)
(* puts a task in a FIFO queue and either waits for the result, or waits   *)
(* only until the function announces, through its pre_work_callback, how   *)
(* it is going to proceed, or does not wait at all.  Worker threads take   *)
(* the tasks, keep the history of their results and run the callbacks.     *)
(***************************************************************************)
EXTENDS Naturals, Sequences

CONSTANTS Task,       \* task identifiers
          Client,     \* request threads
          Worker,     \* worker threads
          NoTask,     \* a thread with no task
          Functions   \* the manager methods the clients of a run submit, by what
                      \* they do with the parameter pre_work_callback: they have
                      \* none (plain), call it on every path (announces) or can
                      \* end without having called it (silent)

ASSUME TaskAssumption ==
    /\ NoTask \notin Task
    /\ Functions \subseteq {"plain", "announces", "silent"}

VARIABLES queue,        \* TaskManager.queue
          task_history, \* result of each task dequeued so far
          call,         \* the function of each task and who submitted it
          event,        \* the Event each submission may wait for
          namespace,    \* what the callback left for the caller
          worker,       \* what each worker thread is doing
          caller        \* what each request thread is doing

vars == <<queue, task_history, call, event, namespace, worker, caller>>

Outcomes == {"ok", "error"}
Histories == {"unknown", "running"} \cup Outcomes     \* unknown: not in the dict
Answers == {"none", "submitted", "processing", "failed"} \cup Outcomes
CallType == [fn : {"none", "plain", "announces", "silent"}, sync : BOOLEAN]
IdleWorker == [pc |-> "idle", task |-> NoTask, told |-> FALSE, outcome |-> "none"]
WorkerType == {IdleWorker} \cup
    [pc : {"got", "running", "finished", "callback"}, task : Task,
     told : BOOLEAN,                        \* the pre_work_callback was called
     outcome : Outcomes \cup {"none"}]      \* how the function ends

IdleCaller == [pc |-> "idle", task |-> NoTask, answer |-> "none"]
CallerType == {IdleCaller} \cup
    [pc : {"waiting", "answered"}, task : Task, answer : Answers]

Init ==
    /\ queue = <<>>
    /\ task_history = [k \in Task |-> "unknown"]
    /\ call = [k \in Task |-> [fn |-> "none", sync |-> FALSE]]
    /\ event = [k \in Task |-> FALSE]
    /\ namespace = [k \in Task |-> "none"]
    /\ worker = [w \in Worker |-> IdleWorker]
    /\ caller = [c \in Client |-> IdleCaller]
-----------------------------------------------------------------------------
(* Request threads.                                                        *)
Fresh(k) == call[k].fn = "none"

AddTask(k, f, sync) ==
    /\ Fresh(k)
    /\ queue' = Append(queue, k)
    /\ call' = [call EXCEPT ![k] = [fn |-> f, sync |-> sync]]
    /\ UNCHANGED <<task_history, event, namespace, worker>>

\* _add_task_sync: the caller waits for the result.
AddTaskSync(c) ==
    /\ caller[c].pc = "idle"
    /\ \E k \in Task, f \in Functions :
          /\ AddTask(k, f, TRUE)
          /\ caller' = [caller EXCEPT ![c] = [pc |-> "waiting", task |-> k, answer |-> "none"]]

\* _add_task_async: the caller waits only for a function with a pre_work_callback.
AddTaskAsync(c) ==
    /\ caller[c].pc = "idle"
    /\ \E k \in Task, f \in Functions :
          /\ AddTask(k, f, FALSE)
          /\ caller' = [caller EXCEPT ![c] =
                IF f = "plain" THEN [pc |-> "answered", task |-> k, answer |-> "submitted"]
                ELSE [pc |-> "waiting", task |-> k, answer |-> "none"]]

\* event.wait() returns; the caller reads what the callback left for it.
Answer(c) ==
    /\ caller[c].pc = "waiting"
    /\ event[caller[c].task]
    /\ caller' = [caller EXCEPT ![c].pc = "answered",
                                ![c].answer = namespace[caller[c].task]]
    /\ UNCHANGED <<queue, task_history, call, event, namespace, worker>>

\* The request is over, the thread serves another one.
Leave(c) ==
    /\ caller[c].pc = "answered"
    /\ caller' = [caller EXCEPT ![c] = IdleCaller]
    /\ UNCHANGED <<queue, task_history, call, event, namespace, worker>>
-----------------------------------------------------------------------------
(* TaskManager.worker.                                                     *)
\* Mutants: a worker looks at the head of the queue and leaves it there; the wait of
\* the queue ends only with a second task.
PeekingGet(w) ==
    /\ worker[w].pc = "idle"
    /\ queue # <<>>
    /\ worker' = [worker EXCEPT ![w] = [IdleWorker EXCEPT !.pc = "got", !.task = Head(queue)]]
    /\ UNCHANGED <<queue, task_history, call, event, namespace, caller>>
LazyGet(w) ==
    /\ worker[w].pc = "idle"
    /\ Len(queue) > 1
    /\ queue' = Tail(queue)
    /\ worker' = [worker EXCEPT ![w] = [IdleWorker EXCEPT !.pc = "got", !.task = Head(queue)]]
    /\ UNCHANGED <<task_history, call, event, namespace, caller>>

Get(w) ==
    /\ worker[w].pc = "idle"
    /\ queue # <<>>
    /\ queue' = Tail(queue)
    /\ worker' = [worker EXCEPT ![w] = [IdleWorker EXCEPT !.pc = "got", !.task = Head(queue)]]
    /\ UNCHANGED <<task_history, call, event, namespace, caller>>

\* Mutant: the history entry of a finished task is created again.
LateRegister(w) ==
    /\ worker[w].pc \in {"got", "callback"}
    /\ task_history' = [task_history EXCEPT ![worker[w].task] = "running"]
    /\ worker' = [worker EXCEPT ![w].pc = "running"]
    /\ UNCHANGED <<queue, call, event, namespace, caller>>

Register(w) ==
    /\ worker[w].pc = "got"
    /\ task_history' = [task_history EXCEPT ![worker[w].task] = "running"]
    /\ worker' = [worker EXCEPT ![w].pc = "running"]
    /\ UNCHANGED <<queue, call, event, namespace, caller>>

\* callback_function and pre_work_callback_function.
Deliver(k, msg) ==
    /\ namespace' = [namespace EXCEPT ![k] = msg]
    /\ event' = [event EXCEPT ![k] = TRUE]

\* Mutant: the function announces a failure and goes on.
ContinuingAnnounce(w) ==
    /\ worker[w].pc = "running"
    /\ call[worker[w].task].fn # "plain"
    /\ ~call[worker[w].task].sync
    /\ \E failed \in BOOLEAN :
          /\ Deliver(worker[w].task, IF failed THEN "failed" ELSE "processing")
          /\ worker' = [worker EXCEPT ![w].told = TRUE]
    /\ UNCHANGED <<queue, task_history, call, caller>>

\* The function calls run_pre_work_callback; with a failure it raises next.  A
\* synchronous call passes no pre_work_callback.
Announce(w) ==
    /\ worker[w].pc = "running"
    /\ call[worker[w].task].fn # "plain"
    /\ ~call[worker[w].task].sync
    /\ worker[w].outcome = "none"
    /\ \E failed \in BOOLEAN :
          /\ Deliver(worker[w].task, IF failed THEN "failed" ELSE "processing")
          /\ worker' = [worker EXCEPT ![w].told = TRUE,
                                      ![w].outcome = IF failed THEN "error" ELSE "none"]
    /\ UNCHANGED <<queue, task_history, call, caller>>

\* The function returns or raises.
Finish(w) ==
    /\ worker[w].pc = "running"
    /\ LET k == worker[w].task
       IN  call[k].fn = "announces" /\ ~call[k].sync => worker[w].told
    /\ \E outcome \in Outcomes :
          /\ worker[w].outcome = "error" => outcome = "error"
          /\ worker' = [worker EXCEPT ![w].pc = "finished", ![w].outcome = outcome]
    /\ UNCHANGED <<queue, task_history, call, event, namespace, caller>>

\* Mutant: the callback runs before the result is in the history.
EarlyCallback(w) ==
    /\ worker[w].pc = "finished"
    /\ worker' = [worker EXCEPT ![w].pc = "callback"]
    /\ IF call[worker[w].task].sync THEN Deliver(worker[w].task, worker[w].outcome)
       ELSE UNCHANGED <<event, namespace>>
    /\ UNCHANGED <<queue, task_history, call, caller>>

SetResult(w) ==
    /\ worker[w].pc = "finished"
    /\ task_history' = [task_history EXCEPT ![worker[w].task] = worker[w].outcome]
    /\ worker' = [worker EXCEPT ![w].pc = "callback"]
    /\ UNCHANGED <<queue, call, event, namespace, caller>>

\* Mutants: the worker does not drop the task; a failed task has no callback.
ForgetfulCallback(w) ==
    /\ worker[w].pc = "callback"
    /\ IF call[worker[w].task].sync THEN Deliver(worker[w].task, worker[w].outcome)
       ELSE UNCHANGED <<event, namespace>>
    /\ worker' = [worker EXCEPT ![w].pc = "idle"]
    /\ UNCHANGED <<queue, task_history, call, caller>>
SuccessCallback(w) ==
    /\ worker[w].pc = "callback"
    /\ IF call[worker[w].task].sync /\ worker[w].outcome = "ok"
       THEN Deliver(worker[w].task, worker[w].outcome)
       ELSE UNCHANGED <<event, namespace>>
    /\ worker' = [worker EXCEPT ![w] = IdleWorker]
    /\ UNCHANGED <<queue, task_history, call, caller>>

\* The callback of a synchronous call wakes the caller; the one of an asynchronous
\* call goes to the outside, and does not raise.
Callback(w) ==
    /\ worker[w].pc = "callback"
    /\ IF call[worker[w].task].sync THEN Deliver(worker[w].task, worker[w].outcome)
       ELSE UNCHANGED <<event, namespace>>
    /\ worker' = [worker EXCEPT ![w] = IdleWorker]
    /\ UNCHANGED <<queue, task_history, call, caller>>
-----------------------------------------------------------------------------
ClientStep(c) == AddTaskSync(c) \/ AddTaskAsync(c) \/ Answer(c) \/ Leave(c)
WorkerStep(w) ==
    \/ Get(w) \/ Register(w) \/ Announce(w) \/ Finish(w) \/ SetResult(w) \/ Callback(w)

Next ==
    \/ \E c \in Client : ClientStep(c)
    \/ \E w \in Worker : WorkerStep(w)

Spec == Init /\ [][Next]_vars

\* Threads run; a function announces when it has to, and ends.
Fairness ==
    /\ \A c \in Client : WF_vars(Answer(c))
    /\ \A w \in Worker : WF_vars(WorkerStep(w)) /\ SF_vars(Finish(w))

FairSpec == Spec /\ Fairness
-----------------------------------------------------------------------------
Submitted(k) == call[k].fn # "none"
Queued(k) == \E i \in DOMAIN queue : queue[i] = k
Held(k) == \E w \in Worker : worker[w].task = k

TypeOK ==
    /\ queue \in Seq(Task)
    /\ task_history \in [Task -> Histories]
    /\ call \in [Task -> CallType]
    /\ event \in [Task -> BOOLEAN]
    /\ namespace \in [Task -> Answers]
    /\ worker \in [Worker -> WorkerType]
    /\ caller \in [Client -> CallerType]

\* A task is run by one worker, once: it is in the queue once, or one worker has it,
\* or its result is in the history; and it gets there only by being submitted.
QueuedOnce ==
    \A i, j \in DOMAIN queue : queue[i] = queue[j] => i = j
HeldOnce ==
    \A v, w \in Worker : worker[v].task = worker[w].task /\ worker[v].task # NoTask => v = w
RunOnce ==
    /\ QueuedOnce
    /\ HeldOnce
    /\ \A k \in Task : Queued(k) => Submitted(k) /\ ~Held(k) /\ task_history[k] = "unknown"

\* A synchronous caller gets the result of its own task, and by then the history
\* has that result: get_task_status cannot contradict it.
AnswerIsResult ==
    \A c \in Client : caller[c].pc = "answered" /\ call[caller[c].task].sync =>
        /\ caller[c].answer \in Outcomes
        /\ caller[c].answer = task_history[caller[c].task]

\* A task announced as failed does not succeed in the end.
FailedFails ==
    \A c \in Client : caller[c].answer = "failed" => task_history[caller[c].task] # "ok"

\* The status get_task_status reports goes from running to done and stays there.
StatusAdvances ==
    [][\A k \in Task :
          /\ task_history[k] \in Outcomes => task_history'[k] = task_history[k]
          /\ task_history[k] = "running" => task_history'[k] # "unknown"]_vars

\* Every caller gets its answer.
EveryCallerAnswered ==
    \A c \in Client : caller[c].pc = "waiting" ~> caller[c].pc = "answered"

\* Every submitted task is done in the end.
EveryTaskDone == \A k \in Task : Submitted(k) ~> task_history[k] \in Outcomes
=============================================================================
