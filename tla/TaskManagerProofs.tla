-------------------------- MODULE TaskManagerProofs --------------------------
(***************************************************************************)
(* RunOnce, AnswerIsResult, FailedFails and StatusAdvances hold for any    *)
(* number of tasks, request threads and worker threads.                    *)
(***************************************************************************)
EXTENDS TaskManager, TLAPS

\* How far a task is, by the worker that has it.
HeldProgress ==
    \A w \in Worker : worker[w].pc # "idle" =>
        LET k == worker[w].task
        IN  /\ Submitted(k)
            /\ worker[w].pc = "got" => task_history[k] = "unknown"
            /\ worker[w].pc \in {"running", "finished"} => task_history[k] = "running"
            /\ worker[w].pc \in {"finished", "callback"} => worker[w].outcome \in Outcomes
            /\ worker[w].pc = "callback" => task_history[k] = worker[w].outcome

\* An id that was not given yet is unknown everywhere.
FreshUnknown ==
    /\ \A k \in Task : Fresh(k) => ~event[k] /\ task_history[k] = "unknown"
    /\ \A c \in Client : caller[c].pc # "idle" => Submitted(caller[c].task)

\* What was delivered to a synchronous caller is the result in the history.
Delivered ==
    \A k \in Task : event[k] /\ call[k].sync =>
        namespace[k] \in Outcomes /\ namespace[k] = task_history[k]

\* A failure announced comes with an error, recorded or about to be.
Doomed(k) ==
    \/ task_history[k] = "error"
    \/ \E w \in Worker : worker[w].task = k /\ worker[w].outcome = "error"
AnnouncedFail ==
    /\ \A k \in Task : namespace[k] = "failed" => Doomed(k)
    /\ \A c \in Client : caller[c].answer = "failed" => Doomed(caller[c].task)

IInv ==
    /\ TypeOK /\ RunOnce /\ HeldProgress /\ FreshUnknown /\ Delivered /\ AnswerIsResult
    /\ AnnouncedFail
-----------------------------------------------------------------------------
\* The invariant holds initially.
LEMMA Initially == Init => IInv
<1> SUFFICES ASSUME Init PROVE IInv
  OBVIOUS
<1>1. TypeOK
  BY DEF Init, TypeOK, Histories, CallType, Answers, WorkerType, CallerType
<1>2. RunOnce
  BY DEF Init, RunOnce, QueuedOnce, HeldOnce, Queued, IdleWorker
<1>3. HeldProgress /\ FreshUnknown
  BY DEF Init, HeldProgress, FreshUnknown, IdleWorker, IdleCaller
<1>4. Delivered /\ AnswerIsResult /\ AnnouncedFail
  BY DEF Init, Delivered, AnswerIsResult, AnnouncedFail, IdleCaller
<1> QED
  BY <1>1, <1>2, <1>3, <1>4 DEF IInv

\* Appending to the queue.
LEMMA QueueAppend ==
    ASSUME NEW q \in Seq(Task), NEW k \in Task
    PROVE  /\ Append(q, k) \in Seq(Task)
           /\ DOMAIN q = 1..Len(q) /\ Len(q) \in Nat
           /\ DOMAIN Append(q, k) = 1..Len(q) + 1
           /\ Append(q, k)[Len(q) + 1] = k
           /\ \A i \in 1..Len(q) : Append(q, k)[i] = q[i]
OBVIOUS

\* Taking the head of the queue.
LEMMA QueueTail ==
    ASSUME NEW q \in Seq(Task), q # <<>>
    PROVE  /\ Head(q) \in Task /\ Tail(q) \in Seq(Task)
           /\ DOMAIN q = 1..Len(q) /\ Len(q) \in Nat \ {0} /\ q[1] = Head(q)
           /\ DOMAIN Tail(q) = 1..Len(q) - 1
           /\ \A i \in 1..Len(q) - 1 : Tail(q)[i] = q[i + 1]
OBVIOUS

\* A task with a fresh id is put in the queue by the client c, now in the state r.
LEMMA AddTaskKeeps ==
    ASSUME IInv, NEW c \in Client, NEW k \in Task, NEW f \in Functions, NEW sync \in BOOLEAN,
           AddTask(k, f, sync), NEW r \in CallerType, caller' = [caller EXCEPT ![c] = r],
           r.task = k, r.pc # "idle", r.answer # "failed",
           r.pc = "answered" => ~sync
    PROVE  IInv'
<1>1. /\ call' = [call EXCEPT ![k] = [fn |-> f, sync |-> sync]] /\ call'[k].fn # "none"
      /\ \A j \in Task \ {k} : call'[j] = call[j]
      /\ call'[k].sync = sync
      /\ call[k].fn = "none" /\ queue' = Append(queue, k) /\ queue \in Seq(Task)
      /\ UNCHANGED <<task_history, event, namespace, worker>>
      /\ f \in {"plain", "announces", "silent"}
  BY TaskAssumption DEF AddTask, Fresh, IInv, TypeOK
<1>2. caller'[c] = r /\ \A d \in Client \ {c} : caller'[d] = caller[d]
  BY DEF IInv, TypeOK
<1>3. TypeOK'
  BY <1>1, QueueAppend DEF IInv, TypeOK, CallType
<1>4. \A w \in Worker : worker[w].task # k
  BY <1>1, TaskAssumption DEF IInv, HeldProgress, Submitted, TypeOK, WorkerType, IdleWorker
<1>5. RunOnce'
  <2>1. \A i \in DOMAIN queue : queue[i] # k
    BY <1>1 DEF IInv, RunOnce, Queued, Submitted
  <2>2. QueuedOnce'
    BY <1>1, <2>1, QueueAppend DEF IInv, RunOnce, QueuedOnce
  <2>3. HeldOnce'
    BY <1>1 DEF IInv, RunOnce, HeldOnce
  <2>4. ASSUME NEW j \in Task, Queued(j)'
        PROVE  (Submitted(j) /\ ~Held(j) /\ task_history[j] = "unknown")'
    <3>1. CASE j = k
      BY <1>1, <1>4, <3>1 DEF IInv, FreshUnknown, Fresh, Submitted, Held
    <3>2. CASE j # k
      <4>1. Queued(j)
        BY <1>1, <2>4, <3>2, QueueAppend DEF Queued
      <4> QED BY <1>1, <3>2, <4>1 DEF IInv, RunOnce, Submitted, Held
    <3> QED BY <3>1, <3>2
  <2> QED BY <2>2, <2>3, <2>4 DEF RunOnce
<1>6. HeldProgress'
  BY <1>1, <1>4 DEF IInv, HeldProgress, Submitted, TypeOK, WorkerType, IdleWorker
<1>7. FreshUnknown'
  <2>1. ASSUME NEW j \in Task, Fresh(j)' PROVE ~event[j] /\ task_history[j] = "unknown"
    <3>1. Fresh(j)
      BY <1>1, <2>1 DEF Fresh
    <3> QED BY <3>1 DEF IInv, FreshUnknown
  <2>2. ASSUME NEW d \in Client, caller'[d].pc # "idle"
        PROVE  call'[caller'[d].task].fn # "none"
    <3>1. CASE d = c
      BY <1>1, <1>2, <3>1
    <3>2. CASE d # c
      <4>1. Submitted(caller[d].task) /\ caller[d].task \in Task
        BY <1>2, <2>2, <3>2 DEF IInv, FreshUnknown, TypeOK, CallerType, IdleCaller
      <4> QED BY <1>1, <1>2, <3>2, <4>1 DEF Submitted
    <3> QED BY <3>1, <3>2
  <2> QED BY <1>1, <2>1, <2>2 DEF FreshUnknown, Submitted
<1>8. Delivered'
  BY <1>1 DEF IInv, Delivered, FreshUnknown, Fresh
<1>9. AnswerIsResult'
  <2> SUFFICES ASSUME NEW d \in Client, caller'[d].pc = "answered", call'[caller'[d].task].sync
               PROVE  /\ caller'[d].answer \in Outcomes
                      /\ caller'[d].answer = task_history[caller'[d].task]
    BY <1>1 DEF AnswerIsResult
  <2>1. d # c
    BY <1>1, <1>2
  <2>2. caller'[d] = caller[d] /\ caller[d].task # k /\ caller[d].task \in Task
    BY <1>1, <1>2, <2>1 DEF IInv, FreshUnknown, Submitted, TypeOK, CallerType, IdleCaller
  <2> QED BY <1>1, <2>2 DEF IInv, AnswerIsResult
<1>10. AnnouncedFail'
  BY <1>1, <1>2 DEF IInv, AnnouncedFail, Doomed
<1> QED
  BY <1>3, <1>5, <1>6, <1>7, <1>8, <1>9, <1>10 DEF IInv

\* Steps of the request threads.
LEMMA ClientStepKeeps ==
    ASSUME IInv, NEW c \in Client, ClientStep(c)
    PROVE  IInv'
<1>1. CASE AddTaskSync(c)
  <2>1. PICK k \in Task, f \in Functions :
           /\ AddTask(k, f, TRUE)
           /\ caller' = [caller EXCEPT ![c] = [pc |-> "waiting", task |-> k, answer |-> "none"]]
    BY <1>1 DEF AddTaskSync
  <2> DEFINE r == [pc |-> "waiting", task |-> k, answer |-> "none"]
  <2>2. r \in CallerType /\ r.task = k /\ r.pc = "waiting" /\ r.answer = "none"
    BY DEF CallerType, Answers
  <2>3. caller' = [caller EXCEPT ![c] = r]
    BY <2>1
  <2> HIDE DEF r
  <2> QED BY <2>1, <2>2, <2>3, AddTaskKeeps
<1>2. CASE AddTaskAsync(c)
  <2>1. PICK k \in Task, f \in Functions :
           /\ AddTask(k, f, FALSE)
           /\ caller' = [caller EXCEPT ![c] =
                 IF f = "plain" THEN [pc |-> "answered", task |-> k, answer |-> "submitted"]
                 ELSE [pc |-> "waiting", task |-> k, answer |-> "none"]]
    BY <1>2 DEF AddTaskAsync
  <2> DEFINE r == IF f = "plain" THEN [pc |-> "answered", task |-> k, answer |-> "submitted"]
                  ELSE [pc |-> "waiting", task |-> k, answer |-> "none"]
  <2>2. r \in CallerType /\ r.task = k /\ r.pc # "idle" /\ r.answer # "failed"
    BY DEF CallerType, Answers
  <2>3. caller' = [caller EXCEPT ![c] = r]
    BY <2>1
  <2> HIDE DEF r
  <2> QED BY <2>1, <2>2, <2>3, AddTaskKeeps
<1>3. CASE Answer(c)
  <2> DEFINE k == caller[c].task
  <2>1. /\ caller[c].pc = "waiting" /\ caller[c] \in CallerType /\ k \in Task
        /\ event[k] /\ Submitted(k)
        /\ UNCHANGED <<queue, task_history, call, event, namespace, worker>>
    BY <1>3 DEF Answer, IInv, TypeOK, FreshUnknown, CallerType, IdleCaller
  <2>2. /\ caller'[c].pc = "answered" /\ caller'[c].task = k
        /\ caller'[c].answer = namespace[k]
        /\ caller'[c] \in CallerType
        /\ \A d \in Client \ {c} : caller'[d] = caller[d]
        /\ caller' \in [Client -> CallerType]
    BY <1>3, <2>1 DEF Answer, IInv, TypeOK, CallerType, IdleCaller
  <2>3. TypeOK'
    BY <2>1, <2>2 DEF IInv, TypeOK
  <2>4. RunOnce' /\ HeldProgress' /\ Delivered'
    BY <2>1 DEF IInv, RunOnce, QueuedOnce, HeldOnce, Queued, Held, Submitted, HeldProgress,
                Delivered
  <2>5. FreshUnknown'
    BY <2>1, <2>2 DEF IInv, FreshUnknown, Fresh, Submitted
  <2>6. AnswerIsResult'
    BY <2>1, <2>2 DEF IInv, AnswerIsResult, Delivered
  <2>7. AnnouncedFail'
    BY <2>1, <2>2 DEF IInv, AnnouncedFail, Doomed
  <2> QED BY <2>3, <2>4, <2>5, <2>6, <2>7 DEF IInv
<1>4. CASE Leave(c)
  <2>1. /\ UNCHANGED <<queue, task_history, call, event, namespace, worker>>
        /\ caller'[c] = IdleCaller
        /\ \A d \in Client \ {c} : caller'[d] = caller[d]
        /\ caller' \in [Client -> CallerType]
    BY <1>4 DEF Leave, IInv, TypeOK, CallerType
  <2>2. TypeOK'
    BY <2>1 DEF IInv, TypeOK
  <2>3. RunOnce' /\ HeldProgress' /\ Delivered'
    BY <2>1 DEF IInv, RunOnce, QueuedOnce, HeldOnce, Queued, Held, Submitted, HeldProgress,
                Delivered
  <2>4. FreshUnknown' /\ AnswerIsResult'
    BY <2>1 DEF IInv, FreshUnknown, Fresh, Submitted, AnswerIsResult, IdleCaller
  <2>5. AnnouncedFail'
    BY <2>1 DEF IInv, AnnouncedFail, Doomed, IdleCaller
  <2> QED BY <2>2, <2>3, <2>4, <2>5 DEF IInv
<1> QED
  BY <1>1, <1>2, <1>3, <1>4 DEF ClientStep

\* A step of the worker w on its task k: w goes on with k as r says.
LEMMA WorkerFacts ==
    ASSUME IInv, NEW w \in Worker, worker[w].pc # "idle"
    PROVE  /\ worker[w].task \in Task /\ Submitted(worker[w].task)
           /\ worker[w] \in WorkerType \ {IdleWorker}
           /\ \A v \in Worker \ {w} : worker[v].task # worker[w].task
           /\ ~Queued(worker[w].task)
<1>1. /\ worker[w].task \in Task /\ worker[w] \in WorkerType \ {IdleWorker}
      /\ Submitted(worker[w].task)
  BY DEF IInv, TypeOK, WorkerType, IdleWorker, HeldProgress
<1>2. \A v \in Worker \ {w} : worker[v].task # worker[w].task
  BY <1>1, TaskAssumption DEF IInv, RunOnce, HeldOnce
<1>3. ~Queued(worker[w].task)
  BY <1>1 DEF IInv, RunOnce, Held
<1> QED
  BY <1>1, <1>2, <1>3

\* A worker takes the task at the head of the queue.
LEMMA GetKeeps ==
    ASSUME IInv, NEW w \in Worker, Get(w)
    PROVE  IInv'
<1> DEFINE k == Head(queue)
<1>1. /\ queue \in Seq(Task) /\ queue # <<>> /\ queue' = Tail(queue) /\ k \in Task
      /\ UNCHANGED <<task_history, call, event, namespace, caller>>
      /\ worker[w] = IdleWorker
  BY QueueTail DEF Get, IInv, TypeOK, WorkerType
<1>2. /\ worker'[w].task = k /\ worker'[w].pc = "got" /\ worker'[w].outcome = "none"
      /\ worker'[w] \in WorkerType
      /\ \A v \in Worker \ {w} : worker'[v] = worker[v]
      /\ worker' \in [Worker -> WorkerType]
  BY <1>1 DEF Get, IInv, TypeOK, WorkerType, IdleWorker
<1>3. Queued(k) /\ Submitted(k) /\ ~Held(k) /\ task_history[k] = "unknown"
  <2>1. Queued(k)
    BY <1>1, QueueTail DEF Queued
  <2> QED BY <1>1, <2>1 DEF IInv, RunOnce
<1>4. TypeOK'
  BY <1>1, <1>2, QueueTail DEF IInv, TypeOK
<1>5. \A i \in DOMAIN queue' : i + 1 \in DOMAIN queue /\ queue'[i] = queue[i + 1] /\ i \in Nat
  BY <1>1, QueueTail
<1>6. RunOnce'
  <2>1. QueuedOnce'
    BY <1>5 DEF IInv, RunOnce, QueuedOnce
  <2>2. HeldOnce'
    BY <1>2, <1>3 DEF IInv, RunOnce, HeldOnce, Held
  <2>3. \A j \in Task : Queued(j)' => Queued(j) /\ j # k
    <3>1. 1 \in DOMAIN queue /\ queue[1] = k /\ \A i \in DOMAIN queue' : i + 1 # 1
      BY <1>1, QueueTail
    <3> QED BY <1>5, <3>1 DEF Queued, IInv, RunOnce, QueuedOnce
  <2>4. \A j \in Task : Queued(j)' => (Submitted(j) /\ ~Held(j) /\ task_history[j] = "unknown")'
    BY <1>1, <1>2, <2>3 DEF IInv, RunOnce, Submitted, Held
  <2> QED BY <2>1, <2>2, <2>4 DEF RunOnce
<1>7. HeldProgress'
  BY <1>1, <1>2, <1>3 DEF IInv, HeldProgress, Submitted
<1>8. FreshUnknown' /\ Delivered' /\ AnswerIsResult'
  BY <1>1 DEF IInv, FreshUnknown, Fresh, Submitted, Delivered, AnswerIsResult
<1>9. \A j \in Task : Doomed(j) => Doomed(j)'
  BY <1>1, <1>2, TaskAssumption DEF Doomed, IdleWorker
<1>10. AnnouncedFail'
  BY <1>1, <1>9 DEF IInv, AnnouncedFail, TypeOK, CallerType, IdleCaller
<1> QED
  BY <1>4, <1>6, <1>7, <1>8, <1>10 DEF IInv

\* A step of w that leaves the queue, the calls and the callers alone, keeps its task
\* or drops it, and changes at most the history and the message of that task.
WorksOn(w, k, r) ==
    /\ UNCHANGED <<queue, call, caller>>
    /\ worker' = [worker EXCEPT ![w] = r] /\ r \in WorkerType /\ r.task \in {k, NoTask}
    /\ \A j \in Task \ {k} : /\ task_history'[j] = task_history[j]
                             /\ event'[j] = event[j] /\ namespace'[j] = namespace[j]
    /\ task_history' \in [Task -> Histories] /\ event' \in [Task -> BOOLEAN]
    /\ namespace' \in [Task -> Answers]

\* Such a step keeps the invariant when what w knows of k stays true.
LEMMA WorkKeeps ==
    ASSUME IInv, NEW w \in Worker, worker[w].pc # "idle", NEW k \in Task,
           k = worker[w].task, NEW r, WorksOn(w, k, r),
           r.pc # "idle" =>
               /\ r.task = k
               /\ r.pc = "got" => task_history'[k] = "unknown"
               /\ r.pc \in {"running", "finished"} => task_history'[k] = "running"
               /\ r.pc \in {"finished", "callback"} => r.outcome \in Outcomes
               /\ r.pc = "callback" => task_history'[k] = r.outcome,
           task_history[k] \in Outcomes => task_history'[k] = task_history[k],
           event'[k] /\ call[k].sync =>
               namespace'[k] \in Outcomes /\ namespace'[k] = task_history'[k],
           namespace'[k] = "failed" \/ Doomed(k) => Doomed(k)'
    PROVE  IInv'
<1>1. /\ Submitted(k) /\ ~Queued(k) /\ \A v \in Worker \ {w} : worker[v].task # k
  BY WorkerFacts
<1>2. worker'[w] = r /\ \A v \in Worker \ {w} : worker'[v] = worker[v]
  BY DEF WorksOn, IInv, TypeOK
<1>3. TypeOK'
  BY DEF WorksOn, IInv, TypeOK
<1>4. RunOnce'
  <2>1. QueuedOnce'
    BY DEF WorksOn, IInv, RunOnce, QueuedOnce
  <2>2. HeldOnce'
    BY <1>1, <1>2 DEF WorksOn, IInv, RunOnce, HeldOnce
  <2>3. ASSUME NEW j \in Task, Queued(j)
        PROVE  Submitted(j) /\ ~Held(j)' /\ task_history'[j] = "unknown"
    <3>1. j # k /\ Submitted(j) /\ ~Held(j) /\ task_history[j] = "unknown"
      BY <1>1, <2>3 DEF IInv, RunOnce
    <3> QED BY <1>2, <3>1, TaskAssumption DEF WorksOn, Held
  <2> QED BY <2>1, <2>2, <2>3 DEF RunOnce, WorksOn, Queued, Submitted
<1>5. HeldProgress'
  <2> SUFFICES ASSUME NEW v \in Worker, worker'[v].pc # "idle"
               PROVE  LET j == worker'[v].task
                      IN  /\ Submitted(j)
                          /\ worker'[v].pc = "got" => task_history'[j] = "unknown"
                          /\ worker'[v].pc \in {"running", "finished"} =>
                                task_history'[j] = "running"
                          /\ worker'[v].pc \in {"finished", "callback"} =>
                                worker'[v].outcome \in Outcomes
                          /\ worker'[v].pc = "callback" =>
                                task_history'[j] = worker'[v].outcome
    BY DEF HeldProgress, Submitted, WorksOn
  <2>1. CASE v = w
    BY <1>1, <1>2, <2>1
  <2>2. CASE v # w
    <3>1. worker'[v] = worker[v] /\ worker[v].task \in Task \ {k}
      BY <1>1, <1>2, <2>2, WorkerFacts
    <3> QED BY <3>1 DEF IInv, HeldProgress, WorksOn
  <2> QED BY <2>1, <2>2
<1>6. FreshUnknown'
  BY <1>1 DEF IInv, FreshUnknown, Fresh, Submitted, WorksOn
<1>7. Delivered'
  BY DEF IInv, Delivered, WorksOn
<1>8. AnswerIsResult'
  BY DEF IInv, AnswerIsResult, WorksOn, TypeOK, CallerType, IdleCaller
<1>9. \A j \in Task : Doomed(j) => Doomed(j)'
  <2> TAKE j \in Task
  <2>1. CASE j = k
    BY <2>1
  <2>2. CASE j # k
    BY <1>2, <2>2 DEF Doomed, WorksOn
  <2> QED BY <2>1, <2>2
<1>10. AnnouncedFail'
  <2>1. \A j \in Task : namespace'[j] = "failed" => Doomed(j)'
    BY <1>9 DEF IInv, AnnouncedFail, WorksOn
  <2>2. ASSUME NEW c \in Client, caller'[c].answer = "failed"
        PROVE  Doomed(caller[c].task)'
    <3>1. caller' = caller
      BY DEF WorksOn
    <3>2. caller[c].task \in Task /\ Doomed(caller[c].task)
      BY <2>2, <3>1 DEF IInv, AnnouncedFail, TypeOK, CallerType, IdleCaller
    <3>3. PICK j \in Task : j = caller[c].task
      BY <3>2
    <3>4. Doomed(j)'
      BY <1>9, <3>2, <3>3
    <3> QED BY <3>1, <3>3, <3>4 DEF Doomed
  <2> QED BY <2>1, <2>2 DEF AnnouncedFail
<1> QED
  BY <1>3, <1>4, <1>5, <1>6, <1>7, <1>8, <1>10 DEF IInv

\* A worker that keeps its task and the error of that task keeps the task doomed.
LEMMA DoomStays ==
    ASSUME IInv, NEW w \in Worker, worker[w].pc # "idle", NEW k \in Task,
           k = worker[w].task, NEW r, WorksOn(w, k, r), r.task = k,
           worker[w].outcome = "error" => r.outcome = "error",
           task_history[k] = "error" => task_history'[k] = "error",
           Doomed(k)
    PROVE  Doomed(k)'
<1>1. worker'[w] = r /\ \A v \in Worker \ {w} : worker'[v] = worker[v]
  BY DEF WorksOn, IInv, TypeOK
<1>2. CASE task_history[k] = "error"
  BY <1>2 DEF Doomed
<1>3. CASE \E v \in Worker : worker[v].task = k /\ worker[v].outcome = "error"
  <2>1. worker[w].outcome = "error"
    BY <1>3, WorkerFacts
  <2>2. worker'[w].task = k /\ worker'[w].outcome = "error"
    BY <1>1, <2>1
  <2> QED BY <2>2 DEF Doomed
<1> QED
  BY <1>2, <1>3 DEF Doomed

\* Register finds no entry of its task in the history.
LEMMA RegisterKeeps ==
    ASSUME IInv, NEW w \in Worker, Register(w)
    PROVE  IInv' /\ task_history[worker[w].task] = "unknown"
<1> PICK k \in Task : k = worker[w].task
  BY WorkerFacts DEF Register
<1> PICK r : r = [worker[w] EXCEPT !.pc = "running"]
  OBVIOUS
<1>1. /\ worker[w].pc = "got" /\ k \in Task /\ worker[w] \in WorkerType \ {IdleWorker}
      /\ task_history[k] = "unknown"
  BY WorkerFacts DEF Register, IInv, HeldProgress
<1>2. /\ r \in WorkerType /\ r.pc = "running" /\ r.task = k
      /\ r.outcome = worker[w].outcome
  BY <1>1 DEF WorkerType
<1>3. /\ task_history' = [task_history EXCEPT ![k] = "running"]
      /\ worker' = [worker EXCEPT ![w] = r]
      /\ UNCHANGED <<queue, call, event, namespace, caller>>
  BY DEF Register
<1>4. worker'[w] = r /\ \A v \in Worker \ {w} : worker'[v] = worker[v]
  BY <1>3 DEF IInv, TypeOK
<1>5. WorksOn(w, k, r)
  BY <1>1, <1>2, <1>3 DEF WorksOn, IInv, TypeOK, Histories
<1>6. task_history'[k] = "running"
  BY <1>1, <1>3 DEF IInv, TypeOK
<1>7. event'[k] /\ call[k].sync => namespace'[k] \in Outcomes /\ namespace'[k] = task_history'[k]
  BY <1>1, <1>3 DEF IInv, Delivered, Outcomes
<1>8. namespace'[k] = "failed" \/ Doomed(k) => Doomed(k)'
  <2>1. namespace'[k] = "failed" => Doomed(k)
    BY <1>1, <1>3 DEF IInv, AnnouncedFail
  <2>2. Doomed(k) => Doomed(k)'
    BY <1>1, <1>2, <1>5, DoomStays
  <2> QED BY <2>1, <2>2
<1>9. task_history[k] \notin Outcomes
  BY <1>1 DEF Outcomes
<1>10. IInv'
  BY <1>1, <1>2, <1>5, <1>6, <1>7, <1>8, <1>9, WorkKeeps
<1> QED
  BY <1>1, <1>10

\* A failure announced leaves the worker with an error to record.
LEMMA AnnounceKeeps ==
    ASSUME IInv, NEW w \in Worker, Announce(w)
    PROVE  IInv'
<1> PICK k \in Task : k = worker[w].task
  BY WorkerFacts DEF Announce
<1>1. PICK failed \in BOOLEAN :
         /\ Deliver(k, IF failed THEN "failed" ELSE "processing")
         /\ worker' = [worker EXCEPT ![w].told = TRUE,
                                     ![w].outcome = IF failed THEN "error" ELSE "none"]
  BY DEF Announce
<1> DEFINE msg == IF failed THEN "failed" ELSE "processing"
           end == IF failed THEN "error" ELSE "none"
<1> PICK r : r = [[worker[w] EXCEPT !.told = TRUE] EXCEPT !.outcome = end]
  OBVIOUS
<1>2. /\ worker[w].pc = "running" /\ k \in Task /\ worker[w] \in WorkerType \ {IdleWorker}
      /\ worker[w].outcome = "none" /\ ~call[k].sync /\ task_history[k] = "running"
      /\ UNCHANGED <<queue, task_history, call, caller>>
  BY WorkerFacts DEF Announce, IInv, HeldProgress
<1>3. /\ namespace' = [namespace EXCEPT ![k] = msg]
      /\ event' = [event EXCEPT ![k] = TRUE]
  BY <1>1 DEF Deliver
<1>4. worker' = [worker EXCEPT ![w] = r]
  BY <1>1 DEF IInv, TypeOK
<1>5. /\ msg \in Answers /\ (msg = "failed" => end = "error")
      /\ end \in Outcomes \cup {"none"} /\ (end = "error" => r.outcome = "error")
  BY <1>2 DEF Answers, Outcomes, WorkerType
<1>6. r \in WorkerType /\ r.pc = "running" /\ r.task = k
  BY <1>2, <1>5 DEF WorkerType
<1> HIDE DEF msg, end
<1>7. WorksOn(w, k, r)
  BY <1>2, <1>3, <1>4, <1>5, <1>6 DEF WorksOn, IInv, TypeOK
<1>8. namespace'[k] = msg /\ worker'[w] = r
  BY <1>2, <1>3, <1>4 DEF IInv, TypeOK
<1>9. namespace'[k] = "failed" \/ Doomed(k) => Doomed(k)'
  <2>1. namespace'[k] = "failed" => Doomed(k)'
    BY <1>5, <1>6, <1>8 DEF Doomed
  <2>2. Doomed(k) => Doomed(k)'
    BY <1>2, <1>6, <1>7, DoomStays
  <2> QED BY <2>1, <2>2
<1>10. task_history'[k] = task_history[k] /\ task_history[k] \notin Outcomes
  BY <1>2 DEF Outcomes
<1> QED
  BY <1>2, <1>6, <1>7, <1>9, <1>10, WorkKeeps

\* The function ends; an announced failure stays an error.
LEMMA FinishKeeps ==
    ASSUME IInv, NEW w \in Worker, Finish(w)
    PROVE  IInv'
<1> PICK k \in Task : k = worker[w].task
  BY WorkerFacts DEF Finish
<1>1. PICK outcome \in Outcomes :
         /\ worker[w].outcome = "error" => outcome = "error"
         /\ worker' = [worker EXCEPT ![w].pc = "finished", ![w].outcome = outcome]
  BY DEF Finish
<1> PICK r : r = [[worker[w] EXCEPT !.pc = "finished"] EXCEPT !.outcome = outcome]
  OBVIOUS
<1>2. /\ worker[w].pc = "running" /\ k \in Task /\ worker[w] \in WorkerType \ {IdleWorker}
      /\ task_history[k] = "running"
      /\ UNCHANGED <<queue, task_history, call, event, namespace, caller>>
  BY WorkerFacts DEF Finish, IInv, HeldProgress
<1>3. worker' = [worker EXCEPT ![w] = r]
  BY <1>1 DEF IInv, TypeOK
<1>4. r \in WorkerType /\ r.pc = "finished" /\ r.task = k /\ r.outcome = outcome
  BY <1>2 DEF WorkerType
<1>5. WorksOn(w, k, r)
  BY <1>2, <1>3, <1>4 DEF WorksOn, IInv, TypeOK
<1>6. namespace'[k] = "failed" \/ Doomed(k) => Doomed(k)'
  <2>1. namespace'[k] = "failed" => Doomed(k)
    BY <1>2 DEF IInv, AnnouncedFail
  <2>2. Doomed(k) => Doomed(k)'
    BY <1>1, <1>2, <1>4, <1>5, DoomStays
  <2> QED BY <2>1, <2>2
<1>7. event'[k] /\ call[k].sync => namespace'[k] \in Outcomes /\ namespace'[k] = task_history'[k]
  BY <1>2 DEF IInv, Delivered
<1>8. task_history'[k] = task_history[k] /\ task_history[k] \notin Outcomes
  BY <1>2 DEF Outcomes
<1> QED
  BY <1>2, <1>4, <1>5, <1>6, <1>7, <1>8, WorkKeeps

\* SetResult also finds the history of its task "running".
LEMMA SetResultKeeps ==
    ASSUME IInv, NEW w \in Worker, SetResult(w)
    PROVE  IInv' /\ task_history[worker[w].task] = "running"
<1> PICK k \in Task : k = worker[w].task
  BY WorkerFacts DEF SetResult
<1> PICK r : r = [worker[w] EXCEPT !.pc = "callback"]
  OBVIOUS
<1>1. /\ worker[w].pc = "finished" /\ k \in Task /\ worker[w] \in WorkerType \ {IdleWorker}
      /\ task_history[k] = "running" /\ worker[w].outcome \in Outcomes
  BY WorkerFacts DEF SetResult, IInv, HeldProgress
<1>2. /\ r \in WorkerType /\ r.pc = "callback" /\ r.task = k
      /\ r.outcome = worker[w].outcome
  BY <1>1 DEF WorkerType
<1>3. /\ task_history' = [task_history EXCEPT ![k] = worker[w].outcome]
      /\ worker' = [worker EXCEPT ![w] = r]
      /\ UNCHANGED <<queue, call, event, namespace, caller>>
  BY DEF SetResult
<1>4. WorksOn(w, k, r) /\ task_history'[k] = worker[w].outcome
  BY <1>1, <1>2, <1>3 DEF WorksOn, IInv, TypeOK, Histories
<1>5. event'[k] /\ call[k].sync => namespace'[k] \in Outcomes /\ namespace'[k] = task_history'[k]
  BY <1>1, <1>3 DEF IInv, Delivered, Outcomes
<1>6. namespace'[k] = "failed" \/ Doomed(k) => Doomed(k)'
  <2>1. namespace'[k] = "failed" => Doomed(k)
    BY <1>3 DEF IInv, AnnouncedFail
  <2>2. Doomed(k) => Doomed(k)'
    BY <1>1, <1>2, <1>4, DoomStays
  <2> QED BY <2>1, <2>2
<1>7. task_history[k] \notin Outcomes
  BY <1>1 DEF Outcomes
<1>8. IInv'
  BY <1>1, <1>2, <1>4, <1>5, <1>6, <1>7, WorkKeeps
<1> QED
  BY <1>1, <1>8

\* The callback delivers what the history holds, and w drops the task.
LEMMA CallbackKeeps ==
    ASSUME IInv, NEW w \in Worker, Callback(w)
    PROVE  IInv'
<1> PICK k \in Task : k = worker[w].task
  BY WorkerFacts DEF Callback
<1> PICK r : r = IdleWorker
  OBVIOUS
<1>1. /\ worker[w].pc = "callback" /\ k \in Task /\ worker[w].outcome \in Outcomes
      /\ task_history[k] = worker[w].outcome
      /\ UNCHANGED <<queue, task_history, call, caller>>
      /\ worker' = [worker EXCEPT ![w] = r]
  BY WorkerFacts DEF Callback, IInv, HeldProgress
<1>2. r \in WorkerType /\ r.pc = "idle" /\ r.task = NoTask
  BY DEF WorkerType, IdleWorker
<1>3. \/ /\ call[k].sync
         /\ namespace' = [namespace EXCEPT ![k] = worker[w].outcome]
         /\ event' = [event EXCEPT ![k] = TRUE]
      \/ ~call[k].sync /\ UNCHANGED <<event, namespace>>
  BY DEF Callback, Deliver
<1>4. WorksOn(w, k, r)
  BY <1>1, <1>2, <1>3 DEF WorksOn, IInv, TypeOK, Answers
<1>5. event'[k] /\ call[k].sync => namespace'[k] \in Outcomes /\ namespace'[k] = task_history'[k]
  BY <1>1, <1>3 DEF IInv, TypeOK
<1>6. Doomed(k) => task_history[k] = "error"
  BY <1>1, WorkerFacts DEF Doomed
<1>7. namespace'[k] = "failed" \/ Doomed(k) => Doomed(k)'
  <2>1. namespace'[k] = "failed" => Doomed(k)
    BY <1>1, <1>3 DEF IInv, TypeOK, AnnouncedFail, Outcomes
  <2> QED BY <1>1, <1>6, <2>1 DEF Doomed
<1>8. task_history'[k] = task_history[k]
  BY <1>1
<1> QED
  BY <1>1, <1>2, <1>4, <1>5, <1>7, <1>8, WorkKeeps

\* Steps of the worker threads.
LEMMA WorkerStepKeeps ==
    ASSUME IInv, NEW w \in Worker, WorkerStep(w)
    PROVE  IInv'
BY GetKeeps, RegisterKeeps, AnnounceKeeps, FinishKeeps, SetResultKeeps, CallbackKeeps
   DEF WorkerStep

\* Every step keeps the invariant.
LEMMA Inductive == IInv /\ [Next]_vars => IInv'
<1> SUFFICES ASSUME IInv, [Next]_vars PROVE IInv'
  OBVIOUS
<1>1. CASE \E c \in Client : ClientStep(c)
  BY <1>1, ClientStepKeeps
<1>2. CASE \E w \in Worker : WorkerStep(w)
  BY <1>2, WorkerStepKeeps
<1>3. CASE UNCHANGED vars
  BY <1>3 DEF vars, IInv, TypeOK, RunOnce, QueuedOnce, HeldOnce, Queued, Held, Submitted,
              HeldProgress, FreshUnknown, Fresh, Delivered, AnswerIsResult, AnnouncedFail,
              Doomed
<1> QED
  BY <1>1, <1>2, <1>3 DEF Next
-----------------------------------------------------------------------------
\* The invariant holds in every reachable state.
LEMMA Invariant == Spec => []IInv
  BY Initially, Inductive, PTL DEF Spec

\* The variables stay in their types.
THEOREM TypeCorrect == Spec => []TypeOK
<1>1. IInv => TypeOK
  BY DEF IInv
<1> QED
  BY <1>1, Invariant, PTL

\* However many workers take tasks from the queue, a task is run by one of them, once.
THEOREM TasksRunOnce == Spec => []RunOnce
<1>1. IInv => RunOnce
  BY DEF IInv
<1> QED
  BY <1>1, Invariant, PTL

\* A synchronous caller gets the result of its own task, already in the history.
THEOREM AnswersCorrect == Spec => []AnswerIsResult
<1>1. IInv => AnswerIsResult
  BY DEF IInv
<1> QED
  BY <1>1, Invariant, PTL

\* What was announced as failed is not recorded as successful: a doomed task that has
\* a result was given up by its worker after it recorded the error.
THEOREM AnnouncementsHonest == Spec => []FailedFails
<1>1. IInv => FailedFails
  <2> SUFFICES ASSUME IInv, NEW c \in Client, caller[c].answer = "failed"
               PROVE  task_history[caller[c].task] # "ok"
    BY DEF FailedFails
  <2>1. Doomed(caller[c].task)
    BY DEF IInv, AnnouncedFail
  <2>2. CASE task_history[caller[c].task] = "error"
    BY <2>2
  <2>3. ASSUME NEW w \in Worker, worker[w].task = caller[c].task, worker[w].outcome = "error"
        PROVE  task_history[caller[c].task] # "ok"
    <3>1. worker[w] \in WorkerType \ {IdleWorker}
      BY <2>3 DEF IInv, TypeOK, IdleWorker
    <3>2. worker[w].pc \in {"got", "running", "finished", "callback"}
      BY <3>1 DEF WorkerType
    <3> QED BY <2>3, <3>2 DEF IInv, HeldProgress
  <2> QED BY <2>1, <2>2, <2>3 DEF Doomed
<1> QED
  BY <1>1, Invariant, PTL

\* The status of a task never goes back, whatever the workers do.
THEOREM StatusNeverGoesBack == Spec => StatusAdvances
<1> DEFINE Advances ==
      \A k \in Task : /\ task_history[k] \in Outcomes => task_history'[k] = task_history[k]
                      /\ task_history[k] = "running" => task_history'[k] # "unknown"
<1>1. ASSUME IInv, [Next]_vars PROVE [Advances]_vars
  <2>1. CASE UNCHANGED task_history
    BY <2>1 DEF Outcomes
  <2>2. ASSUME NEW w \in Worker, Register(w) PROVE Advances
    BY <2>2, <1>1, RegisterKeeps DEF Register, Outcomes, IInv, TypeOK
  <2>3. ASSUME NEW w \in Worker, SetResult(w) PROVE Advances
    <3>1. worker[w].outcome # "unknown" /\ task_history[worker[w].task] = "running"
      BY <2>3, <1>1, SetResultKeeps DEF SetResult, IInv, HeldProgress, Outcomes
    <3> QED BY <2>3, <1>1, <3>1 DEF SetResult, Outcomes, IInv, TypeOK
  <2>4. [Next]_vars => UNCHANGED task_history \/ \E w \in Worker : Register(w) \/ SetResult(w)
    BY DEF Next, vars, ClientStep, AddTaskSync, AddTaskAsync, AddTask, Answer, Leave,
           WorkerStep, Get, Announce, Finish, Callback
  <2> QED BY <1>1, <2>1, <2>2, <2>3, <2>4
<1>2. [Advances]_vars => [\A k \in Task :
          /\ task_history[k] \in Outcomes => task_history'[k] = task_history[k]
          /\ task_history[k] = "running" => task_history'[k] # "unknown"]_vars
  OBVIOUS
<1> QED
  BY <1>1, Invariant, PTL DEF Spec, StatusAdvances
=============================================================================
