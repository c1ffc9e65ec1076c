-------------------------- MODULE BlueprintRecords --------------------------
(***************************************************************************)
(* What is written down about the operations of blueprints: the history of *)
(* calls, the snapshots made of it and their restoration, which calls      *)
(* everything again, and the performance records (blueprint_manager.py,    *)
(* performance_manager.py).  Operations run under the lock of a blueprint; *)
(* snapshots do not, and the performance records of all blueprints are in  *)
(* one dictionary, which is written to the database as a whole.            *)
(***************************************************************************)
EXTENDS Naturals, SequencesExt, FiniteSets

CONSTANTS
    Thread, Name,     \* threads, names of snapshots
    Call,             \* day-2 calls with their messages
    MaxBlueprints, MaxRequests,   \* bounds: blueprints created, requests
    MaxFaults, MaxStops           \* bounds: codes that raise, stops

VARIABLES
    blue, blueDb,     \* each blueprint and its document
    applied,          \* the day-2 calls whose code has succeeded
    owner,            \* who has the lock
    shots,            \* the documents of each snapshot name
    ops, opsDb,       \* the operations of each blueprint: performance_dict, documents
    pending,          \* pending_operations: the number of one, or 0
    job,              \* what each thread is at
    origin,           \* history: the snapshot a blueprint was restored from
    rough,            \* history: blueprints with failed or interrupted operations
    broken,           \* history: the performance records were not all written
    requests, faults, stops

vars == <<blue, blueDb, applied, owner, shots, ops, opsDb, pending, job, origin, rough, broken,
          requests, faults, stops>>

Blues == 1..MaxBlueprints
Unlocked == "nobody"
Unknown == <<[ended |-> FALSE, by |-> {}, known |-> FALSE]>>    \* not in performance_dict
NewOperation == [ended |-> FALSE, by |-> {}, known |-> TRUE]
Absent == [st |-> "none", idle |-> TRUE, history |-> <<>>, configured |-> FALSE]
NoShot == [history |-> <<>>, configured |-> TRUE, applied |-> <<>>, clean |-> FALSE]
NotRestored == [of |-> NoShot, touched |-> TRUE, whole |-> FALSE]
Idle == [at |-> "idle", kind |-> "none", blue |-> 1, call |-> "none", todo |-> <<>>,
         restoring |-> FALSE, of |-> NoShot, name |-> "none", found |-> FALSE,
         op |-> 0, left |-> {}, seen |-> {}]

\* The process begins with one blueprint in the database, created and called once.
Older(c) == [Absent EXCEPT !.st = "live", !.history = <<"create", c>>, !.configured = TRUE]
Init ==
    /\ LET c == CHOOSE c \in Call : TRUE
       IN  /\ blue = [b \in Blues |-> IF b = 1 THEN Older(c) ELSE Absent]
           /\ applied = [b \in Blues |-> IF b = 1 THEN <<c>> ELSE <<>>]
    /\ blueDb = blue
    /\ owner = [b \in Blues |-> Unlocked]
    /\ shots = [n \in Name |-> <<>>]
    /\ ops = [b \in Blues |-> IF b = 1 THEN <<[NewOperation EXCEPT !.ended = TRUE]>> ELSE Unknown]
    /\ opsDb = ops
    /\ pending = [b \in Blues |-> 0]
    /\ job = [t \in Thread |-> Idle]
    /\ origin = [b \in Blues |-> NotRestored]
    /\ rough = {} /\ broken = FALSE
    /\ requests = 0 /\ faults = 0 /\ stops = 0

Known == {b \in Blues : ops[b] # Unknown}
Live(b) == blue[b].st = "live"
Day2(history) == SelectSeq(history, LAMBDA c : c \in Call)
Becomes(t, j) == job' = [job EXCEPT ![t] = j]
Goto(t, at) == Becomes(t, [job[t] EXCEPT !.at = at])
Request(t) == job[t] = Idle /\ requests < MaxRequests /\ requests' = requests + 1
BluesKept == UNCHANGED <<blue, blueDb, applied>>
RecordsKept == UNCHANGED <<ops, opsDb, pending, broken>>
HistoryKept == UNCHANGED <<origin, rough>>
Runs == UNCHANGED <<requests, faults, stops>>

\* set_blueprint_status: the status of a blueprint of the dictionary, which is
\* saved; for any other it raises.
SetStatus(b, new) ==
    /\ blue' = [blue EXCEPT ![b] = new]
    /\ blueDb' = IF Live(b) THEN [blueDb EXCEPT ![b] = new] ELSE blueDb

Release(b) == owner' = [owner EXCEPT ![b] = Unlocked]
-----------------------------------------------------------------------------
(* create_blueprint, by a user or by a restoration.                         *)
NewBlueprint(t, shot, restoring) ==
    \E b \in Blues :
        /\ blue[b] = Absent /\ \A c \in 1..(b - 1) : blue[c] # Absent
        /\ LET new == [Absent EXCEPT !.st = "live", !.history = <<"create">>]
           IN  blue' = [blue EXCEPT ![b] = new] /\ blueDb' = [blueDb EXCEPT ![b] = new]
        /\ owner' = [owner EXCEPT ![b] = t]
        /\ origin' = IF restoring THEN [origin EXCEPT ![b] = [NotRestored EXCEPT !.of = shot, !.touched = FALSE]]
                     ELSE origin
        /\ Becomes(t, [Idle EXCEPT !.at = "born", !.kind = "create", !.blue = b, !.of = shot,
                                   !.todo = Day2(shot.history), !.restoring = restoring])
        /\ UNCHANGED <<applied, shots, rough, faults, stops>> /\ RecordsKept

CreateBlueprint(t) == Request(t) /\ NewBlueprint(t, NoShot, FALSE)

\* snapshot_restore: the creation request of the snapshot, then its calls.
SnapshotRestore(t, n) == Request(t) /\ shots[n] # <<>> /\ NewBlueprint(t, Head(shots[n]), TRUE)

KeepPending(t, at, known) ==       \* a mutant of StartOperation: the older one stays pending
    LET b == job[t].blue
        more == IF known THEN Append(ops[b], NewOperation) ELSE <<NewOperation>>
    IN  /\ ops' = [ops EXCEPT ![b] = more]
        /\ pending' = IF pending[b] = 0 THEN [pending EXCEPT ![b] = Len(more)] ELSE pending
        /\ Becomes(t, [job[t] EXCEPT !.at = at, !.op = Len(more)])
        /\ UNCHANGED <<opsDb, broken>>

(* start_operation: one that is still pending is replaced.                  *)
StartOperation(t, at, known) ==
    LET b == job[t].blue
        more == IF known THEN Append(ops[b], NewOperation) ELSE <<NewOperation>>
    IN  /\ ops' = [ops EXCEPT ![b] = more]
        /\ pending' = [pending EXCEPT ![b] = Len(more)]
        /\ Becomes(t, [job[t] EXCEPT !.at = at, !.op = Len(more)])
        /\ UNCHANGED <<opsDb, broken>>

\* Until here the status says idle.  The message of a snapshot taken then is
\* missing, and the code will raise.
Deploy(t) ==
    LET j == job[t] IN
    /\ j.at = "born"
    /\ SetStatus(j.blue, [blue[j.blue] EXCEPT !.idle = FALSE, !.configured = j.of.configured])
    /\ StartOperation(t, "code", FALSE)
    /\ UNCHANGED <<applied, owner, shots>> /\ HistoryKept /\ Runs

(* update_blueprint, call_function, get_from_blueprint, delete_blueprint.   *)
Ask(t, kind, b, c) ==
    /\ Request(t) /\ Live(b) /\ (kind = "get" => owner[b] = Unlocked)
    /\ Becomes(t, [Idle EXCEPT !.at = "wait", !.kind = kind, !.blue = b, !.call = c])
    /\ UNCHANGED <<owner, shots, faults, stops>> /\ BluesKept /\ RecordsKept /\ HistoryKept

Takes(t) ==
    LET b == job[t].blue IN
    /\ job[t].at = "wait" /\ owner[b] = Unlocked /\ UNCHANGED <<applied, shots, rough>> /\ Runs
    /\ origin' = IF job[t].restoring THEN origin ELSE [origin EXCEPT ![b].touched = TRUE]

Started(t) ==      \* without performance records nothing is started
    IF job[t].blue \in Known THEN StartOperation(t, "code", TRUE)
    ELSE Becomes(t, [job[t] EXCEPT !.at = "code", !.op = 0]) /\ RecordsKept

\* running_day2 is a status that says idle; the call is noted after the save.
EnterUpdate(t) ==
    LET b == job[t].blue IN
    /\ Takes(t) /\ job[t].kind = "update" /\ Live(b)
    /\ blueDb' = [blueDb EXCEPT ![b] = [blue[b] EXCEPT !.idle = TRUE]]
    /\ blue' = [blue EXCEPT ![b].idle = TRUE, ![b].history = Append(@, job[t].call)]
    /\ owner' = [owner EXCEPT ![b] = t] /\ Started(t)

EnterCall(t) ==
    LET b == job[t].blue IN
    /\ Takes(t) /\ job[t].kind \in {"call", "get"} /\ UNCHANGED blueDb
    /\ owner' = [owner EXCEPT ![b] = t]
    /\ IF job[t].kind = "call"
       THEN blue' = [blue EXCEPT ![b].history = Append(@, "call")] /\ Started(t)
       ELSE UNCHANGED blue /\ Goto(t, "code") /\ RecordsKept

EnterDelete(t) ==
    LET b == job[t].blue IN
    /\ Takes(t) /\ job[t].kind = "delete" /\ Live(b)
    /\ SetStatus(b, [blue[b] EXCEPT !.idle = FALSE])
    /\ owner' = [owner EXCEPT ![b] = t] /\ Started(t)

\* The blueprint has been deleted during the wait: an exception.  That of a
\* deletion comes after the operation was started.
EnterGone(t) ==
    LET b == job[t].blue IN
    /\ Takes(t) /\ job[t].kind \in {"update", "delete"} /\ ~ Live(b)
    /\ UNCHANGED <<blue, blueDb, owner>> /\ Becomes(t, Idle)
    /\ IF job[t].kind = "delete" /\ b \in Known
       THEN /\ ops' = [ops EXCEPT ![b] = Append(@, NewOperation)]
            /\ pending' = [pending EXCEPT ![b] = Len(ops[b]) + 1] /\ UNCHANGED <<opsDb, broken>>
       ELSE RecordsKept
-----------------------------------------------------------------------------
(* The code calls the providers.  A call of a provider is noted in the      *)
(* operation that is pending, whoever makes it.                             *)
Noted(t) ==
    LET b == job[t].blue IN
    IF pending[b] = 0 THEN ops ELSE [ops EXCEPT ![b][pending[b]].by = @ \cup {job[t].op}]

\* end_operation notes the end and writes the records of every blueprint.
EndOperation(t) ==
    LET j == job[t] IN
    IF j.op = 0 THEN Goto(t, "finish") /\ ops' = Noted(t) /\ UNCHANGED <<opsDb, pending, broken>>
    ELSE /\ ops' = [Noted(t) EXCEPT ![j.blue][j.op].ended = TRUE]
         /\ pending' = [pending EXCEPT ![j.blue] = 0]
         /\ Becomes(t, [j EXCEPT !.at = "persist", !.left = Known, !.seen = Known])
         /\ UNCHANGED <<opsDb, broken>>

CodeSucceeds(t) ==
    LET j == job[t]
        b == j.blue
    IN  /\ j.at = "code" /\ EndOperation(t)
        /\ j.kind = "create" => blue[b].configured
        /\ applied' = IF j.kind = "update" THEN [applied EXCEPT ![b] = Append(@, j.call)] ELSE applied
        /\ CASE j.kind = "create" -> SetStatus(b, [blue[b] EXCEPT !.idle = TRUE])
             [] j.kind = "delete" -> /\ blue' = [blue EXCEPT ![b].st = "gone"]
                                     /\ blueDb' = [blueDb EXCEPT ![b].st = "gone"]
             [] OTHER -> UNCHANGED <<blue, blueDb>>
        /\ UNCHANGED <<owner, shots>> /\ HistoryKept /\ Runs

\* The status says idle again; the operation stays pending.
CodeFails(t) ==
    LET j == job[t]
        b == j.blue
    IN  /\ j.at = "code" /\ Release(b) /\ Becomes(t, Idle)
        /\ ops' = Noted(t) /\ UNCHANGED <<opsDb, pending, broken>>
        /\ IF j.kind = "create" /\ ~ blue[b].configured THEN UNCHANGED faults
           ELSE faults < MaxFaults /\ faults' = faults + 1
        /\ IF j.kind = "call" THEN UNCHANGED <<blue, blueDb>> ELSE SetStatus(b, [blue[b] EXCEPT !.idle = TRUE])
        /\ rough' = rough \cup {b}
        /\ UNCHANGED <<applied, shots, origin, requests, stops>>

PersistOne(t) ==
    /\ job[t].at = "persist" /\ Known = job[t].seen
    /\ \E b \in job[t].left :
         /\ \A c \in job[t].left : b <= c      \* in the order of insertion
         /\ opsDb' = [opsDb EXCEPT ![b] = ops[b]]
         /\ Becomes(t, [job[t] EXCEPT !.left = @ \ {b}])
    /\ UNCHANGED <<owner, shots, ops, pending, broken>> /\ BluesKept /\ HistoryKept /\ Runs

\* A blueprint was added to the dictionary while it is iterated: RuntimeError,
\* and the operation, which has succeeded, raises.
PersistRaises(t) ==
    /\ job[t].at = "persist" /\ Known # job[t].seen
    /\ Release(job[t].blue) /\ Becomes(t, Idle) /\ broken' = TRUE
    /\ rough' = rough \cup {job[t].blue}
    /\ UNCHANGED <<shots, ops, opsDb, pending, origin>> /\ BluesKept /\ Runs

PersistDone(t) ==
    /\ job[t].at = "persist" /\ Known = job[t].seen /\ job[t].left = {}
    /\ Becomes(t, [job[t] EXCEPT !.at = "finish", !.seen = {}]) /\ broken' = FALSE
    /\ UNCHANGED <<owner, shots, ops, opsDb, pending>> /\ BluesKept /\ HistoryKept /\ Runs

\* The end of update_blueprint saves; a restoration goes on with its calls.
Finish(t) ==
    LET j == job[t] IN
    /\ j.at = "finish" /\ Release(j.blue)
    /\ IF j.kind = "update" THEN SetStatus(j.blue, [blue[j.blue] EXCEPT !.idle = TRUE])
       ELSE UNCHANGED <<blue, blueDb>>
    /\ IF j.restoring THEN Goto(t, "next") ELSE Becomes(t, Idle)
    /\ UNCHANGED <<applied, shots>> /\ RecordsKept /\ HistoryKept /\ Runs

Replay(t) ==
    LET j == job[t] IN
    /\ j.at = "next"
    /\ IF j.todo = <<>> \/ ~ Live(j.blue) THEN Becomes(t, Idle)
       ELSE Becomes(t, [j EXCEPT !.at = "wait", !.kind = "update", !.call = Head(j.todo), !.todo = Tail(@)])
    /\ origin' = [origin EXCEPT ![j.blue].whole = @ \/ j.todo = <<>>]
    /\ UNCHANGED <<owner, shots, rough>> /\ BluesKept /\ RecordsKept /\ Runs
-----------------------------------------------------------------------------
(* snapshot_blueprint and snapshot_and_delete, without the lock.            *)
SnapshotBlueprint(t, b, n, kind) ==
    /\ Request(t) /\ Live(b) /\ blue[b].idle
    /\ LET shot == [history |-> blue[b].history, configured |-> blue[b].configured,
                    applied |-> applied[b], clean |-> b \notin rough /\ owner[b] = Unlocked]
       IN  Becomes(t, [Idle EXCEPT !.at = "find", !.kind = kind, !.blue = b, !.of = shot, !.name = n])
    /\ UNCHANGED <<owner, shots, faults, stops>> /\ BluesKept /\ RecordsKept /\ HistoryKept

\* save_snapshot: is there a document of that name?
SaveFind(t) ==
    /\ job[t].at = "find"
    /\ Becomes(t, [job[t] EXCEPT !.at = "write", !.found = shots[job[t].name] # <<>>])
    /\ UNCHANGED <<owner, shots>> /\ BluesKept /\ RecordsKept /\ HistoryKept /\ Runs

SaveWrite(t) ==
    LET j == job[t]
        docs == shots[j.name]
    IN  /\ j.at = "write"
        /\ shots' = [shots EXCEPT ![j.name] =
               IF ~ j.found THEN Append(docs, j.of)
               ELSE IF docs = <<>> THEN docs ELSE [docs EXCEPT ![1] = j.of]]
        /\ IF j.kind = "delete" /\ Live(j.blue) THEN Goto(t, "wait") ELSE Becomes(t, Idle)
        /\ UNCHANGED owner /\ BluesKept /\ RecordsKept /\ HistoryKept /\ Runs

SnapshotDelete(t, n) ==
    /\ Request(t) /\ shots[n] # <<>> /\ shots' = [shots EXCEPT ![n] = Tail(@)]
    /\ UNCHANGED <<owner, job, faults, stops>> /\ BluesKept /\ RecordsKept /\ HistoryKept

(* The process stops: the documents are loaded, and the records of the      *)
(* blueprints that are there.                                               *)
Restart ==
    /\ stops < MaxStops /\ stops' = stops + 1
    /\ blue' = blueDb
    /\ ops' = [b \in Blues |-> IF blueDb[b].st = "live" THEN opsDb[b] ELSE Unknown]
    /\ pending' = [b \in Blues |-> 0] /\ broken' = FALSE
    /\ owner' = [b \in Blues |-> Unlocked] /\ job' = [t \in Thread |-> Idle]
    /\ rough' = rough \cup {b \in Blues : owner[b] # Unlocked}
    /\ UNCHANGED <<blueDb, applied, shots, opsDb, origin, requests, faults>>

Step(t) ==
    \/ Deploy(t) \/ EnterUpdate(t) \/ EnterCall(t) \/ EnterDelete(t) \/ EnterGone(t)
    \/ CodeSucceeds(t) \/ CodeFails(t)
    \/ PersistOne(t) \/ PersistRaises(t) \/ PersistDone(t) \/ Finish(t) \/ Replay(t)
    \/ SaveFind(t) \/ SaveWrite(t)

Next ==
    \/ \E t \in Thread : Step(t) \/ CreateBlueprint(t)
    \/ \E t \in Thread, b \in Blues, c \in Call : Ask(t, "update", b, c)
    \/ \E t \in Thread, b \in Blues, kind \in {"call", "get", "delete"} : Ask(t, kind, b, "none")
    \/ \E t \in Thread, b \in Blues, n \in Name, kind \in {"snapshot", "delete"} :
           SnapshotBlueprint(t, b, n, kind)
    \/ \E t \in Thread, n \in Name : SnapshotRestore(t, n) \/ SnapshotDelete(t, n)
    \/ Restart
Spec == Init /\ [][Next]_vars
-----------------------------------------------------------------------------
\* Every variable keeps the shape of the models of the code.
TypeOK ==
    /\ \A d \in {blue, blueDb} : \A b \in Blues :
           /\ d[b].st \in {"none", "live", "gone"} /\ d[b].idle \in BOOLEAN
           /\ d[b].history \in Seq({"create", "call"} \cup Call)
    /\ owner \in [Blues -> Thread \cup {Unlocked}]
    /\ \A b \in Blues : pending[b] \in 0..Len(ops[b]) /\ applied[b] \in Seq(Call)

\* A blueprint restored to the end, and by nobody else changed, has made exactly
\* the calls of the snapshot; and they are those the original had made, unless
\* one of its operations failed, was interrupted, or was running.
RestoreFaithful ==
    \A b \in Blues : origin[b].whole /\ ~ origin[b].touched /\ b \notin rough =>
        /\ applied[b] = Day2(origin[b].of.history)
        /\ origin[b].of.clean => applied[b] = origin[b].of.applied

\* A call of a provider is attributed to the operation that makes it, although
\* failed operations stay pending; only a read-only call, which starts no
\* operation, is counted for one of those.
CallsAttributed ==
    \A b \in Blues : \A i \in DOMAIN ops[b] : ops[b][i].by \subseteq {0, i}

\* When nobody writes the records, the operations that have ended are in the
\* database, unless the last who did was interrupted by a new blueprint.
EndedIsSaved ==
    ~ broken /\ (\A t \in Thread : job[t].at # "persist") =>
        \A b \in Known : \A i \in DOMAIN ops[b] :
            ops[b][i].ended => i \in DOMAIN opsDb[b] /\ opsDb[b][i].ended
=============================================================================
