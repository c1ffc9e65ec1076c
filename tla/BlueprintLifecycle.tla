------------------------- MODULE BlueprintLifecycle -------------------------
(***************************************************************************)
(* BlueprintManager, BlueprintNG.destroy and BlueprintProvider: blueprints *)
(* are created, updated, read, called, protected and deleted by the worker *)
(* threads of the TaskManager.  A blueprint object owns a non-reentrant    *)
(* lock; a blueprint may deploy children, and an operation on the parent   *)
(* runs whole operations on its children while it holds its own lock.      *)
(*                                                                         *)
(* A thread runs a stack of frames, one per manager method in progress;    *)
(* the last frame is the running one.  A step of a thread goes from one    *)
(* lock acquisition, nested manager call, blueprint code or database       *)
(* deletion to the next one.                                               *)
(***************************************************************************)
EXTENDS Naturals, Sequences, FiniteSets

CONSTANTS Blueprint,    \* blueprint identifiers
          Thread,       \* worker threads of the TaskManager
          NoBlue,       \* parent_id = None
          NoThread,     \* the lock is free
          UserOps,      \* manager methods the users of a run invoke
          CodeOps,      \* what the code of the blueprints of a run does
          CanRestart    \* whether the NFVCL process may be restarted

ASSUME LifecycleAssumption ==
    /\ NoBlue \notin Blueprint
    /\ NoThread \notin Thread
    /\ UserOps \subseteq {"create", "update", "get", "delete", "force",
                          "protect", "deleteAll"}
    /\ CodeOps \subseteq {"createChild", "deleteChild", "callChild", "save", "fail"}
    /\ CanRestart \in BOOLEAN

VARIABLES blueprint_dict, \* ids in BlueprintManager.blueprint_dict
          blue,           \* the object behind each id, kept by threads that hold it
          docs,           \* ids that have a document in the blueprints collection
          saved,          \* content of those documents
          lock,           \* BlueprintNG.lock
          stack,          \* frames in progress of each worker thread
          used,           \* ids already generated
          deleted         \* ids whose deletion was completed (history)

vars == <<blueprint_dict, blue, docs, saved, lock, stack, used, deleted>>
registry == <<blueprint_dict, blue, docs, saved>>
-----------------------------------------------------------------------------
Status(op, err) == [op |-> op, error |-> err]
Deploying  == Status("deploying", FALSE)
\* Mutant: a day-2 method shows the status its name says, which the code never sets.
RunningDay2Mutant == Status("running-day2-op", FALSE)
RunningDay2 == Status("idle", FALSE)
Idle       == Status("idle", FALSE)
ErrorState == Status("idle", TRUE)
Destroying == Status("destroying", FALSE)
StatusType == [op : {"idle", "deploying", "destroying"}, error : BOOLEAN]

BlueType == [status : StatusType, protected : BOOLEAN,
             parent : Blueprint \cup {NoBlue},
             children : SUBSET Blueprint,     \* children_blue_ids
             deployed : SUBSET Blueprint]     \* BlueprintProviderData

NewBlue(parent) == [status |-> Deploying, protected |-> FALSE, parent |-> parent,
                    children |-> {}, deployed |-> {}]

Ops == {"create", "update", "get", "call", "delete", "protect", "deleteAll"}
Codes == {"create", "update", "get", "call"}    \* methods that run blueprint code
PCs == {"acquire", "body", "creating", "calling", "deleting", "children",
        "childDeleting", "orphans", "orphanDeleting", "resources", "cleanup",
        "leftoverDeleting", "pop", "erase", "failed", "apply", "loop", "next"}
Waiting == {"creating", "calling", "deleting", "childDeleting", "orphanDeleting",
            "leftoverDeleting", "next"}
Returns == {"none", "ok", "protected", "unauthorized", "error"}

FrameType ==
    {f \in [op : Ops, blue : Blueprint \cup {NoBlue}, pc : PCs,
            child : Blueprint \cup {NoBlue},  \* callee of the nested call
            todo : SUBSET Blueprint,          \* list the method iterates on
            flag : BOOLEAN,                   \* force_deletion, protect
            ret : Returns] :                  \* how the nested call ended
        f.pc \in Waiting => f.child \in Blueprint}

Frame(op, b, pc, flag) == [op |-> op, blue |-> b, pc |-> pc, child |-> NoBlue,
                           todo |-> {}, flag |-> flag, ret |-> "none"]

Top(t) == stack[t][Len(stack[t])]
Running(t, op, pc) ==
    /\ stack[t] # <<>>
    /\ Top(t).op = op
    /\ Top(t).pc = pc
    /\ (pc \in Waiting) => (Top(t).ret # "none")

\* The running frame moves on to the frame f.
Goto(t, f) == stack' = [stack EXCEPT ![t][Len(stack[t])] = f]

\* The running frame f waits for the new frame g.
Push(t, f, g) ==
    stack' = [stack EXCEPT ![t] = Append([@ EXCEPT ![Len(@)] = f], g)]

\* The running method returns, or raises, to its caller: the frame below.
Return(t, ret) ==
    LET n == Len(stack[t])
        Told(i) == IF i = n - 1 THEN [stack[t][i] EXCEPT !.ret = ret] ELSE stack[t][i]
    IN  stack' = [stack EXCEPT ![t] = [i \in 1..n - 1 |-> Told(i)]]

\* The running frame f calls a method on the blueprint c and waits at pc.  The
\* lookup of c is part of the call: when it finds nothing, the call raises.
Nest(t, f, pc, c, op) ==
    LET waiting == [f EXCEPT !.pc = pc, !.child = c]
    IN  IF c \in blueprint_dict
        THEN Push(t, waiting, Frame(op, c, "acquire", FALSE))
        ELSE Goto(t, [waiting EXCEPT !.ret = "error"])

\* The running frame goes on at pc after its nested call.
Resume(t, pc) ==
    Goto(t, [Top(t) EXCEPT !.pc = pc, !.child = NoBlue, !.ret = "none"])
Raise(t, ret) ==
    Goto(t, [Top(t) EXCEPT !.pc = "failed", !.child = NoBlue, !.todo = {}, !.ret = ret])

Release(b) == lock' = [lock EXCEPT ![b] = NoThread]

\* BlueprintManager.save_blueprint of the object with content written, which the
\* code then changes to now without saving it again.
SaveThen(b, written, now) ==
    /\ blueprint_dict' = blueprint_dict \cup {b}
    /\ docs' = docs \cup {b}
    /\ blue' = [blue EXCEPT ![b] = now]
    /\ saved' = [saved EXCEPT ![b] = written]
Save(b, r) == SaveThen(b, r, r)

\* set_blueprint_status finds the blueprint by id; it saves it.
SetStatus(b, s) == Save(b, [blue[b] EXCEPT !.status = s])

Init ==
    /\ blueprint_dict = {}
    /\ blue = [b \in Blueprint |-> NewBlue(NoBlue)]
    /\ docs = {}
    /\ saved = [b \in Blueprint |-> NewBlue(NoBlue)]
    /\ lock = [b \in Blueprint |-> NoThread]
    /\ stack = [t \in Thread |-> <<>>]
    /\ used = {}
    /\ deleted = {}
-----------------------------------------------------------------------------
\* Mutant: a generated id is only compared with the blueprints in memory.
StartCreateMutant(b, parent, t) ==
    /\ b \notin blueprint_dict
    /\ used' = used \cup {b}
    /\ lock' = [lock EXCEPT ![b] = t]
    /\ Save(b, NewBlue(parent))
    /\ UNCHANGED deleted

(* create_blueprint, up to the call of the create method of the blueprint. *)
StartCreate(b, parent, t) ==
    /\ b \notin used
    /\ used' = used \cup {b}
    /\ lock' = [lock EXCEPT ![b] = t]
    /\ Save(b, NewBlue(parent))
    /\ UNCHANGED deleted

UserCreate(t) ==
    /\ "create" \in UserOps
    /\ stack[t] = <<>>
    /\ \E b \in Blueprint :
          /\ StartCreate(b, NoBlue, t)
          /\ stack' = [stack EXCEPT ![t] = <<Frame("create", b, "body", FALSE)>>]

\* update_blueprint: lookup, then wait for the lock.
UserUpdate(t) ==
    /\ "update" \in UserOps
    /\ stack[t] = <<>>
    /\ \E b \in blueprint_dict :
          stack' = [stack EXCEPT ![t] = <<Frame("update", b, "acquire", FALSE)>>]
    /\ UNCHANGED <<registry, lock, used, deleted>>

\* get_from_blueprint refuses a locked blueprint, then waits for the lock.
UserGet(t) ==
    /\ "get" \in UserOps
    /\ stack[t] = <<>>
    /\ \E b \in blueprint_dict :
          /\ lock[b] = NoThread
          /\ stack' = [stack EXCEPT ![t] = <<Frame("get", b, "acquire", FALSE)>>]
    /\ UNCHANGED <<registry, lock, used, deleted>>

UserDelete(t) ==
    /\ stack[t] = <<>>
    /\ \E b \in blueprint_dict, force \in BOOLEAN :
          /\ (IF force THEN "force" ELSE "delete") \in UserOps
          /\ stack' = [stack EXCEPT ![t] = <<Frame("delete", b, "acquire", force)>>]
    /\ UNCHANGED <<registry, lock, used, deleted>>

UserProtect(t) ==
    /\ "protect" \in UserOps
    /\ stack[t] = <<>>
    /\ \E b \in blueprint_dict, protect \in BOOLEAN :
          stack' = [stack EXCEPT ![t] = <<Frame("protect", b, "apply", protect)>>]
    /\ UNCHANGED <<registry, lock, used, deleted>>

\* delete_all_blueprints copies the keys of the dictionary.
UserDeleteAll(t) ==
    /\ "deleteAll" \in UserOps
    /\ stack[t] = <<>>
    /\ stack' = [stack EXCEPT ![t] =
          <<[Frame("deleteAll", NoBlue, "loop", FALSE) EXCEPT !.todo = blueprint_dict]>>]
    /\ UNCHANGED <<registry, lock, used, deleted>>
-----------------------------------------------------------------------------
(* A thread gets the lock of the blueprint its running frame works on and  *)
(* runs up to the code of the blueprint.  The blueprint may have been      *)
(* removed from the dictionary while the thread waited: the methods that   *)
(* set a status then fail on the missing instance.                         *)
CanAcquire(t, op) ==
    /\ Running(t, op, "acquire")
    /\ lock[Top(t).blue] = NoThread

EnterUpdate(t) ==
    /\ CanAcquire(t, "update")
    /\ LET b == Top(t).blue
       IN  IF b \in blueprint_dict
           THEN /\ lock' = [lock EXCEPT ![b] = t]
                /\ SetStatus(b, RunningDay2)
                /\ Goto(t, [Top(t) EXCEPT !.pc = "body"])
           ELSE Return(t, "error") /\ UNCHANGED <<registry, lock>>
    /\ UNCHANGED <<used, deleted>>

\* call_function and get_from_blueprint set no status before they run.
EnterCode(t) ==
    /\ \E op \in {"call", "get"} : CanAcquire(t, op)
    /\ lock' = [lock EXCEPT ![Top(t).blue] = t]
    /\ Goto(t, [Top(t) EXCEPT !.pc = "body"])
    /\ UNCHANGED <<registry, used, deleted>>

EnterDelete(t) ==
    /\ CanAcquire(t, "delete")
    /\ lock' = [lock EXCEPT ![Top(t).blue] = t]
    /\ LET b == Top(t).blue
       IN  \/ /\ blue[b].protected
              /\ Raise(t, "protected")
              /\ UNCHANGED registry
           \/ /\ ~blue[b].protected
              /\ b \notin blueprint_dict
              /\ Raise(t, "error")
              /\ UNCHANGED registry
           \/ /\ ~blue[b].protected
              /\ b \in blueprint_dict
              /\ Goto(t, [Top(t) EXCEPT !.pc = "children"])
              /\ SetStatus(b, Destroying)
    /\ UNCHANGED <<used, deleted>>
-----------------------------------------------------------------------------
(* The code of a blueprint: its create method, a day-2 method, a function  *)
(* called by its parent, or a read.  Only create and day-2 methods deploy  *)
(* and remove children.                                                    *)
CodeMay(t, what, ops) ==
    /\ what \in CodeOps
    /\ \E op \in ops : Running(t, op, "body")

\* BlueprintProvider.create_blueprint
CodeCreateChild(t) ==
    /\ CodeMay(t, "createChild", {"create", "update"})
    /\ \E c \in Blueprint :
          /\ StartCreate(c, Top(t).blue, t)
          /\ Push(t, [Top(t) EXCEPT !.pc = "creating", !.child = c],
                  Frame("create", c, "body", FALSE))

\* BlueprintProvider.call_blueprint_function
CodeCallChild(t) ==
    /\ CodeMay(t, "callChild", {"create", "update", "call"})
    /\ \E c \in blue[Top(t).blue].children : Nest(t, Top(t), "calling", c, "call")
    /\ UNCHANGED <<registry, lock, used, deleted>>

\* BlueprintProvider.delete_blueprint
CodeDeleteChild(t) ==
    /\ CodeMay(t, "deleteChild", {"create", "update"})
    /\ \E c \in blue[Top(t).blue].children : Nest(t, Top(t), "deleting", c, "delete")
    /\ UNCHANGED <<registry, lock, used, deleted>>

\* A provider call of the code persists the blueprint (persistence_function).
CodeSave(t) ==
    /\ CodeMay(t, "save", {"create", "update", "call"})
    /\ Save(Top(t).blue, blue[Top(t).blue])
    /\ UNCHANGED <<lock, stack, used, deleted>>

\* Mutant: the provider forgets to record the child.
RecordChildMutant(b, c) == Save(b, [blue[b] EXCEPT !.children = @ \cup {c}])

\* BlueprintProvider records the child it created or deleted and saves; then the
\* code registers or deregisters the child in the blueprint, in memory.
RecordChild(b, c) ==
    LET r == [blue[b] EXCEPT !.deployed = @ \cup {c}]
    IN  SaveThen(b, r, [r EXCEPT !.children = @ \cup {c}])
ForgetChild(b, c) ==
    LET r == [blue[b] EXCEPT !.deployed = @ \ {c}]
    IN  SaveThen(b, r, [r EXCEPT !.children = @ \ {c}])

\* The nested call of the code returned or raised.
CodeResumes(t) ==
    /\ \E op \in Codes, pc \in {"creating", "calling", "deleting"} : Running(t, op, pc)
    /\ LET f == Top(t)
       IN  \/ f.ret # "ok" /\ Raise(t, f.ret) /\ UNCHANGED registry
           \/ /\ f.ret = "ok"
              /\ Resume(t, "body")
              /\ \/ f.pc = "creating" /\ RecordChild(f.blue, f.child)
                 \/ f.pc = "deleting" /\ ForgetChild(f.blue, f.child)
                 \/ f.pc = "calling" /\ UNCHANGED registry
    /\ UNCHANGED <<lock, used, deleted>>

CodeFails(t) ==
    /\ CodeMay(t, "fail", Codes)
    /\ Raise(t, "error")
    /\ UNCHANGED <<registry, lock, used, deleted>>

\* Mutant: the final status is not saved.
CodeEndsMutant(t) ==
    /\ \E op \in Codes : Running(t, op, "body")
    /\ LET b == Top(t).blue
       IN  /\ blue' = [blue EXCEPT ![b].status = Idle]
           /\ Release(b)
    /\ Return(t, "ok")
    /\ UNCHANGED <<blueprint_dict, docs, saved, used, deleted>>

\* The code ends: the method sets the status, releases the lock and returns.
CodeEnds(t) ==
    /\ \E op \in Codes : Running(t, op, "body")
    /\ LET b == Top(t).blue
       IN  /\ IF Top(t).op \in {"create", "update"} THEN SetStatus(b, Idle)
              ELSE UNCHANGED registry
           /\ Release(b)
    /\ Return(t, "ok")
    /\ UNCHANGED <<used, deleted>>

\* Mutants: the lock is not released on the way out; only a failed update sets the
\* error status.
LeakingCodeRaises(t) ==
    /\ \E op \in Codes : Running(t, op, "failed")
    /\ Return(t, "error")
    /\ UNCHANGED <<registry, lock, used, deleted>>
SilentCodeRaises(t) ==
    /\ \E op \in Codes : Running(t, op, "failed")
    /\ Release(Top(t).blue)
    /\ IF Top(t).op = "update" THEN SetStatus(Top(t).blue, ErrorState)
       ELSE UNCHANGED registry
    /\ Return(t, Top(t).ret)
    /\ UNCHANGED <<used, deleted>>

\* The exception leaves the method.  Only call_function sets no error status, and
\* the status of a blueprint that is no longer in the dictionary cannot be set.
CodeRaises(t) ==
    /\ \E op \in Codes : Running(t, op, "failed")
    /\ LET b == Top(t).blue
           statusSet == Top(t).op # "call" /\ b \in blueprint_dict
       IN  /\ IF statusSet THEN SetStatus(b, ErrorState) ELSE UNCHANGED registry
           /\ Release(b)
           /\ Return(t, IF statusSet \/ Top(t).op = "call" THEN Top(t).ret ELSE "error")
    /\ UNCHANGED <<used, deleted>>
-----------------------------------------------------------------------------
(* BlueprintNG.destroy and the rest of delete_blueprint.                   *)
DeleteStep(t, pc) == Running(t, "delete", pc)

\* Mutants: only the registered children are destroyed; every blueprint is taken
\* for a child.
RegisteredOnlyDestroyChildren(t) ==
    /\ DeleteStep(t, "children")
    /\ \/ \E c \in blue[Top(t).blue].children :
             Nest(t, Top(t), "childDeleting", c, "delete")
       \/ /\ blue[Top(t).blue].children = {}
          /\ Goto(t, [Top(t) EXCEPT !.pc = "resources"])
    /\ UNCHANGED <<registry, lock, used, deleted>>
AnyDestroyChildren(t) ==
    /\ DeleteStep(t, "children")
    /\ Goto(t, [Top(t) EXCEPT !.pc = "orphans", !.todo = blueprint_dict])
    /\ UNCHANGED <<registry, lock, used, deleted>>

\* The registered children, through the provider; then the list of the others.
DestroyChildren(t) ==
    /\ DeleteStep(t, "children")
    /\ LET b == Top(t).blue
           others == {c \in blueprint_dict : blue[c].parent = b}
       IN  \/ \E c \in blue[b].children : Nest(t, Top(t), "childDeleting", c, "delete")
           \/ /\ blue[b].children = {}
              /\ Goto(t, [Top(t) EXCEPT !.pc = "orphans", !.todo = others])
    /\ UNCHANGED <<registry, lock, used, deleted>>

ChildDestroyed(t) ==
    /\ DeleteStep(t, "childDeleting")
    /\ \/ /\ Top(t).ret = "ok"
          /\ ForgetChild(Top(t).blue, Top(t).child)
          /\ Resume(t, "children")
       \/ /\ Top(t).ret # "ok"
          /\ Raise(t, Top(t).ret)
          /\ UNCHANGED registry
    /\ UNCHANGED <<lock, used, deleted>>

\* Children whose registration was lost, found by their parent id.
DestroyOrphans(t) ==
    /\ DeleteStep(t, "orphans")
    /\ \/ \E c \in Top(t).todo :
             Nest(t, [Top(t) EXCEPT !.todo = @ \ {c}], "orphanDeleting", c, "delete")
       \/ Top(t).todo = {} /\ Goto(t, [Top(t) EXCEPT !.pc = "resources"])
    /\ UNCHANGED <<registry, lock, used, deleted>>

OrphanDestroyed(t) ==
    /\ DeleteStep(t, "orphanDeleting")
    /\ IF Top(t).ret = "ok" THEN Resume(t, "orphans") ELSE Raise(t, Top(t).ret)
    /\ UNCHANGED <<registry, lock, used, deleted>>

\* The virtual machines and the charts; the VIM may refuse.  Then the final
\* clean-up of the providers, which ends with the blueprints still recorded.
DestroyResources(t) ==
    /\ DeleteStep(t, "resources")
    /\ \/ Goto(t, [Top(t) EXCEPT !.pc = "cleanup", !.todo = blue[Top(t).blue].deployed])
       \/ "fail" \in CodeOps /\ \E err \in {"error", "unauthorized"} : Raise(t, err)
    /\ UNCHANGED <<registry, lock, used, deleted>>

\* BlueprintProvider.final_cleanup ignores what the deletions raise.
FinalCleanup(t) ==
    /\ DeleteStep(t, "cleanup")
    /\ LET b == Top(t).blue
       IN  \/ /\ \E c \in Top(t).todo :
                    Nest(t, [Top(t) EXCEPT !.todo = @ \ {c}], "leftoverDeleting", c, "delete")
              /\ UNCHANGED registry
           \/ /\ Top(t).todo = {}
              /\ Goto(t, [Top(t) EXCEPT !.pc = "pop"])
              /\ Save(b, [blue[b] EXCEPT !.deployed = {}])
    /\ UNCHANGED <<lock, used, deleted>>

LeftoverDestroyed(t) ==
    /\ DeleteStep(t, "leftoverDeleting")
    /\ Resume(t, "cleanup")
    /\ UNCHANGED <<registry, lock, used, deleted>>

\* blueprint_dict.pop
PopBlueprint(t) ==
    /\ DeleteStep(t, "pop")
    /\ LET b == Top(t).blue
       IN  /\ blueprint_dict' = blueprint_dict \ {b}
           /\ Goto(t, [Top(t) EXCEPT !.pc = "erase"])
    /\ UNCHANGED <<blue, docs, saved, lock, used, deleted>>

\* The document is deleted, the lock released.
EraseBlueprint(t) ==
    /\ DeleteStep(t, "erase")
    /\ LET b == Top(t).blue
       IN  /\ docs' = docs \ {b}
           /\ saved' = [saved EXCEPT ![b] = NewBlue(NoBlue)]
           /\ deleted' = deleted \cup {b}
           /\ Release(b)
    /\ Return(t, "ok")
    /\ UNCHANGED <<blueprint_dict, blue, used>>

\* The except branch: a forced deletion removes the blueprint all the same, the
\* others set the error status, which fails when the blueprint is gone.
DeleteRaises(t) ==
    /\ DeleteStep(t, "failed")
    /\ LET b == Top(t).blue
           present == b \in blueprint_dict
           forced == Top(t).flag
       IN  \/ /\ present /\ forced
              /\ Goto(t, [Top(t) EXCEPT !.pc = "pop", !.ret = "none"])
              /\ UNCHANGED <<registry, lock>>
           \/ /\ present /\ ~forced
              /\ SetStatus(b, ErrorState)
              /\ Release(b)
              /\ Return(t, Top(t).ret)
           \/ /\ ~present
              /\ Release(b)
              /\ Return(t, "error")
              /\ UNCHANGED registry
    /\ UNCHANGED <<used, deleted>>
-----------------------------------------------------------------------------
\* protect_blueprint takes no lock.
ApplyProtect(t) ==
    /\ Running(t, "protect", "apply")
    /\ LET b == Top(t).blue
       IN  Save(b, [blue[b] EXCEPT !.protected = Top(t).flag])
    /\ Return(t, "ok")
    /\ UNCHANGED <<lock, used, deleted>>

\* delete_all_blueprints goes through the ids it copied, in the order the
\* blueprints were created: a parent before its children.
DeleteNext(t) ==
    /\ Running(t, "deleteAll", "loop")
    /\ \/ \E b \in Top(t).todo :
             /\ blue[b].parent \notin Top(t).todo
             /\ Nest(t, [Top(t) EXCEPT !.todo = @ \ {b}], "next", b, "delete")
       \/ Top(t).todo = {} /\ Return(t, "ok")
    /\ UNCHANGED <<registry, lock, used, deleted>>

\* It goes on after a protected blueprint and after Unauthorized only.
DeleteAllResumes(t) ==
    /\ Running(t, "deleteAll", "next")
    /\ IF Top(t).ret = "error" THEN Return(t, "error") ELSE Resume(t, "loop")
    /\ UNCHANGED <<registry, lock, used, deleted>>

\* Mutant: a lock survives the restart.
RestartMutant ==
    /\ CanRestart
    /\ blueprint_dict' = docs
    /\ blue' = saved
    /\ stack' = [t \in Thread |-> <<>>]
    /\ UNCHANGED <<docs, saved, lock, used, deleted>>

\* The process stops at any moment and loads the documents when it starts again:
\* the tasks are lost, the locks are new.
Restart ==
    /\ CanRestart
    /\ blueprint_dict' = docs
    /\ blue' = saved
    /\ lock' = [b \in Blueprint |-> NoThread]
    /\ stack' = [t \in Thread |-> <<>>]
    /\ UNCHANGED <<docs, saved, used, deleted>>
-----------------------------------------------------------------------------
UserStep(t) ==
    \/ UserCreate(t) \/ UserUpdate(t) \/ UserGet(t) \/ UserDelete(t)
    \/ UserProtect(t) \/ UserDeleteAll(t)
EnterStep(t) == EnterUpdate(t) \/ EnterCode(t) \/ EnterDelete(t)
CodeStep(t) ==
    \/ CodeCreateChild(t) \/ CodeCallChild(t) \/ CodeDeleteChild(t) \/ CodeSave(t)
    \/ CodeFails(t)
CodeExit(t) == CodeEnds(t) \/ CodeRaises(t)
ReturnStep(t) ==
    \/ CodeResumes(t) \/ ChildDestroyed(t) \/ OrphanDestroyed(t)
    \/ LeftoverDestroyed(t) \/ DeleteAllResumes(t)
DestroyStep(t) ==
    \/ DestroyChildren(t) \/ DestroyOrphans(t) \/ DestroyResources(t)
    \/ FinalCleanup(t) \/ PopBlueprint(t) \/ EraseBlueprint(t) \/ DeleteRaises(t)
    \/ ApplyProtect(t) \/ DeleteNext(t)

ThreadStep(t) ==
    \/ UserStep(t) \/ EnterStep(t) \/ CodeStep(t) \/ CodeExit(t) \/ ReturnStep(t)
    \/ DestroyStep(t)

Next == (\E t \in Thread : ThreadStep(t)) \/ Restart

Spec == Init /\ [][Next]_vars

\* Threads run, the code of each blueprint operation ends whatever it calls, and a
\* thread that finds a lock free again and again gets it in the end.
Fairness ==
    \A t \in Thread :
        /\ WF_vars(ReturnStep(t) \/ DestroyStep(t))
        /\ \A b \in Blueprint : SF_vars(CodeExit(t) /\ Top(t).blue = b)
        /\ SF_vars(EnterStep(t))

FairSpec == Spec /\ Fairness
-----------------------------------------------------------------------------
TypeOK ==
    /\ blueprint_dict \subseteq Blueprint
    /\ blue \in [Blueprint -> BlueType]
    /\ docs \subseteq Blueprint
    /\ saved \in [Blueprint -> BlueType]
    /\ lock \in [Blueprint -> Thread \cup {NoThread}]
    /\ stack \in [Thread -> Seq(FrameType)]
    /\ used \subseteq Blueprint
    /\ deleted \subseteq Blueprint

\* A frame past the acquisition of the lock of its blueprint.
Holds(f) == f.op \in Codes \cup {"delete"} /\ f.pc # "acquire"

HoldersOwn ==
    \A t \in Thread : \A i \in 1..Len(stack[t]) :
        Holds(stack[t][i]) => lock[stack[t][i].blue] = t
OwnersHold ==
    \A b \in Blueprint : lock[b] # NoThread =>
        \E i \in 1..Len(stack[lock[b]]) :
            Holds(stack[lock[b]][i]) /\ stack[lock[b]][i].blue = b

\* An operation runs on a blueprint only while its thread owns the lock of that
\* blueprint, on every path through nested calls and exceptions; and a lock is
\* owned only while such an operation is in progress, so none is left behind.
LockDiscipline == HoldersOwn /\ OwnersHold

\* Nested operations go from a blueprint to one of its children only.  Hence a
\* thread never asks again for the non-reentrant lock of an operation it is
\* running, and the waits of several threads never form a cycle.
LockOrder ==
    \A t \in Thread : \A i \in 2..Len(stack[t]) :
        LET caller == stack[t][i - 1]
        IN  caller.op = "deleteAll" \/ blue[stack[t][i].blue].parent = caller.blue

\* A child is in the dictionary only as long as its parent: the deletion of a
\* parent leaves no child behind, also when its registration failed.
NoOrphans ==
    \A c \in blueprint_dict :
        blue[c].parent # NoBlue => blue[c].parent \in blueprint_dict

\* When no operation runs on a blueprint its status is idle, with or without
\* error, whatever failed: it never stays "deploying" or "destroying".
Settled ==
    \A b \in blueprint_dict \ deleted :
        lock[b] = NoThread => blue[b].status.op = "idle"

\* When no operation runs on a blueprint, a restart loads it exactly when it is in
\* memory, and as it is in memory.  That one whose deletion was completed may be
\* in memory again, without its document, is left to DeletedStaysDeleted.
MemoryIsDurable ==
    \A b \in Blueprint : lock[b] = NoThread =>
        /\ b \in docs => b \in blueprint_dict
        /\ b \in blueprint_dict \ deleted => b \in docs /\ saved[b] = blue[b]

\* The provider of a blueprint knows every registered child, so that removing a
\* child from its list never fails; and a child has one parent.
ChildrenRecorded ==
    \A b \in Blueprint : \A c \in blue[b].children :
        c \in blue[b].deployed /\ blue[c].parent = b

\* delete_blueprint removes the blueprint: what was deleted does not come back.
DeletedStaysDeleted == blueprint_dict \cap deleted = {}

Forest == INSTANCE BlueprintForest
            WITH live <- blueprint_dict, planted <- used,
                 parentOf <- [b \in Blueprint |-> blue[b].parent]

\* The dictionary evolves as a forest in which only leaves are removed.
ImplementsForest == Forest!Spec

\* Every operation a worker thread starts returns.
EveryRequestReturns == \A t \in Thread : stack[t] # <<>> ~> stack[t] = <<>>
=============================================================================
