-------------------------------- MODULE Ran --------------------------------
(***************************************************************************)
(* A RAN blueprint, the charts of its functions, which are blueprints that  *)
(* are its children, and the PDU through which a 5G core configures it.     *)
(* What a gNB is told is two things: the AMF and the rest, the PLMN, slices *)
(* and routes of its area.                                                  *)
(***************************************************************************)
EXTENDS Naturals, Sequences, Functions

CONSTANTS Splits,      \* the splits asked for, of those in Functions5G
          Setting,     \* values of the rest: PLMN, slices, TAC, gNB id and routes
          Amf,         \* addresses of an AMF
          MaxOps, MaxFaults   \* bounds: configurations; remote steps that fail

VARIABLES split,
          phase,       \* new, creating, made, ending (its deletion was tried), gone
          config,      \* current_config: its amf_host and rest
          model,       \* cu_model, du_model...: what a function is to be told
          child,       \* the children, what their chart is given and their pods run
          pdu,         \* in the topology: none, free, or locked by a core
          job, ops, faults

ranVars == <<split, phase, config, model, child, pdu, job, ops, faults>>

Functions5G == [gnb |-> <<"gnb">>, cu_du |-> <<"cu", "du">>, cp_up_du |-> <<"cucp", "cuup", "du">>]
Role == {"gnb", "cu", "cucp", "cuup", "du"}
Parts == Functions5G[split]
TalksToAmf == {"gnb", "cu", "cucp"}
Unset == [amf |-> "unset", rest |-> "unset"]
Settings == [amf : Amf, rest : Setting]
NoChild == [state |-> "none", values |-> Unset, runs |-> Unset]
NoJob == [op |-> "none", todo |-> <<>>, ok |-> TRUE, asked |-> Unset, multus |-> TRUE]

Init ==
    /\ split \in Splits /\ phase = "new" /\ config = Unset /\ job = NoJob
    /\ model = [r \in Role |-> Unset] /\ child = [r \in Role |-> NoChild]
    /\ pdu = "none" /\ ops = 0 /\ faults = 0

Resting == job.todo = <<>>
Step == Head(job.todo)
At(name) == ~ Resting /\ Step[1] = name
Fault == faults < MaxFaults /\ faults' = faults + 1
Settled(end) == phase' = IF phase = "creating" THEN "made" ELSE end
Fail == job' = [job EXCEPT !.todo = <<>>, !.ok = FALSE] /\ Settled(phase)
Proceed ==
    /\ job' = [job EXCEPT !.todo = Tail(@)]
    /\ IF Len(job.todo) > 1 THEN UNCHANGED phase
       ELSE Settled(IF job.op = "delete" THEN "gone" ELSE phase)

\* The steps of a call, for each function of the split in order.
EachPart(names) ==
    LET n == Len(names)
    IN  [i \in 1 .. n * Len(Parts) |-> <<names[1 + ((i - 1) % n)], Parts[1 + ((i - 1) \div n)]>>]
Begin(op, todo, asked, multus) ==
    /\ Resting
    /\ job' = [op |-> op, todo |-> todo, ok |-> TRUE, asked |-> asked, multus |-> multus]
    /\ UNCHANGED <<split, model, child, pdu, faults>>

\* multus: every network of the functions is a Multus network of the cluster.
Create(s, multus) ==
    /\ phase = "new" /\ phase' = "creating" /\ config' = s /\ UNCHANGED ops
    /\ Begin("create", EachPart(<<"make">>) \o <<<<"list", "pdu">>>>, s, multus)
\* The AMF of the call goes to the functions and not into current_config.
ConfigureGnb(s) ==
    /\ phase \in {"made", "ending"} /\ UNCHANGED phase /\ ops < MaxOps /\ ops' = ops + 1
    /\ config' = [config EXCEPT !.rest = s.rest]
    /\ Begin("configure", EachPart(<<"update", "restart">>), s, TRUE)
Destroy ==
    /\ phase \in {"made", "ending"} /\ phase' = "ending" /\ UNCHANGED <<config, ops>>
    /\ Begin("delete", <<<<"unlist", "pdu">>>> \o EachPart(<<"remove">>), Unset, TRUE)

\* A 5G core locks the PDU of a gNB of its area, and lets go of it.
LockPdu ==
    /\ \/ pdu = "free" /\ pdu' = "locked"
       \/ pdu = "locked" /\ pdu' = "free"
    /\ UNCHANGED <<split, phase, config, model, child, job, ops, faults>>
-----------------------------------------------------------------------------
(* What a function is told, and its blueprint with the chart: installed, or  *)
(* given new values, which the pods of a whole gNB are restarted to run.     *)
For(r, amf) == [amf |-> IF r \in TalksToAmf THEN amf ELSE "unset", rest |-> config.rest]
Installed(told) == [state |-> "made", values |-> told, runs |-> told]
Started(told) == {[state |-> "half", values |-> told, runs |-> runs] : runs \in {Unset, told}}
Valued(r, told) == [child[r] EXCEPT !.values = told]
Upgraded(r, told) == [Valued(r, told) EXCEPT !.runs = IF r = "gnb" THEN told ELSE @]

(* The blueprint of a function is created and asked for its addresses, which *)
(* a CU-CP behind a load balancer cannot tell: its service has another name. *)
(* One whose creation fails is still a child.                                *)
Mute(r) == r = "cucp" /\ ~ job.multus
MakeFunction ==
    LET r == Step[2]
        told == For(r, config.amf)
    IN  /\ At("make") /\ model' = [model EXCEPT ![r] = told]
        /\ \/ /\ IF Mute(r) THEN Fail ELSE Proceed
              /\ child' = [child EXCEPT ![r] = Installed(told)] /\ UNCHANGED faults
           \/ Fail /\ Fault /\ \E half \in Started(told) : child' = [child EXCEPT ![r] = half]
        /\ UNCHANGED <<split, config, pdu, ops>>

AddPdu ==
    /\ At("list") /\ pdu' = "free" /\ Proceed
    /\ UNCHANGED <<split, config, model, child, ops, faults>>

(* update: the values of the child's chart change, and the chart with them. *)
UpdateFunction ==
    LET r == Step[2]
        told == For(r, job.asked.amf)
    IN  /\ At("update")
        /\ IF model[r] = Unset \/ child[r].state = "none"
           THEN Fail /\ UNCHANGED <<child, faults>>
           ELSE \/ /\ Proceed /\ child' = [child EXCEPT ![r] = Upgraded(r, told)]
                   /\ UNCHANGED faults
                \/ /\ Fail /\ Fault
                   /\ \E half \in {child[r], Valued(r, told), Upgraded(r, told)} :
                         child' = [child EXCEPT ![r] = half]
        /\ model' = IF model[r] = Unset THEN model ELSE [model EXCEPT ![r] = told]
        /\ UNCHANGED <<split, config, pdu, ops>>

RestartFunction ==
    LET r == Step[2]
    IN  /\ At("restart") /\ UNCHANGED <<split, config, model, pdu, ops>>
        /\ \/ /\ Proceed /\ UNCHANGED faults
              /\ child' = [child EXCEPT ![r].runs = child[r].values]
           \/ Fail /\ Fault /\ UNCHANGED child

(* destroy: the PDU leaves the topology unless it is locked, which is only  *)
(* logged; then the children go one by one.                                 *)
DeletePdu ==
    /\ At("unlist") /\ pdu' = (IF pdu = "locked" THEN pdu ELSE "none") /\ Proceed
    /\ UNCHANGED <<split, config, model, child, ops, faults>>

RemoveFunction ==
    /\ At("remove") /\ UNCHANGED <<split, config, model, pdu, ops>>
    /\ \/ /\ Proceed /\ UNCHANGED faults
          /\ child' = [child EXCEPT ![Step[2]] = NoChild]
       \/ child[Step[2]].state # "none" /\ Fail /\ Fault /\ UNCHANGED child

Steps ==
    \/ MakeFunction \/ AddPdu \/ UpdateFunction \/ RestartFunction
    \/ DeletePdu \/ RemoveFunction
Next ==
    \/ \E s \in Settings : ConfigureGnb(s) \/ \E multus \in BOOLEAN : Create(s, multus)
    \/ Destroy \/ LockPdu \/ Steps
Spec == Init /\ [][Next]_ranVars
-----------------------------------------------------------------------------
\* After a call that succeeds the pods of every function run what was asked
\* for, whatever an earlier call that failed had left in some of them.
ConfiguredTogether == Resting /\ job.ok /\ job.op \in {"create", "configure"} =>
    \A r \in Range(Parts) : child[r].state # "none" /\ child[r].runs = For(r, job.asked.amf)

\* While a gNB is offered to the cores all its functions are there; the PDU
\* outlives them only if a core had it locked when the deletion began.
OfferedIsMade == pdu # "none" /\ phase = "made" =>
    \A r \in Range(Parts) : child[r].state = "made"

\* A RAN that is deleted has left no function behind.
GoneIsClean == phase = "gone" => \A r \in Role : child[r].state = "none"

TypeOK ==
    /\ split \in Splits /\ phase \in {"new", "creating", "made", "ending", "gone"}
    /\ config \in Settings \cup {Unset} /\ pdu \in {"none", "free", "locked"}
    /\ \A r \in Role : child[r].state \in {"none", "half", "made"}
    /\ ops \in 0 .. MaxOps /\ faults \in 0 .. MaxFaults
=============================================================================
