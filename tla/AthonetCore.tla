----------------------------- MODULE AthonetCore -----------------------------
(***************************************************************************)
(* The Athonet core, which is a PDU: a machine the blueprint locks, empties  *)
(* and configures over its interface, and gives back as it was.  Whether a  *)
(* request was refused is not looked at, but for the deletion of a           *)
(* subscriber, which is asked again until it is not.  The PDU is that of the *)
(* first area, which no other area can take the place of.  A subscriber     *)
(* stands for its subscription; the profile that names its slices is not    *)
(* kept track of once the subscription is gone.                             *)
(***************************************************************************)
EXTENDS CoreCalls

CONSTANTS Mappings   \* the dnnvrf mapping a PDU may have: sets of data networks

VARIABLES supported,   \* that of the PDU: the data networks it routes
          lock,   \* whose the PDU is: free, other or core
          pdu,    \* what its AMF, SMF and UDM are configured with
          base,   \* backup_config
          on,     \* the subscribers it has
          lost    \* history: functions that refused their last configuration, and
                  \* subscribers whose own call failed, or was refused, on the way
athonetVars == <<callVars, supported, lock, pdu, base, on, lost>>

NetworkFunctions == {"amf", "smf", "udm"}
Own == [f \in NetworkFunctions |-> {"own"}]
NoBackup == [f \in NetworkFunctions |-> {}]

Init ==
    /\ CallsInit /\ lock \in {"free", "other"} /\ pdu = Own /\ base = NoBackup
    /\ on \in SUBSET Ue /\ lost = {} /\ supported \in Mappings

(* The configurator is given for a PDU that the blueprint has locked.       *)
Ours == CoreArea \in config.areas /\ lock = "core"
Kept == UNCHANGED <<edge, upf, rough, ops, supported>>
Stop ==
    IF phase # "destroying" THEN Fail
    ELSE /\ phase' = "failed" /\ UNCHANGED <<config, backup>>
         /\ job' = [job EXCEPT !.todo = <<>>, !.ok = FALSE]

(* configure of the three models: the AMF has the slices of the areas, the  *)
(* SMF those whose first data network the PDU routes.                       *)
FirstDnn(s) == CHOOSE d \in DnnsOf[s] : TRUE
AmfConfig == UNION {config.slices[a] : a \in config.areas}
SmfConfig == {s \in config.profiles : FirstDnn(s) \in config.dnns \cap supported}
UdmConfig == {"plmn"}
Configured == [amf |-> AmfConfig, smf |-> SmfConfig, udm |-> UdmConfig]

(* One request for each function: refused, it is not known; without an       *)
(* answer, it ends the call, which had deleted the subscriber of del_ues.    *)
Put(new) ==
    \/ pdu' = new /\ lost' = lost \ NetworkFunctions /\ Proceed /\ UNCHANGED faults
    \/ \E f \in NetworkFunctions :
         pdu' = [new EXCEPT ![f] = pdu[f]] /\ lost' = lost \cup {f} /\ Fault /\ Proceed
    \/ \E put \in {{}, {"amf"}, {"amf", "smf"}, NetworkFunctions} :
         /\ pdu' = [f \in NetworkFunctions |-> IF f \in put THEN new[f] ELSE pdu[f]]
         /\ lost' = lost \cup (IF job.op = "del_ues" THEN job.of ELSE {})
         /\ Fault /\ Stop
-----------------------------------------------------------------------------
LockPdu ==
    /\ At("lock") /\ Kept /\ UNCHANGED <<pdu, base, on, lost>>
    /\ IF lock = "other" THEN Fail /\ UNCHANGED <<lock, faults>>
       ELSE /\ lock' = "core"
            /\ \/ Cardinality(config.dnns) <= Cardinality(supported) /\ Proceed /\ UNCHANGED faults
               \/ Cardinality(config.dnns) > Cardinality(supported) /\ Fail /\ UNCHANGED faults
               \/ Fault /\ Fail

DeleteAllSupis ==
    /\ At("clear") /\ Kept /\ UNCHANGED <<lock, pdu, base, lost>>
    /\ \/ on' = {} /\ Proceed /\ UNCHANGED faults
       \/ on' \in SUBSET on /\ Fault /\ Stop

Backup ==
    /\ At("backup") /\ Kept /\ UNCHANGED <<lock, pdu, on, lost>>
    /\ \/ base' = pdu /\ Proceed /\ UNCHANGED faults
       \/ Fault /\ Fail /\ UNCHANGED base

Configure ==
    /\ At("configure") /\ Kept /\ UNCHANGED <<lock, base, on>>
    /\ IF Ours THEN Put(Configured) ELSE Fail /\ UNCHANGED <<pdu, lost, faults>>

(* The slices and data networks of a subscriber all have to be found.       *)
Informed(u) == SlicesOf[u] \subseteq config.profiles /\ UNION {DnnsOf[s] : s \in SlicesOf[u]} \subseteq config.dnns
Reach ==
    /\ At("reach") /\ Kept /\ UNCHANGED <<lock, pdu, base, on, lost>>
    /\ \/ (job.op = "add_ues" => \A u \in job.of : Informed(u)) /\ Proceed /\ UNCHANGED faults
       \/ job.op = "add_ues" /\ (\E u \in job.of : ~ Informed(u)) /\ Fail /\ UNCHANGED faults
       \/ Fault /\ Fail

AddUser(u) ==
    /\ At("subscribers") /\ u \in job.of /\ Kept /\ UNCHANGED <<lock, pdu, base>>
    /\ \/ /\ Informed(u) /\ on' = on \cup {u} /\ lost' = lost \ {u}
          /\ job' = [job EXCEPT !.of = @ \ {u}] /\ UNCHANGED <<phase, config, backup, faults>>
       \/ /\ Informed(u) /\ Fault /\ lost' = lost \cup {u} /\ UNCHANGED <<on, phase, config, backup>>
          /\ job' = [job EXCEPT !.of = @ \ {u}]
       \/ /\ Informed(u) /\ Fault /\ Fail
          /\ on' \in {on, on \cup {u}} /\ lost' = lost \cup {u}
       \/ ~ Informed(u) /\ Fail /\ UNCHANGED <<on, lost, faults>>

UsersAdded ==
    At("subscribers") /\ job.of = {} /\ Proceed /\ Kept /\ UNCHANGED <<lock, pdu, base, on, lost, faults>>

(* A subscriber the PDU does not have is asked for without end.             *)
DelUser(u) ==
    /\ At("deluser") /\ u \in job.of \cap on /\ Kept /\ UNCHANGED <<lock, pdu, base>>
    /\ \/ on' = on \ {u} /\ lost' = lost \ {u} /\ Proceed /\ UNCHANGED faults
       \/ on' \in {on, on \ {u}} /\ lost' = lost \cup {u} /\ Fault /\ Fail

UpdateEdgeAreas == Edges /\ UNCHANGED <<supported, lock, pdu, base, on, lost>>
-----------------------------------------------------------------------------
Destroy ==
    /\ phase \in {"ready", "failed"} /\ Resting /\ phase' = "destroying"
    /\ job' = [op |-> "destroy", todo |-> <<"restore", "clear", "release">>, of |-> {}, ok |-> TRUE]
    /\ Kept /\ UNCHANGED <<config, backup, faults, lock, pdu, base, on, lost>>

(* A blueprint that has no backup cannot be destroyed.                      *)
RestoreBaseConfig ==
    /\ At("restore") /\ Kept /\ UNCHANGED <<lock, base, on>>
    /\ IF Ours /\ base # NoBackup THEN Put(base) ELSE Stop /\ UNCHANGED <<pdu, lost, faults>>

Release ==
    /\ At("release") /\ UNCHANGED <<config, backup, edge, rough, ops, supported, pdu, base, on, lost>>
    /\ \/ /\ upf' = [a \in Area |-> Nothing5G] /\ lock' = "free" /\ phase' = "gone"
          /\ job' = [job EXCEPT !.todo = <<>>] /\ UNCHANGED faults
       \/ /\ \E gone \in SUBSET Area :
               upf' = [a \in Area |-> IF a \in gone THEN Nothing5G ELSE upf[a]]
          /\ phase' = "failed" /\ job' = [job EXCEPT !.todo = <<>>, !.ok = FALSE]
          /\ Fault /\ UNCHANGED lock
-----------------------------------------------------------------------------
AllSteps == <<"edges", "configure">>
SliceSteps == AllSteps \o <<"configure">>
DnnSteps == <<"configure", "configure", "edges">>
Call5G ==
    \/ Create(<<"edges", "lock", "clear", "backup", "configure", "subscribers", "edges">>)
    \/ \E a \in Area, ss \in SUBSET Slice : AddTac(AllSteps, a, ss)
    \/ \E a \in Area : DelTac(AllSteps, a)
    \/ \E s \in Slice, as \in SUBSET Area : AddSlice(SliceSteps, s, as)
    \/ \E s \in Slice : DelSlice(SliceSteps, s)
    \/ \E d \in Dnn : AddDnn(DnnSteps, d) \/ DelDnn(DnnSteps, d)
    \/ \E u \in Ue : \/ AddUes(<<"reach", "configure", "subscribers">>, u)
                     \/ DelUes(<<"reach", "deluser", "configure">>, u)
Next ==
    \/ Call5G /\ UNCHANGED <<supported, lock, pdu, base, on, lost>>
    \/ UpdateEdgeAreas \/ LockPdu \/ DeleteAllSupis \/ Backup \/ Configure \/ Reach
    \/ \E u \in Ue : AddUser(u) \/ DelUser(u)
    \/ UsersAdded \/ Destroy \/ RestoreBaseConfig \/ Release
Spec == Init /\ [][Next]_athonetVars
-----------------------------------------------------------------------------
\* After a call succeeds, however many failed before it, each function that did
\* not refuse it has the configuration of the core; the SMF serves the slices
\* the AMF offers, if the PDU routes their network and the core has it.
FunctionsAgree ==
    phase = "ready" /\ Resting /\ job.ok =>
        /\ \A f \in NetworkFunctions \ lost : pdu[f] = Configured[f]
        /\ {"amf", "smf"} \cap lost = {} =>
             \A s \in pdu.amf : FirstDnn(s) \in config.dnns \cap supported => s \in pdu.smf

\* The PDU has the subscribers of the configuration whatever calls about others
\* failed, and so the deletion of one finds it and ends.
SubscribersAgree ==
    /\ phase = "ready" /\ Resting => on \ lost = config.ues \ lost
    /\ At("deluser") => job.of \subseteq on \cup lost

\* A PDU that the blueprint does not hold is as it was, one that is given back
\* has no subscribers, and a blueprint that cannot be destroyed because it has
\* no backup has not configured its PDU.
GivenBack ==
    /\ lock # "core" \/ base = NoBackup => \A f \in NetworkFunctions \ lost : pdu[f] = Own[f]
    /\ phase = "gone" => on = {} /\ lock = "free" /\ upf = [a \in Area |-> Nothing5G]
=============================================================================
