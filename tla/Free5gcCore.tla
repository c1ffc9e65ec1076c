----------------------------- MODULE Free5gcCore -----------------------------
(***************************************************************************)
(* The Free5GC core: the helm values its AMF, SMF and NSSF run with, which  *)
(* are cleared and filled again from the configuration and the UPFs, and    *)
(* the subscribers it enters in the core's web interface.                   *)
(***************************************************************************)
EXTENDS CoreCalls

VARIABLES values,   \* free5gc_config_values
          chart,    \* the values the release runs with
          smfIp,    \* whether the address of the SMF is known
          web,      \* the slices the web interface has for a subscriber
          lost      \* history: subscribers of whom a request was lost

freeVars == <<callVars, values, chart, smfIp, web, lost>>

(* What is filled in of the AMF, the SMF and the NSSF.                      *)
NoAmf == [tais |-> {}, plmn |-> {}, dnns |-> {}]
NoSmf == [ip |-> FALSE, infos |-> {}, nodes |-> [a \in Area |-> 0], links |-> {}, upfs |-> {}]
NoNssf == [nssai |-> {}, nsi |-> {}, tas |-> {}]
Cleared == [amf |-> NoAmf, smf |-> NoSmf, nssf |-> NoNssf, ok |-> TRUE]
NotIn == {"nobody"}
Subscription == {NotIn} \cup SUBSET Slice
Address(a) == edge[a].machine[FirstSlice] + 1

(* The AMF: areas, slices and data networks, each once.                     *)
ServeArea(v, a) == [v EXCEPT !.amf.tais = @ \cup {a}]
ServeSlice(v, s) == [v EXCEPT !.amf.plmn = @ \cup {s}]
ServeDnn(v, d) == [v EXCEPT !.amf.dnns = @ \cup {d}]

(* The NSSF: a slice that it has already for the network, or for the area,  *)
(* is looked for without end.                                               *)
Support(v, s) == [v EXCEPT !.nssf.nssai = @ \cup {s}, !.ok = @ /\ s \notin v.nssf.nssai]
NameInstance(v, s) == [v EXCEPT !.nssf.nsi = @ \cup {s}]
SupportIn(v, a, s) ==
    [v EXCEPT !.nssf.tas = @ \cup {<<a, s>>}, !.ok = @ /\ <<a, s>> \notin v.nssf.tas]

(* The SMF: the data networks of a slice; the UPF of an area, linked with   *)
(* its gNB, and what that UPF serves.  A node it has keeps its address.     *)
Resolve(v, s, d) == [v EXCEPT !.smf.infos = @ \cup {<<s, d>>}]
Join(v, a) == [v EXCEPT !.smf.links = @ \cup {a}]
AddNode(v, a) ==
    IF v.smf.nodes[a] # 0 THEN v ELSE Join([v EXCEPT !.smf.nodes[a] = Address(a)], a)
Reach(v, a, s, d) == [AddNode(v, a) EXCEPT !.smf.upfs = @ \cup {<<a, s, d>>}]

(* The loops of update_core_values: the first error ends them.              *)
FillDnn(v, a, s, d) ==
    IF ~ v.ok \/ d \notin config.dnns THEN [v EXCEPT !.ok = FALSE]
    ELSE Reach(Resolve(ServeDnn(v, d), s, d), a, s, d)
FillSlice(v, a, s) ==
    LET known == NameInstance(Support(ServeSlice(v, s), s), s)
        sited == IF known.ok THEN SupportIn(known, a, s) ELSE known
    IN  IF ~ v.ok THEN v
        ELSE IF s \notin config.profiles THEN [sited EXCEPT !.ok = FALSE]
        ELSE FoldSet(LAMBDA d, w : FillDnn(w, a, s, d), sited, DnnsOf[s])
FillArea(v, a) ==
    IF ~ v.ok \/ edge[a].st # "upf" THEN [v EXCEPT !.ok = FALSE]
    ELSE FoldSet(LAMBDA s, w : FillSlice(w, a, s), ServeArea(v, a), config.slices[a])
KeepUpfs(v) == [Cleared EXCEPT !.smf = [v.smf EXCEPT !.ip = smfIp]]     \* mutant
ClearValues(v) == [Cleared EXCEPT !.smf.ip = smfIp]
Filled == FoldSet(LAMBDA a, w : FillArea(w, a), ClearValues(values), config.areas)
-----------------------------------------------------------------------------
Init ==
    /\ CallsInit /\ values = Cleared /\ chart = Cleared /\ lost = {}
    /\ smfIp \in BOOLEAN                 \* an address of a multus network, or none yet
    /\ web = [u \in Ue |-> NotIn]

Kept == UNCHANGED <<edge, upf, rough, ops>>

UpdateCoreValues ==
    /\ At("values") /\ Kept /\ values' = Filled /\ UNCHANGED <<chart, smfIp, web, lost, faults>>
    /\ IF Filled.ok THEN Proceed ELSE Fail

(* Once the chart is installed its services give the addresses.             *)
InstallChart ==
    /\ At("install") /\ Kept /\ UNCHANGED <<values, web, lost>>
    /\ \/ chart' = values /\ smfIp' = TRUE /\ Proceed /\ UNCHANGED faults
       \/ chart' \in {chart, values} /\ UNCHANGED smfIp /\ Fail /\ Fault

UpdateCore ==
    /\ At("upgrade") /\ Kept /\ UNCHANGED <<values, smfIp, web, lost>>
    /\ \/ chart' = values /\ Proceed /\ UNCHANGED faults
       \/ chart' \in {chart, values} /\ Fail /\ Fault

RestartSmf ==
    /\ At("restart") /\ Kept /\ UNCHANGED <<values, chart, smfIp, web, lost>>
    /\ \/ Proceed /\ UNCHANGED faults
       \/ Fail /\ Fault

(* What update_subscriber_config keeps of a subscriber's slices.  The status *)
(* of a request is logged and no more; a request without an answer raises.  *)
Subscribed(u) == SlicesOf[u] \cap config.profiles
WebKept == Kept /\ UNCHANGED <<values, chart, smfIp>>
Request(u, new) ==
    /\ web' = [web EXCEPT ![u] = new] /\ UNCHANGED <<phase, config, backup, lost, faults>>
    /\ job' = [job EXCEPT !.of = @ \ {u}]
Lose(u, new) ==
    /\ Fault /\ lost' = lost \cup {u}
    /\ \/ /\ UNCHANGED <<web, phase, config, backup>> /\ job' = [job EXCEPT !.of = @ \ {u}]
       \/ web' \in {web, [web EXCEPT ![u] = new]} /\ Fail

AddUe(u) ==
    /\ At("ues") /\ u \in job.of /\ WebKept
    /\ Request(u, Subscribed(u)) \/ Lose(u, Subscribed(u))

DelUe(u) ==
    /\ At("forget") /\ u \in job.of /\ WebKept
    /\ Request(u, NotIn) \/ Lose(u, NotIn)

WebDone ==
    /\ At("ues") \/ At("forget")
    /\ job.of = {} /\ Proceed /\ WebKept /\ UNCHANGED <<web, lost, faults>>

(* del_slice: the subscribers with the slice are read and put back without  *)
(* it, before anything else; reading one who is not there raises.           *)
Holders == {u \in config.ues : job.of \subseteq SlicesOf[u]}
PutUsers ==
    /\ At("users") /\ WebKept
    /\ \/ /\ \A u \in Holders : web[u] # NotIn
          /\ web' = [u \in Ue |-> IF u \in Holders THEN Subscribed(u) ELSE web[u]]
          /\ Proceed /\ UNCHANGED <<lost, faults>>
       \/ \E u \in Holders, put \in SUBSET Holders :
            /\ u \notin put /\ \A x \in put : web[x] # NotIn
            /\ \/ web[u] = NotIn /\ Fail /\ UNCHANGED <<lost, faults>>
               \/ web[u] # NotIn /\ Fault /\ Fail /\ lost' = lost \cup {u}
               \/ /\ web[u] # NotIn /\ Fault /\ Proceed /\ lost' = lost \cup {u}
                  /\ put = Holders \ {u}
            /\ web' = [x \in Ue |-> IF x \in put THEN Subscribed(x) ELSE web[x]]

UpdateEdgeAreas == Edges /\ UNCHANGED <<values, chart, smfIp, web, lost>>
-----------------------------------------------------------------------------
AllSteps == <<"edges", "values", "upgrade", "edges">>
Call5G ==
    \/ Create(<<"edges", "values", "install", "values", "upgrade", "ues", "edges", "restart">>)
    \/ \E a \in Area, ss \in SUBSET Slice : AddTac(AllSteps, a, ss)
    \/ \E a \in Area : DelTac(AllSteps, a)
    \/ \E s \in Slice, as \in SUBSET Area : AddSlice(AllSteps, s, as)
    \/ \E s \in Slice : DelSlice(<<"users">> \o AllSteps, s)
    \/ \E d \in Dnn : AddDnn(<<>>, d) \/ DelDnn(<<>>, d)
    \/ \E u \in Ue : AddUes(<<"ues">>, u) \/ DelUes(<<"forget">>, u)
Next ==
    \/ Call5G /\ UNCHANGED <<values, chart, smfIp, web, lost>>
    \/ UpdateEdgeAreas \/ UpdateCoreValues \/ InstallChart \/ UpdateCore \/ RestartSmf
    \/ \E u \in Ue : AddUe(u) \/ DelUe(u)
    \/ WebDone \/ PutUsers
Spec == Init /\ [][Next]_freeVars
-----------------------------------------------------------------------------
\* After a call on areas or slices succeeds, however many failed before it, the
\* network functions run with exactly the areas, slices and data networks of
\* the configuration, and with the address of the UPF each area has now.
FunctionsAgree ==
    phase = "ready" /\ Resting /\ job.ok /\ job.op \in {"create", "add_tac", "del_tac", "add_slice", "del_slice"} =>
        LET reached == {x \in Area \X Slice \X Dnn : <<x[1], x[2]>> \in Served(config) /\ x[3] \in DnnsOf[x[2]]}
            served == {x[2] : x \in reached}
            amf == chart.amf
            smf == chart.smf
        IN  /\ amf.tais = config.areas /\ amf.plmn = served /\ amf.dnns = {x[3] : x \in reached}
            /\ chart.nssf = [nssai |-> served, nsi |-> served, tas |-> Served(config)]
            /\ smf.ip /\ smf.upfs = reached /\ smf.infos = {<<x[2], x[3]>> : x \in reached}
            /\ \A a \in Area : smf.nodes[a] = IF a \in smf.links THEN Address(a) ELSE 0
            /\ smf.links = {x[1] : x \in reached}

\* A UPF serves what the core believes, unless its last update failed.
UpfsAgree ==
    /\ CallsTypeOK
    /\ \A a \in Area \ rough : edge[a].st # "noupf" => upf[a] = edge[a].serves

\* Between calls the web interface knows the subscribers of the configuration
\* and no other, with no slice the core does not have, but for those of whom
\* a request was lost.
WebAgrees ==
    /\ web \in [Ue -> Subscription]
    /\ phase = "ready" /\ Resting =>
        \A u \in Ue \ lost : IF u \in config.ues THEN web[u] \subseteq config.profiles ELSE web[u] = NotIn
=============================================================================
