------------------------------- MODULE SdCore -------------------------------
(***************************************************************************)
(* The SD-Core: the slices, device groups and subscribers its release is    *)
(* provisioned with, which every call builds anew from the configuration.   *)
(* A slice needs the UPF that serves it to be found among the areas'.        *)
(***************************************************************************)
EXTENDS CoreCalls

VARIABLES values,   \* the configuration in sdcore_config_values
          chart     \* the values the release runs with

sdVars == <<callVars, values, chart>>

Placeholder == <<CoreArea, 2>>
Empty == [slices |-> {}, tac |-> [s \in Slice |-> {}], ues |-> {},
          group |-> [s \in Slice |-> {}], upf |-> [s \in Slice |-> Placeholder]]

(* from_generic_5g_model: a slice has one data network, which exists, and   *)
(* the gNB of its area if it is in only one; a subscriber joins the groups  *)
(* of its slices, which all have to exist.                                  *)
AreasOf(s) == {a \in config.areas : s \in config.slices[a]}
Modelled ==
    /\ \A s \in config.profiles : Cardinality(DnnsOf[s]) = 1 /\ DnnsOf[s] \subseteq config.dnns
    /\ \A u \in config.ues : SlicesOf[u] \subseteq config.profiles
FromModel ==
    [Empty EXCEPT !.slices = config.profiles, !.ues = config.ues,
        !.tac = [s \in Slice |-> IF s \in config.profiles /\ Cardinality(AreasOf(s)) = 1
                                 THEN AreasOf(s) ELSE {}],
        !.group = [s \in Slice |-> {u \in config.ues : s \in SlicesOf[u] \cap config.profiles}]]

(* get_upfs_for_slice: the first machine of the areas' UPFs that serves the *)
(* slice; an area without a UPF has no list to look through.                *)
Serving(s) == {a \in Area : edge[a].st = "upf" /\ \E x \in edge[a].serves.slices : x[1] = s}
Listed == \A a \in Area : edge[a].st # "noupf"
Address(a, s) == <<a, edge[a].machine[s]>>
Findable == Listed /\ \A x \in Served(config) : Serving(x[2]) # {}
-----------------------------------------------------------------------------
Init == CallsInit /\ values = Empty /\ chart = Empty
Kept == UNCHANGED <<edge, upf, rough, ops>>

UpdateSdcoreValues ==
    /\ At("values") /\ Kept /\ UNCHANGED <<chart, faults>>
    /\ \/ /\ Modelled /\ Findable /\ Proceed
          /\ \E found \in [Slice -> Area] :
               /\ \A s \in Slice : found[s] \in Serving(s) \/ (AreasOf(s) = {} /\ found[s] = CoreArea)
               /\ values' = [FromModel EXCEPT !.upf = [s \in Slice |->
                    IF AreasOf(s) = {} THEN Placeholder ELSE Address(found[s], s)]]
       \/ ~ Modelled /\ Fail /\ UNCHANGED values
       \/ Modelled /\ ~ Findable /\ Fail /\ values' = FromModel

InstallChart ==
    /\ At("install") /\ Kept /\ UNCHANGED values
    /\ \/ chart' = values /\ Proceed /\ UNCHANGED faults
       \/ chart' \in {chart, values} /\ Fail /\ Fault

UpdateCore ==
    /\ At("upgrade") /\ Kept /\ UNCHANGED values
    /\ \/ chart' = values /\ Proceed /\ UNCHANGED faults
       \/ chart' \in {chart, values} /\ Fail /\ Fault

(* The wait for the AMF has no end of its own.                              *)
WaitCoreReady == At("ready") /\ Proceed /\ Kept /\ UNCHANGED <<values, chart, faults>>

UpdateEdgeAreas == Edges /\ UNCHANGED <<values, chart>>
-----------------------------------------------------------------------------
CoreFirst == <<"values", "upgrade", "edges">>                             \* mutant
AllSteps == <<"edges", "values", "upgrade">>
CoreSteps == <<"values", "upgrade">>
Call5G ==
    \/ Create(<<"edges", "values", "install", "ready", "edges">>)
    \/ \E a \in Area, ss \in SUBSET Slice : AddTac(AllSteps, a, ss)
    \/ \E a \in Area : DelTac(AllSteps, a)
    \/ \E s \in Slice, as \in SUBSET Area : AddSlice(AllSteps, s, as)
    \/ \E s \in Slice : DelSlice(AllSteps, s)
    \/ \E d \in Dnn : AddDnn(CoreSteps, d) \/ DelDnn(CoreSteps, d)
    \/ \E u \in Ue : AddUes(CoreSteps, u) \/ DelUes(CoreSteps, u)
Next ==
    \/ Call5G /\ UNCHANGED <<values, chart>>
    \/ UpdateEdgeAreas \/ UpdateSdcoreValues \/ InstallChart \/ UpdateCore \/ WaitCoreReady
Spec == Init /\ [][Next]_sdVars
-----------------------------------------------------------------------------
\* After any call succeeds, however many failed before it, the release has the
\* slices and subscribers of the configuration, and sends each slice that an
\* area has to a machine that serves it.
ReleaseAgrees ==
    phase = "ready" /\ Resting /\ job.ok =>
        /\ chart.slices = config.profiles /\ chart.ues = config.ues
        /\ \A s \in config.profiles :
             /\ chart.group[s] = {u \in config.ues : s \in SlicesOf[u]}
             /\ AreasOf(s) # {} => \E a \in Area : chart.upf[s] = Address(a, s) /\ a \in Serving(s)

\* A UPF serves what the core believes, unless its last update failed; a
\* subscriber of the configuration has only slices that exist.
UpfsAgree ==
    /\ CallsTypeOK
    /\ \A a \in Area \ rough : edge[a].st # "noupf" => upf[a] = edge[a].serves
    /\ phase = "ready" /\ Resting => \A u \in config.ues : SlicesOf[u] \subseteq config.profiles
=============================================================================
