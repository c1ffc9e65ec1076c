----------------------------- MODULE K8sPlugins -----------------------------
(***************************************************************************)
(* The plugins of one Kubernetes cluster (kubernetes_manager.py,           *)
(* utils/k8s/helm_plugin_manager.py): the network plugins, of which one    *)
(* may be installed, and the monitoring release, whose values are the      *)
(* K8sMonitoring object (k8s_monitoring.py) the topology keeps.            *)
(*                                                                         *)
(* The object is shared: adding or removing a destination changes what the *)
(* topology holds in memory before Helm is called, and the topology is     *)
(* saved afterwards, by the call or by anything else that saves it.  Helm  *)
(* installs atomically.  The servers' addresses may be updated.            *)
(***************************************************************************)
EXTENDS Naturals, Sequences, SequencesExt, FiniteSets

CONSTANTS
    Loki, Prometheus,   \* the servers of the topology
    Network, Plugin,    \* plugins, the network plugins among them
    Worker,
    Together,           \* may calls on the cluster overlap?
    MaxObjects,         \* bound: K8sMonitoring objects created
    MaxLength,          \* bound: destinations of one object
    MaxFaults           \* bound: Helm calls that fail, and stops of the process

VARIABLES
    object,     \* the K8sMonitoring objects: a sequence, never shortened
    config,     \* cluster.k8s_monitoring_metrics.config: an index of object, or 0
    saved,      \* the document: the content of that object, or NoConfig
    release,    \* the values of the release in the cluster, or NoConfig
    url,        \* the address of each server: it is updated once at most
    plugins,    \* the plugins of the cluster
    call,       \* what each worker is doing
    faults,
    hidden      \* history: the process stopped between Helm and the topology

vars == <<object, config, saved, release, url, plugins, call, faults, hidden>>

Server == Loki \cup Prometheus
NoConfig == [none |-> TRUE]

\* destinations in order; the names in the lists of the log and the metrics collectors
Config == [dests : Seq([server : Server, url : {1, 2}]), logs : Seq(Server), metrics : Seq(Server),
           logsOn : BOOLEAN, metricsOn : BOOLEAN]

EmptyConfig == [dests |-> <<>>, logs |-> <<>>, metrics |-> <<>>, logsOn |-> FALSE, metricsOn |-> FALSE]

Free == [at |-> "free", obj |-> 0, todo |-> <<>>]
Stages == {"free", "helm", "record", "upgrade", "edit", "shrink", "remove", "drain", "forget", "plugins"}

Saved(o) == IF o = 0 THEN NoConfig ELSE object[o]
Start(w) == call[w].at = "free" /\ (Together \/ \A v \in Worker : call[v].at = "free")
Goto(w, at, o) == call' = [call EXCEPT ![w] = [at |-> at, obj |-> o, todo |-> <<>>]]
End(w) == call' = [call EXCEPT ![w] = Free]

Init ==
    /\ object = <<>>
    /\ config = 0
    /\ saved = NoConfig
    /\ release = NoConfig
    /\ url = [s \in Server |-> 1]
    /\ plugins = {}
    /\ call = [w \in Worker |-> Free]
    /\ faults = 0
    /\ hidden = FALSE

----------------------------------------------------------------------------
\* K8sMonitoring.add_destination and del_destination

NameAlways(c, s) ==   \* a mutant of AddOne: the name is listed although the destination is there
    LET d == [server |-> s, url |-> url[s]]
    IN  [c EXCEPT !.dests = IF d \in ToSet(@) THEN @ ELSE Append(@, d),
                  !.logs = IF s \in Loki THEN Append(@, s) ELSE @, !.logsOn = @ \/ s \in Loki,
                  !.metrics = IF s \in Prometheus THEN Append(@, s) ELSE @,
                  !.metricsOn = @ \/ s \in Prometheus]

AddOne(c, s) ==
    LET d == [server |-> s, url |-> url[s]]
    IN  IF d \in ToSet(c.dests) THEN c
        ELSE [c EXCEPT !.dests = Append(@, d),
                       !.logs = IF s \in Loki THEN Append(@, s) ELSE @, !.logsOn = @ \/ s \in Loki,
                       !.metrics = IF s \in Prometheus THEN Append(@, s) ELSE @,
                       !.metricsOn = @ \/ s \in Prometheus]

\* The call names at most one Loki and one Prometheus; the Loki comes first.
Added(c, S) ==
    LET withLoki == IF S \cap Loki = {} THEN c ELSE AddOne(c, CHOOSE s \in S \cap Loki : TRUE)
    IN  IF S \cap Prometheus = {} THEN withLoki
        ELSE AddOne(withLoki, CHOOSE s \in S \cap Prometheus : TRUE)

\* The loop removes the destinations named s from the front of the list; at the
\* first with another name it asks for a logger the model does not have, and raises.
Others(c, s) == {i \in DOMAIN c.dests : c.dests[i].server # s}
RaisesFor(c, s) == Others(c, s) # {}
DelOne(c, s) ==
    LET front == IF RaisesFor(c, s) THEN (CHOOSE i \in Others(c, s) : \A j \in Others(c, s) : i <= j) - 1
                 ELSE Len(c.dests)
        \* list.remove takes the first of the name, front times
        Drop(q) == SelectSeq(q, LAMBDA x : x # s)
                   \o [i \in 1..(Len(SelectSeq(q, LAMBDA x : x = s)) - front) |-> s]
        logs == IF s \in Loki THEN Drop(c.logs) ELSE c.logs
        metrics == IF s \in Prometheus THEN Drop(c.metrics) ELSE c.metrics
    IN  IF front = 0 THEN c
        ELSE [dests |-> SubSeq(c.dests, front + 1, Len(c.dests)), logs |-> logs, metrics |-> metrics,
              logsOn |-> logs # <<>>, metricsOn |-> metrics # <<>>]

Requests == {S \in SUBSET Server : S # {} /\ Cardinality(S \cap Loki) <= 1
                                          /\ Cardinality(S \cap Prometheus) <= 1}

----------------------------------------------------------------------------
\* install_k8s_monitoring

InstallMonitoring(w, S) ==
    /\ Start(w)
    /\ config = 0
    /\ Len(object) < MaxObjects
    /\ object' = Append(object, Added(EmptyConfig, S))
    /\ Goto(w, "helm", Len(object) + 1)
    /\ UNCHANGED <<config, saved, release, url, plugins, faults, hidden>>

\* install_or_upgrade_release with the values the object has by now
Helm(w, at, next) ==
    /\ call[w].at = at
    /\ release' = object[call[w].obj]
    /\ IF next = "free" THEN End(w) ELSE Goto(w, next, call[w].obj)
    /\ UNCHANGED <<object, config, saved, url, plugins, faults, hidden>>

HelmFails(w) ==
    /\ call[w].at \in {"helm", "upgrade", "shrink", "remove"}
    /\ faults < MaxFaults
    /\ faults' = faults + 1
    /\ End(w)
    /\ UNCHANGED <<object, config, saved, release, url, plugins, hidden>>

\* add_edit_k8s_cluster_monitoring_metrics, which saves the topology
Record(w) ==
    /\ call[w].at \in {"record", "edit"}
    /\ config' = call[w].obj
    /\ saved' = object[call[w].obj]
    /\ End(w)
    /\ UNCHANGED <<object, release, url, plugins, faults, hidden>>

\* add_monitoring_destination
AddDestination(w, S) ==
    /\ Start(w)
    /\ config # 0
    /\ LET c == Added(object[config], S)
       IN  /\ c # object[config]        \* otherwise "Destination already exits"
           /\ Len(c.dests) <= MaxLength
           /\ object' = [object EXCEPT ![config] = c]
    /\ Goto(w, "upgrade", config)
    /\ UNCHANGED <<config, saved, release, url, plugins, faults, hidden>>

\* del_monitoring_destination: the object it gets back is the topology's own,
\* so it finds nothing changed, and does not save.
DelDestination(w, S) ==
    /\ Start(w)
    /\ config # 0
    /\ Len(object[config].dests) > 1
    /\ LET c == object[config]
           loki == S \cap Loki
           prom == S \cap Prometheus
           l == CHOOSE s \in loki : TRUE
           p == CHOOSE s \in prom : TRUE
           raised == loki # {} /\ RaisesFor(c, l)
           first == IF loki = {} THEN c ELSE DelOne(c, l)
           last == IF raised \/ prom = {} THEN first ELSE DelOne(first, p)
       IN  /\ object' = [object EXCEPT ![config] = last]
           /\ IF raised \/ (prom # {} /\ RaisesFor(first, p)) THEN End(w)
                                                             ELSE Goto(w, "shrink", config)
    /\ UNCHANGED <<config, saved, release, url, plugins, faults, hidden>>

\* uninstall_k8s_monitoring: releases, namespace, a wait without a limit, topology
UninstallMonitoring(w) ==
    /\ Start(w)
    /\ config # 0
    /\ Goto(w, "remove", 0)
    /\ UNCHANGED <<object, config, saved, release, url, plugins, faults, hidden>>

RemoveRelease(w) ==
    /\ call[w].at = "remove"
    /\ release' = NoConfig
    /\ Goto(w, "drain", 0)
    /\ UNCHANGED <<object, config, saved, url, plugins, faults, hidden>>

\* The namespace is gone, and with it whatever was installed in it meanwhile.
NamespaceGone(w) ==
    /\ call[w].at = "drain"
    /\ release' = NoConfig
    /\ Goto(w, "forget", 0)
    /\ UNCHANGED <<object, config, saved, url, plugins, faults, hidden>>

Forget(w) ==
    /\ call[w].at = "forget"
    /\ config' = 0
    /\ saved' = NoConfig
    /\ End(w)
    /\ UNCHANGED <<object, release, url, plugins, faults, hidden>>

----------------------------------------------------------------------------
\* install_plugins and uninstall_plugin

Conflict(P) == Network \subseteq plugins \cup P

\* Without a conflict at most one network plugin is new, and it comes first.
InstallPlugins(w, P) ==
    /\ Start(w)
    /\ ~Conflict(P)
    /\ \E q \in SetToAllKPermutations(P \ plugins) :
          /\ ToSet(q) = P \ plugins
          /\ \A i \in DOMAIN q : q[i] \in Network => i = 1
          /\ call' = [call EXCEPT ![w] = [at |-> IF q = <<>> THEN "free" ELSE "plugins", obj |-> 0, todo |-> q]]
    /\ UNCHANGED <<object, config, saved, release, url, plugins, faults, hidden>>

PluginStep(w) ==
    /\ call[w].at = "plugins"
    /\ \/ /\ plugins' = plugins \cup {Head(call[w].todo)}
          /\ IF Len(call[w].todo) = 1 THEN End(w) ELSE call' = [call EXCEPT ![w].todo = Tail(@)]
          /\ UNCHANGED faults
       \/ /\ faults < MaxFaults       \* the chart, or what follows it, fails
          /\ faults' = faults + 1
          /\ plugins' \in {plugins, plugins \cup {Head(call[w].todo)}}
          /\ End(w)
    /\ UNCHANGED <<object, config, saved, release, url, hidden>>

UninstallPlugin(w, p) ==
    /\ Start(w)
    /\ plugins' = plugins \ {p}
    /\ UNCHANGED <<object, config, saved, release, url, call, faults, hidden>>

----------------------------------------------------------------------------
\* update_loki or update_prometheus gives the server another address
UpdateServer(s) ==
    /\ url[s] = 1
    /\ url' = [url EXCEPT ![s] = 2]
    /\ UNCHANGED <<object, config, saved, release, plugins, call, faults, hidden>>

\* Any other operation of the topology saves it.
SaveTopology ==
    /\ saved' = Saved(config)
    /\ UNCHANGED <<object, config, release, url, plugins, call, faults, hidden>>

Stop ==
    /\ faults < MaxFaults
    /\ faults' = faults + 1
    /\ hidden' = (hidden \/ \E w \in Worker : call[w].at \in {"record", "edit"})
    /\ object' = IF saved = NoConfig THEN <<>> ELSE <<saved>>
    /\ config' = IF saved = NoConfig THEN 0 ELSE 1
    /\ call' = [w \in Worker |-> Free]
    /\ UNCHANGED <<saved, release, url, plugins>>

Next ==
    \/ \E w \in Worker :
         \/ \E S \in Requests : InstallMonitoring(w, S) \/ AddDestination(w, S) \/ DelDestination(w, S)
         \/ Helm(w, "helm", "record") \/ Helm(w, "upgrade", "edit") \/ Helm(w, "shrink", "free")
         \/ HelmFails(w) \/ Record(w)
         \/ UninstallMonitoring(w) \/ RemoveRelease(w) \/ NamespaceGone(w) \/ Forget(w)
         \/ \E P \in SUBSET Plugin : InstallPlugins(w, P)
         \/ PluginStep(w)
         \/ \E p \in Plugin : UninstallPlugin(w, p)
    \/ \E s \in Server : UpdateServer(s)
    \/ SaveTopology
    \/ Stop

Spec == Init /\ [][Next]_vars

----------------------------------------------------------------------------
TypeOK ==
    /\ object \in Seq(Config)
    /\ config \in 0..Len(object)
    /\ saved = NoConfig \/ saved \in Config
    /\ release = NoConfig \/ release \in Config
    /\ url \in [Server -> {1, 2}]
    /\ plugins \subseteq Plugin
    /\ \A w \in Worker : /\ call[w].at \in Stages
                         /\ call[w].obj \in 0..Len(object)
                         /\ call[w].todo \in Seq(Plugin)
    /\ faults \in 0..MaxFaults
    /\ hidden \in BOOLEAN

\* The collectors send to the destinations: every name is in the list of its
\* collector as often as in the list of destinations, and a collector without
\* destinations is off, although removals end with an exception half-way and
\* the address of a server may have changed (k8s_monitoring.py:194-253).
CollectorsFollow ==
    \A i \in DOMAIN object :
        LET c == object[i]
            Names(S) == {j \in DOMAIN c.dests : c.dests[j].server \in S}
        IN  /\ \A s \in Loki : Cardinality(Names({s})) = Len(SelectSeq(c.logs, LAMBDA x : x = s))
            /\ \A s \in Prometheus : Cardinality(Names({s})) = Len(SelectSeq(c.metrics, LAMBDA x : x = s))
            /\ c.logsOn <=> Names(Loki) # {}
            /\ c.metricsOn <=> Names(Prometheus) # {}

\* No two network plugins are on the cluster, when its plugins are installed by
\* one call at a time, whatever fails (helm_plugin_manager.py:140).
OneNetworkPlugin == Cardinality(Network \cap plugins) <= 1

\* When no call is running, a monitoring release in the cluster is one the
\* topology knows, so that it can be uninstalled; only a stop between Helm and
\* the topology hides one.
ReleaseIsKnown ==
    ~hidden /\ release # NoConfig /\ (\A w \in Worker : call[w].at = "free") => config # 0
=============================================================================
