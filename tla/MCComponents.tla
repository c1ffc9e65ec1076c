---------------------------- MODULE MCComponents ----------------------------
(***************************************************************************)
(* The managers and the blueprints that do not work on the same state, for *)
(* TLC: a behaviour is one of one component, and the variables of the      *)
(* others stay as they begin.  The variables and constants of PduLocks are *)
(* its own; the other components are instances.                            *)
(***************************************************************************)
EXTENDS PduLocks, TLC

CONSTANTS Thread, Cluster, NoTopology, Nothing

VARIABLES component,                                          \* the one that runs
    lists, doc, topologyCall, bound, placed, moved,           \* Topology
    run, state, stateDb, targets, local, scraped,             \* Monitoring
    tree, treeDb, grafana, enables, uids, unsynced,
    clusters, deployed, installed, spaces, known, knownDb,    \* HelmCharts
    chart, chartCluster, left, touched, updates,
    user, users, userDb, pairs, userCall, account, mixed,     \* Users
    metrics, config, saved, release, url, plugins, pluginCall, hidden,  \* K8sPlugins
    ns, accounts, roles, bindings, secrets, clusterAdmins,    \* KubeAccess
    requests, accessCall, granted, creations,
    phase, core, backup, job, edge, ran, ueDict, upf,         \* Core5G, and the other 5G
    pushed, owner, gnb, udr, broken, ops,                     \* blueprints in their turn
    st, stDb, made, half, nodes, listed, used, op, calls,     \* K8sCluster
    blue, blueDb, applied, holder, shots, records, recordsDb, \* BlueprintRecords
    pending, work, origin, rough, unwritten, asked,
    faults

Topologies == INSTANCE Topology WITH
    call <- topologyCall, Kind <- {"vims"}, Name <- {"x", "y"}, Area <- {"a1"},
    Blueprint <- {"b"}, Worker <- Thread,
    Race <- {}
Family == INSTANCE Monitoring WITH
    lost <- unsynced, Blueprint <- {"p", "c"}, Parent <- ("p" :> "root") @@ ("c" :> "p"),
    Root <- "root", SyncRace <- FALSE, MaxEnables <- 2, MaxFaults <- 1, MaxStops <- 0
Roots == INSTANCE Monitoring WITH
    lost <- unsynced, Blueprint <- {"p", "q"}, Parent <- ("p" :> "root") @@ ("q" :> "root"),
    Root <- "root", SyncRace <- FALSE, MaxEnables <- 2, MaxFaults <- 0
Servers == INSTANCE MonitoringServers WITH
    at <- stateDb, onboard <- treeDb, machine <- state, listed <- local, folders <- tree,
    source <- grafana, watch <- run, robbed <- unsynced, meddled <- scraped, calls <- enables,
    Blueprint <- {"p", "q"}, MaxCalls <- 3, MaxFaults <- 1
Charts == INSTANCE HelmCharts WITH
    listed <- clusters, pc <- chart, bound <- chartCluster, NoCluster <- "no cluster",
    MaxUpdates <- 2, MaxFaults <- 1
Accounts == INSTANCE Users WITH
    object <- user, db <- userDb, call <- userCall, Name <- {"admin", "user"},
    Admin <- "admin", Password <- {"first", "second"}, Actor <- Thread,
    Together <- FALSE, MaxObjects <- 3, MaxPairs <- 2
Plugins == INSTANCE K8sPlugins WITH
    object <- metrics, call <- pluginCall, Loki <- {"loki"}, Prometheus <- {"prometheus"},
    Network <- {"calico", "flannel"}, Plugin <- {"calico", "flannel"}, Worker <- Thread,
    Together <- FALSE, MaxObjects <- 2, MaxLength <- 2, MaxFaults <- 1
Access == INSTANCE KubeAccess WITH
    call <- accessCall, Namespace <- {"n"}, User <- {"u"}, Worker <- Thread,
    Overlap <- FALSE, MaxCreations <- 2, MaxFaults <- 1
Core == INSTANCE Core5G WITH
    config <- core, Area <- {"a1", "a2"}, Slice <- {"s1", "s2"}, Dnn <- {"d1", "d2"},
    Ue <- {"u"}, CoreArea <- "a1", FirstSlice <- "s1", FirstDnn <- "d1",
    DnnOf <- ("s1" :> "d1") @@ ("s2" :> "d2"), PduArea <- {"a1", "a2"},
    MaxOps <- 3, MaxFaults <- 1
Frees == INSTANCE Free5gcCore WITH
    config <- core, rough <- broken, values <- pushed, chart <- gnb, smfIp <- owner,
    web <- ueDict, lost <- udr, Area <- {"a1", "a2"}, Slice <- {"s1", "s2"},
    Dnn <- {"d1", "d2"}, Ue <- {"u", "v"}, CoreArea <- "a1", FirstSlice <- "s1",
    DnnsOf <- ("s1" :> {"d1"}) @@ ("s2" :> {"d2"}),
    SlicesOf <- ("u" :> {"s1"}) @@ ("v" :> {"s1", "s2"}),
    PerSlice <- FALSE, MaxOps <- 3, MaxFaults <- 1
Sds == INSTANCE SdCore WITH
    config <- core, rough <- broken, values <- pushed, chart <- gnb,
    Area <- {"a1", "a2"}, Slice <- {"s1", "s2"},
    Dnn <- {"d1", "d2"}, Ue <- {"u", "v"}, CoreArea <- "a1", FirstSlice <- "s1",
    DnnsOf <- ("s1" :> {"d1"}) @@ ("s2" :> {"d2"}),
    SlicesOf <- ("u" :> {"s1"}) @@ ("v" :> {"s1", "s2"}),
    PerSlice <- TRUE, MaxOps <- 3, MaxFaults <- 1
Athonets == INSTANCE AthonetCore WITH
    config <- core, rough <- broken, lock <- owner, pdu <- pushed, base <- gnb, on <- ueDict,
    lost <- udr, supported <- ran, Area <- {"a1", "a2"}, Slice <- {"s1", "s2"},
    Dnn <- {"d1", "d2"}, Ue <- {"u", "v"}, CoreArea <- "a1", FirstSlice <- "s1",
    DnnsOf <- ("s1" :> {"d1"}) @@ ("s2" :> {"d2"}), Mappings <- {{}, {"d1"}},
    SlicesOf <- ("u" :> {"s1"}) @@ ("v" :> {"s1", "s2"}),
    PerSlice <- FALSE, MaxOps <- 3, MaxFaults <- 1
AthonetUpfs == INSTANCE AthonetUpf WITH
    config <- core, lock <- owner, links <- edge, base <- gnb, list <- ueDict,
    refused <- broken, updates <- ops, Dnn <- {"d1", "d2"}, Supported <- {"d1"},
    Configs <- {{}, {{"d1"}}, {{"d1"}, {"d2"}}}, MaxUpdates <- 2, MaxFaults <- 1
Upfs == INSTANCE Upf WITH
    kind <- owner, config <- core, machines <- edge, deployed <- ran, list <- ueDict,
    shared <- upf, router <- pushed, listed <- gnb, hop <- udr, updates <- ops,
    Kinds <- {"sdcore", "oai", "free5gc", "sdcore_k8s", "chart"}, Dnn <- {"d1", "d2"},
    Configs <- {{}, {{"d1"}}, {{"d1"}, {"d2"}}, {{"d1", "d2"}}},
    MaxUpdates <- 2, MaxFaults <- 1
Rans == INSTANCE Ran WITH
    split <- owner, config <- core, model <- ueDict, child <- upf, pdu <- gnb,
    Splits <- {"gnb", "cu_du", "cp_up_du"}, Setting <- {"r1", "r2"}, Amf <- {"a1", "a2"},
    MaxOps <- 2, MaxFaults <- 1
Ueransims == INSTANCE Ueransim WITH
    areas <- core, ues <- ueDict, machines <- edge, pdu <- gnb,
    Area <- {"a1", "a2"}, UeId <- {"u1", "u2"}, Sim <- {"m"},
    FirstUes <- {<<>>, <<"u1", "u2">>}, MaxOps <- 2, MaxMachines <- 4, MaxFaults <- 1
Apart == INSTANCE UeransimK8s WITH
    ues <- ueDict, values <- core, chart <- pushed, runs <- upf, fresh <- ran, pdu <- gnb,
    Area <- {"a1", "a2"}, UeId <- {"u"}, Sim <- {"m"}, Setting <- {"x"}, Route <- {"r"},
    ClusterOf <- ("a1" :> "k1") @@ ("a2" :> "k2"), MaxOps <- 2, MaxFaults <- 1
Sharing == INSTANCE UeransimK8s WITH
    ues <- ueDict, values <- core, chart <- pushed, runs <- upf, fresh <- ran, pdu <- gnb,
    Area <- {"a1", "a2"}, UeId <- {"u"}, Sim <- {"m"}, Setting <- {"x"}, Route <- {"r"},
    ClusterOf <- ("a1" :> "k1") @@ ("a2" :> "k1"), MaxOps <- 2, MaxFaults <- 1
Simple == INSTANCE Simple5G WITH
    areas <- core, nets <- edge, left <- broken, child <- upf, children <- ueDict,
    coreIds <- ran, cluster <- pushed, uses <- udr, Area <- {"a1", "a2", "a3"},
    VimOf <- ("a1" :> "v1") @@ ("a2" :> "v1") @@ ("a3" :> "v2"),
    Requests <- {<<"a1">>, <<"a1", "a2">>, <<"a1", "a3">>}, MaxFaults <- 1
Nodes == INSTANCE K8sCluster WITH
    db <- stDb, Number <- {0, 1, 2}, MaxWorkers <- 2, MaxCalls <- 4, MaxFaults <- 1
Records == INSTANCE BlueprintRecords WITH
    owner <- holder, ops <- records, opsDb <- recordsDb, job <- work, broken <- unwritten,
    requests <- asked, Name <- {"s"}, Call <- {"c", "d"}, MaxBlueprints <- 2,
    MaxRequests <- 3, MaxFaults <- 1

ofPdus == <<status, lockedBy, lockedByDb, held, heldDb, pc, pdu, lost>>
ofTopology == <<lists, doc, topologyCall, bound, placed, moved>>
ofMonitoring == <<run, state, stateDb, targets, local, scraped, tree, treeDb, grafana,
                  enables, uids, unsynced>>
ofCharts == <<clusters, deployed, installed, spaces, known, knownDb, chart, chartCluster,
              left, touched, updates>>
ofAccounts == <<user, users, userDb, pairs, userCall, account, mixed>>
ofPlugins == <<metrics, config, saved, release, url, plugins, pluginCall, hidden>>
ofAccess == <<ns, accounts, roles, bindings, secrets, clusterAdmins, requests, accessCall,
              granted, creations>>
ofCore == <<phase, core, backup, job, edge, ran, ueDict, upf, pushed, owner, gnb, udr,
            broken, ops>>
ofNodes == <<st, stDb, made, half, nodes, listed, used, op, calls>>
ofRecords == <<blue, blueDb, applied, holder, shots, records, recordsDb, pending, work,
               origin, rough, unwritten, asked>>
allVars == <<component, ofPdus, ofTopology, ofMonitoring, ofCharts, ofAccounts, ofPlugins,
             ofAccess, ofCore, ofNodes, ofRecords, faults, stops>>

\* The variables of Core5G that another 5G blueprint has no use for.
notOfFree5gc == <<ran>>
notOfSdCore == <<ran, ueDict, owner, udr>>
notOfAthonetUpf == <<backup, ran, upf, pushed, udr>>
notOfUpf == <<backup, broken>>
notOfRan == <<backup, edge, ran, pushed, udr, broken>>
notOfUeransim == <<backup, ran, upf, pushed, owner, udr, broken>>
notOfUeransimK8s == <<backup, edge, owner, udr, broken>>
notOfSimple5G == <<backup, owner, gnb, ops>>
Init5G ==
    CASE component = "free5gc" -> Frees!Init /\ ran = Nothing
      [] component = "sdcore" -> /\ Sds!Init /\ ran = Nothing /\ ueDict = Nothing
                                 /\ owner = Nothing /\ udr = Nothing
      [] component = "athonet" -> Athonets!Init
      [] component = "athonet upf" -> /\ AthonetUpfs!Init /\ backup = Nothing /\ ran = Nothing
                                      /\ upf = Nothing /\ pushed = Nothing /\ udr = Nothing
      [] component = "upfs" -> Upfs!Init /\ backup = Nothing /\ broken = Nothing
      [] component = "rans" -> /\ Rans!Init /\ backup = Nothing /\ edge = Nothing /\ ran = Nothing
                               /\ pushed = Nothing /\ udr = Nothing /\ broken = Nothing
      [] component = "ueransims" -> /\ Ueransims!Init /\ backup = Nothing /\ ran = Nothing
                                    /\ upf = Nothing /\ pushed = Nothing /\ owner = Nothing
                                    /\ udr = Nothing /\ broken = Nothing
      [] component \in {"apart", "sharing"} ->
            /\ Apart!Init /\ backup = Nothing /\ edge = Nothing /\ owner = Nothing
            /\ udr = Nothing /\ broken = Nothing
      [] component = "simple" -> /\ Simple!Init /\ backup = Nothing /\ owner = Nothing
                                 /\ gnb = Nothing /\ ops = Nothing
      [] component = "core" -> Core!Init
      [] OTHER -> Core!Init /\ core.gnbs = {} /\ core.ues = {}

\* What a component may begin with but for an exchange of the PDUs, or of the
\* passwords; the components that do not run begin in one way.
OneBeginning ==
    LET first == CHOOSE p \in Pdu : TRUE
        one == CHOOSE b \in Blueprint : TRUE
    IN  /\ \A b \in Blueprint : (component = "pdus" /\ b # one) \/ pdu[b] = first
        /\ account["admin"] = "first"
ComponentsInit ==
    /\ component \in {"pdus", "topology", "family", "roots", "servers", "charts", "accounts",
                      "plugins", "access", "core", "free5gc", "sdcore", "athonet",
                      "athonet upf", "upfs", "rans", "ueransims", "apart", "sharing", "simple", "nodes", "records"}
    /\ Init /\ Topologies!Init /\ Charts!Init /\ Accounts!Init /\ Plugins!Init
    /\ Access!Init /\ Init5G /\ Nodes!Init /\ Records!Init
    /\ CASE component = "roots" -> Roots!Init
         [] component = "servers" -> Servers!Init /\ uids = Nothing
         [] OTHER -> Family!Init
    /\ OneBeginning

KeepManagers == UNCHANGED <<component, ofPdus, ofTopology, ofMonitoring, ofCharts, ofAccounts>>
KeepClusters == UNCHANGED <<ofPlugins, ofAccess, ofCore, ofNodes, ofRecords>>
ComponentsNext ==
    \/ /\ component = "pdus" /\ Next
       /\ UNCHANGED <<component, ofTopology, ofMonitoring, ofCharts, ofAccounts, faults>>
       /\ KeepClusters
    \/ /\ component = "topology" /\ Topologies!Next
       /\ UNCHANGED <<component, ofPdus, ofMonitoring, ofCharts, ofAccounts, faults>>
       /\ KeepClusters
    \/ /\ \/ component = "family" /\ Family!Next
          \/ component = "roots" /\ Roots!Next
          \/ component = "servers" /\ Servers!Next /\ UNCHANGED <<uids, stops>>
       /\ UNCHANGED <<component, ofPdus, ofTopology, ofCharts, ofAccounts>> /\ KeepClusters
    \/ /\ component = "charts" /\ Charts!Next
       /\ UNCHANGED <<component, ofPdus, ofTopology, ofMonitoring, ofAccounts>> /\ KeepClusters
    \/ /\ component = "accounts" /\ Accounts!Next
       /\ UNCHANGED <<component, ofPdus, ofTopology, ofMonitoring, ofCharts, faults>>
       /\ KeepClusters
    \/ /\ component = "plugins" /\ Plugins!Next
       /\ KeepManagers /\ UNCHANGED <<ofAccess, ofCore, ofNodes, ofRecords, stops>>
    \/ /\ component = "access" /\ Access!Next
       /\ KeepManagers /\ UNCHANGED <<ofPlugins, ofCore, ofNodes, ofRecords, stops>>
    \/ /\ \/ component = "core" /\ Core!Next
          \/ component = "free5gc" /\ Frees!Next /\ UNCHANGED notOfFree5gc
          \/ component = "sdcore" /\ Sds!Next /\ UNCHANGED notOfSdCore
          \/ component = "athonet" /\ Athonets!Next
          \/ component = "athonet upf" /\ AthonetUpfs!Next /\ UNCHANGED notOfAthonetUpf
          \/ component = "upfs" /\ Upfs!Next /\ UNCHANGED notOfUpf
          \/ component = "rans" /\ Rans!Next /\ UNCHANGED notOfRan
          \/ component = "ueransims" /\ Ueransims!Next /\ UNCHANGED notOfUeransim
          \/ component = "apart" /\ Apart!Next /\ UNCHANGED notOfUeransimK8s
          \/ component = "sharing" /\ Sharing!Next /\ UNCHANGED notOfUeransimK8s
          \/ component = "simple" /\ Simple!Next /\ UNCHANGED notOfSimple5G
       /\ KeepManagers /\ UNCHANGED <<ofPlugins, ofAccess, ofNodes, ofRecords, stops>>
    \/ /\ component = "nodes" /\ Nodes!Next
       /\ KeepManagers /\ UNCHANGED <<ofPlugins, ofAccess, ofCore, ofRecords>>
    \/ /\ component = "records" /\ Records!Next
       /\ KeepManagers /\ UNCHANGED <<ofPlugins, ofAccess, ofCore, ofNodes>>
ComponentsSpec == ComponentsInit /\ [][ComponentsNext]_allVars
-----------------------------------------------------------------------------
\* LocksFollow (PduLocks): a lock is known to its holder, and goes with it.

\* No list has two entries of a name, the document is the topology when no call
\* is in progress, and a blueprint's machines are on the VIM it talks to.
TopologyAgrees == component = "topology" =>
    /\ Topologies!TypeOK /\ Topologies!NamesUnique
    /\ Topologies!QuietIsSaved /\ Topologies!RightVim

\* The targets and folders of the topology, of Prometheus and of Grafana are
\* those of the blueprints that have monitoring enabled, and their servers stay
\* listed until nobody needs them or they are forced off the list.
MonitoringFollows ==
    /\ component = "family" => /\ Family!TypeOK /\ Family!NoStrayTarget /\ Family!ScrapedIsListed
                               /\ Family!NoStrayFolder /\ Family!FolderIsStored
    /\ component = "roots" => /\ Roots!TypeOK /\ Roots!NoStrayTarget /\ Roots!ScrapedIsListed
                              /\ Roots!NoStrayFolder /\ Roots!FolderIsStored
    /\ component = "servers" => /\ Servers!TypeOK /\ Servers!WatchedIsServed
                                /\ Servers!GoneUnwatched /\ Servers!GoneUnlisted

\* A cluster lists the blueprints that run on it, and one that is gone has left
\* neither releases nor namespaces nor its name on the list.
ChartsFollow == component = "charts" =>
    /\ Charts!TypeOK /\ Charts!RunningIsListed /\ Charts!GoneIsClean /\ Charts!ListedIsThere

\* Memory and documents hold the accounts the calls left, one document each,
\* and the two tokens of a user are those of one login.
AccountsFollow == component = "accounts" =>
    /\ Accounts!TypeOK /\ Accounts!AccountsDurable /\ Accounts!OneDocument
    /\ Accounts!PairTogether

\* The collectors of a cluster send to its destinations, one network plugin is
\* installed, and the topology knows the monitoring release of the cluster.
PluginsFollow == component = "plugins" =>
    /\ Plugins!TypeOK /\ Plugins!CollectorsFollow /\ Plugins!OneNetworkPlugin
    /\ Plugins!ReleaseIsKnown

\* An account that was returned keeps its rights, and rights have an account.
RightsFollow == component = "access" =>
    /\ Access!TypeOK /\ Access!GrantedIsComplete /\ Access!RightsHaveAccounts

\* A 5G core, its UPFs and its gNBs agree after each call that succeeds, no UPF
\* is lost sight of by one that fails, and what the areas of a core serve exists,
\* as do its subscribers: OpenAirInterface's network functions step by step, the
\* values Free5GC and SD-Core are installed with, the machine Athonet borrows.
CoreAgrees ==
    /\ component = "core" => /\ Core!TypeOK /\ Core!Agreement /\ Core!UpfsInSight
                             /\ Core!SlicesServable /\ Core!SubscribersKnown
    /\ component = "free5gc" => Frees!FunctionsAgree /\ Frees!UpfsAgree /\ Frees!WebAgrees
    /\ component = "sdcore" => Sds!ReleaseAgrees /\ Sds!UpfsAgree
    /\ component = "athonet" => /\ Athonets!FunctionsAgree /\ Athonets!SubscribersAgree
                                /\ Athonets!GivenBack

\* The machines and charts of the other 5G blueprints are what their calls left
\* of the configuration: those that succeeded are served, routed and configured
\* together, what is offered to a core is there, and what is deleted is gone.
Edges5GAgree ==
    /\ component = "athonet upf" => AthonetUpfs!ConfigurationFollows /\ AthonetUpfs!GivenBack
    /\ component = "upfs" => /\ Upfs!TypeOK /\ Upfs!InSight /\ Upfs!NetworksServed
                             /\ Upfs!ToldExists /\ Upfs!Routed /\ Upfs!GoneIsClean
    /\ component = "rans" => /\ Rans!TypeOK /\ Rans!ConfiguredTogether
                             /\ Rans!OfferedIsMade /\ Rans!GoneIsClean
    /\ component = "ueransims" => /\ Ueransims!TypeOK /\ Ueransims!InSight
                                  /\ Ueransims!EntriesExist /\ Ueransims!SimsRun
                                  /\ Ueransims!OfferedIsThere /\ Ueransims!GoneIsClean
    /\ component = "apart" => /\ Apart!TypeOK /\ Apart!ReleaseFollows /\ Apart!GnbConfigured
                              /\ Apart!OfferedIsThere /\ Apart!GoneIsClean
    /\ component = "sharing" => /\ Sharing!TypeOK /\ Sharing!ReleaseFollows
                                /\ Sharing!GnbConfigured /\ Sharing!OfferedIsThere
                                /\ Sharing!GoneIsClean
    /\ component = "simple" => /\ Simple!TypeOK /\ Simple!CoresBeforeCluster
                               /\ Simple!MadeTogether /\ Simple!GoneIsClean

\* The numbers, servers and nodes of a Kubernetes blueprint belong together.
WorkersAgree == component = "nodes" =>
    Nodes!TypeOK /\ Nodes!NamesAreFree /\ Nodes!NodesHaveServers /\ Nodes!GoneIsGone

\* What is restored from a snapshot has made the calls of the snapshot, and the
\* records of the operations name their calls and reach the database.
RecordsFollow == component = "records" =>
    /\ Records!TypeOK /\ Records!RestoreFaithful
    /\ Records!CallsAttributed /\ Records!EndedIsSaved
=============================================================================
