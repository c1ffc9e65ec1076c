------------------------- MODULE MonitoringServers -------------------------
(***************************************************************************)
(* A monitoring blueprint, whose machine runs Prometheus, Grafana and Loki, *)
(* together with the blueprints that are monitored there: the topology      *)
(* lists the servers, users and the blueprint take them off the list, and   *)
(* a blueprint that is monitored needs them to stop being so.  Monitoring   *)
(* has the state and the files of one call in detail.                       *)
(***************************************************************************)
EXTENDS Naturals, FiniteSets

CONSTANTS Blueprint,   \* the blueprints that may be monitored, none a child
          MaxCalls,    \* bound: calls of users
          MaxFaults    \* bound: remote steps that fail

VARIABLES at, onboard,      \* the monitoring blueprint: its step, onboard_on_topology
          machine,          \* its machine: none, up or down
          listed,           \* the servers of the topology that have its id
          targets, folders, \* what its Prometheus and its Grafana are listed with
          source,           \* whether Grafana reads from Prometheus
          watch,            \* each monitored blueprint: its step and monitoring_state
          robbed,           \* history: blueprints that lost a server that listed them
          meddled,          \* history: servers users listed, or took off the list
          calls, faults

serverVars == <<at, onboard, machine, listed, targets, folders, source, watch,
                robbed, meddled, calls, faults>>

Server == {"prometheus", "grafana", "loki"}
Making == {"machine", "list prometheus", "list grafana", "list loki", "health",
           "read prometheus", "read loki"}
Ending == {"destroy", "unlist prometheus", "unlist grafana", "unlist loki"}
WatchSteps == {"rest", "target", "folder", "upload", "sync", "dashboards",
               "untarget", "unupload", "unfolder", "unsync", "gone"}
\* monitoring_state, and whether it knows its folder and
\* the call that set it succeeded.
Off == [at |-> "rest", on |-> FALSE, grafana |-> FALSE, known |-> FALSE,
        served |-> FALSE, ends |-> FALSE]

Init ==
    /\ at = "new" /\ onboard \in BOOLEAN /\ machine = "none" /\ listed = {}
    /\ targets = {} /\ folders = {} /\ source = FALSE
    /\ watch = [b \in Blueprint |-> Off] /\ robbed = {} /\ meddled = {} /\ calls = 0 /\ faults = 0

Fault == faults < MaxFaults /\ faults' = faults + 1
Called == calls < MaxCalls /\ calls' = calls + 1
WatchKept == UNCHANGED <<watch, targets, folders, robbed>>
UsersKept == UNCHANGED <<meddled, calls>>

\* A server leaves the list with all that is listed of it.
Leaves(s) ==
    /\ listed' = listed \ {s}
    /\ targets' = IF s = "prometheus" THEN {} ELSE targets
    /\ folders' = IF s = "grafana" THEN {} ELSE folders
Losers(s) == CASE s = "prometheus" -> targets [] s = "grafana" -> folders [] OTHER -> {}
-----------------------------------------------------------------------------
(* create: the machine, then the servers one by one.                        *)
Create ==
    /\ at = "new" /\ at' = "machine"
    /\ UNCHANGED <<onboard, machine, listed, source, faults>> /\ WatchKept /\ UsersKept

CreateMachine ==
    /\ at = "machine"
    /\ \/ machine' = "up" /\ at' = (IF onboard THEN "list prometheus" ELSE "made") /\ UNCHANGED faults
       \/ machine' \in {"none", "up"} /\ at' = "failed" /\ Fault
    /\ UNCHANGED <<onboard, listed, source>> /\ WatchKept /\ UsersKept

Listing == [prometheus |-> "list prometheus", grafana |-> "list grafana", loki |-> "list loki"]
AfterListing == [prometheus |-> "list grafana", grafana |-> "list loki", loki |-> "health"]

(* add_prometheus, add_grafana, add_loki: an id can be listed once.         *)
AddServer(s) ==
    /\ at = Listing[s]
    /\ IF s \in listed THEN at' = "failed" /\ UNCHANGED listed
       ELSE at' = AfterListing[s] /\ listed' = listed \cup {s}
    /\ UNCHANGED <<onboard, machine, source, faults>> /\ WatchKept /\ UsersKept

(* The wait for Grafana has no end of its own; what is not a refused        *)
(* connection ends the creation.                                            *)
WaitGrafana ==
    /\ at = "health"
    /\ \/ at' = "read prometheus" /\ UNCHANGED faults
       \/ at' = "failed" /\ Fault
    /\ UNCHANGED <<onboard, machine, listed, source>> /\ WatchKept /\ UsersKept

AddSource(s) ==
    /\ \/ s = "prometheus" /\ at = "read prometheus"
       \/ s = "loki" /\ at = "read loki"
    /\ \/ /\ {"grafana"} \cup ({s} \ {"loki"}) \subseteq listed
          /\ at' = IF s = "loki" THEN "made" ELSE "read loki"
          /\ source' = TRUE /\ UNCHANGED faults
       \/ /\ ~ {"grafana"} \cup ({s} \ {"loki"}) \subseteq listed
          /\ at' = "failed" /\ UNCHANGED <<source, faults>>
       \/ at' = "failed" /\ Fault /\ source' \in {source, TRUE}
    /\ UNCHANGED <<onboard, machine, listed>> /\ WatchKept /\ UsersKept

(* destroy: the machine goes first, and then the servers, whoever uses      *)
(* them; one that is not listed is an error that ends it, and is logged.    *)
Destroy ==
    /\ at \in {"made", "failed"} /\ at' = "destroy"
    /\ UNCHANGED <<onboard, machine, listed, source, faults>> /\ WatchKept /\ UsersKept

DestroyMachine ==
    /\ at = "destroy"
    /\ \/ /\ machine' = IF machine = "up" THEN "down" ELSE machine
          /\ at' = (IF onboard THEN "unlist prometheus" ELSE "gone") /\ UNCHANGED faults
       \/ /\ machine' \in {machine, IF machine = "up" THEN "down" ELSE machine}
          /\ at' = "failed" /\ Fault
    /\ UNCHANGED <<onboard, listed, source>> /\ WatchKept /\ UsersKept

Unlisting == [prometheus |-> "unlist prometheus", grafana |-> "unlist grafana", loki |-> "unlist loki"]
AfterUnlisting == [prometheus |-> "unlist grafana", grafana |-> "unlist loki", loki |-> "gone"]

RemoveServer(s) ==
    /\ at = Unlisting[s]
    /\ IF s \in listed THEN Leaves(s) /\ robbed' = robbed \cup Losers(s) /\ at' = AfterUnlisting[s]
       ELSE at' = "gone" /\ UNCHANGED <<listed, targets, folders, robbed>>
    /\ UNCHANGED <<onboard, machine, source, watch, faults>> /\ UsersKept
-----------------------------------------------------------------------------
(* The calls of users.  delete_prometheus refuses a server with targets     *)
(* unless it is forced; nothing is asked of the other two.                  *)
UserLists(s) ==
    /\ Called /\ at # "new" /\ s \notin listed
    /\ listed' = listed \cup {s} /\ meddled' = meddled \cup {s}
    /\ UNCHANGED <<at, onboard, machine, source, faults>> /\ WatchKept

UserUnlists(s, force) ==
    /\ Called /\ s \in listed /\ (s = "prometheus" => force \/ targets = {})
    /\ Leaves(s) /\ meddled' = meddled \cup {s} /\ robbed' = robbed \cup Losers(s)
    /\ UNCHANGED <<at, onboard, machine, source, watch, faults>>
-----------------------------------------------------------------------------
(* enable_monitoring and disable_monitoring, and the deletion of a blueprint *)
(* that begins with the latter.  A call that raises keeps what it did.      *)
At(b, step) == watch[b].at = step
Goto(b, step) == watch' = [watch EXCEPT ![b].at = step]
Raise(b) == watch' = [watch EXCEPT ![b].at = "rest", ![b].served = FALSE]
ServersKept == UNCHANGED <<at, onboard, machine, listed, source>>
Has(s) == s \in listed

Served(b) == watch' = [watch EXCEPT ![b].at = "rest", ![b].served = TRUE]

\* A step that looks a server up, and one that talks to it besides.
Looks(b, s, step) == IF Has(s) THEN Goto(b, step) ELSE Raise(b)
Answers(s) == Has(s) /\ machine = "up"

Enable(b, grafana) ==
    /\ Called /\ At(b, "rest") /\ ~ watch[b].on /\ Has("prometheus") /\ (grafana => Has("grafana"))
    /\ watch' = [watch EXCEPT ![b] = [Off EXCEPT !.at = "target", !.on = TRUE, !.grafana = grafana]]
    /\ ServersKept /\ UNCHANGED <<targets, folders, robbed, meddled, faults>>

Disable(b, ends) ==
    /\ Called /\ At(b, "rest") /\ (watch[b].on \/ ends)
    /\ watch' = [watch EXCEPT ![b].at = IF watch[b].on THEN "untarget" ELSE "gone",
                              ![b].served = FALSE, ![b].ends = ends]
    /\ ServersKept /\ UNCHANGED <<targets, folders, robbed, meddled, faults>>

AddTarget(b) ==
    /\ At(b, "target") /\ Looks(b, "prometheus", IF watch[b].grafana THEN "folder" ELSE "upload")
    /\ targets' = IF Has("prometheus") THEN targets \cup {b} ELSE targets
    /\ ServersKept /\ UNCHANGED <<folders, robbed, faults>> /\ UsersKept
AddFolder(b) ==
    /\ At(b, "folder") /\ Looks(b, "grafana", "upload")
    /\ folders' = IF Has("grafana") THEN folders \cup {b} ELSE folders
    /\ ServersKept /\ UNCHANGED <<targets, robbed, faults>> /\ UsersKept

(* A playbook that does not reach its machine fails, which is only logged.  *)
Upload(b) ==
    /\ At(b, "upload")
    /\ \/ /\ Has("prometheus") /\ UNCHANGED faults
          /\ IF watch[b].grafana THEN Goto(b, "sync") ELSE Served(b)
       \/ ~ Has("prometheus") /\ Raise(b) /\ UNCHANGED faults
       \/ Raise(b) /\ Fault
    /\ ServersKept /\ UNCHANGED <<targets, folders, robbed>> /\ UsersKept

(* The folders are made on Grafana, and this blueprint's has an identifier; *)
(* its dashboards read from the data source of Prometheus.                  *)
Sync(b) ==
    /\ At(b, "sync")
    /\ \/ /\ Answers("grafana") /\ b \in folders /\ UNCHANGED faults
          /\ watch' = [watch EXCEPT ![b].at = "dashboards", ![b].known = TRUE]
       \/ ~ (Answers("grafana") /\ b \in folders) /\ Raise(b) /\ UNCHANGED faults
       \/ Raise(b) /\ Fault
    /\ ServersKept /\ UNCHANGED <<targets, folders, robbed>> /\ UsersKept
AddDashboards(b) ==
    /\ At(b, "dashboards")
    /\ LET there == Answers("grafana") /\ source /\ b \in folders
       IN  \/ there /\ Served(b) /\ UNCHANGED faults
           \/ ~ there /\ Raise(b) /\ UNCHANGED faults
           \/ Raise(b) /\ Fault
    /\ ServersKept /\ UNCHANGED <<targets, folders, robbed>> /\ UsersKept

(* A target that is not listed is only logged.                              *)
RemoveTarget(b) ==
    /\ At(b, "untarget") /\ Looks(b, "prometheus", "unupload") /\ targets' = targets \ {b}
    /\ ServersKept /\ UNCHANGED <<folders, robbed, faults>> /\ UsersKept

Forget(b) ==
    /\ watch' = [watch EXCEPT ![b] = [Off EXCEPT !.at = IF watch[b].ends THEN "gone" ELSE "rest"]]
    /\ robbed' = robbed \ {b}

UploadWithout(b) ==
    /\ At(b, "unupload")
    /\ \/ /\ Has("prometheus") /\ UNCHANGED faults
          /\ IF watch[b].grafana THEN Goto(b, "unfolder") /\ UNCHANGED robbed ELSE Forget(b)
       \/ ~ Has("prometheus") /\ Raise(b) /\ UNCHANGED <<robbed, faults>>
       \/ Raise(b) /\ Fault /\ UNCHANGED robbed
    /\ ServersKept /\ UNCHANGED <<targets, folders>> /\ UsersKept

(* A blueprint that does not know the identifier of its folder removes one  *)
(* without identifier, whose ever it is, or all of them with the root.      *)
Nameless == {c \in folders : ~ watch[c].known}
RemoveFolder(b) ==
    /\ At(b, "unfolder") /\ Looks(b, "grafana", "unsync")
    /\ IF watch[b].known THEN folders' = folders \ {b}
       ELSE folders' \in {folders, folders \ Nameless} \cup {folders \ {c} : c \in Nameless}
    /\ ServersKept /\ UNCHANGED <<targets, robbed, faults>> /\ UsersKept
SyncWithout(b) ==
    /\ At(b, "unsync")
    /\ \/ Answers("grafana") /\ Forget(b) /\ UNCHANGED faults
       \/ ~ Answers("grafana") /\ Raise(b) /\ UNCHANGED <<robbed, faults>>
       \/ Raise(b) /\ Fault /\ UNCHANGED robbed
    /\ ServersKept /\ UNCHANGED <<targets, folders>> /\ UsersKept

Next ==
    \/ Create \/ CreateMachine \/ WaitGrafana \/ Destroy \/ DestroyMachine
    \/ \E s \in Server : \/ AddServer(s) \/ AddSource(s) \/ RemoveServer(s) \/ UserLists(s)
                         \/ \E force \in BOOLEAN : UserUnlists(s, force)
    \/ \E b \in Blueprint : \/ \E x \in BOOLEAN : Enable(b, x) \/ Disable(b, x)
                            \/ AddTarget(b) \/ AddFolder(b) \/ Upload(b) \/ Sync(b)
                            \/ AddDashboards(b) \/ RemoveTarget(b) \/ UploadWithout(b)
                            \/ RemoveFolder(b) \/ SyncWithout(b)
Spec == Init /\ [][Next]_serverVars
-----------------------------------------------------------------------------
\* A blueprint whose monitoring was enabled has what it needs to be monitored,
\* and to stop being so: the topology lists its servers, and it with them, but
\* where a server was forced off the list or is a Grafana, for which nobody asks.
WatchedIsServed ==
    \A b \in Blueprint \ robbed : watch[b].served =>
        /\ b \in targets /\ Has("prometheus")
        /\ watch[b].grafana => b \in folders /\ Has("grafana")

\* A blueprint that is gone has left no target on a server that is listed.
GoneUnwatched == \A b \in Blueprint : At(b, "gone") => b \notin targets

\* A monitoring blueprint that is gone has taken its servers off the list,
\* unless a user had put one there or taken one off: the first that is missing
\* ends its clean-up.
GoneUnlisted == at = "gone" /\ meddled = {} => listed = {}

TypeOK ==
    /\ at \in {"new", "made", "failed", "gone"} \cup Making \cup Ending
    /\ machine \in {"none", "up", "down"} /\ listed \subseteq Server /\ meddled \subseteq Server
    /\ targets \cup folders \cup robbed \subseteq Blueprint
    /\ \A b \in Blueprint : watch[b].at \in WatchSteps
    /\ calls \in 0 .. MaxCalls /\ faults \in 0 .. MaxFaults
=============================================================================
