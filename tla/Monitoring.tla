----------------------------- MODULE Monitoring -----------------------------
(***************************************************************************)
(* Monitoring of blueprints, enabled and disabled on a tree of blueprints   *)
(* by several workers.  What a blueprint has on the monitoring servers is   *)
(* listed three times: in its monitoring_state, in the topology, and on     *)
(* Prometheus (the targets) and Grafana (the folders), which a               *)
(* synchronisation brings in line with the topology.                        *)
(***************************************************************************)
EXTENDS Naturals, Sequences, FiniteSets, SequencesExt

CONSTANTS Blueprint, Parent,   \* a function: the parent of a blueprint, or Root
          Root,
          SyncRace,    \* whether two synchronisations of Grafana may overlap
          MaxEnables,  \* bound: how often monitoring is enabled
          MaxFaults,   \* bound: calls to the servers that fail
          MaxStops     \* bound: stops of the process

VARIABLES run,                \* what the thread in a blueprint's code is at
          state, stateDb,     \* monitoring_state in memory and in the database
          targets, local, scraped,    \* of Prometheus: topology, sd_file here, there
          tree, treeDb, grafana,      \* of Grafana: folders of the topology, its
                                      \* document, folders of the server
          enables, uids,      \* counters of targets and of folders on the server
          lost,               \* history: what a stop, or a call without upload, left
          faults, stops

monVars == <<run, state, stateDb, targets, local, scraped, tree, treeDb, grafana,
             enables, uids, lost, faults, stops>>

NoUid == 0
NoFolder == [id |-> 0, of |-> Root, in |-> 0, uid |-> NoUid]
Off == [on |-> FALSE, grafana |-> FALSE, ids |-> {}, folder |-> NoUid]
Rest == [op |-> "none", at |-> "rest", todo |-> {}, nested |-> FALSE, folder |-> NoFolder]
Gone == {"gone", "deleted"}     \* no longer, or still, listed by the parent
Steps == Gone \cup {"rest", "target", "folder", "dump", "upload", "create", "assign", "prune",
                    "folderid", "save", "remove", "unfolder", "forget", "children"}

\* Every variable keeps the shape the models of the code give it.
TypeOK ==
    /\ \A b \in Blueprint : run[b].at \in Steps /\ run[b].todo \subseteq Blueprint
    /\ \A s \in {state, stateDb} : \A b \in Blueprint :
           s[b] \in [on : BOOLEAN, grafana : BOOLEAN, ids : SUBSET (1..enables), folder : 0..uids]
    /\ targets \in Seq([id : 1..enables, of : Blueprint, label : Blueprint])
    /\ tree \cup treeDb \subseteq [id : 1..enables, of : Blueprint, in : 0..enables, uid : 0..uids]
    /\ grafana \subseteq [uid : 1..uids, id : 1..enables, of : Blueprint, in : 0..enables]

Init ==
    /\ run = [b \in Blueprint |-> Rest]
    /\ state = [b \in Blueprint |-> Off] /\ stateDb = state
    /\ targets = <<>> /\ local = {} /\ scraped = {} /\ tree = {} /\ treeDb = {} /\ grafana = {}
    /\ enables = 0 /\ uids = 0 /\ lost = {} /\ faults = 0 /\ stops = 0

Children(b) == {c \in Blueprint : Parent[c] = b}
At(b, step) == run[b].at = step
Goto(b, step) == run' = [run EXCEPT ![b].at = step]
ServersKept == UNCHANGED <<local, scraped, grafana, uids>>
TopologyKept == UNCHANGED <<targets, tree, treeDb>>
StateKept == UNCHANGED <<state, stateDb>>
Quiet == UNCHANGED <<enables, lost, faults, stops>>
OnlyRun == StateKept /\ TopologyKept /\ ServersKept /\ Quiet

(* The end of a call: a nested one returns to its parent, and so does its    *)
(* exception, which ends the parent's call too (trees have two levels).     *)
Waits(x, b) == x = Parent[b] /\ run[b].nested
Ends(b, at) ==
    run' = [x \in Blueprint |-> IF x = b THEN [Rest EXCEPT !.at = at]
                                ELSE IF Waits(x, b) THEN [run[x] EXCEPT !.todo = @ \ {b}] ELSE run[x]]

(* set_blueprint_status saves the blueprint; call_function does not.        *)
Raise(b) ==
    /\ run' = [x \in Blueprint |-> IF x = b \/ Waits(x, b) THEN Rest ELSE run[x]]
    /\ stateDb' = [x \in Blueprint |->
                     IF Waits(x, b) \/ (x = b /\ (~ run[b].nested \/ run[b].op = "delete"))
                     THEN state'[x] ELSE stateDb[x]]
Fault == faults < MaxFaults /\ faults' = faults + 1
-----------------------------------------------------------------------------
(* A day-2 call or a deletion, by a user or by the thread of the parent.    *)
Start(b, op, all, nested) ==
    /\ At(b, "rest")
    /\ nested => Parent[b] # Root /\ At(Parent[b], "children")
                 /\ b \in run[Parent[b]].todo /\ run[Parent[b]].op = op
    /\ run' = [run EXCEPT ![b] = [Rest EXCEPT !.op = op, !.nested = nested,
                 !.todo = {c \in Children(b) : all /\ ~ At(c, "gone")},
                 !.at = CASE op = "enable" -> "target" [] op # "enable" /\ state[b].on -> "remove"
                          [] OTHER -> "children"]]
    /\ stateDb' = IF nested /\ op # "delete" THEN stateDb ELSE [stateDb EXCEPT ![b] = state[b]]
    /\ TopologyKept /\ ServersKept /\ Quiet

Enable(b, all, nested, withGrafana) ==
    /\ ~ state[b].on /\ enables < MaxEnables /\ Start(b, "enable", all, nested)
    /\ state' = [state EXCEPT ![b] = [Off EXCEPT !.on = TRUE, !.grafana = withGrafana]]

Disable(b, all, nested) == Start(b, "disable", all, nested) /\ UNCHANGED state
Delete(b, nested) == Start(b, "delete", TRUE, nested) /\ UNCHANGED state

(* What a child answers without more ado: enabling a monitored one is an     *)
(* error that the parent skips, as it skips a deleted one when it deletes.  *)
SkipChild(b, c) ==
    /\ At(b, "children") /\ c \in run[b].todo
    /\ \/ At(c, "rest") /\ state[c].on /\ run[b].op = "enable"
       \/ At(c, "deleted") /\ run[b].op = "delete"
    /\ run' = [run EXCEPT ![b].todo = @ \ {c}] /\ OnlyRun

ChildMissing(b, c) ==
    /\ At(b, "children") /\ c \in run[b].todo /\ At(c, "deleted") /\ run[b].op # "delete"
    /\ UNCHANGED state /\ Raise(b) /\ TopologyKept /\ ServersKept /\ Quiet
-----------------------------------------------------------------------------
(* add_target: a target with the same endpoint keeps its place, and the one *)
(* at the index of the ENDPOINT gets the labels; every target has one.      *)
Known(b) == \E i \in DOMAIN targets : targets[i].of = b

AddTarget(b) ==
    /\ At(b, "target") /\ enables' = enables + 1
    /\ state' = [state EXCEPT ![b].ids = @ \cup {enables'}]
    /\ targets' = IF Known(b) THEN [targets EXCEPT ![1].label = b]
                  ELSE Append(targets, [id |-> enables', of |-> b, label |-> b])
    /\ treeDb' = tree /\ Goto(b, IF state[b].grafana THEN "folder" ELSE "dump")
    /\ UNCHANGED <<stateDb, tree, lost, faults, stops>> /\ ServersKept

(* find_folder_by_blueprint_id: a blueprint may have left several.          *)
FoldersOf(b) == {f \in tree : f.of = b}
First(fs) == CHOOSE f \in fs : \A g \in fs : f.id <= g.id

(* add_grafana_folder: the folder of the parent has to be there.            *)
AddFolder(b) ==
    LET top == Parent[b] = Root
    IN  /\ At(b, "folder")
        /\ IF top \/ FoldersOf(Parent[b]) # {}
           THEN /\ tree' = tree \cup {[id |-> CHOOSE n \in state[b].ids : TRUE, of |-> b, uid |-> NoUid,
                                       in |-> IF top THEN 0 ELSE First(FoldersOf(Parent[b])).id]}
                /\ treeDb' = tree' /\ Goto(b, "dump") /\ StateKept /\ UNCHANGED lost
           ELSE UNCHANGED <<tree, treeDb, state>> /\ Raise(b) /\ lost' = lost \cup {"upload"}
        /\ UNCHANGED <<targets, enables, faults, stops>> /\ ServersKept

(* sync_prometheus_targets_to_server: the file, then the playbook, which may *)
(* raise; one that fails is only logged.                                    *)
Afterwards(b) ==
    LET enabling == run[b].op = "enable"
    IN  CASE state[b].grafana /\ enabling -> "create"
          [] state[b].grafana /\ ~ enabling /\ Parent[b] = Root -> "unfolder"
          [] ~ state[b].grafana /\ enabling -> "save"
          [] OTHER -> "forget"

DumpNothingNew(b) ==            \* mutant: a file that exists is kept
    /\ At(b, "dump") /\ local' = (IF local = {} THEN Range(targets) ELSE local) /\ Goto(b, "upload")
    /\ UNCHANGED <<scraped, grafana, uids>> /\ StateKept /\ TopologyKept /\ Quiet

DumpFile(b) ==
    /\ At(b, "dump") /\ local' = Range(targets) /\ Goto(b, "upload")
    /\ UNCHANGED <<scraped, grafana, uids>> /\ StateKept /\ TopologyKept /\ Quiet

UploadFile(b) ==
    /\ At(b, "upload") /\ TopologyKept /\ UNCHANGED <<state, local, grafana, uids, enables, stops>>
    /\ \/ scraped' = local /\ Goto(b, Afterwards(b)) /\ UNCHANGED <<stateDb, lost, faults>>
       \/ /\ Fault /\ lost' = lost \cup {"upload"} /\ UNCHANGED scraped
          /\ Raise(b) \/ (Goto(b, Afterwards(b)) /\ UNCHANGED stateDb)

(* sync_grafana_folders_to_server creates the folders that have no uid, the *)
(* parent's first, and takes from the root of the server what the topology  *)
(* does not have.  The uids are in memory until the end.                    *)
NextFolders ==
    {f \in tree : f.uid = NoUid /\ (f.in = 0 \/ \E g \in tree : g.id = f.in /\ g.uid # NoUid)}
Syncing(b) == run[b].at \in {"assign", "prune"}

CreateFolder(b) ==
    /\ At(b, "create") /\ (SyncRace \/ \A x \in Blueprint \ {b} : ~ Syncing(x))
    /\ IF NextFolders = {} THEN Goto(b, "prune")
       ELSE \E f \in NextFolders : run' = [run EXCEPT ![b].at = "assign", ![b].folder = f]
    /\ OnlyRun

AssignUid(b) ==
    LET f == run[b].folder
    IN  /\ At(b, "assign") /\ UNCHANGED <<targets, treeDb, local, scraped, enables, lost, stops>>
        /\ \/ /\ uids' = uids + 1
              /\ grafana' = grafana \cup {[uid |-> uids', id |-> f.id, of |-> f.of, in |-> f.in]}
              /\ tree' = {IF g.id = f.id THEN [g EXCEPT !.uid = uids'] ELSE g : g \in tree}
              /\ Goto(b, "create") /\ StateKept /\ UNCHANGED faults
           \/ Fault /\ UNCHANGED <<tree, grafana, uids, state>> /\ Raise(b)

PruneFolders(b) ==
    LET stray == {g \in grafana : g.in = 0 /\ ~ \E f \in tree : f.uid = g.uid}
    IN  /\ At(b, "prune")
        /\ grafana' = {g \in grafana : g \notin stray /\ ~ \E s \in stray : s.id = g.in}
        /\ treeDb' = tree
        /\ Goto(b, IF run[b].op = "enable" THEN "folderid" ELSE "forget")
        /\ UNCHANGED <<targets, tree, local, scraped, uids>> /\ StateKept /\ Quiet

(* The uid of the blueprint's folder; then the dashboards go there, each of *)
(* which may fail.                                                          *)
FolderId(b) ==
    /\ At(b, "folderid")
    /\ IF FoldersOf(b) = {} THEN UNCHANGED <<state, treeDb, faults>> /\ Raise(b)
       ELSE /\ state' = [state EXCEPT ![b].folder = First(FoldersOf(b)).uid]
            /\ \/ Goto(b, "save") /\ treeDb' = tree /\ UNCHANGED <<stateDb, faults>>
               \/ Fault /\ UNCHANGED treeDb /\ Raise(b)
    /\ UNCHANGED <<targets, tree, enables, lost, stops>> /\ ServersKept

SaveState(b) ==
    /\ At(b, "save") /\ stateDb' = [stateDb EXCEPT ![b] = state[b]] /\ Goto(b, "children")
    /\ UNCHANGED state /\ TopologyKept /\ ServersKept /\ Quiet
-----------------------------------------------------------------------------
(* del_targets stops, logged, at a target that is not listed.               *)
RemoveTargets(b) ==
    /\ At(b, "remove") /\ targets' = SelectSeq(targets, LAMBDA x : x.id \notin state[b].ids)
    /\ treeDb' = tree /\ Goto(b, "dump") /\ StateKept /\ UNCHANGED tree /\ ServersKept /\ Quiet

(* delete_grafana_folder removes one folder of that uid and what it holds;  *)
(* without an identifier it is one that was not created yet.                *)
RemoveFolder(b) ==
    LET found == {f \in tree : f.uid = state[b].folder}
    IN  /\ At(b, "unfolder")
        /\ IF found = {} THEN UNCHANGED tree
           ELSE \E f \in found : tree' = {g \in tree : g # f /\ g.in # f.id}
        /\ treeDb' = tree' /\ Goto(b, "create") /\ StateKept /\ UNCHANGED targets /\ ServersKept /\ Quiet

ForgetState(b) ==
    /\ At(b, "forget") /\ state' = [state EXCEPT ![b] = Off] /\ stateDb' = [stateDb EXCEPT ![b] = Off]
    /\ Goto(b, "children") /\ TopologyKept /\ ServersKept /\ Quiet

(* After the children: the call returns, or the blueprint is gone.          *)
Finish(b) ==
    /\ At(b, "children") /\ run[b].todo = {}
    /\ Ends(b, CASE run[b].op # "delete" -> "rest" [] run[b].nested -> "gone" [] OTHER -> "deleted")
    /\ OnlyRun

(* A stop: threads are gone, the servers stay, and the next process knows   *)
(* of each blueprint and of the topology what was saved.                    *)
Restart ==
    /\ stops < MaxStops /\ stops' = stops + 1
    /\ run' = [b \in Blueprint |-> IF run[b].at \in Gone THEN run[b] ELSE Rest]
    /\ state' = stateDb /\ tree' = treeDb
    /\ lost' = lost \cup {b \in Blueprint : state[b] # stateDb[b]} \cup {"upload"}
    /\ UNCHANGED <<stateDb, targets, local, scraped, treeDb, grafana, enables, uids, faults>>

Works(b) ==
    \/ AddTarget(b) \/ AddFolder(b) \/ DumpFile(b) \/ UploadFile(b)
    \/ CreateFolder(b) \/ AssignUid(b) \/ PruneFolders(b) \/ FolderId(b) \/ SaveState(b)
    \/ RemoveTargets(b) \/ RemoveFolder(b) \/ ForgetState(b) \/ Finish(b)

Next ==
    \/ \E b \in Blueprint, all, nested, g \in BOOLEAN : Enable(b, all, nested, g) \/ Disable(b, all, nested)
    \/ \E b \in Blueprint, nested \in BOOLEAN : Delete(b, nested)
    \/ \E b, c \in Blueprint : SkipChild(b, c) \/ ChildMissing(b, c)
    \/ \E b \in Blueprint : Works(b)
    \/ Restart
Spec == Init /\ [][Next]_monVars
-----------------------------------------------------------------------------
\* A target of the topology belongs to a blueprint that has monitoring enabled
\* and will remove it, unless a stop fell between the two.
NoStrayTarget ==
    \A i \in DOMAIN targets : LET x == targets[i] IN
        x.of \in lost \/ x.id \in state[x.of].ids

\* When no call is in progress, Prometheus scrapes what the topology lists,
\* whatever the order in which several workers dumped and uploaded the file,
\* unless a call or its upload failed or a stop fell in between.
ScrapedIsListed ==
    (\A b \in Blueprint : run[b].at \in Gone \cup {"rest"}) /\ "upload" \notin lost
        => scraped = Range(targets)

\* A blueprint without monitoring, or gone, has no folder at the top of the
\* topology's tree, unless a call failed half-way or a stop interrupted one.
NoStrayFolder ==
    faults + stops = 0 => \A f \in tree : f.in = 0 => state[f.of].on

\* The folder where the dashboards of a monitored blueprint are stored is one
\* that Grafana has, unless a call failed half-way or a stop interrupted one.
FolderIsStored ==
    faults + stops = 0 =>
        \A b \in Blueprint : At(b, "rest") /\ state[b].folder # NoUid /\ Parent[b] = Root =>
            \E g \in grafana : g.uid = state[b].folder

\* add_target updates the existing target: its labels name its own blueprint.
LabelsOwn == \A i \in DOMAIN targets : targets[i].label = targets[i].of
=============================================================================
