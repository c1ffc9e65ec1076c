------------------------------ MODULE Topology ------------------------------
(***************************************************************************)
(* The lists of the topology, the calls that change and save them, and the  *)
(* blueprints that reach a VIM through the area it serves.  Workers run     *)
(* the calls: one looks for the entry in a list, changes the list, dumps    *)
(* the whole topology and writes the document.  The provider of a blueprint *)
(* finds the VIM of an area once and keeps it.                              *)
(***************************************************************************)
EXTENDS Naturals, Sequences, SequencesExt

CONSTANTS Kind,        \* the lists: "vims", "networks", "routers", "grafana", "loki"
          Name, Area, Blueprint, Worker,
          NoTopology,  \* _topology is None; no document
          Nothing,     \* no VIM, no call argument
          Race,        \* what workers may interleave: "list" changes, "save"s
          MaxStops     \* bound: stops of the process

VARIABLES lists,   \* TopologyManager._topology
          doc,     \* its document in the database
          call,    \* what each worker is at
          bound,   \* virt_providers_impl: the VIM of each area a blueprint uses
          placed,  \* the VIMs on which it has machines
          moved,   \* history: what a restart has bound to another VIM
          stops

topoVars == <<lists, doc, call, bound, placed, moved, stops>>

Item == [name : Name, areas : SUBSET Area]
Empty == [k \in Kind |-> <<>>]
Idle == [at |-> "idle", op |-> "none", kind |-> "vims", item |-> Nothing, index |-> 0, doc |-> Nothing]

\* A topology is its lists or nothing; a blueprint has at most one VIM an area.
TypeOK ==
    /\ lists = NoTopology \/ \A k \in Kind : lists[k] \in Seq(Item)
    /\ doc = NoTopology \/ \A k \in Kind : doc[k] \in Seq(Item)
    /\ \A w \in Worker : call[w].at \in {"idle", "change", "dump", "write", "forget"}
    /\ bound \in [Blueprint \X Area -> Name \cup {Nothing}]
    /\ placed \in [Blueprint \X Area -> SUBSET Name]
    /\ moved \subseteq Blueprint \X Area /\ stops \in 0..MaxStops

Init ==
    /\ lists = Empty /\ doc = Empty /\ call = [w \in Worker |-> Idle]
    /\ bound = [u \in Blueprint \X Area |-> Nothing]
    /\ placed = [u \in Blueprint \X Area |-> {}]
    /\ moved = {} /\ stops = 0

Present == lists # NoTopology
BlueprintsKept == UNCHANGED <<bound, placed, moved, stops>>
Stages == [list |-> {"change"}, save |-> {"write", "forget"}]
Becomes(w, c) == call' = [call EXCEPT ![w] = c]
Goes(w, from, to) == call[w].at = from /\ Becomes(w, [call[w] EXCEPT !.at = to])
Alone(w, what) == what \in Race \/ \A v \in Worker \ {w} : call[v].at \notin Stages[what]
-----------------------------------------------------------------------------
(* find_..._index; the one of the routers looks through the VIMs.           *)
Searched(k) == IF k = "routers" THEN "vims" ELSE k
Index(k, n) == SelectInSeq(lists[Searched(k)], LAMBDA x : x.name = n)

(* What add_... refuses: the name, and for a VIM an area, that is taken.    *)
Accepts(k, x) ==
    \A i \in DOMAIN lists[k] : LET y == lists[k][i] IN
        y.name # x.name /\ (k = "vims" => y.areas \cap x.areas = {})

(* The manager calls del_network and del_router by names they do not have,  *)
(* and has no update of a router; the facade's update of a network adds it. *)
Editable == Kind \cap {"vims", "grafana", "loki"}

Start(w, op, k, x, i) ==
    /\ call[w] = Idle /\ Alone(w, "list")
    /\ Becomes(w, [Idle EXCEPT !.at = "change", !.op = op, !.kind = k, !.item = x, !.index = i])
    /\ UNCHANGED <<lists, doc>> /\ BlueprintsKept

Add(w, k, x) == Present /\ Accepts(k, x) /\ (k # "vims" => x.areas = {}) /\ Start(w, "add", k, x, 0)
Update(w, k, x) ==
    Present /\ k \in Editable /\ (k # "vims" => x.areas = {}) /\ Index(k, x.name) # 0 /\ Start(w, "update", k, x, Index(k, x.name))
Delete(w, k, n) == Present /\ k \in Editable /\ Index(k, n) # 0 /\ Start(w, "delete", k, Nothing, Index(k, n))

Changed(c) ==
    CASE c.op = "add"    -> [lists EXCEPT ![c.kind] = Append(@, c.item)]
      [] c.op = "update" -> [lists EXCEPT ![c.kind][c.index] = c.item]
      [] c.op = "delete" -> [lists EXCEPT ![c.kind] = RemoveAt(@, c.index)]

(* An index that has gone out of the list, or a topology that has been      *)
(* deleted, raises.                                                         *)
Change(w) ==
    LET c == call[w]
        fits == Present /\ (c.op # "add" => c.index \in DOMAIN lists[c.kind])
    IN  /\ c.at = "change"
        /\ IF fits THEN lists' = Changed(c) /\ Goes(w, "change", "dump")
                   ELSE UNCHANGED lists /\ Becomes(w, Idle)
        /\ UNCHANGED doc /\ BlueprintsKept

Dump(w) ==
    /\ call[w].at = "dump" /\ Alone(w, "save")
    /\ Becomes(w, IF Present THEN [Idle EXCEPT !.at = "write", !.doc = lists] ELSE Idle)
    /\ UNCHANGED <<lists, doc>> /\ BlueprintsKept

WriteFirst(w) ==        \* mutant: only a topology without a document is written
    /\ call[w].at = "write" /\ doc' = (IF doc = NoTopology THEN call[w].doc ELSE doc) /\ Becomes(w, Idle)
    /\ UNCHANGED lists /\ BlueprintsKept

Write(w) ==
    /\ call[w].at = "write" /\ doc' = call[w].doc /\ Becomes(w, Idle)
    /\ UNCHANGED lists /\ BlueprintsKept

CreateTopology(w) ==
    /\ call[w] = Idle /\ Alone(w, "list") /\ lists' = Empty
    /\ Becomes(w, [Idle EXCEPT !.at = "dump"]) /\ UNCHANGED doc /\ BlueprintsKept

(* delete_topology erases the document and then forgets the topology.       *)
EraseTopology(w) ==
    /\ Present /\ call[w] = Idle /\ Alone(w, "list") /\ Alone(w, "save")
    /\ doc' = NoTopology /\ Becomes(w, [Idle EXCEPT !.at = "forget"])
    /\ UNCHANGED lists /\ BlueprintsKept

ForgetTopology(w) ==
    /\ call[w].at = "forget" /\ lists' = NoTopology /\ Becomes(w, Idle)
    /\ UNCHANGED doc /\ BlueprintsKept
-----------------------------------------------------------------------------
(* get_vim_by_area: the first VIM that has the area.                        *)
VimByArea(l, a) ==
    LET i == IF l = NoTopology THEN 0 ELSE SelectInSeq(l["vims"], LAMBDA x : a \in x.areas)
    IN  IF i = 0 THEN Nothing ELSE l["vims"][i].name

(* get_virt_provider asks for the VIM of the area on every call, and raises *)
(* without one, but binds the area the first time only.                     *)
Provider(b, a) == IF bound[<<b, a>>] = Nothing THEN VimByArea(lists, a) ELSE bound[<<b, a>>]

CreateVm(b, a) ==
    /\ VimByArea(lists, a) # Nothing
    /\ bound' = [bound EXCEPT ![<<b, a>>] = Provider(b, a)]
    /\ placed' = [placed EXCEPT ![<<b, a>>] = @ \cup {Provider(b, a)}]
    /\ UNCHANGED <<lists, doc, call, moved, stops>>

(* A restart loads the document and makes the providers of the areas that   *)
(* the saved provider data names; an area without a VIM raises.             *)
Rebound(u) == IF placed[u] = {} THEN Nothing ELSE VimByArea(doc, u[2])

Restart ==
    /\ stops < MaxStops /\ stops' = stops + 1
    /\ lists' = doc /\ UNCHANGED doc /\ call' = [w \in Worker |-> Idle]
    /\ bound' = [u \in Blueprint \X Area |-> Rebound(u)]
    /\ moved' = moved \cup {u \in Blueprint \X Area : ~ placed[u] \subseteq {Rebound(u)}}
    /\ UNCHANGED placed

Next ==
    \/ \E w \in Worker : Change(w) \/ Dump(w) \/ Write(w) \/ CreateTopology(w) \/ EraseTopology(w) \/ ForgetTopology(w)
    \/ \E w \in Worker, k \in Kind, x \in Item : Add(w, k, x) \/ Update(w, k, x)
    \/ \E w \in Worker, k \in Kind, n \in Name : Delete(w, k, n)
    \/ \E b \in Blueprint, a \in Area : CreateVm(b, a)
    \/ Restart
Spec == Init /\ [][Next]_topoVars
-----------------------------------------------------------------------------
\* The lookups of the topology take the first entry of a name for the entry of
\* that name: no list ever has two.
NamesUnique ==
    Present => \A k \in Kind : \A i, j \in DOMAIN lists[k] :
        lists[k][i].name = lists[k][j].name => i = j

\* When no call is in progress the document is the topology in memory, so that
\* a restart would lose nothing, however the calls of the workers interleaved.
QuietIsSaved == (\A w \in Worker : call[w] = Idle) => doc = lists

\* All the machines a blueprint has in an area are on the VIM its provider
\* talks to, although areas move from VIM to VIM, unless a restart has found
\* the area with another VIM.
RightVim ==
    \A u \in Blueprint \X Area : u \notin moved => placed[u] \subseteq {bound[u]}
=============================================================================
