---------------------------- MODULE TopologyProofs ----------------------------
(***************************************************************************)
(* The lists of the topology, its document and the VIMs of the blueprints, *)
(* for any number of workers, lists, names, areas and blueprints.          *)
(*                                                                         *)
(* A call looks an entry up, changes the list, dumps the topology and      *)
(* writes the dump, with other calls between any two of these.  Unique     *)
(* says what a call that has looked may still rely on; Saving says where   *)
(* the document and the topology may differ: only while somebody is yet to *)
(* dump or to write.  The hypotheses are on Race: a list changed by two    *)
(* workers at a time gets a name twice, two saves at a time leave the      *)
(* older dump.                                                             *)
(***************************************************************************)
EXTENDS Topology, SequenceTheorems, WellFoundedInduction, TLAPS

\* The contents of a topology.
Lists == [Kind -> Seq(Item)]

\* The order on the natural numbers as WFMin takes it.
LEMMA LeastNumber ==
    ASSUME NEW T \in SUBSET Nat, T # {}
    PROVE  \E x \in T : \A y \in T : x <= y
<1> DEFINE R == {ss \in Nat \X Nat : ss[1] < ss[2]}
<1>1. OpToRel(<, Nat) = R
  BY Zenon DEF OpToRel
<1>2. PICK x \in T : \A y \in T : ~(<<y, x>> \in R)
  BY <1>1, WFMin, NatLessThanWellFounded
<1>3. ASSUME NEW y \in T, ~(x <= y) PROVE FALSE
  <2>1. <<y, x>> \in R
    BY <1>3
  <2> QED BY <1>2, <2>1
<1> QED BY <1>3

\* del list[i] takes one entry away and keeps the others in their order.
LEMMA RemoveAtFacts ==
    ASSUME NEW S, NEW list \in Seq(S), NEW i \in 1..Len(list)
    PROVE  /\ RemoveAt(list, i) \in Seq(S)
           /\ Len(RemoveAt(list, i)) = Len(list) - 1
           /\ \A k \in 1..(Len(list) - 1) :
                 RemoveAt(list, i)[k] = IF k < i THEN list[k] ELSE list[k + 1]
<1> DEFINE left == SubSeq(list, 1, i - 1)
           right == SubSeq(list, i + 1, Len(list))
<1>1. /\ left \in Seq(S) /\ Len(left) = i - 1
      /\ \A k \in 1..(i - 1) : left[k] = list[k]
  OBVIOUS
<1>2. /\ right \in Seq(S) /\ Len(right) = Len(list) - i
      /\ \A k \in 1..(Len(list) - i) : right[k] = list[i + k]
  OBVIOUS
<1>3. RemoveAt(list, i) = left \o right
  BY DEF RemoveAt
<1> HIDE DEF left, right
<1>4. /\ left \o right \in Seq(S) /\ Len(left \o right) = Len(list) - 1
  <2>1. left \o right \in Seq(S)
    BY <1>1, <1>2
  <2>2. Len(left \o right) = Len(left) + Len(right)
    BY <1>1, <1>2, ConcatProperties
  <2> QED BY <1>1, <1>2, <2>1, <2>2
<1>5. ASSUME NEW k \in 1..(Len(list) - 1)
      PROVE  (left \o right)[k] = IF k < i THEN list[k] ELSE list[k + 1]
  <2>1. CASE k < i
    BY <1>1, <1>2, <2>1
  <2>2. CASE ~(k < i)
    <3>1. (left \o right)[k] = right[k - (i - 1)]
      BY <1>1, <1>2, <2>2
    <3>2. right[k - (i - 1)] = list[i + (k - (i - 1))]
      BY <1>2, <2>2
    <3> QED BY <2>2, <3>1, <3>2
  <2> QED BY <2>1, <2>2
<1> QED BY <1>3, <1>4, <1>5

\* What find_..._index returns: 0, or the place of an entry with the name.
LEMMA IndexFacts ==
    ASSUME NEW k \in Editable, NEW n
    PROVE  /\ Index(k, n) \in Nat
           /\ Index(k, n) # 0 => Index(k, n) \in 1..Len(lists[k]) /\ lists[k][Index(k, n)].name = n
<1> DEFINE I == {i \in 1..Len(lists[k]) : lists[k][i].name = n}
<1>1. Index(k, n) = IF I # {} THEN Min(I) ELSE 0
  BY DEF Index, Searched, Editable, SelectInSeq
<1>2. I \in SUBSET Nat /\ 0 \notin I
  OBVIOUS
<1>3. I # {} => Min(I) \in I
  BY <1>2, LeastNumber DEF Min
<1> QED BY <1>1, <1>2, <1>3

\* What get_vim_by_area returns: no VIM, or the name of one that has the area.
LEMMA VimFacts ==
    ASSUME NEW l, l = NoTopology \/ l \in Lists, "vims" \in Kind, NEW a
    PROVE  VimByArea(l, a) \in Name \cup {Nothing}
<1> DEFINE I == {i \in 1..Len(l["vims"]) : a \in l["vims"][i].areas}
<1>1. CASE l = NoTopology
  BY <1>1 DEF VimByArea
<1>2. CASE l # NoTopology /\ I = {}
  BY <1>2 DEF VimByArea, SelectInSeq
<1>3. CASE l # NoTopology /\ I # {}
  <2>1. l["vims"] \in Seq(Item)
    BY <1>3 DEF Lists
  <2>2. Min(I) \in I
    <3>1. I \in SUBSET Nat
      OBVIOUS
    <3> QED BY <1>3, <3>1, LeastNumber DEF Min
  <2>3. VimByArea(l, a) = l["vims"][Min(I)].name
    BY <1>3, <2>2 DEF VimByArea, SelectInSeq
  <2>4. l["vims"][Min(I)] \in Item
    <3>1. Min(I) \in 1..Len(l["vims"])
      BY <2>2
    <3> HIDE DEF I
    <3> QED BY <2>1, <3>1
  <2> QED BY <2>3, <2>4 DEF Item
<1> QED BY <1>1, <1>2, <1>3
-----------------------------------------------------------------------------
\* What a worker carries from one step of a call to the next.
Call == [at : {"idle", "change", "dump", "write", "forget"},
         op : {"none", "add", "update", "delete"}, kind : Kind \cup {"vims"},
         item : Item \cup {Nothing}, index : Nat, doc : Lists \cup {Nothing}]

\* A change is one of a list there is, with the entry it needs; a write is of a topology.
Meant(c) ==
    /\ c.at = "change" => /\ c.op # "none" /\ c.kind \in Kind
                          /\ c.op \in {"add", "update"} => c.item \in Item
    /\ c.at = "write" => c.doc \in Lists

\* The inductive form of the types.
Types ==
    /\ lists = NoTopology \/ lists \in Lists
    /\ doc = NoTopology \/ doc \in Lists
    /\ call \in [Worker -> Call] /\ \A w \in Worker : Meant(call[w])
    /\ bound \in [Blueprint \X Area -> Name \cup {Nothing}]
    /\ placed \in [Blueprint \X Area -> SUBSET Name]
    /\ moved \subseteq Blueprint \X Area /\ stops \in Nat /\ stops <= MaxStops

\* The calls: those that keep a worker busy.
LEMMA IdleCall == Idle \in Call /\ Meant(Idle)
BY DEF Idle, Call, Meant

\* What the call of a worker has become is what the step says, and the other calls stay.
LEMMA Becoming ==
    ASSUME Types, NEW w \in Worker, NEW c, Becomes(w, c)
    PROVE  /\ call'[w] = c /\ \A v \in Worker \ {w} : call'[v] = call[v]
           /\ c \in Call => call' \in [Worker -> Call]
           /\ Meant(c) => \A v \in Worker : Meant(call'[v])
BY DEF Types, Becomes

\* A call that goes on keeps what it carries.
LEMMA Going ==
    ASSUME Types, NEW w \in Worker, NEW from, NEW to, Goes(w, from, to)
    PROVE  /\ call[w].at = from
           /\ to \in {"dump"} => call'[w] \in Call /\ call'[w].at = to /\ Meant(call'[w])
           /\ \A v \in Worker \ {w} : call'[v] = call[v]
           /\ to \in {"dump"} => call' \in [Worker -> Call] /\ \A v \in Worker : Meant(call'[v])
<1>1. PICK c : c = call[w] /\ c \in Call
  BY DEF Types
<1>2. PICK d : d = [c EXCEPT !.at = to]
  OBVIOUS
<1>3. call[w].at = from /\ Becomes(w, d)
  BY <1>1, <1>2 DEF Goes
<1>4. to \in {"dump"} => d \in Call /\ d.at = to /\ Meant(d)
  BY <1>1, <1>2 DEF Call, Meant
<1> QED BY <1>3, <1>4, Becoming

\* What add, update and delete make of a topology.
LEMMA ChangedFacts ==
    ASSUME Types, lists \in Lists, NEW c \in Call, c.at = "change", Meant(c),
           c.op # "add" => c.index \in DOMAIN lists[c.kind]
    PROVE  /\ Changed(c) \in Lists
           /\ \A k \in Kind \ {c.kind} : Changed(c)[k] = lists[k]
           /\ c.op = "add" => Changed(c)[c.kind] = Append(lists[c.kind], c.item)
           /\ c.op = "update" => Changed(c)[c.kind] = [lists[c.kind] EXCEPT ![c.index] = c.item]
           /\ c.op = "delete" => Changed(c)[c.kind] = RemoveAt(lists[c.kind], c.index)
<1>1. c.kind \in Kind /\ c.op \in {"add", "update", "delete"} /\ lists[c.kind] \in Seq(Item)
  BY DEF Meant, Call, Lists
<1>2. CASE c.op = "add"
  <2>1. c.item \in Item /\ Append(lists[c.kind], c.item) \in Seq(Item)
    BY <1>1, <1>2 DEF Meant
  <2>2. Changed(c) = [lists EXCEPT ![c.kind] = Append(lists[c.kind], c.item)]
    BY <1>2 DEF Changed
  <2> QED BY <1>1, <1>2, <2>1, <2>2 DEF Lists
<1>3. CASE c.op = "update"
  <2>1. c.item \in Item /\ [lists[c.kind] EXCEPT ![c.index] = c.item] \in Seq(Item)
    BY <1>1, <1>3 DEF Meant
  <2>2. Changed(c) = [lists EXCEPT ![c.kind] = [lists[c.kind] EXCEPT ![c.index] = c.item]]
    BY <1>3 DEF Changed
  <2> QED BY <1>1, <1>3, <2>1, <2>2 DEF Lists
<1>4. CASE c.op = "delete"
  <2>1. c.index \in 1..Len(lists[c.kind])
    BY <1>1, <1>4
  <2>2. RemoveAt(lists[c.kind], c.index) \in Seq(Item)
    BY <1>1, <2>1, RemoveAtFacts
  <2>3. Changed(c) = [lists EXCEPT ![c.kind] = RemoveAt(lists[c.kind], c.index)]
    BY <1>4 DEF Changed
  <2> QED BY <1>1, <1>4, <2>2, <2>3 DEF Lists
<1> QED BY <1>1, <1>2, <1>3, <1>4

\* A call that has found what it looks for.
Starts(w, c) ==
    /\ Present /\ call[w] = Idle /\ Alone(w, "list") /\ Becomes(w, c)
    /\ c \in Call /\ Meant(c) /\ c.at = "change"
    /\ c.op = "add" => Accepts(c.kind, c.item)
    /\ c.op = "update" => /\ c.index \in 1..Len(lists[c.kind])
                          /\ lists[c.kind][c.index].name = c.item.name
    /\ UNCHANGED <<lists, doc>> /\ BlueprintsKept

\* Add, Update and Delete are such calls.
LEMMA StartFacts ==
    ASSUME NEW w \in Worker, NEW k \in Kind,
           \/ \E x \in Item : Add(w, k, x) \/ Update(w, k, x)
           \/ \E n \in Name : Delete(w, k, n)
    PROVE  \E c : Starts(w, c)
<1> DEFINE New(op, x, i) == [Idle EXCEPT !.at = "change", !.op = op, !.kind = k, !.item = x, !.index = i]
<1>1. ASSUME NEW op \in {"add", "update", "delete"}, NEW x \in Item \cup {Nothing}, NEW i \in Nat,
             op # "delete" => x \in Item
      PROVE  /\ New(op, x, i) \in Call /\ Meant(New(op, x, i)) /\ New(op, x, i).at = "change"
             /\ New(op, x, i).op = op /\ New(op, x, i).kind = k /\ New(op, x, i).item = x
             /\ New(op, x, i).index = i
  BY <1>1 DEF Idle, Call, Meant
<1> HIDE DEF New
<1>2. ASSUME NEW x \in Item, Add(w, k, x) PROVE Starts(w, New("add", x, 0))
  <2>1. /\ Present /\ Accepts(k, x) /\ call[w] = Idle /\ Alone(w, "list")
        /\ Becomes(w, New("add", x, 0)) /\ UNCHANGED <<lists, doc>> /\ BlueprintsKept
    BY <1>2 DEF Add, Start, New
  <2> QED BY <1>1, <2>1 DEF Starts
<1>3. ASSUME NEW x \in Item, Update(w, k, x) PROVE Starts(w, New("update", x, Index(k, x.name)))
  <2>1. /\ Present /\ call[w] = Idle /\ Alone(w, "list") /\ k \in Editable /\ Index(k, x.name) # 0
        /\ Becomes(w, New("update", x, Index(k, x.name))) /\ UNCHANGED <<lists, doc>>
        /\ BlueprintsKept
    BY <1>3 DEF Update, Start, New
  <2>2. /\ Index(k, x.name) \in Nat /\ Index(k, x.name) \in 1..Len(lists[k])
        /\ lists[k][Index(k, x.name)].name = x.name
    BY <2>1, IndexFacts
  <2> QED BY <1>1, <2>1, <2>2 DEF Starts
<1>4. ASSUME NEW n \in Name, Delete(w, k, n) PROVE Starts(w, New("delete", Nothing, Index(k, n)))
  <2>1. /\ Present /\ call[w] = Idle /\ Alone(w, "list") /\ k \in Editable
        /\ Becomes(w, New("delete", Nothing, Index(k, n))) /\ UNCHANGED <<lists, doc>>
        /\ BlueprintsKept
    BY <1>4 DEF Delete, Start, New
  <2>2. Index(k, n) \in Nat
    BY <2>1, IndexFacts
  <2>3. PICK c : c = New("delete", Nothing, Index(k, n))
    OBVIOUS
  <2>4. c \in Call /\ Meant(c) /\ c.at = "change" /\ c.op = "delete"
    BY <1>1, <2>2, <2>3
  <2>5. Starts(w, c)
    BY <2>1, <2>3, <2>4 DEF Starts
  <2> QED BY <2>3, <2>5
<1> QED BY <1>2, <1>3, <1>4

\* The two ways a change ends.
LEMMA ChangeFacts ==
    ASSUME Types, NEW w \in Worker, Change(w)
    PROVE  \/ /\ lists \in Lists /\ lists # NoTopology /\ call[w].at = "change"
              /\ call[w].op # "add" => call[w].index \in DOMAIN lists[call[w].kind]
              /\ lists' = Changed(call[w]) /\ lists' \in Lists /\ Goes(w, "change", "dump")
           \/ call[w].at = "change" /\ lists' = lists /\ Becomes(w, Idle)
<1>1. PICK c : c = call[w] /\ c \in Call /\ Meant(c)
  BY DEF Types
<1>2. c.at = "change"
  BY <1>1 DEF Change
<1>3. CASE Present /\ (c.op # "add" => c.index \in DOMAIN lists[c.kind])
  <2>1. lists \in Lists /\ lists # NoTopology
    BY <1>3 DEF Types, Present
  <2>2. lists' = Changed(c) /\ Goes(w, "change", "dump")
    BY <1>1, <1>3 DEF Change
  <2>3. Changed(c) \in Lists
    BY <1>1, <1>2, <1>3, <2>1, ChangedFacts
  <2> QED BY <1>1, <1>2, <1>3, <2>1, <2>2, <2>3
<1>4. CASE ~(Present /\ (c.op # "add" => c.index \in DOMAIN lists[c.kind]))
  BY <1>1, <1>2, <1>4 DEF Change
<1> QED BY <1>3, <1>4

\* The dump is the topology as it is; without a topology nothing is saved.
LEMMA DumpFacts ==
    ASSUME Types, NEW w \in Worker, Dump(w)
    PROVE  \/ /\ lists \in Lists /\ call'[w].at = "write" /\ call'[w].doc = lists
              /\ call'[w] \in Call /\ Meant(call'[w]) /\ \E c : c = call'[w] /\ Becomes(w, c)
           \/ lists = NoTopology /\ Becomes(w, Idle)
<1>1. CASE Present
  <2>1. lists \in Lists
    BY <1>1 DEF Types, Present
  <2>2. PICK c : c = [Idle EXCEPT !.at = "write", !.doc = lists]
    OBVIOUS
  <2>3. Becomes(w, c)
    BY <1>1, <2>2 DEF Dump
  <2>4. c \in Call /\ Meant(c) /\ c.at = "write" /\ c.doc = lists
    BY <2>1, <2>2 DEF Idle, Call, Meant
  <2> QED BY <2>1, <2>3, <2>4, Becoming
<1>2. CASE ~Present
  BY <1>2 DEF Dump, Present
<1> QED BY <1>1, <1>2

\* The assumptions under which the types hold.
Bounded == "vims" \in Kind /\ MaxStops \in Nat

\* Nobody has done anything at first.
LEMMA TypesInit == Bounded /\ Init => Types
<1> SUFFICES ASSUME Bounded, Init PROVE Types
  OBVIOUS
<1>1. lists \in Lists /\ doc \in Lists
  BY DEF Init, Empty, Lists
<1>2. call \in [Worker -> Call] /\ \A w \in Worker : Meant(call[w])
  BY IdleCall DEF Init
<1>3. /\ bound \in [Blueprint \X Area -> Name \cup {Nothing}]
      /\ placed \in [Blueprint \X Area -> SUBSET Name]
      /\ moved \subseteq Blueprint \X Area /\ stops \in Nat /\ stops <= MaxStops
  BY DEF Init, Bounded
<1> QED BY <1>1, <1>2, <1>3 DEF Types

\* What a step leaves of the lists, their document and the calls is well typed.
LEMMA TypesOf ==
    ASSUME Types, lists' = NoTopology \/ lists' \in Lists, doc' = NoTopology \/ doc' \in Lists,
           NEW w \in Worker, NEW c \in Call, Meant(c), Becomes(w, c), BlueprintsKept
    PROVE  Types'
<1>1. call' \in [Worker -> Call] /\ \A v \in Worker : Meant(call'[v])
  BY Becoming
<1> QED BY <1>1 DEF Types, BlueprintsKept

\* Every step keeps the types.
LEMMA TypesInductive == Bounded /\ Types /\ [Next]_topoVars => Types'
<1> SUFFICES ASSUME Bounded, Types, [Next]_topoVars PROVE Types'
  OBVIOUS
<1>1. ASSUME NEW w \in Worker, Change(w) PROVE Types'
  <2>1. UNCHANGED doc /\ BlueprintsKept
    BY <1>1 DEF Change
  <2>2. CASE lists' \in Lists /\ Goes(w, "change", "dump")
    <3>1. call' \in [Worker -> Call] /\ \A v \in Worker : Meant(call'[v])
      BY <2>2, Going
    <3> QED BY <2>1, <2>2, <3>1 DEF Types, BlueprintsKept
  <2>3. CASE lists' = lists /\ Becomes(w, Idle)
    <3>1. lists' = NoTopology \/ lists' \in Lists
      BY <2>3 DEF Types
    <3>2. doc' = NoTopology \/ doc' \in Lists
      BY <2>1 DEF Types
    <3> QED BY <2>1, <2>3, <3>1, <3>2, IdleCall, TypesOf
  <2> QED BY <1>1, <2>2, <2>3, ChangeFacts
<1>2. ASSUME NEW w \in Worker, Dump(w) PROVE Types'
  <2>1. UNCHANGED <<lists, doc>> /\ BlueprintsKept
    BY <1>2 DEF Dump
  <2>2. PICK c \in Call : Meant(c) /\ Becomes(w, c)
    BY <1>2, DumpFacts, IdleCall, Becoming
  <2>3. (lists' = NoTopology \/ lists' \in Lists) /\ (doc' = NoTopology \/ doc' \in Lists)
    BY <2>1 DEF Types
  <2> QED BY <2>1, <2>2, <2>3, TypesOf
<1>3. ASSUME NEW w \in Worker, Write(w) PROVE Types'
  <2>1. Becomes(w, Idle) /\ UNCHANGED lists /\ BlueprintsKept
    BY <1>3 DEF Write
  <2>2. call[w].doc \in Lists /\ doc' = call[w].doc
    BY <1>3 DEF Write, Types, Meant
  <2>3. (lists' = NoTopology \/ lists' \in Lists) /\ doc' \in Lists
    BY <2>1, <2>2 DEF Types
  <2> QED BY <2>1, <2>3, IdleCall, TypesOf
<1>4. ASSUME NEW w \in Worker, CreateTopology(w) PROVE Types'
  <2>1. PICK c : c = [Idle EXCEPT !.at = "dump"] /\ Becomes(w, c)
    BY <1>4 DEF CreateTopology
  <2>2. c \in Call /\ Meant(c)
    BY <2>1 DEF Idle, Call, Meant
  <2>3. lists' \in Lists /\ (doc' = NoTopology \/ doc' \in Lists) /\ BlueprintsKept
    BY <1>4 DEF CreateTopology, Empty, Lists, Types
  <2> QED BY <2>1, <2>2, <2>3, TypesOf
<1>5. ASSUME NEW w \in Worker, EraseTopology(w) PROVE Types'
  <2>1. PICK c : c = [Idle EXCEPT !.at = "forget"] /\ Becomes(w, c)
    BY <1>5 DEF EraseTopology
  <2>2. c \in Call /\ Meant(c)
    BY <2>1 DEF Idle, Call, Meant
  <2>3. (lists' = NoTopology \/ lists' \in Lists) /\ doc' = NoTopology /\ BlueprintsKept
    BY <1>5 DEF EraseTopology, Types
  <2> QED BY <2>1, <2>2, <2>3, TypesOf
<1>6. ASSUME NEW w \in Worker, ForgetTopology(w) PROVE Types'
  <2>1. Becomes(w, Idle) /\ lists' = NoTopology /\ BlueprintsKept /\ doc' = doc
    BY <1>6 DEF ForgetTopology
  <2>2. doc' = NoTopology \/ doc' \in Lists
    BY <2>1 DEF Types
  <2> QED BY <2>1, <2>2, IdleCall, TypesOf
<1>7. ASSUME NEW w \in Worker, NEW c, Starts(w, c) PROVE Types'
  <2>1. (lists' = NoTopology \/ lists' \in Lists) /\ (doc' = NoTopology \/ doc' \in Lists)
    BY <1>7 DEF Starts, Types
  <2> QED BY <1>7, <2>1, TypesOf DEF Starts
<1>8. ASSUME NEW b \in Blueprint, NEW a \in Area, CreateVm(b, a) PROVE Types'
  <2>1. PICK u \in Blueprint \X Area : u = <<b, a>>
    OBVIOUS
  <2>2. VimByArea(lists, a) \in Name \cup {Nothing} /\ VimByArea(lists, a) # Nothing
    BY <1>8, VimFacts DEF Types, Bounded, CreateVm
  <2>3. PICK n : n = Provider(b, a)
    OBVIOUS
  <2>4. n \in Name
    BY <2>1, <2>2, <2>3 DEF Types, Provider
  <2>5. bound' = [bound EXCEPT ![u] = n] /\ placed' = [placed EXCEPT ![u] = @ \cup {n}]
    BY <1>8, <2>1, <2>3 DEF CreateVm
  <2>6. /\ bound' \in [Blueprint \X Area -> Name \cup {Nothing}]
        /\ placed' \in [Blueprint \X Area -> SUBSET Name]
    BY <2>4, <2>5 DEF Types
  <2> QED BY <1>8, <2>6 DEF Types, CreateVm
<1>9. CASE Restart
  <2>1. lists' = NoTopology \/ lists' \in Lists
    BY <1>9 DEF Restart, Types
  <2>2. call' \in [Worker -> Call] /\ \A w \in Worker : Meant(call'[w])
    BY <1>9, IdleCall DEF Restart
  <2>3. \A u \in Blueprint \X Area : Rebound(u) \in Name \cup {Nothing}
    BY VimFacts DEF Types, Bounded, Rebound
  <2>4. /\ bound' \in [Blueprint \X Area -> Name \cup {Nothing}]
        /\ moved' \subseteq Blueprint \X Area
    BY <1>9, <2>3 DEF Restart, Types
  <2>5. stops' \in Nat /\ stops' <= MaxStops
    BY <1>9 DEF Restart, Types, Bounded
  <2> QED BY <1>9, <2>1, <2>2, <2>4, <2>5 DEF Restart, Types
<1>10. CASE UNCHANGED topoVars
  BY <1>10 DEF Types, topoVars
<1> QED BY <1>1, <1>2, <1>3, <1>4, <1>5, <1>6, <1>7, <1>8, <1>9, <1>10, StartFacts DEF Next

LEMMA TypesAgree == Bounded /\ Types => TypeOK
BY DEF Types, TypeOK, Lists, Call, Bounded

\* A topology is its lists or nothing, for any lists, names, areas, blueprints and workers.
THEOREM TopologyTypes == Bounded => (Spec => []TypeOK)
<1> SUFFICES ASSUME Bounded PROVE Spec => []TypeOK
  OBVIOUS
<1>1. Types => TypeOK
  BY TypesAgree
<1> QED BY <1>1, TypesInit, TypesInductive, PTL DEF Spec
-----------------------------------------------------------------------------
\* A list of entries, and the lists of a topology, have a name once.
Single(list) == \A i, j \in DOMAIN list : list[i].name = list[j].name => i = j
SingleNames(l) == l = NoTopology \/ \A k \in Kind : Single(l[k])

\* What c has found is still so: the name is free, or the entry is where it was.
Sure(c, l) ==
    /\ c.op = "add" => \A i \in DOMAIN l[c.kind] : l[c.kind][i].name # c.item.name
    /\ c.op = "update" => c.index \in DOMAIN l[c.kind] /\ l[c.kind][c.index].name = c.item.name

\* The inductive invariant of the names: in memory, in the dump that is about to be
\* written and in the document; one worker is about to change a list, and may.
Unique ==
    /\ SingleNames(lists) /\ SingleNames(doc)
    /\ \A w \in Worker : call[w].at = "write" => SingleNames(call[w].doc)
    /\ \A v, w \in Worker : call[v].at = "change" /\ call[w].at = "change" => v = w
    /\ \A w \in Worker : call[w].at = "change" /\ Present => Sure(call[w], lists)

\* A change that has found what it needs keeps names single.
LEMMA ChangedSingle ==
    ASSUME Types, lists \in Lists, NEW c \in Call, c.at = "change", Meant(c),
           c.op # "add" => c.index \in DOMAIN lists[c.kind], Sure(c, lists), SingleNames(lists),
           lists # NoTopology
    PROVE  SingleNames(Changed(c))
<1>1. /\ c.kind \in Kind /\ c.op \in {"add", "update", "delete"}
      /\ lists[c.kind] \in Seq(Item) /\ Single(lists[c.kind])
  BY DEF Meant, Call, Lists, SingleNames
<1>2. PICK s \in Seq(Item) : s = lists[c.kind] /\ Single(s)
  BY <1>1
<1>3. CASE c.op = "add"
  <2>1. c.item \in Item /\ \A i \in DOMAIN s : s[i].name # c.item.name
    BY <1>2, <1>3 DEF Meant, Sure
  <2>2. Single(Append(s, c.item))
    BY <1>2, <2>1 DEF Single
  <2> QED BY <1>1, <1>2, <1>3, <2>2, ChangedFacts DEF SingleNames
<1>4. CASE c.op = "update"
  <2>1. c.index \in DOMAIN s /\ s[c.index].name = c.item.name
    BY <1>2, <1>4 DEF Sure
  <2>2. Single([s EXCEPT ![c.index] = c.item])
    BY <1>2, <2>1 DEF Single
  <2> QED BY <1>1, <1>2, <1>4, <2>2, ChangedFacts DEF SingleNames
<1>5. CASE c.op = "delete"
  <2>1. c.index \in 1..Len(s)
    BY <1>2, <1>5
  <2>2. PICK r : r = RemoveAt(s, c.index)
    OBVIOUS
  <2>3. /\ r \in Seq(Item) /\ Len(r) = Len(s) - 1
        /\ \A k \in 1..(Len(s) - 1) : r[k] = IF k < c.index THEN s[k] ELSE s[k + 1]
    BY <2>1, <2>2, RemoveAtFacts
  <2>4. Single(r)
    <3> SUFFICES ASSUME NEW i \in 1..Len(r), NEW j \in 1..Len(r), r[i].name = r[j].name
                 PROVE  i = j
      BY <2>3 DEF Single
    <3> DEFINE old(k) == IF k < c.index THEN k ELSE k + 1
    <3>0. Len(s) \in Nat /\ Len(r) = Len(s) - 1
      BY <1>2, <2>3
    <3>1. \A k \in 1..Len(r) : old(k) \in 1..Len(s) /\ r[k] = s[old(k)]
      BY <2>1, <2>3, <3>0
    <3>2. old(i) = old(j)
      <4> HIDE DEF old
      <4>1. old(i) \in 1..Len(s) /\ old(j) \in 1..Len(s) /\ s[old(i)].name = s[old(j)].name
        BY <3>1
      <4> QED BY <1>2, <4>1 DEF Single
    <3> QED BY <2>1, <2>3, <3>2
  <2> QED BY <1>1, <1>2, <1>5, <2>2, <2>4, ChangedFacts DEF SingleNames
<1> QED BY <1>1, <1>3, <1>4, <1>5

\* A step after which nobody is about to change a list who was not before.
LEMMA UniqueOf ==
    ASSUME Types, Unique, SingleNames(lists'), SingleNames(doc'),
           NEW w \in Worker, NEW c, Becomes(w, c), c.at # "change",
           c.at = "write" => SingleNames(c.doc),
           lists' = lists \/ lists' = NoTopology
             \/ \A v \in Worker \ {w} : call[v].at # "change"
    PROVE  Unique'
<1>1. call'[w] = c /\ \A v \in Worker \ {w} : call'[v] = call[v]
  BY Becoming
<1>2. \A v \in Worker : call'[v].at = "write" => SingleNames(call'[v].doc)
  BY <1>1 DEF Unique
<1>3. \A u, v \in Worker : call'[u].at = "change" /\ call'[v].at = "change" => u = v
  BY <1>1 DEF Unique
<1>4. ASSUME NEW v \in Worker, call'[v].at = "change", Present'
      PROVE  Sure(call'[v], lists')
  <2>1. v # w /\ call'[v] = call[v]
    BY <1>1, <1>4
  <2>2. lists' = lists
    BY <1>4, <2>1 DEF Present
  <2> QED BY <1>4, <2>1, <2>2 DEF Unique, Present
<1>5. SingleNames(lists)' /\ SingleNames(doc)'
  BY DEF SingleNames
<1> QED BY <1>2, <1>3, <1>4, <1>5 DEF Unique, SingleNames, Sure

\* Every step keeps names single when lists are changed by one worker at a time.
LEMMA UniqueInductive ==
    Bounded /\ "list" \notin Race /\ Types /\ Unique /\ [Next]_topoVars => Unique'
<1> SUFFICES ASSUME Bounded, "list" \notin Race, Types, Unique, [Next]_topoVars
             PROVE  Unique'
  OBVIOUS
<1>0. \A w \in Worker : Alone(w, "list") => \A v \in Worker \ {w} : call[v].at # "change"
  BY DEF Alone, Stages
<1>1. ASSUME NEW w \in Worker, Change(w) PROVE Unique'
  <2>1. PICK c : c = call[w] /\ c \in Call /\ Meant(c)
    BY DEF Types
  <2>2. doc' = doc /\ \A v \in Worker \ {w} : call[v].at # "change"
    BY <1>1 DEF Change, Unique
  <2>3. CASE /\ lists \in Lists /\ lists # NoTopology /\ c.at = "change"
             /\ c.op # "add" => c.index \in DOMAIN lists[c.kind]
             /\ lists' = Changed(c) /\ Goes(w, "change", "dump")
    <3>1. SingleNames(Changed(c))
      BY <2>1, <2>3, ChangedSingle DEF Unique, Present
    <3>2. PICK d : d = [c EXCEPT !.at = "dump"] /\ Becomes(w, d)
      BY <2>1, <2>3 DEF Goes
    <3>3. d.at = "dump"
      BY <2>1, <3>2 DEF Call
    <3> QED BY <2>2, <2>3, <3>1, <3>2, <3>3, UniqueOf DEF Unique
  <2>4. CASE lists' = lists /\ Becomes(w, Idle)
    BY <2>2, <2>4, UniqueOf DEF Unique, Idle
  <2> QED BY <1>1, <2>1, <2>3, <2>4, ChangeFacts
<1>2. ASSUME NEW w \in Worker, Dump(w) PROVE Unique'
  <2>1. lists' = lists /\ doc' = doc
    BY <1>2 DEF Dump
  <2>2. PICK c : Becomes(w, c) /\ c.at # "change" /\ (c.at = "write" => c.doc = lists)
    BY <1>2, DumpFacts DEF Idle
  <2> QED BY <2>1, <2>2, UniqueOf DEF Unique
<1>3. ASSUME NEW w \in Worker, Write(w) PROVE Unique'
  BY <1>3, UniqueOf DEF Write, Unique, Idle
<1>4. ASSUME NEW w \in Worker, CreateTopology(w) PROVE Unique'
  <2>1. PICK c : c = [Idle EXCEPT !.at = "dump"] /\ Becomes(w, c)
    BY <1>4 DEF CreateTopology
  <2>2. SingleNames(lists') /\ doc' = doc /\ \A v \in Worker \ {w} : call[v].at # "change"
    BY <1>0, <1>4 DEF CreateTopology, Empty, SingleNames, Single
  <2> QED BY <2>1, <2>2, UniqueOf DEF Unique, Idle
<1>5. ASSUME NEW w \in Worker, EraseTopology(w) PROVE Unique'
  <2>1. PICK c : c = [Idle EXCEPT !.at = "forget"] /\ Becomes(w, c)
    BY <1>5 DEF EraseTopology
  <2>2. lists' = lists /\ SingleNames(doc')
    BY <1>5 DEF EraseTopology, SingleNames
  <2> QED BY <2>1, <2>2, UniqueOf DEF Unique, Idle
<1>6. ASSUME NEW w \in Worker, ForgetTopology(w) PROVE Unique'
  <2>1. Becomes(w, Idle) /\ SingleNames(lists') /\ lists' = NoTopology /\ doc' = doc
    BY <1>6 DEF ForgetTopology, SingleNames
  <2> QED BY <2>1, UniqueOf DEF Unique, Idle
<1>7. ASSUME NEW w \in Worker, NEW c, Starts(w, c) PROVE Unique'
  <2>1. call'[w] = c /\ \A v \in Worker \ {w} : call'[v] = call[v] /\ call[v].at # "change"
    BY <1>0, <1>7, Becoming DEF Starts
  <2>2. lists' = lists /\ doc' = doc /\ c.at = "change" /\ c.op \in {"add", "update", "delete"}
    BY <1>7 DEF Starts, Meant, Call
  <2>3. c.kind \in Kind /\ lists[c.kind] \in Seq(Item)
    BY <1>7 DEF Starts, Meant, Types, Present, Lists
  <2>4. Sure(c, lists)
    BY <1>7, <2>3 DEF Starts, Accepts, Sure
  <2> QED BY <2>1, <2>2, <2>4 DEF Unique, Present
<1>8. ASSUME NEW b \in Blueprint, NEW a \in Area, CreateVm(b, a) PROVE Unique'
  BY <1>8 DEF CreateVm, Unique, Present
<1>9. CASE Restart
  BY <1>9 DEF Restart, Unique, Idle
<1>10. CASE UNCHANGED topoVars
  BY <1>10 DEF Unique, topoVars, Present
<1> QED BY <1>1, <1>2, <1>3, <1>4, <1>5, <1>6, <1>7, <1>8, <1>9, <1>10, StartFacts DEF Next

LEMMA UniqueAgrees == Unique => NamesUnique
BY DEF Unique, NamesUnique, SingleNames, Single, Present

LEMMA UniqueInit == Init => Unique
BY DEF Init, Unique, Idle, Empty, SingleNames, Single

\* No list of the topology ever has two entries of a name when no two workers are between
\* looking a list up and changing it: also not after a restart, a topology that was deleted
\* and created again in the middle of a call, or an index that has moved.
THEOREM NamesStayUnique ==
    Bounded /\ "list" \notin Race => (Spec => []NamesUnique)
<1> SUFFICES ASSUME Bounded, "list" \notin Race PROVE Spec => []NamesUnique
  OBVIOUS
<1>1. Init => Unique
  BY UniqueInit
<1>2. Types /\ Unique /\ [Next]_topoVars => Unique'
  BY UniqueInductive
<1>3. Unique => NamesUnique
  BY UniqueAgrees
<1> QED BY <1>1, <1>2, <1>3, TypesInit, TypesInductive, PTL DEF Spec
-----------------------------------------------------------------------------
\* No save is in progress, and somebody is still to dump.
Calm == \A w \in Worker : call[w].at \notin {"write", "forget"}
Ahead == \E w \in Worker : call[w].at = "dump"

\* The inductive invariant of the saves, which go one at a time: what is in the database,
\* or about to be, is the topology, unless somebody is still to dump it.
Saving ==
    /\ \A v, w \in Worker : /\ call[v].at \in {"write", "forget"}
                             /\ call[w].at \in {"write", "forget"} => v = w
    /\ \A w \in Worker : call[w].at = "forget" => doc = NoTopology
    /\ \A w \in Worker : call[w].at = "write" => call[w].doc = lists \/ Ahead
    /\ Calm => doc = lists \/ Ahead
    /\ lists = NoTopology => doc = NoTopology /\ \A w \in Worker : call[w].at # "write"

\* No topology is told from a topology without entries.
Distinct == NoTopology \notin Lists

\* A step that leaves somebody to dump, and begins no save.
LEMMA SavingAhead ==
    ASSUME Types, Saving, NEW w \in Worker, NEW c, Becomes(w, c), c.at \notin {"write", "forget"},
           doc' = doc, lists' # NoTopology,
           c.at = "dump" \/ (lists' = lists /\ call[w].at \in {"idle", "change"})
    PROVE  Saving'
<1>1. call'[w] = c /\ \A v \in Worker \ {w} : call'[v] = call[v]
  BY Becoming
<1>2. CASE c.at = "dump"
  <2>1. Ahead'
    BY <1>1, <1>2 DEF Ahead
  <2> QED BY <1>1, <2>1 DEF Saving, Ahead, Calm
<1>3. CASE lists' = lists /\ call[w].at \in {"idle", "change"}
  <2>1. Ahead => Ahead'
    BY <1>1, <1>3 DEF Ahead
  <2>2. Calm' => Calm
    BY <1>1, <1>3 DEF Calm
  <2> QED BY <1>1, <1>3, <2>1, <2>2 DEF Saving
<1> QED BY <1>2, <1>3

\* Every step keeps Saving when saves are made by one worker at a time.
LEMMA SavingInductive ==
    Bounded /\ Distinct /\ "save" \notin Race /\ Types /\ Saving /\ [Next]_topoVars => Saving'
<1> SUFFICES ASSUME Bounded, Distinct, "save" \notin Race, Types, Saving, [Next]_topoVars
             PROVE  Saving'
  OBVIOUS
<1>0. \A w \in Worker : Alone(w, "save") => \A v \in Worker \ {w} : call[v].at \notin {"write", "forget"}
  BY DEF Alone, Stages
<1>1. ASSUME NEW w \in Worker, Change(w) PROVE Saving'
  <2>1. doc' = doc /\ call[w].at = "change"
    BY <1>1 DEF Change
  <2>2. CASE lists' \in Lists /\ Goes(w, "change", "dump")
    <3>1. call[w] \in Call
      BY DEF Types
    <3>2. PICK c : c = [call[w] EXCEPT !.at = "dump"] /\ Becomes(w, c) /\ c.at = "dump"
      BY <2>2, <3>1 DEF Goes, Call
    <3> QED BY <2>1, <2>2, <3>2, SavingAhead DEF Distinct
  <2>3. CASE lists' = lists /\ Becomes(w, Idle)
    <3>1. CASE lists # NoTopology
      BY <2>1, <2>3, <3>1, SavingAhead DEF Idle
    <3>2. CASE lists = NoTopology
      <4>1. call'[w] = Idle /\ \A v \in Worker \ {w} : call'[v] = call[v]
        BY <2>3, Becoming
      <4> QED BY <2>1, <2>3, <3>2, <4>1 DEF Saving, Idle, Calm, Ahead
    <3> QED BY <3>1, <3>2
  <2> QED BY <1>1, <2>2, <2>3, ChangeFacts
<1>2. ASSUME NEW w \in Worker, Dump(w) PROVE Saving'
  <2>1. /\ lists' = lists /\ doc' = doc
        /\ \A v \in Worker \ {w} : call[v].at \notin {"write", "forget"}
    BY <1>0, <1>2 DEF Dump
  <2>2. CASE lists = NoTopology /\ Becomes(w, Idle)
    <3>1. call'[w] = Idle /\ \A v \in Worker \ {w} : call'[v] = call[v]
      BY <2>2, Becoming
    <3> QED BY <2>1, <2>2, <3>1 DEF Saving, Idle
  <2>3. ASSUME NEW c, Becomes(w, c), c.at = "write", c.doc = lists, lists \in Lists PROVE Saving'
    <3>1. call'[w] = c /\ \A v \in Worker \ {w} : call'[v] = call[v]
      BY <2>3, Becoming
    <3>2. lists' # NoTopology
      BY <2>1, <2>3 DEF Distinct
    <3> QED BY <2>1, <2>3, <3>1, <3>2 DEF Saving, Calm
  <2> QED BY <1>2, <2>2, <2>3, DumpFacts
<1>3. ASSUME NEW w \in Worker, Write(w) PROVE Saving'
  <2>1. call'[w] = Idle /\ \A v \in Worker \ {w} : call'[v] = call[v]
    BY <1>3, Becoming DEF Write
  <2>2. lists' = lists /\ doc' = call[w].doc /\ call[w].at = "write" /\ lists # NoTopology
    BY <1>3 DEF Write, Saving
  <2>3. \A v \in Worker : call'[v].at \notin {"write", "forget"}
    BY <2>1, <2>2 DEF Saving, Idle
  <2>4. Ahead => Ahead'
    BY <2>1, <2>2 DEF Ahead
  <2> QED BY <2>2, <2>3, <2>4 DEF Saving
<1>4. ASSUME NEW w \in Worker, CreateTopology(w) PROVE Saving'
  <2>1. PICK c : c = [Idle EXCEPT !.at = "dump"] /\ Becomes(w, c) /\ c.at = "dump"
    BY <1>4 DEF CreateTopology, Idle
  <2>2. lists' \in Lists /\ doc' = doc
    BY <1>4 DEF CreateTopology, Empty, Lists
  <2> QED BY <2>1, <2>2, SavingAhead DEF Distinct
<1>5. ASSUME NEW w \in Worker, EraseTopology(w) PROVE Saving'
  <2>1. PICK c : c = [Idle EXCEPT !.at = "forget"] /\ Becomes(w, c) /\ c.at = "forget"
    BY <1>5 DEF EraseTopology, Idle
  <2>2. call'[w] = c /\ \A v \in Worker \ {w} : call'[v] = call[v]
    BY <2>1, Becoming
  <2>3. /\ lists' = lists /\ lists # NoTopology /\ doc' = NoTopology
        /\ \A v \in Worker \ {w} : call[v].at \notin {"write", "forget"}
    BY <1>0, <1>5 DEF EraseTopology, Present
  <2> QED BY <2>1, <2>2, <2>3 DEF Saving, Calm
<1>6. ASSUME NEW w \in Worker, ForgetTopology(w) PROVE Saving'
  <2>1. call'[w] = Idle /\ \A v \in Worker \ {w} : call'[v] = call[v]
    BY <1>6, Becoming DEF ForgetTopology
  <2>2. lists' = NoTopology /\ doc' = NoTopology /\ call[w].at = "forget"
    BY <1>6 DEF ForgetTopology, Saving
  <2>3. \A v \in Worker : call'[v].at \notin {"write", "forget"}
    BY <2>1, <2>2 DEF Saving, Idle
  <2> QED BY <2>2, <2>3 DEF Saving
<1>7. ASSUME NEW w \in Worker, NEW c, Starts(w, c) PROVE Saving'
  <2>1. /\ call[w].at = "idle" /\ c.at = "change" /\ Becomes(w, c)
        /\ lists' = lists /\ doc' = doc /\ lists # NoTopology
    BY <1>7 DEF Starts, Present, Idle
  <2> QED BY <2>1, SavingAhead
<1>8. ASSUME NEW b \in Blueprint, NEW a \in Area, CreateVm(b, a) PROVE Saving'
  BY <1>8 DEF CreateVm, Saving, Calm, Ahead
<1>9. CASE Restart
  BY <1>9 DEF Restart, Saving, Idle
<1>10. CASE UNCHANGED topoVars
  BY <1>10 DEF Saving, topoVars, Calm, Ahead
<1> QED BY <1>1, <1>2, <1>3, <1>4, <1>5, <1>6, <1>7, <1>8, <1>9, <1>10, StartFacts DEF Next

LEMMA SavingAgrees == Saving => QuietIsSaved
BY DEF Saving, QuietIsSaved, Calm, Ahead, Idle

LEMMA SavingInit == Distinct /\ Init => Saving
BY DEF Init, Saving, Idle, Empty, Lists, Distinct

\* When saves are made one at a time, the document is the topology whenever no call is in
\* progress, however many calls have changed it between a dump and its write, and also when
\* the topology was deleted or created meanwhile.
THEOREM QuietTopologySaved ==
    Bounded /\ Distinct /\ "save" \notin Race => (Spec => []QuietIsSaved)
<1> SUFFICES ASSUME Bounded, Distinct, "save" \notin Race PROVE Spec => []QuietIsSaved
  OBVIOUS
<1>1. Init => Saving
  BY SavingInit
<1>2. Types /\ Saving /\ [Next]_topoVars => Saving'
  BY SavingInductive
<1>3. Saving => QuietIsSaved
  BY SavingAgrees
<1> QED BY <1>1, <1>2, <1>3, TypesInit, TypesInductive, PTL DEF Spec
-----------------------------------------------------------------------------
\* The inductive form of RightVim: a machine is on a VIM, and an area that is bound to none
\* has none.
Placed ==
    \A u \in Blueprint \X Area :
        /\ Nothing \notin placed[u]
        /\ u \notin moved => placed[u] \subseteq {bound[u]}
                            /\ (bound[u] = Nothing => placed[u] = {})

LEMMA PlacedAgrees == Placed => RightVim
BY DEF Placed, RightVim

LEMMA PlacedInit == Init => Placed
BY DEF Init, Placed

LEMMA PlacedInductive == Types /\ Placed /\ [Next]_topoVars => Placed'
<1> SUFFICES ASSUME Types, Placed, [Next]_topoVars PROVE Placed'
  OBVIOUS
<1>1. ASSUME NEW b \in Blueprint, NEW a \in Area, CreateVm(b, a) PROVE Placed'
  <2>1. PICK u \in Blueprint \X Area : u = <<b, a>>
    OBVIOUS
  <2>2. PICK n : n = Provider(b, a)
    OBVIOUS
  <2>3. n # Nothing /\ (bound[u] # Nothing => n = bound[u])
    BY <1>1, <2>1, <2>2 DEF CreateVm, Provider
  <2>4. /\ bound' = [bound EXCEPT ![u] = n] /\ placed' = [placed EXCEPT ![u] = @ \cup {n}]
        /\ moved' = moved
    BY <1>1, <2>1, <2>2 DEF CreateVm
  <2> QED BY <2>3, <2>4 DEF Types, Placed
<1>2. CASE Restart
  <2>1. /\ placed' = placed /\ \A u \in Blueprint \X Area : bound'[u] = Rebound(u)
        /\ \A u \in Blueprint \X Area : u \notin moved' => placed[u] \subseteq {Rebound(u)}
    BY <1>2 DEF Restart
  <2> QED BY <2>1 DEF Placed
<1>3. CASE UNCHANGED <<bound, placed, moved>>
  BY <1>3 DEF Placed
<1> QED BY <1>1, <1>2, <1>3
    DEF Next, Change, Dump, Write, CreateTopology, EraseTopology, ForgetTopology,
        Add, Update, Delete, Start, BlueprintsKept, topoVars

\* The machines a blueprint has in an area are all on the VIM its provider talks to, however
\* areas move from VIM to VIM and VIMs come and go, unless a restart has found the area with
\* another VIM.
THEOREM MachinesOnBoundVim == Bounded => (Spec => []RightVim)
<1> SUFFICES ASSUME Bounded PROVE Spec => []RightVim
  OBVIOUS
<1>1. Init => Placed
  BY PlacedInit
<1>2. Types /\ Placed /\ [Next]_topoVars => Placed'
  BY PlacedInductive
<1>3. Placed => RightVim
  BY PlacedAgrees
<1> QED BY <1>1, <1>2, <1>3, TypesInit, TypesInductive, PTL DEF Spec
=============================================================================
