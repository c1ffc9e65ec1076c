--------------------------- MODULE ComponentsProofs ---------------------------
(***************************************************************************)
(* The theorems about the PDUs, and what those about the topology, the     *)
(* users, the charts and the rights say of the components side by side:    *)
(* each keeps what it promises, whichever component runs.                  *)
(*                                                                         *)
(* The composition instantiates the modules of the components, and this    *)
(* one the modules of their theorems, with the same values: a part of it   *)
(* says that the two instances are the same.  The other part is the        *)
(* induction: no step changes which component runs, nor what is left of    *)
(* the others.                                                             *)
(***************************************************************************)
EXTENDS MCComponents, TLAPS
-----------------------------------------------------------------------------
(* The PDUs, for any number of blueprints, PDUs and stops: a lock has a     *)
(* holder that will release it, and a blueprint that is gone holds no lock. *)

(* A step of a worker may name a PDU only once it was in the topology, and  *)
(* a PDU that never was is free.                                            *)
Fresh ==
    /\ \A b \in Blueprint : pc[b] \in {"set", "update", "save"} => status[pdu[b]] # "new"
    /\ \A p \in Pdu : status[p] = "new" => lockedBy[p] = Nobody /\ lockedByDb[p] = Nobody

(* What each of the two records of a lock says of the other, at every step. *)
Agreed(p, b) ==
    /\ lockedBy[p] = b => p \in held[b] /\ (p \in heldDb[b] \/ Doing(b, p))
    /\ lockedByDb[p] = b => /\ p \in heldDb[b] \/ Doing(b, p)
                            /\ p \in held[b] \/ (pc[b] = "update" /\ pdu[b] = p)
    /\ pc[b] = "gone" => lockedBy[p] # b

Live(p, b) == status[p] = "listed" /\ <<b, p>> \notin lost
IInv == TypeOK /\ Fresh /\ \A p \in Pdu, b \in Blueprint : Live(p, b) => Agreed(p, b)

(* The initial states satisfy the invariant.                                *)
LEMMA InitIInv == Init => IInv
  BY PduAssumption DEF Init, IInv, TypeOK, Fresh, Live, Agreed, Doing, Steps

(* Every step keeps the types and the fresh PDUs free.                      *)
LEMMA TypeStep == IInv /\ [Next]_pduVars => TypeOK'
<1> SUFFICES ASSUME IInv, [Next]_pduVars PROVE TypeOK'
  OBVIOUS
<1> USE PduAssumption DEF IInv, TypeOK, Steps
<1>1. CASE UNCHANGED pduVars
  BY <1>1 DEF pduVars
<1>2. ASSUME NEW p \in Pdu, CreatePdu(p) \/ DeletePdu(p) PROVE TypeOK'
  BY <1>2 DEF CreatePdu, DeletePdu, DataKept, Runs
<1>3. ASSUME NEW b \in Blueprint, NEW p \in Pdu, CheckFree(b, p) \/ UnlockPdu(b, p) PROVE TypeOK'
  BY <1>3 DEF CheckFree, UnlockPdu, Moves, TopologyKept, DataKept, Runs
<1>4. ASSUME NEW b \in Blueprint, WorkerStep(b) PROVE TypeOK'
  <2>1. CASE LockPdu(b) BY <2>1 DEF LockPdu, Moves, Runs
  <2>2. CASE UpdatePdu(b) BY <2>2 DEF UpdatePdu, Moves, DataKept, Runs
  <2>3. CASE SaveToDb(b) BY <2>3 DEF SaveToDb, Moves, TopologyKept, Runs
  <2>4. CASE Delete(b) BY <2>4 DEF Delete, Moves, TopologyKept, DataKept, Runs
  <2>5. CASE ReleaseOne(b) BY <2>5 DEF ReleaseOne, Releasable, Runs
  <2>6. CASE FinishCleanup(b) BY <2>6 DEF FinishCleanup, Moves, TopologyKept, Runs
  <2> QED BY <1>4, <2>1, <2>2, <2>3, <2>4, <2>5, <2>6 DEF WorkerStep
<1>5. CASE SaveTopology
  BY <1>5 DEF SaveTopology, DataKept, Runs
<1>6. CASE Restart
  BY <1>6 DEF Restart, Unrecorded
<1> QED BY <1>1, <1>2, <1>3, <1>4, <1>5, <1>6 DEF Next

LEMMA FreshStep == IInv /\ [Next]_pduVars => Fresh'
<1> SUFFICES ASSUME IInv, [Next]_pduVars PROVE Fresh'
  OBVIOUS
<1> USE PduAssumption DEF IInv, TypeOK, Steps, Fresh
<1>1. CASE UNCHANGED pduVars
  BY <1>1 DEF pduVars
<1>2. ASSUME NEW p \in Pdu, CreatePdu(p) \/ DeletePdu(p) PROVE Fresh'
  BY <1>2 DEF CreatePdu, DeletePdu, DataKept, Runs
<1>3. ASSUME NEW b \in Blueprint, NEW p \in Pdu, CheckFree(b, p) \/ UnlockPdu(b, p) PROVE Fresh'
  BY <1>3 DEF CheckFree, UnlockPdu, Moves, TopologyKept, DataKept, Runs
<1>4. ASSUME NEW b \in Blueprint, WorkerStep(b) PROVE Fresh'
  <2>1. CASE LockPdu(b) BY <2>1 DEF LockPdu, Moves, Runs
  <2>2. CASE UpdatePdu(b) BY <2>2 DEF UpdatePdu, Moves, DataKept, Runs
  <2>3. CASE SaveToDb(b) BY <2>3 DEF SaveToDb, Moves, TopologyKept, Runs
  <2>4. CASE Delete(b) BY <2>4 DEF Delete, Moves, TopologyKept, DataKept, Runs
  <2>5. CASE ReleaseOne(b) BY <2>5 DEF ReleaseOne, Releasable, Runs
  <2>6. CASE FinishCleanup(b) BY <2>6 DEF FinishCleanup, Moves, TopologyKept, Runs
  <2> QED BY <1>4, <2>1, <2>2, <2>3, <2>4, <2>5, <2>6 DEF WorkerStep
<1>5. CASE SaveTopology
  BY <1>5 DEF SaveTopology, DataKept, Runs
<1>6. CASE Restart
  BY <1>6 DEF Restart
<1> QED BY <1>1, <1>2, <1>3, <1>4, <1>5, <1>6 DEF Next

(* Every step keeps the two records of a lock in agreement.                 *)
LEMMA AgreedStep ==
  ASSUME IInv, [Next]_pduVars, NEW q \in Pdu, NEW c \in Blueprint, Live(q, c)'
  PROVE  Agreed(q, c)'
<1> USE PduAssumption DEF IInv, TypeOK, Steps, Live, Agreed, Doing
<1>1. CASE UNCHANGED pduVars
  BY <1>1 DEF pduVars
<1>2. ASSUME NEW p \in Pdu, CreatePdu(p) \/ DeletePdu(p) PROVE Agreed(q, c)'
  BY <1>2 DEF CreatePdu, DeletePdu, DataKept, Runs, Fresh
<1>3. ASSUME NEW b \in Blueprint, NEW p \in Pdu, CheckFree(b, p) \/ UnlockPdu(b, p)
      PROVE Agreed(q, c)'
  BY <1>3 DEF CheckFree, UnlockPdu, Moves, TopologyKept, DataKept, Runs
<1>4. ASSUME NEW b \in Blueprint, WorkerStep(b) PROVE Agreed(q, c)'
  <2>1. CASE LockPdu(b) BY <2>1 DEF LockPdu, Moves, Runs
  <2>2. CASE UpdatePdu(b) BY <2>2 DEF UpdatePdu, Moves, DataKept, Runs
  <2>3. CASE SaveToDb(b) BY <2>3 DEF SaveToDb, Moves, TopologyKept, Runs
  <2>4. CASE Delete(b) BY <2>4 DEF Delete, Moves, TopologyKept, DataKept, Runs
  <2>5. CASE ReleaseOne(b) BY <2>5 DEF ReleaseOne, Releasable, Runs
  <2>6. CASE FinishCleanup(b) BY <2>6 DEF FinishCleanup, Releasable, Moves, TopologyKept, Runs
  <2> QED BY <1>4, <2>1, <2>2, <2>3, <2>4, <2>5, <2>6 DEF WorkerStep
<1>5. CASE SaveTopology
  BY <1>5 DEF SaveTopology, DataKept, Runs
<1>6. CASE Restart
  BY <1>6 DEF Restart, Unrecorded
<1> QED BY <1>1, <1>2, <1>3, <1>4, <1>5, <1>6 DEF Next

LEMMA Inductive == Spec => []IInv
<1>1. IInv /\ [Next]_pduVars => IInv'
  BY TypeStep, FreshStep, AgreedStep DEF IInv
<1> QED BY InitIInv, <1>1, PTL DEF Spec

(* The variables keep their types, whatever the interleaving.               *)
THEOREM PduTypes == Spec => []TypeOK
<1>1. IInv => TypeOK
  BY DEF IInv
<1> QED BY Inductive, <1>1, PTL

(* A lock is recorded by the blueprint that has it, in memory and in the    *)
(* database, but for the locks a stop leaves between two saves: lock_pdu,   *)
(* unlock_pdu and the two saves of each.                                    *)
THEOREM PduLocksRecorded == Spec => []LocksRecorded
<1>1. IInv => LocksRecorded
  BY DEF IInv, LocksRecorded, Live, Agreed
<1> QED BY Inductive, <1>1, PTL

(* final_cleanup leaves no lock behind.                                     *)
THEOREM PduGoneReleased == Spec => []GoneReleased
<1>1. IInv => GoneReleased
  BY DEF IInv, GoneReleased, Live, Agreed
<1> QED BY Inductive, <1>1, PTL

(* Both together, as the run on the components checks it: a lock is known   *)
(* to its holder, and goes with it.                                         *)
THEOREM PduLocksFollow == Spec => []LocksFollow
<1>1. LocksRecorded /\ GoneReleased => LocksFollow
  BY DEF LocksFollow
<1> QED BY PduLocksRecorded, PduGoneReleased, <1>1, PTL

-----------------------------------------------------------------------------
(* The topology.  The theorems about it hold for any number of workers,     *)
(* names, areas and blueprints; here they are taken for the values that     *)
(* the composition gives them.  What follows up to TopologyNext says that   *)
(* the two instances of the module are the same.                            *)
TopologyFacts == INSTANCE TopologyProofs WITH
    call <- topologyCall, Kind <- {"vims"}, Name <- {"x", "y"}, Area <- {"a1"},
    Blueprint <- {"b"}, Worker <- Thread,
    Race <- {}

LEMMA LookupSame ==
    /\ \A k, n : Topologies!Index(k, n) = TopologyFacts!Index(k, n)
    /\ \A l, a : Topologies!VimByArea(l, a) = TopologyFacts!VimByArea(l, a)
BY DEF Topologies!Index, TopologyFacts!Index, Topologies!Searched, TopologyFacts!Searched,
       Topologies!SelectInSeq, TopologyFacts!SelectInSeq, Topologies!Min, TopologyFacts!Min,
       Topologies!VimByArea, TopologyFacts!VimByArea

LEMMA RecordsSame ==
    /\ Topologies!Idle = TopologyFacts!Idle /\ Topologies!Item = TopologyFacts!Item
    /\ Topologies!Empty = TopologyFacts!Empty /\ Topologies!Editable = TopologyFacts!Editable
    /\ Topologies!Present <=> TopologyFacts!Present
    /\ Topologies!BlueprintsKept <=> TopologyFacts!BlueprintsKept
    /\ \A c : Topologies!Changed(c) = TopologyFacts!Changed(c)
    /\ \A k, x : Topologies!Accepts(k, x) <=> TopologyFacts!Accepts(k, x)
    /\ \A w, c : Topologies!Becomes(w, c) <=> TopologyFacts!Becomes(w, c)
    /\ \A w, s : Topologies!Alone(w, s) <=> TopologyFacts!Alone(w, s)
BY DEF Topologies!Idle, TopologyFacts!Idle, Topologies!Item, TopologyFacts!Item, Topologies!Empty,
       TopologyFacts!Empty, Topologies!Editable, TopologyFacts!Editable, Topologies!Present,
       TopologyFacts!Present, Topologies!BlueprintsKept, TopologyFacts!BlueprintsKept,
       Topologies!Changed, TopologyFacts!Changed, Topologies!Accepts, TopologyFacts!Accepts,
       Topologies!Becomes, TopologyFacts!Becomes, Topologies!Alone, TopologyFacts!Alone,
       Topologies!Stages, TopologyFacts!Stages

LEMMA WorkersSame == \A w :
    /\ Topologies!Change(w) <=> TopologyFacts!Change(w)
    /\ Topologies!Dump(w) <=> TopologyFacts!Dump(w)
    /\ Topologies!Write(w) <=> TopologyFacts!Write(w)
    /\ Topologies!CreateTopology(w) <=> TopologyFacts!CreateTopology(w)
    /\ Topologies!EraseTopology(w) <=> TopologyFacts!EraseTopology(w)
    /\ Topologies!ForgetTopology(w) <=> TopologyFacts!ForgetTopology(w)
<1> TAKE w
<1>1. Topologies!Change(w) <=> TopologyFacts!Change(w)
  BY RecordsSame
     DEF Topologies!Change, TopologyFacts!Change, Topologies!Goes, TopologyFacts!Goes
<1>2. /\ Topologies!Dump(w) <=> TopologyFacts!Dump(w)
      /\ Topologies!Write(w) <=> TopologyFacts!Write(w)
  BY RecordsSame
     DEF Topologies!Dump, TopologyFacts!Dump, Topologies!Write, TopologyFacts!Write
<1>3. /\ Topologies!CreateTopology(w) <=> TopologyFacts!CreateTopology(w)
      /\ Topologies!EraseTopology(w) <=> TopologyFacts!EraseTopology(w)
      /\ Topologies!ForgetTopology(w) <=> TopologyFacts!ForgetTopology(w)
  BY RecordsSame
     DEF Topologies!CreateTopology, TopologyFacts!CreateTopology, Topologies!EraseTopology,
         TopologyFacts!EraseTopology, Topologies!ForgetTopology,
         TopologyFacts!ForgetTopology
<1> QED BY <1>1, <1>2, <1>3

LEMMA RequestsSame ==
    /\ \A w, k, x : Topologies!Add(w, k, x) <=> TopologyFacts!Add(w, k, x)
    /\ \A w, k, x : Topologies!Update(w, k, x) <=> TopologyFacts!Update(w, k, x)
    /\ \A w, k, n : Topologies!Delete(w, k, n) <=> TopologyFacts!Delete(w, k, n)
    /\ \A b, a : Topologies!CreateVm(b, a) <=> TopologyFacts!CreateVm(b, a)
    /\ Topologies!Restart <=> TopologyFacts!Restart
<1>1. \A w, k, x : Topologies!Add(w, k, x) <=> TopologyFacts!Add(w, k, x)
  BY LookupSame, RecordsSame
     DEF Topologies!Add, TopologyFacts!Add, Topologies!Start, TopologyFacts!Start
<1>2. \A w, k, x : Topologies!Update(w, k, x) <=> TopologyFacts!Update(w, k, x)
  BY LookupSame, RecordsSame
     DEF Topologies!Update, TopologyFacts!Update, Topologies!Start, TopologyFacts!Start
<1>3. \A w, k, n : Topologies!Delete(w, k, n) <=> TopologyFacts!Delete(w, k, n)
  BY LookupSame, RecordsSame
     DEF Topologies!Delete, TopologyFacts!Delete, Topologies!Start, TopologyFacts!Start
<1>4. \A b, a : Topologies!CreateVm(b, a) <=> TopologyFacts!CreateVm(b, a)
  BY LookupSame, RecordsSame
     DEF Topologies!CreateVm, TopologyFacts!CreateVm, Topologies!Provider,
         TopologyFacts!Provider
<1>5. Topologies!Restart <=> TopologyFacts!Restart
  BY LookupSame, RecordsSame
     DEF Topologies!Restart, TopologyFacts!Restart, Topologies!Rebound,
         TopologyFacts!Rebound
<1> QED BY <1>1, <1>2, <1>3, <1>4, <1>5

LEMMA TopologyNext ==
    /\ Topologies!Init <=> TopologyFacts!Init
    /\ Topologies!Next <=> TopologyFacts!Next
    /\ TopologyFacts!topoVars = <<lists, doc, topologyCall, bound, placed, moved, stops>>
BY RecordsSame, WorkersSame, RequestsSame
   DEF Topologies!Init, TopologyFacts!Init, Topologies!Next, TopologyFacts!Next, TopologyFacts!topoVars

LEMMA TopologySame ==
    /\ Topologies!TypeOK <=> TopologyFacts!TypeOK
    /\ Topologies!NamesUnique <=> TopologyFacts!NamesUnique
    /\ Topologies!QuietIsSaved <=> TopologyFacts!QuietIsSaved
    /\ Topologies!RightVim <=> TopologyFacts!RightVim
BY RecordsSame
   DEF Topologies!TypeOK, TopologyFacts!TypeOK, Topologies!NamesUnique, TopologyFacts!NamesUnique,
       Topologies!QuietIsSaved, TopologyFacts!QuietIsSaved, Topologies!RightVim,
       TopologyFacts!RightVim
-----------------------------------------------------------------------------
(* The accounts and the tokens, in the same way.                            *)
UserFacts == INSTANCE UsersProofs WITH
    object <- user, db <- userDb, call <- userCall, Name <- {"admin", "user"},
    Admin <- "admin", Password <- {"first", "second"}, Actor <- Thread,
    Together <- FALSE, MaxObjects <- 3, MaxPairs <- 2

LEMMA LoadSame ==
    /\ Accounts!Free = UserFacts!Free /\ Accounts!NoUser = UserFacts!NoUser
    /\ \A n : Accounts!Doc(n) = UserFacts!Doc(n) /\ Accounts!Busy(n) = UserFacts!Busy(n)
    /\ \A docs : Accounts!LoadedObjects(docs) = UserFacts!LoadedObjects(docs)
    /\ \A docs : Accounts!LoadedUsers(docs) = UserFacts!LoadedUsers(docs)
<1>1. /\ Accounts!Free = UserFacts!Free /\ Accounts!NoUser = UserFacts!NoUser
      /\ \A n : Accounts!Doc(n) = UserFacts!Doc(n) /\ Accounts!Busy(n) = UserFacts!Busy(n)
  BY DEF Accounts!Free, UserFacts!Free, Accounts!NoUser, UserFacts!NoUser, Accounts!Doc,
         UserFacts!Doc, Accounts!Busy, UserFacts!Busy
<1>2. \A S : Accounts!Cardinality(S) = UserFacts!Cardinality(S)
  BY DEF Accounts!Cardinality, UserFacts!Cardinality
<1>3. Accounts!Index = UserFacts!Index
  BY <1>2 DEF Accounts!Index, UserFacts!Index
<1>4. \A docs : Accounts!LoadedObjects(docs) = UserFacts!LoadedObjects(docs)
  BY <1>2, <1>3 DEF Accounts!LoadedObjects, UserFacts!LoadedObjects
<1>5. \A docs : Accounts!LoadedUsers(docs) = UserFacts!LoadedUsers(docs)
  BY <1>1, <1>3 DEF Accounts!LoadedUsers, UserFacts!LoadedUsers
<1> QED BY <1>1, <1>4, <1>5

LEMMA StepsSame == \A a :
    /\ Accounts!Put(a) <=> UserFacts!Put(a)
    /\ Accounts!SaveFind(a) <=> UserFacts!SaveFind(a)
    /\ Accounts!SaveWrite(a) <=> UserFacts!SaveWrite(a)
    /\ Accounts!DeletePop(a) <=> UserFacts!DeletePop(a)
    /\ Accounts!DeleteErase(a) <=> UserFacts!DeleteErase(a)
    /\ Accounts!SetAccess(a) <=> UserFacts!SetAccess(a)
    /\ Accounts!SetRefresh(a) <=> UserFacts!SetRefresh(a)
    /\ Accounts!UpdateCheck(a) <=> UserFacts!UpdateCheck(a)
<1> TAKE a
<1>1. /\ Accounts!Put(a) <=> UserFacts!Put(a)
      /\ Accounts!SaveFind(a) <=> UserFacts!SaveFind(a)
      /\ Accounts!SaveWrite(a) <=> UserFacts!SaveWrite(a)
  BY LoadSame
     DEF Accounts!Put, UserFacts!Put, Accounts!SaveFind, UserFacts!SaveFind,
         Accounts!SaveWrite, UserFacts!SaveWrite, Accounts!Goto, UserFacts!Goto,
         Accounts!Return, UserFacts!Return
<1>2. /\ Accounts!DeletePop(a) <=> UserFacts!DeletePop(a)
      /\ Accounts!DeleteErase(a) <=> UserFacts!DeleteErase(a)
  BY LoadSame
     DEF Accounts!DeletePop, UserFacts!DeletePop, Accounts!DeleteErase,
         UserFacts!DeleteErase, Accounts!Goto, UserFacts!Goto, Accounts!Return,
         UserFacts!Return
<1>3. /\ Accounts!SetAccess(a) <=> UserFacts!SetAccess(a)
      /\ Accounts!SetRefresh(a) <=> UserFacts!SetRefresh(a)
      /\ Accounts!UpdateCheck(a) <=> UserFacts!UpdateCheck(a)
  BY LoadSame
     DEF Accounts!SetAccess, UserFacts!SetAccess, Accounts!SetRefresh,
         UserFacts!SetRefresh, Accounts!UpdateCheck, UserFacts!UpdateCheck, Accounts!Goto,
         UserFacts!Goto, Accounts!Return, UserFacts!Return
<1> QED BY <1>1, <1>2, <1>3

LEMMA CallsSame ==
    /\ \A a, n : Accounts!DeleteCheck(a, n) <=> UserFacts!DeleteCheck(a, n)
    /\ \A a, n, p : Accounts!AddCheck(a, n, p) <=> UserFacts!AddCheck(a, n, p)
    /\ \A a, n, p : Accounts!Login(a, n, p) <=> UserFacts!Login(a, n, p)
    /\ \A a, n, k : Accounts!Refresh(a, n, k) <=> UserFacts!Refresh(a, n, k)
    /\ \A a, n, k : Accounts!Logout(a, n, k) <=> UserFacts!Logout(a, n, k)
<1>1. \A a, n : Accounts!DeleteCheck(a, n) <=> UserFacts!DeleteCheck(a, n)
  BY LoadSame
     DEF Accounts!DeleteCheck, UserFacts!DeleteCheck,
         Accounts!Begin, UserFacts!Begin
<1>2. \A a, n, p : Accounts!AddCheck(a, n, p) <=> UserFacts!AddCheck(a, n, p)
  BY LoadSame
     DEF Accounts!AddCheck, UserFacts!AddCheck,
         Accounts!Begin, UserFacts!Begin
<1>3. \A a, n, p : Accounts!Login(a, n, p) <=> UserFacts!Login(a, n, p)
  BY LoadSame
     DEF Accounts!Login, UserFacts!Login, Accounts!Begin,
         UserFacts!Begin
<1>4. \A a, n, k : Accounts!Refresh(a, n, k) <=> UserFacts!Refresh(a, n, k)
  BY LoadSame
     DEF Accounts!Refresh, UserFacts!Refresh,
         Accounts!Begin, UserFacts!Begin
<1>5. \A a, n, k : Accounts!Logout(a, n, k) <=> UserFacts!Logout(a, n, k)
  BY LoadSame
     DEF Accounts!Logout, UserFacts!Logout, Accounts!Valid, UserFacts!Valid,
         Accounts!Begin, UserFacts!Begin
<1> QED BY <1>1, <1>2, <1>3, <1>4, <1>5

LEMMA RestartSame == Accounts!Restart <=> UserFacts!Restart
BY LoadSame DEF Accounts!Restart, UserFacts!Restart

LEMMA UsersNext ==
    /\ Accounts!Init <=> UserFacts!Init
    /\ Accounts!Next <=> UserFacts!Next
    /\ UserFacts!vars = <<user, users, userDb, pairs, userCall, account, mixed, stops>>
BY LoadSame, StepsSame, CallsSame, RestartSame
   DEF Accounts!Init, UserFacts!Init, Accounts!Next, UserFacts!Next, Accounts!Step, UserFacts!Step, UserFacts!vars

LEMMA UsersSame ==
    /\ Accounts!TypeOK <=> UserFacts!TypeOK
    /\ Accounts!AccountsDurable <=> UserFacts!AccountsDurable
    /\ Accounts!OneDocument <=> UserFacts!OneDocument
    /\ Accounts!PairTogether <=> UserFacts!PairTogether
BY LoadSame
   DEF Accounts!TypeOK, UserFacts!TypeOK, Accounts!Call, UserFacts!Call, Accounts!AccountsDurable,
       UserFacts!AccountsDurable, Accounts!Remembered, UserFacts!Remembered,
       Accounts!OneDocument, UserFacts!OneDocument, Accounts!PairTogether,
       UserFacts!PairTogether

LEMMA UsersBounded == UserFacts!Bounded
<1>1. UserFacts!IsFiniteSet({"admin"}) /\ UserFacts!Cardinality({"admin"}) = 1
  BY UserFacts!FS_Singleton
<1>2. PICK names : names = {"admin", "user"}
  OBVIOUS
<1>3. names = {"admin"} \cup {"user"} /\ "user" \notin {"admin"}
  BY <1>2
<1>4. UserFacts!IsFiniteSet(names) /\ UserFacts!Cardinality(names) = 2
  BY <1>1, <1>3, UserFacts!FS_AddElement
<1>5. UserFacts!IsFiniteSet({"admin", "user"}) /\ UserFacts!Cardinality({"admin", "user"}) <= 3
  BY <1>2, <1>4
<1>6. UserFacts!NoUser \notin {"first", "second"}
  BY DEF UserFacts!NoUser
<1>7. "admin" \in {"admin", "user"} /\ FALSE \in BOOLEAN /\ 2 \in Nat /\ 3 \in Nat
  OBVIOUS
<1> QED BY <1>5, <1>6, <1>7, PduAssumption DEF UserFacts!Bounded
-----------------------------------------------------------------------------
(* The charts on the clusters, likewise.                                    *)
ChartFacts == INSTANCE HelmChartsProofs WITH
    listed <- clusters, pc <- chart, bound <- chartCluster, NoCluster <- "no cluster",
    MaxUpdates <- 2, MaxFaults <- 1

LEMMA ChartStepsSame ==
    /\ Charts!AreaCluster = ChartFacts!AreaCluster
    /\ \A b, from, to : Charts!Moves(b, from, to) <=> ChartFacts!Moves(b, from, to)
    /\ Charts!Fault <=> ChartFacts!Fault
    /\ \A b : Charts!Leaves(b) <=> ChartFacts!Leaves(b)
    /\ Charts!TopologyKept <=> ChartFacts!TopologyKept
    /\ Charts!ClustersKept <=> ChartFacts!ClustersKept
    /\ Charts!DataKept <=> ChartFacts!DataKept
    /\ Charts!Runs <=> ChartFacts!Runs
    /\ \A b : Charts!Loaded(b) <=> ChartFacts!Loaded(b)
BY DEF Charts!AreaCluster, ChartFacts!AreaCluster, Charts!Moves, ChartFacts!Moves, Charts!Fault,
       ChartFacts!Fault, Charts!Leaves, ChartFacts!Leaves, Charts!TopologyKept,
       ChartFacts!TopologyKept, Charts!ClustersKept, ChartFacts!ClustersKept, Charts!DataKept,
       ChartFacts!DataKept, Charts!Runs, ChartFacts!Runs, Charts!Loaded, ChartFacts!Loaded

LEMMA WorksSame == \A b : Charts!Works(b) <=> ChartFacts!Works(b)
<1> TAKE b
<1>1. /\ Charts!Create(b) <=> ChartFacts!Create(b)
      /\ Charts!CreateNamespace(b) <=> ChartFacts!CreateNamespace(b)
      /\ Charts!InstallRelease(b) <=> ChartFacts!InstallRelease(b)
  BY ChartStepsSame
     DEF Charts!Create, ChartFacts!Create, Charts!CreateNamespace,
         ChartFacts!CreateNamespace, Charts!InstallRelease,
         ChartFacts!InstallRelease
<1>2. /\ Charts!RecordNamespace(b) <=> ChartFacts!RecordNamespace(b)
      /\ Charts!ListBlueprint(b) <=> ChartFacts!ListBlueprint(b)
      /\ Charts!UpdateValues(b) <=> ChartFacts!UpdateValues(b)
  BY ChartStepsSame
     DEF Charts!RecordNamespace, ChartFacts!RecordNamespace, Charts!ListBlueprint,
         ChartFacts!ListBlueprint, Charts!UpdateValues, ChartFacts!UpdateValues
<1>3. /\ Charts!Delete(b) <=> ChartFacts!Delete(b)
      /\ Charts!Uninstall(b) <=> ChartFacts!Uninstall(b)
      /\ Charts!Unlist(b) <=> ChartFacts!Unlist(b)
  BY ChartStepsSame
     DEF Charts!Delete, ChartFacts!Delete, Charts!Uninstall, ChartFacts!Uninstall,
         Charts!Unlist, ChartFacts!Unlist
<1>4. /\ Charts!Cleanup(b) <=> ChartFacts!Cleanup(b)
      /\ Charts!ForgetByForce(b) <=> ChartFacts!ForgetByForce(b)
  BY ChartStepsSame
     DEF Charts!Cleanup, ChartFacts!Cleanup, Charts!ForgetByForce,
         ChartFacts!ForgetByForce
<1> QED BY <1>1, <1>2, <1>3, <1>4 DEF Charts!Works, ChartFacts!Works

LEMMA ClusterStepsSame == \A c :
    /\ Charts!AddCluster(c) <=> ChartFacts!AddCluster(c)
    /\ Charts!ReplaceCluster(c) <=> ChartFacts!ReplaceCluster(c)
    /\ Charts!DeleteCluster(c) <=> ChartFacts!DeleteCluster(c)
    /\ Charts!ForceDelete(c) <=> ChartFacts!ForceDelete(c)
<1>1. \A s, i : Charts!RemoveAt(s, i) = ChartFacts!RemoveAt(s, i)
  BY DEF Charts!RemoveAt, ChartFacts!RemoveAt
<1>2. Charts!Range(clusters) = ChartFacts!Range(clusters)
  BY DEF Charts!Range, ChartFacts!Range
<1> QED BY <1>1, <1>2, ChartStepsSame
   DEF Charts!AddCluster, ChartFacts!AddCluster, Charts!ReplaceCluster, ChartFacts!ReplaceCluster,
       Charts!DeleteCluster, ChartFacts!DeleteCluster, Charts!ForceDelete,
       ChartFacts!ForceDelete, Charts!DropCluster, ChartFacts!DropCluster, Charts!Update,
       ChartFacts!Update, Charts!UsersOnly, ChartFacts!UsersOnly

LEMMA ChartsNext ==
    /\ Charts!Init <=> ChartFacts!Init
    /\ Charts!Next <=> ChartFacts!Next
<1>1. Charts!Restart <=> ChartFacts!Restart
  BY ChartStepsSame DEF Charts!Restart, ChartFacts!Restart
<1>2. Charts!Init <=> ChartFacts!Init
  BY DEF Charts!Init, ChartFacts!Init
<1> QED BY <1>1, <1>2, WorksSame, ClusterStepsSame DEF Charts!Next, ChartFacts!Next

LEMMA ChartsSame ==
    /\ Charts!TypeOK <=> ChartFacts!TypeOK
    /\ Charts!RunningIsListed <=> ChartFacts!RunningIsListed
    /\ Charts!GoneIsClean <=> ChartFacts!GoneIsClean
    /\ Charts!ListedIsThere <=> ChartFacts!ListedIsThere
<1>1. Charts!Range(clusters) = ChartFacts!Range(clusters)
  BY DEF Charts!Range, ChartFacts!Range
<1> QED BY <1>1
   DEF Charts!TypeOK, ChartFacts!TypeOK, Charts!States, ChartFacts!States,
       Charts!RunningIsListed, ChartFacts!RunningIsListed, Charts!GoneIsClean,
       ChartFacts!GoneIsClean, Charts!ListedIsThere, ChartFacts!ListedIsThere
-----------------------------------------------------------------------------
(* The rights in the namespaces, likewise.                                  *)
AccessFacts == INSTANCE KubeAccessProofs WITH
    call <- accessCall, Namespace <- {"n"}, User <- {"u"}, Worker <- Thread,
    Overlap <- FALSE, MaxCreations <- 2, MaxFaults <- 1

LEMMA AccessCallsSame ==
    /\ Access!Free = AccessFacts!Free /\ Access!Operations = AccessFacts!Operations
    /\ \A o : Access!Steps(o) = AccessFacts!Steps(o)
    /\ \A w, s : Access!At(w, s) <=> AccessFacts!At(w, s)
    /\ \A w : Access!Key(w) = AccessFacts!Key(w)
    /\ \A w : Access!Active(w) <=> AccessFacts!Active(w)
    /\ Access!objects = AccessFacts!objects
<1>1. Access!Free = AccessFacts!Free /\ Access!Operations = AccessFacts!Operations
  BY DEF Access!Free, AccessFacts!Free, Access!Operations, AccessFacts!Operations
<1>2. \A o : Access!Steps(o) = AccessFacts!Steps(o)
  BY DEF Access!Steps, AccessFacts!Steps
<1> QED BY <1>1, <1>2
   DEF Access!At, AccessFacts!At, Access!Key, AccessFacts!Key, Access!Active, AccessFacts!Active,
       Access!objects, AccessFacts!objects

LEMMA ReturnsSame == \A w :
    /\ Access!Done(w) <=> AccessFacts!Done(w)
    /\ Access!Raise(w) <=> AccessFacts!Raise(w)
BY AccessCallsSame DEF Access!Done, AccessFacts!Done, Access!Raise, AccessFacts!Raise

LEMMA AccessStepsSame == \A w :
    /\ Access!CreateAccount(w) <=> AccessFacts!CreateAccount(w)
    /\ Access!CreateRole(w) <=> AccessFacts!CreateRole(w)
    /\ Access!CheckAccount(w) <=> AccessFacts!CheckAccount(w)
    /\ Access!Bind(w) <=> AccessFacts!Bind(w)
    /\ Access!CreateSecret(w) <=> AccessFacts!CreateSecret(w)
    /\ Access!ReadSecret(w) <=> AccessFacts!ReadSecret(w)
    /\ Access!RequestCertificate(w) <=> AccessFacts!RequestCertificate(w)
    /\ Access!ApproveCertificate(w) <=> AccessFacts!ApproveCertificate(w)
    /\ Access!ApiFails(w) <=> AccessFacts!ApiFails(w)
<1> TAKE w
<1>1. /\ Access!CreateAccount(w) <=> AccessFacts!CreateAccount(w)
      /\ Access!CreateRole(w) <=> AccessFacts!CreateRole(w)
      /\ Access!CheckAccount(w) <=> AccessFacts!CheckAccount(w)
  BY AccessCallsSame, ReturnsSame
     DEF Access!CreateAccount, AccessFacts!CreateAccount, Access!CreateRole,
         AccessFacts!CreateRole, Access!CheckAccount, AccessFacts!CheckAccount,
         Access!objects, AccessFacts!objects
<1>2. /\ Access!Bind(w) <=> AccessFacts!Bind(w)
      /\ Access!CreateSecret(w) <=> AccessFacts!CreateSecret(w)
      /\ Access!ReadSecret(w) <=> AccessFacts!ReadSecret(w)
  BY AccessCallsSame, ReturnsSame
     DEF Access!Bind, AccessFacts!Bind, Access!CreateSecret, AccessFacts!CreateSecret,
         Access!ReadSecret, AccessFacts!ReadSecret, Access!objects, AccessFacts!objects
<1>3. /\ Access!RequestCertificate(w) <=> AccessFacts!RequestCertificate(w)
      /\ Access!ApproveCertificate(w) <=> AccessFacts!ApproveCertificate(w)
      /\ Access!ApiFails(w) <=> AccessFacts!ApiFails(w)
  BY AccessCallsSame, ReturnsSame
     DEF Access!RequestCertificate, AccessFacts!RequestCertificate,
         Access!ApproveCertificate, AccessFacts!ApproveCertificate, Access!ApiFails,
         AccessFacts!ApiFails, Access!objects, AccessFacts!objects
<1> QED BY <1>1, <1>2, <1>3

LEMMA NamespacesSame ==
    /\ \A w, o, n, u : Access!Call(w, o, n, u) <=> AccessFacts!Call(w, o, n, u)
    /\ \A n, u : Access!GiveClusterAdmin(n, u) <=> AccessFacts!GiveClusterAdmin(n, u)
    /\ \A n : Access!CreateNamespace(n) <=> AccessFacts!CreateNamespace(n)
    /\ \A n : Access!DeleteNamespace(n) <=> AccessFacts!DeleteNamespace(n)
    /\ \A n : Access!Terminate(n) <=> AccessFacts!Terminate(n)
<1>1. /\ \A w, o, n, u : Access!Call(w, o, n, u) <=> AccessFacts!Call(w, o, n, u)
      /\ \A n, u : Access!GiveClusterAdmin(n, u) <=> AccessFacts!GiveClusterAdmin(n, u)
  BY AccessCallsSame
     DEF Access!Call, AccessFacts!Call, Access!GiveClusterAdmin,
         AccessFacts!GiveClusterAdmin, Access!objects, AccessFacts!objects
<1>2. /\ \A n : Access!CreateNamespace(n) <=> AccessFacts!CreateNamespace(n)
      /\ \A n : Access!DeleteNamespace(n) <=> AccessFacts!DeleteNamespace(n)
      /\ \A n : Access!Terminate(n) <=> AccessFacts!Terminate(n)
  BY AccessCallsSame
     DEF Access!CreateNamespace, AccessFacts!CreateNamespace, Access!DeleteNamespace,
         AccessFacts!DeleteNamespace, Access!Terminate, AccessFacts!Terminate,
         Access!objects, AccessFacts!objects
<1> QED BY <1>1, <1>2

LEMMA AccessNext ==
    /\ Access!Init <=> AccessFacts!Init
    /\ Access!Next <=> AccessFacts!Next
<1>1. Access!Init <=> AccessFacts!Init
  BY AccessCallsSame DEF Access!Init, AccessFacts!Init
<1> QED BY <1>1, AccessCallsSame, AccessStepsSame, NamespacesSame DEF Access!Next, AccessFacts!Next

LEMMA AccessSame ==
    /\ Access!TypeOK <=> AccessFacts!TypeOK
    /\ Access!GrantedIsComplete <=> AccessFacts!GrantedIsComplete
    /\ Access!RightsHaveAccounts <=> AccessFacts!RightsHaveAccounts
BY AccessCallsSame
   DEF Access!TypeOK, AccessFacts!TypeOK, Access!GrantedIsComplete, AccessFacts!GrantedIsComplete,
       Access!RightsHaveAccounts, AccessFacts!RightsHaveAccounts
-----------------------------------------------------------------------------
\* A step is one of the component that runs, which stays the same.
LEMMA StepFacts ==
    ASSUME [ComponentsNext]_allVars
    PROVE  /\ component' = component
           /\ component = "topology" => [Topologies!Next]_(TopologyFacts!topoVars)
           /\ component = "accounts" => [Accounts!Next]_(UserFacts!vars)
           /\ component = "charts" => [Charts!Next]_(ChartFacts!helmVars)
           /\ component = "access" => [Access!Next]_(AccessFacts!vars)
<1>1. CASE UNCHANGED allVars
  BY <1>1 DEF allVars, ofTopology, ofAccounts, ofCharts, ofAccess, TopologyFacts!topoVars,
              UserFacts!vars, ChartFacts!helmVars, AccessFacts!vars
<1>2. CASE ComponentsNext
  <2>1. component' = component
    BY <1>2 DEF ComponentsNext, KeepManagers
  <2>2. component = "topology" => Topologies!Next
    BY <1>2 DEF ComponentsNext
  <2>3. component = "accounts" => Accounts!Next
    BY <1>2 DEF ComponentsNext
  <2>4. component = "charts" => Charts!Next
    BY <1>2 DEF ComponentsNext
  <2>5. component = "access" => Access!Next
    BY <1>2 DEF ComponentsNext
  <2> QED BY <2>1, <2>2, <2>3, <2>4, <2>5
<1> QED BY <1>1, <1>2

\* What is inductive about each component, while it runs.
TopologyInv == component = "topology" =>
    /\ TopologyFacts!Types /\ TopologyFacts!Unique /\ TopologyFacts!Saving /\ TopologyFacts!Placed
UsersInv == component = "accounts" =>
    UserFacts!Base /\ UserFacts!Accounts /\ UserFacts!Pairs
ChartsInv == component = "charts" =>
    ChartFacts!TypeOK /\ ChartFacts!Listing /\ ChartFacts!Tidy
AccessInv == component = "access" => AccessFacts!Inv

LEMMA TopologyStep ==
    (NoTopology \notin TopologyFacts!Lists) /\ TopologyInv /\ [ComponentsNext]_allVars => TopologyInv'
<1> SUFFICES ASSUME NoTopology \notin TopologyFacts!Lists, TopologyInv, [ComponentsNext]_allVars,
                    component = "topology"
             PROVE  TopologyInv'
  BY StepFacts DEF TopologyInv
<1>1. [TopologyFacts!Next]_(TopologyFacts!topoVars)
  BY StepFacts, TopologyNext
<1>2. TopologyFacts!Bounded
  BY PduAssumption DEF TopologyFacts!Bounded
<1>3. "list" \notin {} /\ "save" \notin {} /\ TopologyFacts!Distinct
  BY DEF TopologyFacts!Distinct
<1>4. TopologyFacts!Types'
  BY <1>1, <1>2, TopologyFacts!TypesInductive DEF TopologyInv
<1>5. TopologyFacts!Unique'
  BY <1>1, <1>2, <1>3, TopologyFacts!UniqueInductive DEF TopologyInv
<1>6. TopologyFacts!Saving'
  BY <1>1, <1>2, <1>3, TopologyFacts!SavingInductive DEF TopologyInv
<1>7. TopologyFacts!Placed'
  BY <1>1, TopologyFacts!PlacedInductive DEF TopologyInv
<1> QED BY <1>4, <1>5, <1>6, <1>7 DEF TopologyInv

LEMMA UsersStep == UsersInv /\ [ComponentsNext]_allVars => UsersInv'
<1> SUFFICES ASSUME UsersInv, [ComponentsNext]_allVars, component = "accounts" PROVE UsersInv'
  BY StepFacts DEF UsersInv
<1>1. [UserFacts!Next]_(UserFacts!vars)
  BY StepFacts, UsersNext
<1>2. ~FALSE
  OBVIOUS
<1>3. UserFacts!Base' /\ UserFacts!Accounts' /\ UserFacts!Pairs'
  BY <1>1, <1>2, UsersBounded, UserFacts!BaseInductive, UserFacts!AccountInductive,
     UserFacts!PairInductive DEF UsersInv
<1> QED BY <1>3 DEF UsersInv

LEMMA ChartsStep == ChartsInv /\ [ComponentsNext]_allVars => ChartsInv'
<1> SUFFICES ASSUME ChartsInv, [ComponentsNext]_allVars, component = "charts" PROVE ChartsInv'
  BY StepFacts DEF ChartsInv
<1>1. [ChartFacts!Next]_(ChartFacts!helmVars)
  BY StepFacts, ChartsNext
<1>2. ChartFacts!TypeOK' /\ ChartFacts!Listing' /\ ChartFacts!Tidy'
  BY <1>1, ChartFacts!TypesInductive, ChartFacts!ListingInductive, ChartFacts!TidyInductive
     DEF ChartsInv
<1> QED BY <1>2 DEF ChartsInv

LEMMA AccessBounded == AccessFacts!Bounded
BY DEF AccessFacts!Bounded

LEMMA AccessStep == AccessInv /\ [ComponentsNext]_allVars => AccessInv'
<1> SUFFICES ASSUME AccessInv, [ComponentsNext]_allVars, component = "access" PROVE AccessInv'
  BY StepFacts DEF AccessInv
<1>1. [AccessFacts!Next]_(AccessFacts!vars)
  BY StepFacts, AccessNext
<1>2. AccessFacts!Inv'
  BY <1>1, AccessBounded, AccessFacts!InvInductive DEF AccessInv
<1> QED BY <1>2 DEF AccessInv

\* The locks do not depend on what the other components do.
LocksInv == LocksFollow /\ (component = "pdus" => IInv)

LEMMA LocksStep == LocksInv /\ [ComponentsNext]_allVars => LocksInv'
<1> SUFFICES ASSUME LocksInv, [ComponentsNext]_allVars PROVE LocksInv'
  OBVIOUS
<1>1. IInv' => LocksFollow'
  BY DEF IInv, Live, Agreed, LocksFollow, LocksRecorded, GoneReleased
<1>2. CASE component = "pdus" /\ Next /\ component' = component
  <2>1. IInv'
    BY <1>2, TypeStep, FreshStep, AgreedStep DEF IInv, LocksInv
  <2> QED BY <1>1, <2>1 DEF LocksInv
<1>3. ASSUME component # "pdus", UNCHANGED <<component, ofPdus>> PROVE LocksInv'
  BY <1>3 DEF ofPdus, LocksInv, LocksFollow, LocksRecorded, GoneReleased, Doing
<1>4. CASE UNCHANGED allVars
  <2>1. IInv => IInv'
    <3>1. UNCHANGED pduVars
      BY <1>4 DEF allVars, ofPdus, pduVars
    <3> QED BY <3>1, TypeStep, FreshStep, AgreedStep DEF IInv
  <2>2. component' = component /\ UNCHANGED ofPdus
    BY <1>4 DEF allVars
  <2> QED BY <2>1, <2>2 DEF ofPdus, LocksInv, LocksFollow, LocksRecorded, GoneReleased, Doing
<1> QED BY <1>2, <1>3, <1>4 DEF ComponentsNext, KeepManagers

\* A lock is known to its holder and goes with it, whatever the other components do.
THEOREM ComponentsLocks == ComponentsSpec => []LocksFollow
<1>1. ComponentsInit => LocksInv
  <2>1. IInv => LocksFollow
    BY DEF IInv, Live, Agreed, LocksFollow, LocksRecorded, GoneReleased
  <2> QED BY <2>1, InitIInv DEF ComponentsInit, LocksInv
<1>2. LocksInv => LocksFollow
  BY DEF LocksInv
<1> QED BY <1>1, <1>2, LocksStep, PTL DEF ComponentsSpec

\* What the run on the components checks of the topology, for any number of threads and
\* stops: the hypothesis is that no topology is taken for the absence of one.
THEOREM ComponentsTopology ==
    NoTopology \notin TopologyFacts!Lists => (ComponentsSpec => []TopologyAgrees)
<1> SUFFICES ASSUME NoTopology \notin TopologyFacts!Lists PROVE ComponentsSpec => []TopologyAgrees
  OBVIOUS
<1>1. ComponentsInit => TopologyInv
  <2> SUFFICES ASSUME ComponentsInit PROVE TopologyInv
    OBVIOUS
  <2>1. TopologyFacts!Init /\ TopologyFacts!Bounded
    BY TopologyNext, PduAssumption DEF ComponentsInit, TopologyFacts!Bounded
  <2>2. TopologyFacts!Types
    BY <2>1, TopologyFacts!TypesInit
  <2> QED BY <2>1, <2>2, TopologyFacts!UniqueInit, TopologyFacts!SavingInit,
             TopologyFacts!PlacedInit DEF TopologyInv, TopologyFacts!Distinct
<1>2. TopologyInv => TopologyAgrees
  BY TopologySame, PduAssumption, TopologyFacts!TypesAgree, TopologyFacts!UniqueAgrees,
     TopologyFacts!SavingAgrees, TopologyFacts!PlacedAgrees
     DEF TopologyInv, TopologyAgrees, TopologyFacts!Bounded
<1> QED BY <1>1, <1>2, TopologyStep, PTL DEF ComponentsSpec

\* What the run on the components checks of the accounts, likewise.
THEOREM ComponentsAccounts == ComponentsSpec => []AccountsFollow
<1>1. ComponentsInit => UsersInv
  BY UsersBounded, UsersNext, UserFacts!BaseInit, UserFacts!AccountInit, UserFacts!PairInit
     DEF ComponentsInit, UsersInv
<1>2. UsersInv => AccountsFollow
  BY UsersSame, UserFacts!BaseAgrees, UserFacts!AccountsAgree, UserFacts!PairsAgree
     DEF UsersInv, AccountsFollow
<1> QED BY <1>1, <1>2, UsersStep, PTL DEF ComponentsSpec

\* What the run on the components checks of the charts, for any blueprints: those that run
\* are listed, the lists forget those that are gone, and these leave nothing behind.
THEOREM ComponentsCharts == ComponentsSpec => []ChartsFollow
<1>1. ComponentsInit => ChartsInv
  BY ChartsNext, ChartFacts!TypesInit, ChartFacts!ListingInit, ChartFacts!TidyInit
     DEF ComponentsInit, ChartsInv
<1>2. ChartsInv => ChartsFollow
  BY ChartsSame, ChartFacts!ListingAgrees, ChartFacts!TidyAgrees DEF ChartsInv, ChartsFollow
<1> QED BY <1>1, <1>2, ChartsStep, PTL DEF ComponentsSpec

\* What the run on the components checks of the rights in a namespace, likewise: a call that
\* said it gave a right has made all of it, whatever calls of the API fail in between.
THEOREM ComponentsRights == ComponentsSpec => []RightsFollow
<1>1. ComponentsInit => AccessInv
  BY AccessBounded, AccessNext, AccessFacts!InvInit DEF ComponentsInit, AccessInv
<1>2. AccessInv => RightsFollow
  BY AccessSame, AccessFacts!InvAgrees DEF AccessInv, RightsFollow
<1> QED BY <1>1, <1>2, AccessStep, PTL DEF ComponentsSpec
=============================================================================
