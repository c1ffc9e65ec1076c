----------------------------- MODULE NetworkPools -----------------------------
(***************************************************************************)
(* The addresses of one topology network: its allocation pools, the ranges *)
(* of them reserved for Kubernetes clusters, and the addresses of those    *)
(* ranges the K8S provider gives to blueprints (Multus interfaces).        *)
(* NetworkModel keeps the pools and the ranges, TopologyK8sModel the names *)
(* of a cluster's ranges, the provider data of a blueprint the addresses   *)
(* it was given.  The topology is one document, saved as a whole; the      *)
(* provider data is another one.  Nothing of this is under a lock: a step  *)
(* of this module is what a worker thread does between two points where    *)
(* another thread can change what it read.                                 *)
(***************************************************************************)
EXTENDS Naturals, FiniteSets, SequencesExt

CONSTANTS Worker,       \* worker threads of the TaskManager
          Blueprint,    \* blueprints with a K8S provider
          Cluster,      \* clusters of the topology attached to the network
          ClusterOf,    \* the cluster of each blueprint
          PoolRequest,  \* the pools the users add: name, start, end
          MaxLength,    \* bound: the longest range a user asks for
          MaxRanges,    \* bound: the ranges that exist, or are listed, at once
          MaxIps,       \* bound: the addresses in the data of one blueprint
          Hazard        \* what may happen beside calm operation, see below

(***************************************************************************)
(* assign_race    two assign_ip_address at a time on one cluster           *)
(* reserve_race   two reserve_range at a time                              *)
(* used_range     a range is released while addresses of it are in use     *)
(* wrong_cluster  a range is released in the name of another cluster       *)
(* cleanup_fails  a deletion fails, or the process stops, while the        *)
(*                blueprint is being destroyed                             *)
(* force          a deletion that fails is a forced one                    *)
(* release_one    release_k8s_multus_ip is called on its own               *)
(* stop           the process stops and starts again                       *)
(***************************************************************************)
Hazards == {"assign_race", "reserve_race", "used_range", "wrong_cluster",
            "cleanup_fails", "force", "release_one", "stop"}

ASSUME NetworkAssumption ==
    /\ ClusterOf \in [Blueprint -> Cluster]
    /\ \A p \in PoolRequest : p.start \in Nat /\ p.end \in Nat /\ p.start <= p.end
    /\ MaxLength \in Nat /\ MaxRanges \in Nat /\ MaxIps \in Nat
    /\ Hazard \subseteq Hazards

VARIABLES allocation_pool,  \* NetworkModel.allocation_pool
          reserved_ranges,  \* NetworkModel.reserved_ranges
          ip_pools,         \* K8sNetworkInfo.ip_pools of each cluster
          reserved_ips,     \* reserved_ips in the provider data of each blueprint
          deleting,         \* blueprints whose deletion has begun: their status
          saved,            \* the documents of the topology and of the providers
          task              \* what each worker thread is doing

vars == <<allocation_pool, reserved_ranges, ip_pools, reserved_ips, deleting, saved, task>>

RangeName == 1..MaxRanges
Address == UNION {p.start..p.end : p \in PoolRequest}
RangeType == [name : RangeName, start : Address, end : Address, owner : Cluster,
              used : SUBSET Address]          \* the addresses with used[i] True
Idle == [op |-> "none"]
TaskType == {Idle}
    \cup [op : {"reserve"}, cluster : Cluster, ips : Seq(Address)]
    \cup [op : {"assign"}, blueprint : Blueprint, range : RangeName, ip : Address]
    \cup [op : {"cleanup"}, blueprint : Blueprint, todo : Seq(Address)]

Init ==
    /\ allocation_pool = <<>>
    /\ reserved_ranges = <<>>
    /\ ip_pools = [c \in Cluster |-> <<>>]
    /\ reserved_ips = [b \in Blueprint |-> <<>>]
    /\ deleting = {}
    /\ saved = [pools |-> <<>>, ranges |-> <<>>,
                names |-> [c \in Cluster |-> <<>>], ips |-> [b \in Blueprint |-> <<>>]]
    /\ task = [w \in Worker |-> Idle]
-----------------------------------------------------------------------------
(* TopologyManager.save_to_db: the whole document, as it is in memory.     *)
SaveTopology(docs) ==
    saved' = [docs EXCEPT !.pools = allocation_pool', !.ranges = reserved_ranges',
                          !.names = ip_pools']

(* Intervals of addresses.                                                 *)
InRange(ip, r) == r.start <= ip /\ ip <= r.end
\* Mutant of IpList: one address too many.
IpListTooLong(pool) == [i \in 1..(pool.end - pool.start + 2) |-> pool.start + i - 1]

IpList(pool) == [i \in 1..(pool.end - pool.start + 1) |-> pool.start + i - 1]

\* item == other, as IPv4Pool and IPv4ReservedRange define it.
Equal(item, other) == InRange(item.start, other) \/ InRange(item.end, other)

\* x in list: each item of the list stands on the left of the comparison.
In(x, list) == \E i \in DOMAIN list : Equal(list[i], x)

\* list.remove(x): the first item that is x or is equal to it.
Removed(list, x) ==
    RemoveAt(list, SelectInSeq(list, LAMBDA item : item = x \/ Equal(item, x)))

\* The first item of a list with a name, when there is one.
HasName(list, name) == \E i \in DOMAIN list : list[i].name = name
Named(list, name) == list[SelectInSeq(list, LAMBDA item : item.name = name)]
-----------------------------------------------------------------------------
(* add_allocation_pool_to_network, remove_allocation_pool_from_network.    *)
\* Mutant of AddPool: pools are not compared.
AddPoolAlways(p) ==
    /\ allocation_pool' = Append(allocation_pool, p)
    /\ UNCHANGED <<reserved_ranges, ip_pools, reserved_ips, deleting, task>>
    /\ SaveTopology(saved)

AddPool(p) ==
    /\ ~In(p, allocation_pool)
    /\ allocation_pool' = Append(allocation_pool, p)
    /\ UNCHANGED <<reserved_ranges, ip_pools, reserved_ips, deleting, task>>
    /\ SaveTopology(saved)

RemovePool(name) ==
    /\ HasName(allocation_pool, name)
    /\ allocation_pool' = Removed(allocation_pool, Named(allocation_pool, name))
    /\ UNCHANGED <<reserved_ranges, ip_pools, reserved_ips, deleting, task>>
    /\ SaveTopology(saved)
-----------------------------------------------------------------------------
(* reserve_range_to_k8s_cluster.  reserve_range first collects addresses   *)
(* of the pools that no range contains, then builds one range for each run *)
(* of consecutive addresses and appends them.                              *)
\* Mutant of IsIpReserved: the last address of a range does not count.
IsIpReservedBeforeEnd(ip) ==
    \E i \in DOMAIN reserved_ranges :
        reserved_ranges[i].start <= ip /\ ip < reserved_ranges[i].end

IsIpReserved(ip) == \E i \in DOMAIN reserved_ranges : InRange(ip, reserved_ranges[i])

\* The places of a list, or the names, that a condition selects, lowest first.
Ascending(S) ==
    CHOOSE f \in [1..Cardinality(S) -> S] : \A i, j \in DOMAIN f : i < j => f[i] < f[j]

PoolIps == FlattenSeq([i \in DOMAIN allocation_pool |-> IpList(allocation_pool[i])])
AvailableIps ==
    LET free == Ascending({i \in DOMAIN PoolIps : ~IsIpReserved(PoolIps[i])})
    IN  [k \in DOMAIN free |-> PoolIps[free[k]]]

ReserveFind(w, c, length) ==
    /\ task[w] = Idle
    /\ \/ "reserve_race" \in Hazard
       \/ \A v \in Worker : task[v].op # "reserve"
    /\ length <= Len(AvailableIps)
    /\ task' = [task EXCEPT ![w] =
                  [op |-> "reserve", cluster |-> c, ips |-> SubSeq(AvailableIps, 1, length)]]
    /\ UNCHANGED <<allocation_pool, reserved_ranges, ip_pools, reserved_ips, deleting, saved>>

\* The names that no list mentions: generate_id never returns an id twice.
FreshNames ==
    {n \in RangeName :
        /\ ~HasName(reserved_ranges, n) /\ ~HasName(saved.ranges, n)
        /\ \A c \in Cluster : ~Contains(ip_pools[c], n) /\ ~Contains(saved.names[c], n)
        /\ \A w \in Worker : task[w].op = "assign" => task[w].range # n}

Cuts(ips) == {i \in DOMAIN ips : i = 1 \/ ips[i] # ips[i - 1] + 1}

NewRanges(ips, owner) ==
    LET first == Ascending(Cuts(ips))
        last(k) == IF k = Len(first) THEN Len(ips) ELSE first[k + 1] - 1
        names == Ascending(FreshNames)
    IN  [k \in DOMAIN first |->
           [name |-> names[k], start |-> ips[first[k]], end |-> ips[last(k)],
            owner |-> owner, used |-> {}]]

\* Mutant of ReserveCommit: the cluster lists the first new range only.
ReserveCommitListsFirst(w) ==
    /\ task[w].op = "reserve"
    /\ Cardinality(Cuts(task[w].ips)) <= Cardinality(FreshNames)
    /\ LET new == NewRanges(task[w].ips, task[w].cluster)
       IN  /\ reserved_ranges' = reserved_ranges \o new
           /\ ip_pools' = [ip_pools EXCEPT ![task[w].cluster] = Append(@, new[1].name)]
    /\ task' = [task EXCEPT ![w] = Idle]
    /\ UNCHANGED <<allocation_pool, reserved_ips, deleting>>
    /\ SaveTopology(saved)

ReserveCommit(w) ==
    /\ task[w].op = "reserve"
    /\ Cardinality(Cuts(task[w].ips)) <= Cardinality(FreshNames)
    /\ LET new == NewRanges(task[w].ips, task[w].cluster)
       IN  /\ reserved_ranges' = reserved_ranges \o new
           /\ ip_pools' = [ip_pools EXCEPT ![task[w].cluster] =
                             @ \o [k \in DOMAIN new |-> new[k].name]]
    /\ task' = [task EXCEPT ![w] = Idle]
    /\ UNCHANGED <<allocation_pool, reserved_ips, deleting>>
    /\ SaveTopology(saved)
-----------------------------------------------------------------------------
(* release_range_from_k8s_cluster: the range goes first; when the cluster  *)
(* does not list it the call fails and nothing is saved.                   *)
InUse(r) ==
    \/ r.used # {}
    \/ \E w \in Worker : task[w].op = "assign" /\ task[w].range = r.name

\* Mutant of ReleaseRange: the cluster keeps the name of the range.
ReleaseRangeKeepsName(name, c) ==
    /\ HasName(reserved_ranges, name)
    /\ LET range == Named(reserved_ranges, name)
       IN  /\ ~InUse(range) /\ range.owner = c
           /\ reserved_ranges' = Removed(reserved_ranges, range)
    /\ UNCHANGED <<allocation_pool, ip_pools, reserved_ips, deleting, task>>
    /\ SaveTopology(saved)

ReleaseRange(name, c) ==
    /\ HasName(reserved_ranges, name)
    /\ LET range == Named(reserved_ranges, name)
       IN  /\ InUse(range) => "used_range" \in Hazard
           /\ range.owner # c => "wrong_cluster" \in Hazard
           /\ reserved_ranges' = Removed(reserved_ranges, range)
    /\ UNCHANGED <<allocation_pool, reserved_ips, deleting, task>>
    /\ IF Contains(ip_pools[c], name)
       THEN /\ ip_pools' = [ip_pools EXCEPT ![c] = RemoveFirst(@, name)]
            /\ SaveTopology(saved)
       ELSE UNCHANGED <<ip_pools, saved>>
-----------------------------------------------------------------------------
(* reserve_k8s_multus_ip: assign_ip_address looks for the first free       *)
(* address of a range and then marks it; the address is returned even when *)
(* the range has been removed from the network in between.                 *)
Busy(b) == \E w \in Worker :
    task[w].op \in {"assign", "cleanup"} /\ task[w].blueprint = b

Unused(r) == (r.start..r.end) \ r.used
Resolves(name) == HasName(reserved_ranges, name)
HasFree(name) == Resolves(name) /\ Unused(Named(reserved_ranges, name)) # {}

AssignPick(w, b) ==
    /\ task[w] = Idle /\ ~Busy(b) /\ Len(reserved_ips[b]) < MaxIps
    /\ \/ "assign_race" \in Hazard
       \/ \A v \in Worker : task[v].op = "assign" =>
             ClusterOf[task[v].blueprint] # ClusterOf[b]
    /\ \E i \in DOMAIN ip_pools[ClusterOf[b]] :
         LET name == ip_pools[ClusterOf[b]][i]
         IN  /\ HasFree(name)
             /\ \A j \in 1..(i - 1) : LET earlier == ip_pools[ClusterOf[b]][j]
                                      IN  Resolves(earlier) /\ ~HasFree(earlier)
             /\ task' = [task EXCEPT ![w] =
                           [op |-> "assign", blueprint |-> b, range |-> name,
                            ip |-> Min(Unused(Named(reserved_ranges, name)))]]
    /\ UNCHANGED <<allocation_pool, reserved_ranges, ip_pools, reserved_ips, deleting, saved>>

\* Mutant of AssignMark: the topology is not saved.
AssignMarkUnsaved(w) ==
    /\ task[w].op = "assign"
    /\ LET ip == task[w].ip
           b == task[w].blueprint
       IN  /\ reserved_ranges' = [i \in DOMAIN reserved_ranges |->
                IF reserved_ranges[i].name = task[w].range
                THEN [reserved_ranges[i] EXCEPT !.used = @ \cup {ip}]
                ELSE reserved_ranges[i]]
           /\ reserved_ips' = [reserved_ips EXCEPT ![b] = Append(@, ip)]
    /\ task' = [task EXCEPT ![w] = Idle]
    /\ UNCHANGED <<allocation_pool, ip_pools, deleting, saved>>

AssignMark(w) ==
    /\ task[w].op = "assign"
    /\ LET ip == task[w].ip
           b == task[w].blueprint
       IN  /\ reserved_ranges' = [i \in DOMAIN reserved_ranges |->
                IF reserved_ranges[i].name = task[w].range
                THEN [reserved_ranges[i] EXCEPT !.used = @ \cup {ip}]
                ELSE reserved_ranges[i]]
           /\ reserved_ips' = [reserved_ips EXCEPT ![b] = Append(@, ip)]
    /\ task' = [task EXCEPT ![w] = Idle]
    /\ UNCHANGED <<allocation_pool, ip_pools, deleting>>
    /\ SaveTopology(saved)

(* The provider saves its data with the next helm chart.  Bound: only the  *)
(* instances with a stop keep the copy, nothing else ever reads it.        *)
SaveProvider(b) ==
    /\ "stop" \in Hazard
    /\ saved.ips[b] # reserved_ips[b]
    /\ saved' = [saved EXCEPT !.ips[b] = reserved_ips[b]]
    /\ UNCHANGED <<allocation_pool, reserved_ranges, ip_pools, reserved_ips, deleting, task>>
-----------------------------------------------------------------------------
(* TopologyManager.release_k8s_multus_ip: the first range that contains    *)
(* the address, when its owner is the cluster; no range is a ValueError.   *)
RangeByIp(ip) == SelectInSeq(reserved_ranges, LAMBDA r : InRange(ip, r))

FreeAddress(c, ip) ==
    LET i == RangeByIp(ip)
    IN  IF reserved_ranges[i].owner = c
        THEN reserved_ranges' = [reserved_ranges EXCEPT ![i].used = @ \ {ip}]
        ELSE UNCHANGED reserved_ranges

\* The provider's operation: topology first, then the provider data in memory.
ReleaseIp(b, ip) ==
    /\ "release_one" \in Hazard
    /\ ~Busy(b) /\ Contains(reserved_ips[b], ip) /\ RangeByIp(ip) # 0
    /\ FreeAddress(ClusterOf[b], ip)
    /\ reserved_ips' = [reserved_ips EXCEPT ![b] = RemoveFirst(@, ip)]
    /\ UNCHANGED <<allocation_pool, ip_pools, deleting, task>>
    /\ SaveTopology(saved)

(* delete_blueprint: the status is set and saved, and the K8S provider's   *)
(* final_cleanup gives back one address after the other; it keeps them all *)
(* in reserved_ips.                                                        *)
CleanupStart(w, b) ==
    /\ task[w] = Idle /\ ~Busy(b) /\ reserved_ips[b] # <<>>
    /\ task' = [task EXCEPT ![w] =
                  [op |-> "cleanup", blueprint |-> b, todo |-> reserved_ips[b]]]
    /\ deleting' = deleting \cup {b}
    /\ UNCHANGED <<allocation_pool, reserved_ranges, ip_pools, reserved_ips, saved>>

CleanupStep(w) ==
    /\ task[w].op = "cleanup" /\ task[w].todo # <<>>
    /\ RangeByIp(Head(task[w].todo)) # 0
    /\ FreeAddress(ClusterOf[task[w].blueprint], Head(task[w].todo))
    /\ task' = [task EXCEPT ![w].todo = Tail(@)]
    /\ UNCHANGED <<allocation_pool, ip_pools, reserved_ips, deleting>>
    /\ SaveTopology(saved)

\* The range of an address is gone, or what the deletion does before or after
\* this cleanup raises.  The blueprint stays, in error, and can be deleted again.
Raises(w) ==
    /\ task[w].op = "cleanup"
    /\ \/ "cleanup_fails" \in Hazard
       \/ task[w].todo # <<>> /\ RangeByIp(Head(task[w].todo)) = 0

CleanupFail(w) ==
    /\ Raises(w)
    /\ task' = [task EXCEPT ![w] = Idle]
    /\ UNCHANGED <<allocation_pool, reserved_ranges, ip_pools, reserved_ips, deleting, saved>>

\* Mutant of CleanupEnd: the loop over the addresses ends early.
CleanupEndEarly(w) ==
    /\ task[w].op = "cleanup"
    /\ LET b == task[w].blueprint
       IN  /\ reserved_ips' = [reserved_ips EXCEPT ![b] = <<>>]
           /\ saved' = [saved EXCEPT !.ips[b] = <<>>]
           /\ deleting' = deleting \ {b}
    /\ task' = [task EXCEPT ![w] = Idle]
    /\ UNCHANGED <<allocation_pool, reserved_ranges, ip_pools>>

\* Mutant of CleanupEnd: the document with the provider data stays.
CleanupEndKeepsData(w) ==
    /\ task[w].op = "cleanup" /\ (task[w].todo = <<>> \/ "force" \in Hazard)
    /\ reserved_ips' = [reserved_ips EXCEPT ![task[w].blueprint] = <<>>]
    /\ deleting' = deleting \ {task[w].blueprint}
    /\ task' = [task EXCEPT ![w] = Idle]
    /\ UNCHANGED <<allocation_pool, reserved_ranges, ip_pools, saved>>

\* The blueprint is deleted with its provider data, when all went well or, under
\* force_deletion, wherever the deletion failed; the id stands for the next
\* blueprint from here on.
CleanupEnd(w) ==
    /\ task[w].op = "cleanup" /\ (task[w].todo = <<>> \/ "force" \in Hazard)
    /\ LET b == task[w].blueprint
       IN  /\ reserved_ips' = [reserved_ips EXCEPT ![b] = <<>>]
           /\ saved' = [saved EXCEPT !.ips[b] = <<>>]
           /\ deleting' = deleting \ {b}
    /\ task' = [task EXCEPT ![w] = Idle]
    /\ UNCHANGED <<allocation_pool, reserved_ranges, ip_pools>>
-----------------------------------------------------------------------------
(* The process stops and loads its documents again.                        *)
Stop ==
    /\ "stop" \in Hazard
    /\ \/ "cleanup_fails" \in Hazard
       \/ \A w \in Worker : task[w].op # "cleanup"
    /\ allocation_pool' = saved.pools
    /\ reserved_ranges' = saved.ranges
    /\ ip_pools' = saved.names
    /\ reserved_ips' = saved.ips
    /\ task' = [w \in Worker |-> Idle]
    /\ UNCHANGED <<deleting, saved>>

Next ==
    \/ \E p \in PoolRequest : AddPool(p) \/ RemovePool(p.name)
    \/ \E w \in Worker, c \in Cluster, n \in 1..MaxLength : ReserveFind(w, c, n)
    \/ \E n \in RangeName, c \in Cluster : ReleaseRange(n, c)
    \/ \E w \in Worker, b \in Blueprint : AssignPick(w, b) \/ CleanupStart(w, b)
    \/ \E w \in Worker :
         ReserveCommit(w) \/ AssignMark(w) \/ CleanupStep(w) \/ CleanupFail(w) \/ CleanupEnd(w)
    \/ \E b \in Blueprint : SaveProvider(b) \/ \E ip \in Address : ReleaseIp(b, ip)
    \/ Stop

Spec == Init /\ [][Next]_vars
-----------------------------------------------------------------------------
(* Types: lists of records of the right shape, used addresses inside their *)
(* range, and list items for worker threads that are doing something.      *)
TypeOK ==
    /\ allocation_pool \in Seq(PoolRequest)
    /\ reserved_ranges \in Seq(RangeType)
    /\ \A i \in DOMAIN reserved_ranges :
          reserved_ranges[i].used \subseteq reserved_ranges[i].start..reserved_ranges[i].end
    /\ ip_pools \in [Cluster -> Seq(RangeName)]
    /\ reserved_ips \in [Blueprint -> Seq(Address)]
    /\ deleting \subseteq Blueprint
    /\ task \in [Worker -> TaskType]

(* The pools of a network have no address in common, which is what the     *)
(* error message of add_allocation_pool promises.                          *)
PoolsDisjoint ==
    \A i, j \in DOMAIN allocation_pool : i # j =>
        \A ip \in Address : ~(InRange(ip, allocation_pool[i]) /\ InRange(ip, allocation_pool[j]))

(* No address is in two reserved ranges: is_ip_reserved keeps an address   *)
(* of a range out of every later reservation, also across the releases,    *)
(* the restarts and the calls that fail half way.                          *)
RangesDisjoint ==
    \A i, j \in DOMAIN reserved_ranges : i # j =>
        \A ip \in Address : ~(InRange(ip, reserved_ranges[i]) /\ InRange(ip, reserved_ranges[j]))

(* The addresses a blueprint works with, until its deletion begins.        *)
Holds(b) == IF b \in deleting THEN {} ELSE ToSet(reserved_ips[b])

(* An address is with at most one blueprint, and only once: what           *)
(* reserve_k8s_multus_ip returned is not returned again before it is back. *)
NoAddressShared ==
    /\ \A a, b \in Blueprint : a # b => Holds(a) \cap Holds(b) = {}
    /\ \A b \in Blueprint \ deleting : IsInjective(reserved_ips[b])

(* An address a blueprint has is marked as used in a range of the          *)
(* blueprint's cluster, so that the range cannot hand it out; the topology *)
(* and the provider data are saved separately and must not disagree in     *)
(* this direction, not even after a restart.                               *)
HeldIsUsed ==
    \A b \in Blueprint : \A ip \in Holds(b) : \E i \in DOMAIN reserved_ranges :
        reserved_ranges[i].owner = ClusterOf[b] /\ ip \in reserved_ranges[i].used

(* As long as the process runs no address leaks: a used address is in the  *)
(* data of a blueprint, whose deletion gives it back.                      *)
UsedIsHeld ==
    \A i \in DOMAIN reserved_ranges : \A ip \in reserved_ranges[i].used :
        \E b \in Blueprint : Contains(reserved_ips[b], ip)

(* Every range name a cluster lists is a range of the network it owns;     *)
(* reserve_k8s_multus_ip stops at the first one that is not.               *)
NamesResolve ==
    \A c \in Cluster : \A n \in ToSet(ip_pools[c]) : \E i \in DOMAIN reserved_ranges :
        reserved_ranges[i].name = n /\ reserved_ranges[i].owner = c

(* Every range is listed by the cluster that owns it, so that its          *)
(* addresses can be used and the range can be released.                    *)
RangesListed ==
    \A i \in DOMAIN reserved_ranges :
        Contains(ip_pools[reserved_ranges[i].owner], reserved_ranges[i].name)

(* list.remove compares by overlap, yet the pool or the range that goes is *)
(* the one that was named, and it alone; the others stay, in their order.  *)
TakenOut(new, list, name) ==
    \E i \in DOMAIN list : list[i].name = name /\ new = RemoveAt(list, i)
OnlyTheNamed ==
    /\ \A p \in PoolRequest : RemovePool(p.name) =>
          TakenOut(allocation_pool', allocation_pool, p.name)
    /\ \A n \in RangeName : (\E c \in Cluster : ReleaseRange(n, c)) =>
          TakenOut(reserved_ranges', reserved_ranges, n)
RemovesTheNamed == [][OnlyTheNamed]_vars
=============================================================================
