-------------------------- MODULE NetworkPoolsProofs --------------------------
(***************************************************************************)
(* The pools of a network, the lists they are made of, and the types; then *)
(* the ranges, for any number of workers, blueprints, clusters and pools.  *)
(*                                                                         *)
(* The overlap check of add_allocation_pool is one-sided: it compares the  *)
(* end points of the pools that are there with the new pool.  PoolInv      *)
(* proves how far it reaches: when no pool that is added is strictly       *)
(* inside another one, the pools of the network stay disjoint, whatever is *)
(* added, removed, reserved and released, and over restarts.               *)
(*                                                                         *)
(* The lemmas about lists say what Ascending, FlattenSeq, AvailableIps and *)
(* NewRanges return; where they need induction, it is on the least length  *)
(* of a counterexample.  With them Base, an invariant without hypotheses,  *)
(* gives the types.  TypeOK alone is not inductive: a run of consecutive   *)
(* addresses may span several pools, so Base keeps every address of a      *)
(* range among those of the pools; a saved list of names and ranges comes  *)
(* back at a restart, so it has the same shape as the one in memory; and   *)
(* an address that is about to be marked lies in the range that has, then, *)
(* the name that was picked, however the ranges changed in between.        *)
(*                                                                         *)
(* The ranges of a network and the addresses given out of them come after  *)
(* the pools.  Order: with one reservation at a time the ranges are        *)
(* disjoint and in the list of their owner, in memory and in the document, *)
(* so that what list.remove takes away is what was named.  Staff, UsedBy:  *)
(* a used address has a blueprint that answers for it.  Held: what a       *)
(* blueprint answers for is its own and marked as used.                    *)
(*                                                                         *)
(* A blueprint answers for an address (Owns) while it has it and, in its   *)
(* deletion, until the address is given back: the deletion keeps all of    *)
(* them in reserved_ips, so that reserved_ips alone says too much.  The    *)
(* hypotheses (OneReservation, NoneForgotten, Careful) are on the hazards; *)
(* for each of them there is a run of the model that breaks the property   *)
(* when it alone is dropped.                                               *)
(***************************************************************************)
EXTENDS NetworkPools, SequenceTheorems, FiniteSetTheorems, FunctionTheorems,
        WellFoundedInduction, TLAPS

\* No pool a user adds is strictly inside another one.
NoNesting ==
    \A p, q \in PoolRequest : ~(p.start < q.start /\ q.end < p.end)

\* The order on the natural numbers as WFMin takes it.
LEMMA LeastNumber ==
    ASSUME NEW T \in SUBSET Nat, T # {}
    PROVE  \E x \in T : \A y \in T : x <= y
<1> DEFINE R == {ss \in Nat \X Nat : ss[1] < ss[2]}
<1>1. OpToRel(<, Nat) = R
  BY Zenon DEF OpToRel
<1>2. PICK x \in T : \A y \in T : ~(<<y, x>> \in R)
  BY <1>1, WFMin, NatLessThanWellFounded
<1>3. ASSUME NEW y \in T, ~(x <= y) PROVE FALSE
  <2>1. x \in Nat /\ y \in Nat /\ y < x
    BY <1>3
  <2>2. <<y, x>> \in R
    BY <2>1
  <2> QED BY <1>2, <2>2
<1> QED BY <1>3
-----------------------------------------------------------------------------
\* What the list operations of the module return.
LEMMA RemoveAtFacts ==
    ASSUME NEW S, NEW list \in Seq(S), NEW i \in 1..Len(list)
    PROVE  /\ RemoveAt(list, i) \in Seq(S)
           /\ Len(RemoveAt(list, i)) = Len(list) - 1
           /\ \A k \in 1..(Len(list) - 1) :
                 RemoveAt(list, i)[k] = IF k < i THEN list[k] ELSE list[k + 1]
<1> DEFINE left == SubSeq(list, 1, i - 1)
           right == SubSeq(list, i + 1, Len(list))
<1>1. /\ left \in Seq(S) /\ Len(left) = i - 1
      /\ \A k \in 1..(i - 1) : left[k] = list[k]
  OBVIOUS
<1>2. /\ right \in Seq(S) /\ Len(right) = Len(list) - i
      /\ \A k \in 1..(Len(list) - i) : right[k] = list[i + k]
  OBVIOUS
<1>3. RemoveAt(list, i) = left \o right
  BY DEF RemoveAt
<1> HIDE DEF left, right
<1>4. /\ left \o right \in Seq(S) /\ Len(left \o right) = Len(list) - 1
  <2>1. left \o right \in Seq(S)
    BY <1>1, <1>2
  <2>2. Len(left \o right) = Len(left) + Len(right)
    BY <1>1, <1>2, ConcatProperties
  <2> QED BY <1>1, <1>2, <2>1, <2>2
<1>5. ASSUME NEW k \in 1..(Len(list) - 1)
      PROVE  (left \o right)[k] = IF k < i THEN list[k] ELSE list[k + 1]
  <2>1. CASE k < i
    BY <1>1, <1>2, <2>1
  <2>2. CASE ~(k < i)
    <3>1. (left \o right)[k] = right[k - (i - 1)]
      BY <1>1, <1>2, <2>2
    <3>2. right[k - (i - 1)] = list[i + (k - (i - 1))]
      BY <1>2, <2>2
    <3> QED BY <2>2, <3>1, <3>2
  <2> QED BY <2>1, <2>2
<1> QED BY <1>3, <1>4, <1>5

\* list.remove(x) takes one item away when x is in the list.
LEMMA RemovedFacts ==
    ASSUME NEW S, NEW list \in Seq(S), NEW k \in 1..Len(list)
    PROVE  \E i \in 1..Len(list) : Removed(list, list[k]) = RemoveAt(list, i)
<1> DEFINE I == {i \in 1..Len(list) : list[i] = list[k] \/ Equal(list[i], list[k])}
<1>1. k \in I /\ I \in SUBSET Nat
  OBVIOUS
<1>2. Removed(list, list[k]) = RemoveAt(list, Min(I))
  BY <1>1 DEF Removed, SelectInSeq
<1>3. Min(I) \in I
  BY <1>1, LeastNumber DEF Min
<1> QED BY <1>2, <1>3

\* The item with a name is an item of the list.
LEMMA NamedFacts ==
    ASSUME NEW S, NEW list \in Seq(S), NEW name, HasName(list, name)
    PROVE  \E k \in 1..Len(list) : Named(list, name) = list[k]
<1> DEFINE I == {i \in 1..Len(list) : list[i].name = name}
<1>1. I # {} /\ I \in SUBSET Nat
  BY DEF HasName
<1>2. Named(list, name) = list[Min(I)]
  BY <1>1 DEF Named, SelectInSeq
<1>3. Min(I) \in I
  BY <1>1, LeastNumber DEF Min
<1> QED BY <1>2, <1>3
-----------------------------------------------------------------------------
\* The pools of a list are known to the users and disjoint.
GoodPools(list) ==
    /\ list \in Seq(PoolRequest)
    /\ \A i, j \in DOMAIN list : i # j =>
          \A ip \in Address : ~(InRange(ip, list[i]) /\ InRange(ip, list[j]))

\* The documents have their four fields, and the saved pools are as good as
\* the ones in memory, which a restart replaces by them.
PoolInv ==
    /\ GoodPools(allocation_pool)
    /\ \E p, r, n, i : /\ saved = [pools |-> p, ranges |-> r, names |-> n, ips |-> i]
                       /\ GoodPools(p)

\* add_allocation_pool keeps the pools disjoint.
LEMMA AddedPool ==
    ASSUME NoNesting, NEW list, GoodPools(list), NEW p \in PoolRequest, ~In(p, list)
    PROVE  GoodPools(Append(list, p))
<1> DEFINE new == Append(list, p)
<1>1. /\ new \in Seq(PoolRequest) /\ Len(new) = Len(list) + 1
      /\ \A i \in 1..Len(list) : new[i] = list[i]
      /\ new[Len(list) + 1] = p
  BY DEF GoodPools
<1>2. ASSUME NEW i \in 1..Len(list), NEW ip \in Address
      PROVE  ~(InRange(ip, list[i]) /\ InRange(ip, p))
  <2>1. list[i] \in PoolRequest
    BY DEF GoodPools
  <2>2. /\ list[i].start \in Nat /\ list[i].end \in Nat /\ list[i].start <= list[i].end
        /\ p.start \in Nat /\ p.end \in Nat
    BY <2>1, NetworkAssumption
  <2>3. ~(p.start <= list[i].start /\ list[i].start <= p.end)
        /\ ~(p.start <= list[i].end /\ list[i].end <= p.end)
    BY DEF In, Equal, InRange, GoodPools
  <2>4. ~(list[i].start < p.start /\ p.end < list[i].end)
    BY <2>1 DEF NoNesting
  <2>5. ip \in Nat
    BY NetworkAssumption DEF Address
  <2> QED BY <2>2, <2>3, <2>4, <2>5 DEF InRange
<1>3. DOMAIN new = 1..(Len(list) + 1)
  BY <1>1
<1> HIDE DEF new
<1>4. ASSUME NEW i \in DOMAIN new, NEW j \in DOMAIN new, i # j, NEW ip \in Address
      PROVE  ~(InRange(ip, new[i]) /\ InRange(ip, new[j]))
  <2>0. Len(list) \in Nat /\ DOMAIN list = 1..Len(list)
    BY DEF GoodPools
  <2>1. CASE i \in 1..Len(list) /\ j \in 1..Len(list)
    BY <1>1, <1>4, <2>0, <2>1 DEF GoodPools
  <2>2. CASE i = Len(list) + 1 /\ j \in 1..Len(list)
    BY <1>1, <1>2, <1>4, <2>2
  <2>3. CASE i \in 1..Len(list) /\ j = Len(list) + 1
    BY <1>1, <1>2, <1>4, <2>3
  <2> QED BY <1>3, <1>4, <2>0, <2>1, <2>2, <2>3
<1> QED BY <1>1, <1>4 DEF GoodPools, new

\* remove_allocation_pool takes one pool away, whichever it is.
LEMMA RemovedPool ==
    ASSUME NEW list, GoodPools(list), NEW name, HasName(list, name)
    PROVE  GoodPools(Removed(list, Named(list, name)))
<1>1. PICK k \in 1..Len(list) : Named(list, name) = list[k]
  BY NamedFacts DEF GoodPools
<1>2. PICK i \in 1..Len(list) : Removed(list, Named(list, name)) = RemoveAt(list, i)
  BY <1>1, RemovedFacts DEF GoodPools
<1> DEFINE new == RemoveAt(list, i)
<1>3. /\ new \in Seq(PoolRequest) /\ Len(new) = Len(list) - 1
      /\ \A m \in 1..(Len(list) - 1) : new[m] = IF m < i THEN list[m] ELSE list[m + 1]
  BY RemoveAtFacts DEF GoodPools
<1> HIDE DEF new
<1>4. ASSUME NEW m \in DOMAIN new, NEW n \in DOMAIN new, m # n, NEW ip \in Address
      PROVE  ~(InRange(ip, new[m]) /\ InRange(ip, new[n]))
  <2>1. Len(list) \in Nat /\ DOMAIN list = 1..Len(list) /\ DOMAIN new = 1..(Len(list) - 1)
    BY <1>3 DEF GoodPools
  <2>2. PICK a \in 1..Len(list), b \in 1..Len(list) :
            a # b /\ new[m] = list[a] /\ new[n] = list[b]
    <3>1. /\ m < i => new[m] = list[m]
          /\ ~(m < i) => new[m] = list[m + 1]
          /\ n < i => new[n] = list[n]
          /\ ~(n < i) => new[n] = list[n + 1]
      BY <1>3, <1>4, <2>1
    <3>2. CASE m < i /\ n < i
      BY <1>4, <2>1, <3>1, <3>2
    <3>3. CASE m < i /\ ~(n < i)
      BY <1>4, <2>1, <3>1, <3>3
    <3>4. CASE ~(m < i) /\ n < i
      BY <1>4, <2>1, <3>1, <3>4
    <3>5. CASE ~(m < i) /\ ~(n < i)
      BY <1>4, <2>1, <3>1, <3>5
    <3> QED BY <3>2, <3>3, <3>4, <3>5
  <2> QED BY <1>4, <2>1, <2>2 DEF GoodPools
<1> QED BY <1>2, <1>3, <1>4 DEF GoodPools, new
-----------------------------------------------------------------------------
\* There are no pools at first.
LEMMA PoolInvInit == Init => PoolInv
<1> SUFFICES ASSUME Init PROVE PoolInv
  OBVIOUS
<1>1. GoodPools(<<>>)
  BY DEF GoodPools
<1> QED BY <1>1 DEF Init, PoolInv

\* A save of the topology.
LEMMA SavedPools ==
    ASSUME PoolInv, GoodPools(allocation_pool'), SaveTopology(saved)
    PROVE  PoolInv'
<1>1. PICK p, r, n, i : saved = [pools |-> p, ranges |-> r, names |-> n, ips |-> i]
  BY DEF PoolInv
<1>2. saved' = [pools |-> allocation_pool', ranges |-> reserved_ranges',
                names |-> ip_pools', ips |-> i]
  BY <1>1 DEF SaveTopology
<1> QED BY <1>2 DEF PoolInv

\* Every step keeps the pools disjoint, the saved ones too.
LEMMA PoolInvStep ==
    ASSUME NoNesting, PoolInv, [Next]_vars
    PROVE  PoolInv'
<1>1. ASSUME NEW p \in PoolRequest, AddPool(p) PROVE PoolInv'
  BY <1>1, AddedPool, SavedPools DEF AddPool, PoolInv
<1>2. ASSUME NEW p \in PoolRequest, RemovePool(p.name) PROVE PoolInv'
  BY <1>2, RemovedPool, SavedPools DEF RemovePool, PoolInv
<1>3. ASSUME UNCHANGED allocation_pool, SaveTopology(saved) PROVE PoolInv'
  BY <1>3, SavedPools DEF PoolInv
<1>4. ASSUME UNCHANGED <<allocation_pool, saved>> PROVE PoolInv'
  BY <1>4 DEF PoolInv
<1>5. ASSUME NEW b, NEW ips, UNCHANGED allocation_pool,
             saved' = [saved EXCEPT !.ips[b] = ips]
      PROVE  PoolInv'
  <2>1. PICK p, r, n, i : /\ saved = [pools |-> p, ranges |-> r, names |-> n, ips |-> i]
                          /\ GoodPools(p)
    BY DEF PoolInv
  <2>2. saved' = [pools |-> p, ranges |-> r, names |-> n, ips |-> [i EXCEPT ![b] = ips]]
    BY <1>5, <2>1
  <2> QED BY <1>5, <2>1, <2>2 DEF PoolInv
<1>6. ASSUME NEW w \in Worker, NEW c \in Cluster, NEW n \in 1..MaxLength, ReserveFind(w, c, n)
      PROVE  PoolInv'
  BY <1>4, <1>6 DEF ReserveFind
<1>7. ASSUME NEW n \in RangeName, NEW c \in Cluster, ReleaseRange(n, c) PROVE PoolInv'
  BY <1>3, <1>4, <1>7 DEF ReleaseRange
<1>8. ASSUME NEW w \in Worker, NEW b \in Blueprint, AssignPick(w, b) \/ CleanupStart(w, b)
      PROVE  PoolInv'
  BY <1>4, <1>8 DEF AssignPick, CleanupStart
<1>9. ASSUME NEW w \in Worker, ReserveCommit(w) \/ AssignMark(w) \/ CleanupStep(w)
      PROVE  PoolInv'
  BY <1>3, <1>9 DEF ReserveCommit, AssignMark, CleanupStep
<1>10. ASSUME NEW w \in Worker, CleanupFail(w) PROVE PoolInv'
  BY <1>4, <1>10 DEF CleanupFail
<1>11. ASSUME NEW w \in Worker, CleanupEnd(w) PROVE PoolInv'
  <2> DEFINE b == task[w].blueprint
  <2>1. UNCHANGED allocation_pool /\ saved' = [saved EXCEPT !.ips[b] = <<>>]
    BY <1>11 DEF CleanupEnd
  <2> QED BY <1>5, <2>1
<1>12. ASSUME NEW b \in Blueprint, SaveProvider(b) PROVE PoolInv'
  BY <1>12, <1>5 DEF SaveProvider
<1>13. ASSUME NEW b \in Blueprint, NEW ip \in Address, ReleaseIp(b, ip) PROVE PoolInv'
  BY <1>3, <1>13 DEF ReleaseIp
<1>14. CASE Stop
  <2>1. PICK p, r, n, i : /\ saved = [pools |-> p, ranges |-> r, names |-> n, ips |-> i]
                          /\ GoodPools(p)
    BY DEF PoolInv
  <2>2. allocation_pool' = p /\ saved' = saved
    BY <1>14, <2>1 DEF Stop
  <2> QED BY <2>1, <2>2 DEF PoolInv
<1>15. CASE UNCHANGED vars
  BY <1>4, <1>15 DEF vars
<1> QED
  BY <1>1, <1>2, <1>6, <1>7, <1>8, <1>9, <1>10, <1>11, <1>12, <1>13, <1>14, <1>15 DEF Next

\* The pools of a network have no address in common when no requested pool is
\* strictly inside another one: the comparison of add_allocation_pool, one-sided
\* as it is, is enough then.
THEOREM PoolsStayDisjoint == NoNesting => (Spec => []PoolsDisjoint)
<1> SUFFICES ASSUME NoNesting PROVE Spec => []PoolsDisjoint
  OBVIOUS
<1>1. Init => PoolInv
  BY PoolInvInit
<1>2. PoolInv /\ [Next]_vars => PoolInv'
  BY PoolInvStep
<1>3. PoolInv => PoolsDisjoint
  BY DEF PoolInv, GoodPools, PoolsDisjoint
<1> QED BY <1>1, <1>2, <1>3, PTL DEF Spec
-----------------------------------------------------------------------------
\* f lists the numbers of S, each once, the lowest first.
Lists(f, S) ==
    /\ f \in [1..Cardinality(S) -> S]
    /\ \A i, j \in DOMAIN f : i < j => f[i] < f[j]

\* Every finite set of numbers can be listed: by its least number and the list of the rest.
LEMMA ListExists ==
    ASSUME NEW S \in SUBSET Nat, IsFiniteSet(S)
    PROVE  \E f : Lists(f, S)
<1> DEFINE Bad == {n \in Nat : \E T \in SUBSET Nat :
                      IsFiniteSet(T) /\ Cardinality(T) = n /\ ~(\E f : Lists(f, T))}
<1>1. SUFFICES ASSUME Bad # {} PROVE FALSE
  BY FS_CardinalityType
<1>2. PICK n \in Bad : \A m \in Bad : n <= m
  BY <1>1, LeastNumber
<1>3. PICK T \in SUBSET Nat : IsFiniteSet(T) /\ Cardinality(T) = n /\ ~(\E f : Lists(f, T))
  BY <1>2
<1>4. n \in Nat
  BY <1>2
<1>5. n # 0
  <2> SUFFICES ASSUME n = 0 PROVE FALSE
    OBVIOUS
  <2>1. Lists([i \in 1..0 |-> 0], T)
    <3>1. 1..Cardinality(T) = {} /\ 1..0 = {}
      BY <1>3
    <3> QED BY <3>1 DEF Lists
  <2> QED BY <1>3, <2>1
<1>6. T # {}
  BY <1>3, <1>5, FS_EmptySet
<1>7. PICK x \in T : \A y \in T : x <= y
  BY <1>6, LeastNumber
<1> DEFINE R == T \ {x}
<1>8. IsFiniteSet(R) /\ Cardinality(R) = n - 1 /\ R \in SUBSET Nat
  BY <1>3, <1>7, FS_RemoveElement
<1>9. PICK f : Lists(f, R)
  <2>1. n - 1 \notin Bad /\ n - 1 \in Nat
    BY <1>2, <1>4, <1>5
  <2> QED BY <1>8, <2>1
<1> DEFINE g == [i \in 1..n |-> IF i = 1 THEN x ELSE f[i - 1]]
<1>10. \A i \in 1..n : i # 1 => i - 1 \in 1..n - 1 /\ f[i - 1] \in R
  <2>1. f \in [1..n - 1 -> R]
    BY <1>8, <1>9 DEF Lists
  <2> QED BY <1>4, <2>1
<1>11. g \in [1..Cardinality(T) -> T]
  BY <1>3, <1>7, <1>10
<1>12. ASSUME NEW i \in 1..n, NEW j \in 1..n, i < j PROVE g[i] < g[j]
  <2>1. j # 1 /\ j - 1 \in 1..n - 1 /\ f[j - 1] \in R /\ g[j] = f[j - 1]
    BY <1>4, <1>10, <1>12
  <2>2. CASE i = 1
    <3>1. g[i] = x /\ x <= g[j] /\ x # g[j] /\ x \in Nat /\ g[j] \in Nat
      BY <1>4, <1>7, <2>1, <2>2
    <3> QED BY <3>1
  <2>3. CASE i # 1
    <3>1. g[i] = f[i - 1] /\ i - 1 \in 1..n - 1 /\ i - 1 < j - 1
      BY <1>4, <1>12, <1>10, <2>3
    <3> QED BY <1>8, <1>9, <2>1, <3>1 DEF Lists
  <2> QED BY <2>2, <2>3
<1>13. Lists(g, T)
  BY <1>3, <1>11, <1>12 DEF Lists
<1> QED BY <1>3, <1>13

\* What Ascending returns: it lists each number of the set, once.
LEMMA AscendingFacts ==
    ASSUME NEW S \in SUBSET Nat, IsFiniteSet(S)
    PROVE  /\ Ascending(S) \in Seq(S) /\ Len(Ascending(S)) = Cardinality(S)
           /\ \A i, j \in 1..Cardinality(S) : i < j => Ascending(S)[i] < Ascending(S)[j]
           /\ IsInjective(Ascending(S))
           /\ \A x \in S : \E i \in 1..Cardinality(S) : Ascending(S)[i] = x
<1> DEFINE n == Cardinality(S)
<1>1. PICK f : f = Ascending(S)
  OBVIOUS
<1>2. Lists(f, S)
  <2>1. \E g : Lists(g, S)
    BY ListExists
  <2> QED BY <1>1, <2>1 DEF Ascending, Lists
<1>3. n \in Nat
  BY FS_CardinalityType
<1>4. f \in [1..n -> S] /\ \A i, j \in 1..n : i < j => f[i] < f[j]
  BY <1>2 DEF Lists
<1>5. f \in Seq(S) /\ Len(f) = n
  BY <1>3, <1>4
<1>6. \A i, j \in 1..n : f[i] = f[j] => i = j
  <2> SUFFICES ASSUME NEW i \in 1..n, NEW j \in 1..n, f[i] = f[j], i # j PROVE FALSE
    OBVIOUS
  <2>1. i < j \/ j < i
    BY <1>3
  <2>2. f[i] \in Nat /\ f[j] \in Nat
    BY <1>4
  <2> QED BY <1>4, <2>1, <2>2
<1>7. f \in Injection(1..n, S)
  BY <1>4, <1>6, Fun_IsInj
<1>8. IsFiniteSet(1..n) /\ Cardinality(1..n) = n
  BY <1>3, FS_Interval
<1>9. f \in Surjection(1..n, S)
  BY <1>7, <1>8, FS_Injection
<1>10. \A x \in S : \E i \in 1..n : f[i] = x
  BY <1>9 DEF Surjection
<1>11. IsInjective(f)
  BY <1>4, <1>6 DEF IsInjective
<1> QED BY <1>1, <1>4, <1>5, <1>10, <1>11
-----------------------------------------------------------------------------
\* g[i] is the first i lists of seqs, one after the other: the function FlattenSeq builds.
Flattens(g, seqs) ==
    g = [i \in 1..Len(seqs) |-> IF i = 1 THEN seqs[i] ELSE g[i - 1] \o seqs[i]]

\* The function is there for every list of lists.
LEMMA FlattensExists ==
    ASSUME NEW A, NEW seqs \in Seq(Seq(A))
    PROVE  \E g : Flattens(g, seqs)
<1> DEFINE Step(g, m) == [i \in 1..m |-> IF i = 1 THEN seqs[i] ELSE g[i - 1] \o seqs[i]]
           Bad == {m \in Nat : ~(\E g : g = Step(g, m))}
<1>1. SUFFICES ASSUME Bad # {} PROVE FALSE
  <2>1. Len(seqs) \in Nat /\ (Bad = {} => Len(seqs) \notin Bad)
    <3> HIDE DEF Bad
    <3> QED OBVIOUS
  <2>2. Bad = {} => \E g : g = Step(g, Len(seqs))
    BY <2>1
  <2> QED BY <2>2 DEF Flattens
<1>2. PICK m \in Bad : \A k \in Bad : m <= k
  BY <1>1, LeastNumber
<1>3. m \in Nat /\ ~(\E g : g = Step(g, m))
  BY <1>2
<1>4. m # 0
  <2> SUFFICES ASSUME m = 0 PROVE FALSE
    OBVIOUS
  <2> DEFINE e == [i \in 1..0 |-> 0]
  <2>1. e = Step(e, 0)
    OBVIOUS
  <2> QED BY <1>3, <2>1
<1>5. PICK g : g = Step(g, m - 1)
  <2> HIDE DEF Bad
  <2>1. m - 1 \notin Bad /\ m - 1 \in Nat
    BY <1>2, <1>3, <1>4
  <2> QED BY <2>1 DEF Bad
<1> DEFINE h == [i \in 1..m |-> IF i < m THEN g[i]
                                ELSE IF i = 1 THEN seqs[i] ELSE g[i - 1] \o seqs[i]]
<1>6. \A i \in 1..m : h[i] = IF i = 1 THEN seqs[i] ELSE h[i - 1] \o seqs[i]
  <2> TAKE i \in 1..m
  <2>1. CASE i = m
    <3>1. i # 1 => i - 1 \in 1..m /\ i - 1 < m
      BY <1>3, <1>4, <2>1
    <3> QED BY <2>1, <3>1
  <2>2. CASE i # m
    <3>1. i \in 1..(m - 1) /\ i < m
      BY <1>3, <2>2
    <3>2. g[i] = IF i = 1 THEN seqs[i] ELSE g[i - 1] \o seqs[i]
      BY <1>5, <3>1
    <3>3. i # 1 => i - 1 \in 1..m /\ i - 1 < m
      BY <3>1
    <3> QED BY <3>1, <3>2, <3>3
  <2> QED BY <2>1, <2>2
<1>7. h = Step(h, m)
  <2> HIDE DEF h
  <2>1. h = [i \in 1..m |-> h[i]]
    BY DEF h
  <2> QED BY <1>6, <2>1
<1> QED BY <1>3, <1>7

\* Two lists without repetition and with no item in common make one without repetition.
LEMMA ConcatInjective ==
    ASSUME NEW A, NEW p \in Seq(A), NEW q \in Seq(A), IsInjective(p), IsInjective(q),
           \A k \in DOMAIN p, l \in DOMAIN q : p[k] # q[l]
    PROVE  IsInjective(p \o q)
<1>1. /\ DOMAIN (p \o q) = 1..(Len(p) + Len(q)) /\ Len(p) \in Nat /\ Len(q) \in Nat
      /\ \A k \in 1..(Len(p) + Len(q)) :
            (p \o q)[k] = IF k <= Len(p) THEN p[k] ELSE q[k - Len(p)]
  OBVIOUS
<1>2. ASSUME NEW k \in DOMAIN (p \o q), NEW l \in DOMAIN (p \o q), (p \o q)[k] = (p \o q)[l]
      PROVE  k = l
  <2>1. CASE k <= Len(p) /\ l <= Len(p)
    <3>1. k \in DOMAIN p /\ l \in DOMAIN p /\ p[k] = p[l]
      BY <1>1, <1>2, <2>1
    <3> QED BY <3>1 DEF IsInjective
  <2>2. CASE k <= Len(p) /\ ~(l <= Len(p))
    <3>1. k \in DOMAIN p /\ l - Len(p) \in DOMAIN q /\ p[k] = q[l - Len(p)]
      BY <1>1, <1>2, <2>2
    <3> QED BY <3>1
  <2>3. CASE ~(k <= Len(p)) /\ l <= Len(p)
    <3>1. l \in DOMAIN p /\ k - Len(p) \in DOMAIN q /\ p[l] = q[k - Len(p)]
      BY <1>1, <1>2, <2>3
    <3> QED BY <3>1
  <2>4. CASE ~(k <= Len(p)) /\ ~(l <= Len(p))
    <3>1. /\ k - Len(p) \in DOMAIN q /\ l - Len(p) \in DOMAIN q
          /\ q[k - Len(p)] = q[l - Len(p)]
      BY <1>1, <1>2, <2>4
    <3>2. k - Len(p) = l - Len(p)
      BY <3>1 DEF IsInjective
    <3> QED BY <1>1, <3>2
  <2> QED BY <2>1, <2>2, <2>3, <2>4
<1> QED BY <1>2 DEF IsInjective

\* What FlattenSeq returns: the items of the lists and nothing else, and each item once
\* when it is in one list only and once there.
LEMMA FlattenSeqFacts ==
    ASSUME NEW A, NEW seqs \in Seq(Seq(A))
    PROVE  /\ FlattenSeq(seqs) \in Seq(A)
           /\ \A k \in DOMAIN FlattenSeq(seqs) : \E i \in DOMAIN seqs :
                 \E j \in DOMAIN seqs[i] : FlattenSeq(seqs)[k] = seqs[i][j]
           /\ (/\ \A i \in DOMAIN seqs : IsInjective(seqs[i])
               /\ \A i, j \in DOMAIN seqs : i # j =>
                     \A a \in DOMAIN seqs[i], b \in DOMAIN seqs[j] : seqs[i][a] # seqs[j][b])
              => IsInjective(FlattenSeq(seqs))
<1> DEFINE n == Len(seqs)
<1>1. n \in Nat /\ DOMAIN seqs = 1..n /\ \A i \in 1..n : seqs[i] \in Seq(A)
  OBVIOUS
<1>2. CASE n = 0
  <2>1. FlattenSeq(seqs) = seqs /\ seqs = <<>>
    BY <1>2 DEF FlattenSeq
  <2> QED BY <2>1 DEF IsInjective
<1>3. CASE n # 0
  <2>1. PICK g : /\ Flattens(g, seqs)
                 /\ FlattenSeq(seqs) = g[n]
    <3> DEFINE g == CHOOSE g : Flattens(g, seqs)
    <3>1. Flattens(g, seqs)
      BY FlattensExists
    <3>2. FlattenSeq(seqs) = g[n]
      BY <1>3 DEF FlattenSeq, Flattens
    <3> QED BY <3>1, <3>2
  <2>2. \A i \in 1..n : g[i] = IF i = 1 THEN seqs[i] ELSE g[i - 1] \o seqs[i]
    BY <2>1 DEF Flattens
  <2> DEFINE Apart(T) == /\ \A i \in T : IsInjective(seqs[i])
                         /\ \A i, j \in T : i # j =>
                               \A a \in DOMAIN seqs[i], b \in DOMAIN seqs[j] :
                                  seqs[i][a] # seqs[j][b]
             Good(m) == /\ g[m] \in Seq(A)
                        /\ \A k \in DOMAIN g[m] : \E i \in 1..m :
                              \E j \in DOMAIN seqs[i] : g[m][k] = seqs[i][j]
                        /\ Apart(1..n) => IsInjective(g[m])
             Bad == {m \in 1..n : ~Good(m)}
  <2>3. Bad = {}
    <3> SUFFICES ASSUME Bad # {} PROVE FALSE
      OBVIOUS
    <3>0. Bad \in SUBSET Nat
      BY <1>1
    <3>1. PICK m \in Bad : \A k \in Bad : m <= k
      BY <3>0, LeastNumber
    <3>2. m \in 1..n /\ ~Good(m)
      BY <3>1
    <3>3. m # 1
      <4> SUFFICES ASSUME m = 1 PROVE FALSE
        OBVIOUS
      <4>1. g[1] = seqs[1] /\ 1 \in 1..n
        BY <2>2, <3>2
      <4> QED BY <1>1, <3>2, <4>1
    <3>4. m - 1 \in 1..n /\ Good(m - 1)
      <4> HIDE DEF Good
      <4>1. m - 1 \in 1..n /\ m - 1 < m
        BY <1>1, <3>2, <3>3
      <4>2. m - 1 \notin Bad
        <5> HIDE DEF Bad
        <5> QED BY <1>1, <3>1, <3>2, <4>1
      <4> QED BY <4>1, <4>2
    <3> DEFINE p == g[m - 1]
               q == seqs[m]
    <3>5. g[m] = p \o q
      BY <2>2, <3>2, <3>3
    <3>6. p \in Seq(A) /\ q \in Seq(A)
      BY <1>1, <3>2, <3>4
    <3>7. \A k \in DOMAIN p : \E i \in 1..m - 1 : \E j \in DOMAIN seqs[i] : p[k] = seqs[i][j]
      BY <3>4
    <3>8. Apart(1..n) => IsInjective(p) /\ IsInjective(q)
      BY <3>2, <3>4
    <3> HIDE DEF p
    <3>9. /\ p \o q \in Seq(A) /\ Len(p \o q) = Len(p) + Len(q)
          /\ \A k \in 1..(Len(p) + Len(q)) :
                (p \o q)[k] = IF k <= Len(p) THEN p[k] ELSE q[k - Len(p)]
      BY <3>6
    <3> HIDE DEF q
    <3>10. \A k \in DOMAIN g[m] : \E i \in 1..m : \E j \in DOMAIN seqs[i] : g[m][k] = seqs[i][j]
      <4> TAKE k \in DOMAIN g[m]
      <4>1. k \in 1..(Len(p) + Len(q)) /\ Len(p) \in Nat /\ Len(q) \in Nat
        BY <3>5, <3>6, <3>9
      <4>2. CASE k <= Len(p)
        <5>1. g[m][k] = p[k] /\ k \in DOMAIN p
          BY <3>5, <3>6, <3>9, <4>1, <4>2
        <5> QED BY <3>7, <5>1
      <4>3. CASE ~(k <= Len(p))
        <5>1. g[m][k] = q[k - Len(p)] /\ k - Len(p) \in DOMAIN q /\ m \in 1..m
          BY <3>2, <3>5, <3>6, <3>9, <4>1, <4>3
        <5> QED BY <5>1 DEF q
      <4> QED BY <4>2, <4>3
    <3>11. ASSUME Apart(1..n) PROVE IsInjective(g[m])
      <4>1. IsInjective(p) /\ IsInjective(q)
        BY <3>8, <3>11
      <4>2. ASSUME NEW k \in DOMAIN p, NEW l \in DOMAIN q, p[k] = q[l] PROVE FALSE
        <5>1. PICK i \in 1..m - 1 : \E j \in DOMAIN seqs[i] : p[k] = seqs[i][j]
          BY <3>7, <4>2
        <5>2. i \in 1..n /\ i # m
          BY <1>1, <3>2, <5>1
        <5> QED BY <3>2, <3>11, <4>2, <5>1, <5>2 DEF q
      <4> QED BY <3>5, <3>6, <4>1, <4>2, ConcatInjective
    <3> QED BY <3>2, <3>5, <3>6, <3>9, <3>10, <3>11
  <2>4. Good(n)
    <3> HIDE DEF Good
    <3> QED BY <1>1, <1>3, <2>3
  <2>5. /\ g[n] \in Seq(A)
        /\ \A k \in DOMAIN g[n] : \E i \in DOMAIN seqs : \E j \in DOMAIN seqs[i] : g[n][k] = seqs[i][j]
    BY <1>1, <2>4
  <2>6. Apart(DOMAIN seqs) => IsInjective(g[n])
    <3>1. Apart(1..n) => IsInjective(g[n])
      BY <2>4
    <3> HIDE DEF Apart
    <3> QED BY <1>1, <3>1
  <2> QED BY <2>1, <2>5, <2>6
<1> QED BY <1>2, <1>3
-----------------------------------------------------------------------------
\* The addresses of the pools.
LEMMA AddressFacts ==
    /\ Address \subseteq Nat
    /\ \A p \in PoolRequest : p.start..p.end \subseteq Address /\ p.start \in Nat /\ p.end \in Nat
<1> QED BY NetworkAssumption DEF Address

\* The addresses of one pool, each once.
LEMMA IpListFacts ==
    ASSUME NEW p \in PoolRequest
    PROVE  /\ IpList(p) \in Seq(Address) /\ IsInjective(IpList(p))
           /\ \A k \in DOMAIN IpList(p) : InRange(IpList(p)[k], p)
<1> DEFINE n == p.end - p.start + 1
<1>1. p.start \in Nat /\ p.end \in Nat /\ p.start <= p.end /\ n \in Nat
  BY NetworkAssumption
<1>2. \A k \in 1..n : p.start + k - 1 \in p.start..p.end
  BY <1>1
<1>3. IpList(p) \in [1..n -> Address] /\ \A k \in 1..n : IpList(p)[k] = p.start + k - 1
  BY <1>2, AddressFacts DEF IpList
<1>4. IpList(p) \in Seq(Address)
  BY <1>1, <1>3
<1>5. IsInjective(IpList(p))
  <2>1. \A a, b \in 1..n : p.start + a - 1 = p.start + b - 1 => a = b
    BY <1>1
  <2> QED BY <1>3, <2>1 DEF IsInjective
<1> QED BY <1>1, <1>2, <1>3, <1>4, <1>5 DEF InRange

\* The addresses of all pools: each once, when the pools are disjoint.
LEMMA PoolIpsFacts ==
    ASSUME allocation_pool \in Seq(PoolRequest)
    PROVE  /\ PoolIps \in Seq(Address)
           /\ GoodPools(allocation_pool) => IsInjective(PoolIps)
<1> DEFINE seqs == [i \in DOMAIN allocation_pool |-> IpList(allocation_pool[i])]
<1>1. /\ DOMAIN allocation_pool = 1..Len(allocation_pool) /\ Len(allocation_pool) \in Nat
      /\ \A i \in DOMAIN allocation_pool : allocation_pool[i] \in PoolRequest
  OBVIOUS
<1>2. \A i \in DOMAIN allocation_pool :
         /\ IpList(allocation_pool[i]) \in Seq(Address)
         /\ IsInjective(IpList(allocation_pool[i]))
         /\ \A k \in DOMAIN IpList(allocation_pool[i]) :
               InRange(IpList(allocation_pool[i])[k], allocation_pool[i])
  BY <1>1, IpListFacts
<1>3. /\ seqs \in [1..Len(allocation_pool) -> Seq(Address)]
      /\ DOMAIN seqs = DOMAIN allocation_pool
      /\ \A i \in DOMAIN seqs : seqs[i] = IpList(allocation_pool[i])
  BY <1>1, <1>2
<1>4. PoolIps = FlattenSeq(seqs)
  BY DEF PoolIps
<1> HIDE DEF seqs
<1>5. seqs \in Seq(Seq(Address))
  BY <1>1, <1>3
<1>6. FlattenSeq(seqs) \in Seq(Address)
  BY <1>5, FlattenSeqFacts
<1>7. ASSUME GoodPools(allocation_pool) PROVE IsInjective(FlattenSeq(seqs))
  <2>1. ASSUME NEW i \in DOMAIN seqs, NEW j \in DOMAIN seqs, i # j,
               NEW a \in DOMAIN seqs[i], NEW b \in DOMAIN seqs[j], seqs[i][a] = seqs[j][b]
        PROVE  FALSE
    <3>1. /\ InRange(seqs[i][a], allocation_pool[i]) /\ InRange(seqs[i][a], allocation_pool[j])
      BY <1>2, <1>3, <2>1
    <3>2. seqs[i][a] \in Address
      BY <1>1, <1>2, <1>3
    <3> QED BY <1>3, <1>7, <2>1, <3>1, <3>2 DEF GoodPools
  <2>2. \A i \in DOMAIN seqs : IsInjective(seqs[i])
    BY <1>2, <1>3
  <2> QED BY <1>5, <2>1, <2>2, FlattenSeqFacts
<1> QED BY <1>4, <1>6, <1>7

\* What reserve_range finds: addresses of the pools that no range contains.
LEMMA AvailableIpsFacts ==
    ASSUME allocation_pool \in Seq(PoolRequest)
    PROVE  /\ AvailableIps \in Seq(Address)
           /\ \A k \in DOMAIN AvailableIps : ~IsIpReserved(AvailableIps[k])
           /\ GoodPools(allocation_pool) => IsInjective(AvailableIps)
<1> DEFINE Places == {i \in DOMAIN PoolIps : ~IsIpReserved(PoolIps[i])}
<1>1. PICK ips : ips = PoolIps
  OBVIOUS
<1>2. ips \in Seq(Address) /\ (GoodPools(allocation_pool) => IsInjective(ips))
  BY <1>1, PoolIpsFacts
<1>3. PICK P : P = Places
  OBVIOUS
<1>4. P \in SUBSET Nat /\ IsFiniteSet(P) /\ P \subseteq DOMAIN ips
      /\ \A i \in P : ~IsIpReserved(ips[i])
  <2>1. DOMAIN ips = 1..Len(ips) /\ Len(ips) \in Nat
    BY <1>2
  <2>2. IsFiniteSet(1..Len(ips))
    BY <2>1, FS_Interval
  <2>3. P \subseteq 1..Len(ips) /\ \A i \in P : ~IsIpReserved(ips[i])
    BY <1>1, <1>3, <2>1
  <2>4. IsFiniteSet(P)
    BY <2>2, <2>3, FS_Subset
  <2> QED BY <2>1, <2>3, <2>4
<1>5. PICK f : f = Ascending(P)
  OBVIOUS
<1>6. f \in Seq(P) /\ IsInjective(f)
  BY <1>4, <1>5, AscendingFacts
<1>7. AvailableIps = [k \in DOMAIN f |-> ips[f[k]]]
  BY <1>1, <1>3, <1>5 DEF AvailableIps
<1>8. /\ DOMAIN f = 1..Len(f) /\ Len(f) \in Nat
      /\ \A k \in DOMAIN f : f[k] \in P /\ f[k] \in DOMAIN ips /\ ips[f[k]] \in Address
  <2>1. DOMAIN f = 1..Len(f) /\ Len(f) \in Nat /\ \A k \in DOMAIN f : f[k] \in P
    BY <1>6
  <2>2. \A i \in DOMAIN ips : ips[i] \in Address
    BY <1>2
  <2> QED BY <1>4, <2>1, <2>2
<1>9. AvailableIps \in Seq(Address) /\ DOMAIN AvailableIps = DOMAIN f
      /\ \A k \in DOMAIN f : AvailableIps[k] = ips[f[k]]
  BY <1>7, <1>8
<1>10. ASSUME IsInjective(ips) PROVE IsInjective(AvailableIps)
  BY <1>6, <1>8, <1>9, <1>10 DEF IsInjective
<1> QED BY <1>2, <1>4, <1>8, <1>9, <1>10
-----------------------------------------------------------------------------
\* Between two cuts the addresses follow one another.
LEMMA RunFacts ==
    ASSUME NEW ips \in Seq(Nat), NEW a \in 1..Len(ips), NEW b \in a..Len(ips),
           \A i \in (a + 1)..b : i \notin Cuts(ips)
    PROVE  \A j \in a..b : ips[j] = ips[a] + (j - a)
<1> DEFINE Bad == {j \in a..b : ips[j] # ips[a] + (j - a)}
<1>1. SUFFICES ASSUME Bad # {} PROVE FALSE
  OBVIOUS
<1>2. Bad \in SUBSET Nat
  OBVIOUS
<1>3. PICK j \in Bad : \A k \in Bad : j <= k
  BY <1>1, <1>2, LeastNumber
<1>4. j \in a..b /\ ips[j] # ips[a] + (j - a)
  BY <1>3
<1>5. j # a
  <2>1. ips[a] \in Nat
    OBVIOUS
  <2> QED BY <1>4, <2>1
<1>6. j - 1 \in a..b /\ j - 1 < j
  BY <1>4, <1>5
<1>7. ips[j - 1] = ips[a] + ((j - 1) - a)
  <2>1. j - 1 \notin Bad
    <3> HIDE DEF Bad
    <3> QED BY <1>2, <1>3, <1>6
  <2> QED BY <1>6, <2>1
<1>8. ips[j] = ips[j - 1] + 1
  <2>1. j \notin Cuts(ips) /\ j \in DOMAIN ips /\ j # 1
    BY <1>4, <1>5
  <2> QED BY <2>1 DEF Cuts
<1>9. ips[a] \in Nat
  OBVIOUS
<1> QED BY <1>4, <1>7, <1>8, <1>9

\* The k-th run of the list ips, as NewRanges cuts it.
Run(f, k, n) == f[k]..(IF k = Len(f) THEN n ELSE f[k + 1] - 1)

\* The runs do not meet, and the addresses of one follow one another.
LEMMA CutFacts ==
    ASSUME NEW ips \in Seq(Nat), NEW f, f = Ascending(Cuts(ips))
    PROVE  /\ f \in Seq(1..Len(ips)) /\ Len(f) = Cardinality(Cuts(ips))
           /\ \A k \in 1..Len(f) :
                 (IF k = Len(f) THEN Len(ips) ELSE f[k + 1] - 1) \in f[k]..Len(ips)
           /\ \A k \in 1..Len(f) : \A j \in Run(f, k, Len(ips)) :
                 j \in 1..Len(ips) /\ ips[j] = ips[f[k]] + (j - f[k])
           /\ \A k, l \in 1..Len(f) : k # l =>
                 Run(f, k, Len(ips)) \cap Run(f, l, Len(ips)) = {}
<1> DEFINE C == Cuts(ips)
           n == Len(ips)
           last(k) == IF k = Len(f) THEN n ELSE f[k + 1] - 1
<1>1. n \in Nat /\ DOMAIN ips = 1..n
  OBVIOUS
<1>2. C \subseteq 1..n /\ IsFiniteSet(C) /\ C \in SUBSET Nat
  <2>1. C \subseteq 1..n /\ IsFiniteSet(1..n)
    BY <1>1, FS_Interval DEF Cuts
  <2>2. IsFiniteSet(C)
    BY <2>1, FS_Subset
  <2> QED BY <2>1, <2>2
<1>3. PICK m : m = Cardinality(C)
  OBVIOUS
<1> HIDE DEF C
<1>4. /\ f \in Seq(C) /\ Len(f) = m
      /\ \A i, j \in 1..m : i < j => f[i] < f[j]
      /\ \A x \in C : \E i \in 1..m : f[i] = x
  BY <1>2, <1>3, AscendingFacts DEF C
<1>5. m \in Nat /\ \A i \in 1..m : f[i] \in C /\ f[i] \in 1..n
  <2>1. m \in Nat /\ \A i \in 1..m : f[i] \in C
    BY <1>4
  <2> QED BY <1>2, <2>1
<1>6. f \in Seq(1..n)
  BY <1>4, <1>5
<1>7. \A k \in 1..m : last(k) \in f[k]..n
  <2> TAKE k \in 1..m
  <2>1. CASE k = m
    BY <1>1, <1>4, <1>5, <2>1
  <2>2. CASE k # m
    <3>1. k + 1 \in 1..m /\ k < k + 1
      BY <1>5, <2>2
    <3>2. f[k] < f[k + 1] /\ f[k] \in 1..n /\ f[k + 1] \in 1..n
      BY <1>4, <1>5, <3>1
    <3> QED BY <1>1, <1>4, <2>2, <3>2
  <2> QED BY <2>1, <2>2
<1>8. ASSUME NEW k \in 1..m, NEW l \in 1..m, k < l PROVE last(k) < f[l]
  <2>1. k # m /\ k + 1 \in 1..m
    BY <1>5, <1>8
  <2>2. f[k + 1] <= f[l] /\ f[k + 1] \in 1..n /\ f[l] \in 1..n
    <3>1. CASE k + 1 = l
      BY <1>5, <3>1
    <3>2. CASE k + 1 # l
      <4>1. k + 1 < l
        BY <1>5, <1>8, <3>2
      <4> QED BY <1>1, <1>4, <1>5, <2>1, <4>1
    <3> QED BY <3>1, <3>2
  <2> QED BY <1>1, <1>4, <2>1, <2>2
<1>9. ASSUME NEW k \in 1..m, NEW i \in (f[k] + 1)..last(k) PROVE i \notin C
  <2> SUFFICES ASSUME i \in C PROVE FALSE
    OBVIOUS
  <2>1. PICK l \in 1..m : f[l] = i
    BY <1>4
  <2>2. f[k] \in 1..n /\ last(k) \in f[k]..n /\ f[l] \in 1..n
    BY <1>5, <1>7
  <2> HIDE DEF last
  <2>3. f[k] < f[l] /\ f[l] <= last(k)
    BY <1>1, <1>9, <2>1, <2>2
  <2>4. l # k /\ ~(l < k)
    <3>1. l < k => f[l] < f[k]
      BY <1>4
    <3> QED BY <2>2, <2>3, <3>1
  <2>5. k < l
    BY <1>5, <2>4
  <2>6. last(k) < f[l]
    BY <1>8, <2>5
  <2> QED BY <2>2, <2>3, <2>6
<1>10. ASSUME NEW k \in 1..m
       PROVE  \A j \in f[k]..last(k) : j \in 1..n /\ ips[j] = ips[f[k]] + (j - f[k])
  <2>1. f[k] \in 1..n /\ last(k) \in f[k]..n
    BY <1>5, <1>7
  <2>2. \A i \in (f[k] + 1)..last(k) : i \notin C
    BY <1>9
  <2> HIDE DEF last
  <2>3. \A j \in f[k]..last(k) : ips[j] = ips[f[k]] + (j - f[k])
    BY <2>1, <2>2, RunFacts DEF C
  <2> QED BY <1>1, <2>1, <2>3
<1>11. ASSUME NEW k \in 1..m, NEW l \in 1..m, k # l
       PROVE  (f[k]..last(k)) \cap (f[l]..last(l)) = {}
  <2>1. /\ f[k] \in 1..n /\ last(k) \in f[k]..n
        /\ f[l] \in 1..n /\ last(l) \in f[l]..n
    BY <1>5, <1>7
  <2>2. k < l => last(k) < f[l]
    BY <1>8
  <2>3. l < k => last(l) < f[k]
    BY <1>8
  <2> HIDE DEF last
  <2> QED BY <1>1, <1>5, <1>11, <2>1, <2>2, <2>3
<1> QED BY <1>3, <1>4, <1>6, <1>7, <1>10, <1>11 DEF Run, C

\* No address is in two of the ranges.
Apart(ranges) ==
    \A i, j \in DOMAIN ranges : i # j =>
        \A ip \in Address : ~(InRange(ip, ranges[i]) /\ InRange(ip, ranges[j]))

\* No two ranges have the same name.
NamesDiffer(ranges) == \A i, j \in DOMAIN ranges : ranges[i].name = ranges[j].name => i = j

\* The ranges of a reservation: unused, with new names, together the addresses that were
\* found and, when these are all different, without an address in common.
LEMMA NewRangesFacts ==
    ASSUME NEW ips \in Seq(Address), NEW owner \in Cluster,
           Cardinality(Cuts(ips)) <= Cardinality(FreshNames)
    PROVE  /\ NewRanges(ips, owner) \in Seq(RangeType)
           /\ NamesDiffer(NewRanges(ips, owner))
           /\ \A k \in DOMAIN NewRanges(ips, owner) :
                 LET r == NewRanges(ips, owner)[k]
                 IN  /\ r.start <= r.end /\ r.used = {} /\ r.owner = owner
                     /\ r.start..r.end \subseteq Address
                     /\ r.name \in FreshNames
                     /\ \A ip \in Address : InRange(ip, r) => \E i \in DOMAIN ips : ips[i] = ip
           /\ IsInjective(ips) => Apart(NewRanges(ips, owner))
<1>1. PICK F : F = FreshNames
  OBVIOUS
<1>2. F \subseteq RangeName /\ F \in SUBSET Nat /\ IsFiniteSet(F)
  <2>1. F \subseteq RangeName
    BY <1>1 DEF FreshNames
  <2>2. IsFiniteSet(RangeName) /\ RangeName \subseteq Nat
    BY NetworkAssumption, FS_Interval DEF RangeName
  <2>3. IsFiniteSet(F)
    BY <2>1, <2>2, FS_Subset
  <2> QED BY <2>1, <2>2, <2>3
<1>3. PICK names : names = Ascending(F)
  OBVIOUS
<1>4. PICK f : f = Ascending(Cuts(ips))
  OBVIOUS
<1>5. PICK m, n : m = Len(f) /\ n = Len(ips)
  OBVIOUS
<1>6. ips \in Seq(Nat) /\ n \in Nat /\ DOMAIN ips = 1..n
  <2>1. n \in Nat /\ DOMAIN ips = 1..n
    BY <1>5
  <2>2. ips \in Seq(Nat)
    BY AddressFacts, SeqMonotonic
  <2> QED BY <2>1, <2>2
<1> DEFINE last(k) == IF k = m THEN n ELSE f[k + 1] - 1
<1>7. /\ f \in Seq(1..n) /\ m = Cardinality(Cuts(ips))
      /\ \A k \in 1..m : last(k) \in f[k]..n
      /\ \A k \in 1..m : \A j \in f[k]..last(k) : j \in 1..n /\ ips[j] = ips[f[k]] + (j - f[k])
      /\ \A k, l \in 1..m : k # l => (f[k]..last(k)) \cap (f[l]..last(l)) = {}
  <2>1. f \in Seq(1..n) /\ m = Cardinality(Cuts(ips))
    BY <1>4, <1>5, <1>6, CutFacts
  <2>2. \A k \in 1..m : last(k) \in f[k]..n
    BY <1>4, <1>5, <1>6, CutFacts
  <2>3. \A k \in 1..m : \A j \in Run(f, k, n) : j \in 1..n /\ ips[j] = ips[f[k]] + (j - f[k])
    BY <1>4, <1>5, <1>6, CutFacts
  <2>4. \A k, l \in 1..m : k # l => Run(f, k, n) \cap Run(f, l, n) = {}
    BY <1>4, <1>5, <1>6, CutFacts
  <2>5. \A k : Run(f, k, n) = f[k]..last(k)
    BY <1>5 DEF Run
  <2> HIDE DEF last
  <2> QED BY <2>1, <2>2, <2>3, <2>4, <2>5
<1>8. m \in Nat /\ DOMAIN f = 1..m /\ \A k \in 1..m : f[k] \in 1..n
  <2>1. f \in Seq(1..n)
    BY <1>7
  <2> QED BY <1>5, <2>1
<1>9. /\ \A k \in 1..m : names[k] \in F
      /\ \A k, l \in 1..m : names[k] = names[l] => k = l
  <2>1. /\ names \in Seq(F) /\ Len(names) = Cardinality(F) /\ IsInjective(names)
        /\ Cardinality(F) \in Nat
    BY <1>2, <1>3, AscendingFacts, FS_CardinalityType
  <2>2. DOMAIN names = 1..Cardinality(F) /\ m <= Cardinality(F)
    BY <1>1, <1>7, <2>1
  <2>3. \A k \in 1..m : k \in DOMAIN names
    BY <1>8, <2>1, <2>2
  <2>4. \A k \in DOMAIN names : names[k] \in F
    BY <2>1
  <2> QED BY <2>1, <2>3, <2>4 DEF IsInjective
<1>10. PICK new : new = NewRanges(ips, owner)
  OBVIOUS
<1>11. new = [k \in 1..m |-> [name |-> names[k], start |-> ips[f[k]], end |-> ips[last(k)],
                              owner |-> owner, used |-> {}]]
  BY <1>1, <1>3, <1>4, <1>5, <1>8, <1>10 DEF NewRanges
<1>12. ASSUME NEW k \in 1..m
       PROVE  /\ f[k] \in 1..n /\ last(k) \in f[k]..n
              /\ ips[f[k]] \in Address /\ ips[last(k)] \in Address
              /\ ips[last(k)] = ips[f[k]] + (last(k) - f[k])
  <2>1. f[k] \in 1..n /\ last(k) \in f[k]..n
    BY <1>7, <1>8
  <2> HIDE DEF last
  <2>2. last(k) \in 1..n /\ last(k) \in f[k]..last(k)
    BY <1>6, <2>1
  <2>3. ips[last(k)] = ips[f[k]] + (last(k) - f[k])
    BY <1>7, <2>2 DEF last
  <2>4. \A i \in 1..n : ips[i] \in Address
    BY <1>6
  <2> QED BY <2>1, <2>2, <2>3, <2>4
<1>13. /\ DOMAIN new = 1..m
       /\ \A k \in 1..m : /\ new[k] \in RangeType
                          /\ new[k].name = names[k] /\ new[k].owner = owner /\ new[k].used = {}
                          /\ new[k].start = ips[f[k]] /\ new[k].end = ips[last(k)]
  <2>1. \A k \in 1..m : names[k] \in RangeName
    BY <1>2, <1>9
  <2> HIDE DEF last
  <2> QED BY <1>11, <1>12, <2>1 DEF RangeType
<1>14. new \in Seq(RangeType)
  <2>1. new \in [1..m -> RangeType]
    BY <1>11, <1>13
  <2> QED BY <1>8, <2>1
<1>15. NamesDiffer(new)
  BY <1>9, <1>13 DEF NamesDiffer
<1>16. ASSUME NEW k \in 1..m, NEW ip \in Nat, InRange(ip, new[k])
       PROVE  \E i \in f[k]..last(k) : i \in 1..n /\ ips[i] = ip
  <2>1. ips[f[k]] <= ip /\ ip <= ips[last(k)]
    BY <1>13, <1>16 DEF InRange
  <2>2. PICK z : z = last(k)
    OBVIOUS
  <2>3. f[k] \in 1..n /\ z \in f[k]..n /\ ips[f[k]] \in Nat /\ ips[z] = ips[f[k]] + (z - f[k])
        /\ ip \in Nat
    BY <1>12, <2>2, AddressFacts
  <2>4. PICK i : i = f[k] + (ip - ips[f[k]])
    OBVIOUS
  <2>5. i \in f[k]..z /\ ips[f[k]] + (i - f[k]) = ip
    <3>1. PICK a, x, y : a = f[k] /\ x = ips[a] /\ y = ips[z]
      OBVIOUS
    <3>2. /\ n \in Nat /\ a \in 1..n /\ z \in a..n /\ x \in Nat /\ y = x + (z - a) /\ ip \in Nat
          /\ x <= ip /\ ip <= y /\ i = a + (ip - x)
      BY <1>6, <2>1, <2>2, <2>3, <2>4, <3>1
    <3>3. i \in a..z /\ x + (i - a) = ip
      BY <3>2
    <3> QED BY <3>1, <3>3
  <2>6. i \in 1..n /\ ips[i] = ips[f[k]] + (i - f[k])
    BY <1>7, <2>2, <2>5
  <2> QED BY <2>2, <2>5, <2>6
<1>17. ASSUME NEW k \in 1..m
       PROVE  new[k].start <= new[k].end
  <2>1. f[k] \in 1..n /\ last(k) \in f[k]..n /\ ips[f[k]] \in Nat
        /\ ips[last(k)] = ips[f[k]] + (last(k) - f[k])
    BY <1>12, AddressFacts
  <2> HIDE DEF last
  <2> QED BY <1>6, <1>13, <2>1
<1>18. ASSUME IsInjective(ips) PROVE Apart(new)
  <2>1. ASSUME NEW k \in 1..m, NEW l \in 1..m, k # l, NEW ip \in Address,
               InRange(ip, new[k]), InRange(ip, new[l])
        PROVE  FALSE
    <3>0. ip \in Nat
      BY AddressFacts
    <3>1. PICK i \in f[k]..last(k) : i \in 1..n /\ ips[i] = ip
      BY <1>16, <2>1, <3>0
    <3>2. PICK j \in f[l]..last(l) : j \in 1..n /\ ips[j] = ip
      BY <1>16, <2>1, <3>0
    <3>3. i = j
      BY <1>6, <1>18, <3>1, <3>2 DEF IsInjective
    <3>4. (f[k]..last(k)) \cap (f[l]..last(l)) = {}
      BY <1>7, <2>1
    <3> HIDE DEF last
    <3> QED BY <3>3, <3>4
  <2> QED BY <1>13, <2>1 DEF Apart
<1> QED
  <2>1. \A k \in 1..m : /\ new[k].start <= new[k].end /\ new[k].used = {} /\ new[k].owner = owner
                        /\ new[k].name \in FreshNames
    BY <1>1, <1>6, <1>9, <1>13, <1>17
  <2>2. \A k \in 1..m : \A ip \in Nat : InRange(ip, new[k]) => \E i \in DOMAIN ips : ips[i] = ip
    BY <1>6, <1>16
  <2>3. ASSUME NEW k \in 1..m PROVE new[k].start..new[k].end \subseteq Address
    <3>1. new[k].start \in Nat /\ new[k].end \in Nat
      BY <1>12, <1>13, AddressFacts
    <3>2. \A i \in DOMAIN ips : ips[i] \in Address
      OBVIOUS
    <3>3. ASSUME NEW ip \in new[k].start..new[k].end PROVE ip \in Address
      <4>1. ip \in Nat /\ InRange(ip, new[k])
        BY <3>1 DEF InRange
      <4> QED BY <2>2, <3>2, <4>1
    <3> QED BY <3>3
  <2>4. \A k \in 1..m : \A ip \in Address : InRange(ip, new[k]) =>
           \E i \in DOMAIN ips : ips[i] = ip
    BY <2>2, AddressFacts
  <2>5. \A k \in 1..m : /\ new[k].start <= new[k].end /\ new[k].used = {} /\ new[k].owner = owner
                        /\ new[k].start..new[k].end \subseteq Address
                        /\ new[k].name \in FreshNames
                        /\ \A ip \in Address : InRange(ip, new[k]) =>
                              \E i \in DOMAIN ips : ips[i] = ip
    BY <2>1, <2>3, <2>4
  <2> QED BY <1>10, <1>13, <1>14, <1>15, <1>18, <2>5
-----------------------------------------------------------------------------
\* Taking one item out of a list: the others stay, and nothing comes in.
LEMMA RemoveAtItems ==
    ASSUME NEW S, NEW list \in Seq(S), NEW i \in 1..Len(list), NEW new, new = RemoveAt(list, i)
    PROVE  /\ new \in Seq(S)
           /\ \A k \in DOMAIN new : \E a \in DOMAIN list : a # i /\ new[k] = list[a]
           /\ \A k, l \in DOMAIN new : k # l => \E a, b \in DOMAIN list :
                 a # b /\ new[k] = list[a] /\ new[l] = list[b]
           /\ \A a \in DOMAIN list : a # i => \E k \in DOMAIN new : new[k] = list[a]
<1>1. /\ new \in Seq(S) /\ Len(new) = Len(list) - 1
      /\ \A k \in 1..(Len(list) - 1) : new[k] = IF k < i THEN list[k] ELSE list[k + 1]
  BY RemoveAtFacts
<1>2. PICK n : n = Len(list)
  OBVIOUS
<1>3. n \in Nat /\ DOMAIN list = 1..n /\ DOMAIN new = 1..(n - 1) /\ i \in 1..n
  BY <1>1, <1>2
<1> DEFINE from(k) == IF k < i THEN k ELSE k + 1
<1>4. \A k \in DOMAIN new : from(k) \in DOMAIN list /\ from(k) # i /\ new[k] = list[from(k)]
  BY <1>1, <1>2, <1>3
<1>5. \A k, l \in DOMAIN new : k # l => from(k) # from(l)
  BY <1>3
<1>6. ASSUME NEW a \in DOMAIN list, a # i PROVE \E k \in DOMAIN new : new[k] = list[a]
  <2>1. CASE a < i
    <3>1. a \in DOMAIN new /\ from(a) = a
      BY <1>3, <2>1
    <3> QED BY <1>4, <3>1
  <2>2. CASE ~(a < i)
    <3>1. a - 1 \in DOMAIN new /\ from(a - 1) = a
      BY <1>3, <1>6, <2>2
    <3> QED BY <1>4, <3>1
  <2> QED BY <2>1, <2>2
<1> HIDE DEF from
<1> QED BY <1>1, <1>4, <1>5, <1>6

\* list.remove(name), list.remove(ip): the others stay, and one that was there once is gone.
LEMMA RemoveFirstFacts ==
    ASSUME NEW S, NEW list \in Seq(S), NEW e, NEW new, new = RemoveFirst(list, e)
    PROVE  /\ new \in Seq(S)
           /\ \A x : Contains(new, x) => Contains(list, x)
           /\ \A x : Contains(list, x) /\ x # e => Contains(new, x)
           /\ IsInjective(list) => IsInjective(new) /\ ~Contains(new, e)
<1>1. CASE Contains(list, e)
  <2> DEFINE I == {i \in 1..Len(list) : list[i] = e}
  <2>1. I # {} /\ I \in SUBSET Nat
    BY <1>1 DEF Contains
  <2>2. new = RemoveAt(list, Min(I))
    BY <1>1, <2>1 DEF RemoveFirst, SelectInSeq, Contains
  <2>3. Min(I) \in I
    BY <2>1, LeastNumber DEF Min
  <2>4. PICK i : i = Min(I)
    OBVIOUS
  <2>5. i \in 1..Len(list) /\ list[i] = e /\ new = RemoveAt(list, i)
    BY <2>2, <2>3, <2>4
  <2> HIDE DEF I
  <2>6. /\ new \in Seq(S)
        /\ \A k \in DOMAIN new : \E a \in DOMAIN list : a # i /\ new[k] = list[a]
        /\ \A k, l \in DOMAIN new : k # l => \E a, b \in DOMAIN list :
              a # b /\ new[k] = list[a] /\ new[l] = list[b]
        /\ \A a \in DOMAIN list : a # i => \E k \in DOMAIN new : new[k] = list[a]
    BY <2>5, RemoveAtItems
  <2>7. DOMAIN new = 1..Len(new) /\ DOMAIN list = 1..Len(list)
    BY <2>6
  <2>8. ASSUME NEW x, Contains(new, x) PROVE Contains(list, x)
    BY <2>6, <2>7, <2>8 DEF Contains
  <2>9. ASSUME NEW x, Contains(list, x), x # e PROVE Contains(new, x)
    <3>1. PICK a \in DOMAIN list : a # i /\ x = list[a]
      BY <2>5, <2>7, <2>9 DEF Contains
    <3> QED BY <2>6, <2>7, <3>1 DEF Contains
  <2>10. ASSUME IsInjective(list) PROVE IsInjective(new)
    BY <2>6, <2>10 DEF IsInjective
  <2>11. ASSUME IsInjective(list), Contains(new, e) PROVE FALSE
    <3>1. PICK a \in DOMAIN list : a # i /\ e = list[a]
      BY <2>6, <2>7, <2>11 DEF Contains
    <3> QED BY <2>5, <2>7, <2>11, <3>1 DEF IsInjective
  <2> QED BY <2>6, <2>8, <2>9, <2>10, <2>11
<1>2. CASE ~Contains(list, e)
  <2>1. new = list
    BY <1>2 DEF RemoveFirst, Contains
  <2> QED BY <1>2, <2>1
<1> QED BY <1>1, <1>2

\* Append and concatenation, seen through Contains.
LEMMA ConcatContains ==
    ASSUME NEW S, NEW p \in Seq(S), NEW q \in Seq(S), NEW x
    PROVE  Contains(p \o q, x) <=> Contains(p, x) \/ Contains(q, x)
<1>1. /\ Len(p \o q) = Len(p) + Len(q) /\ Len(p) \in Nat /\ Len(q) \in Nat
      /\ \A k \in 1..(Len(p) + Len(q)) :
            (p \o q)[k] = IF k <= Len(p) THEN p[k] ELSE q[k - Len(p)]
  OBVIOUS
<1>2. ASSUME Contains(p \o q, x) PROVE Contains(p, x) \/ Contains(q, x)
  <2>1. PICK k \in 1..(Len(p) + Len(q)) : (p \o q)[k] = x
    BY <1>1, <1>2 DEF Contains
  <2>2. CASE k <= Len(p)
    <3>1. k \in 1..Len(p) /\ p[k] = x
      BY <1>1, <2>1, <2>2
    <3> QED BY <3>1 DEF Contains
  <2>3. CASE ~(k <= Len(p))
    <3>1. k - Len(p) \in 1..Len(q) /\ q[k - Len(p)] = x
      BY <1>1, <2>1, <2>3
    <3> QED BY <3>1 DEF Contains
  <2> QED BY <2>2, <2>3
<1>3. ASSUME Contains(p, x) PROVE Contains(p \o q, x)
  <2>1. PICK k \in 1..Len(p) : p[k] = x
    BY <1>3 DEF Contains
  <2>2. k \in 1..(Len(p) + Len(q)) /\ (p \o q)[k] = x
    BY <1>1, <2>1
  <2> QED BY <1>1, <2>2 DEF Contains
<1>4. ASSUME Contains(q, x) PROVE Contains(p \o q, x)
  <2>1. PICK k \in 1..Len(q) : q[k] = x
    BY <1>4 DEF Contains
  <2>2. /\ Len(p) + k \in 1..(Len(p) + Len(q)) /\ ~(Len(p) + k <= Len(p))
        /\ (Len(p) + k) - Len(p) = k
    BY <1>1, <2>1
  <2>3. (p \o q)[Len(p) + k] = x
    BY <1>1, <2>1, <2>2
  <2> QED BY <1>1, <2>2, <2>3 DEF Contains
<1> QED BY <1>2, <1>3, <1>4
-----------------------------------------------------------------------------
\* A list of ranges and the lists of names of the clusters, in memory or in a document:
\* a name stands for one range, and a cluster that lists a range is its owner.
Shape(ranges, names) ==
    /\ ranges \in Seq(RangeType)
    /\ \A i \in DOMAIN ranges :
          /\ ranges[i].start <= ranges[i].end
          /\ ranges[i].start..ranges[i].end \subseteq Address
          /\ ranges[i].used \subseteq ranges[i].start..ranges[i].end
    /\ NamesDiffer(ranges)
    /\ names \in [Cluster -> Seq(RangeName)]
    /\ \A c \in Cluster : IsInjective(names[c])
    /\ \A c \in Cluster : \A i \in DOMAIN ranges :
          Contains(names[c], ranges[i].name) => ranges[i].owner = c

\* The same ranges, whose used addresses may differ.
Kept(new, old) ==
    /\ DOMAIN new = DOMAIN old
    /\ \A i \in DOMAIN old : /\ new[i].name = old[i].name /\ new[i].owner = old[i].owner
                             /\ new[i].start = old[i].start /\ new[i].end = old[i].end

\* Addresses are marked, or freed, in ranges that stay.
LEMMA ShapeKept ==
    ASSUME NEW R, NEW N, Shape(R, N), NEW new, new \in Seq(RangeType), Kept(new, R),
           \A i \in DOMAIN R : new[i].used \subseteq R[i].start..R[i].end
    PROVE  Shape(new, N)
<1>1. NamesDiffer(new)
  BY DEF Shape, Kept, NamesDiffer
<1> QED BY <1>1 DEF Shape, Kept

\* A range, and a name, may go.
LEMMA ShapeRemoved ==
    ASSUME NEW R, NEW N, Shape(R, N), NEW i \in DOMAIN R, NEW new, new = RemoveAt(R, i),
           NEW M, \/ M = N
                  \/ \E c \in Cluster : \E n : M = [N EXCEPT ![c] = RemoveFirst(@, n)]
    PROVE  Shape(new, M)
<1>1. R \in Seq(RangeType) /\ i \in 1..Len(R)
  BY DEF Shape
<1>2. /\ new \in Seq(RangeType)
      /\ \A k \in DOMAIN new : \E a \in DOMAIN R : a # i /\ new[k] = R[a]
      /\ \A k, l \in DOMAIN new : k # l => \E a, b \in DOMAIN R :
            a # b /\ new[k] = R[a] /\ new[l] = R[b]
  BY <1>1, RemoveAtItems
<1>3. /\ M \in [Cluster -> Seq(RangeName)]
      /\ \A c \in Cluster : IsInjective(M[c])
      /\ \A c \in Cluster : \A x : Contains(M[c], x) => Contains(N[c], x)
  <2>1. CASE M = N
    BY <2>1 DEF Shape
  <2>2. ASSUME NEW c \in Cluster, NEW n, M = [N EXCEPT ![c] = RemoveFirst(@, n)]
        PROVE  <1>3!:
    <3>1. N \in [Cluster -> Seq(RangeName)] /\ \A d \in Cluster : IsInjective(N[d])
      BY DEF Shape
    <3>2. PICK list : list = RemoveFirst(N[c], n)
      OBVIOUS
    <3>3. /\ list \in Seq(RangeName) /\ IsInjective(list)
          /\ \A x : Contains(list, x) => Contains(N[c], x)
      BY <3>1, <3>2, RemoveFirstFacts
    <3>4. M = [N EXCEPT ![c] = list]
      BY <2>2, <3>2
    <3>5. M \in [Cluster -> Seq(RangeName)]
      BY <3>1, <3>3, <3>4
    <3>6. \A d \in Cluster : M[d] = IF d = c THEN list ELSE N[d]
      BY <3>1, <3>4
    <3> QED BY <3>1, <3>3, <3>5, <3>6
  <2> QED BY <2>1, <2>2
<1>4. NamesDiffer(new)
  BY <1>2 DEF Shape, NamesDiffer
<1>5. \A k \in DOMAIN new : /\ new[k].start <= new[k].end
                            /\ new[k].start..new[k].end \subseteq Address
                            /\ new[k].used \subseteq new[k].start..new[k].end
  BY <1>2 DEF Shape
<1>6. \A c \in Cluster : \A k \in DOMAIN new : Contains(M[c], new[k].name) => new[k].owner = c
  BY <1>2, <1>3 DEF Shape
<1> QED BY <1>2, <1>3, <1>4, <1>5, <1>6 DEF Shape

\* The ranges of a reservation for cluster c: unused, and with names that no range, no list
\* and no assignment uses.
Fresh(new, c, ranges, names, tasks) ==
    /\ new \in Seq(RangeType)
    /\ NamesDiffer(new)
    /\ \A k \in DOMAIN new :
          /\ new[k].start <= new[k].end /\ new[k].used = {} /\ new[k].owner = c
          /\ new[k].start..new[k].end \subseteq Address
          /\ ~HasName(ranges, new[k].name)
          /\ \A d \in Cluster : ~Contains(names[d], new[k].name)
          /\ \A w \in Worker : tasks[w].op = "assign" => tasks[w].range # new[k].name

\* New ranges go to the end of the lists.
Appended(new, c, ranges, names, ranges2, names2) ==
    /\ ranges2 = ranges \o new
    /\ names2 = [names EXCEPT ![c] = @ \o [k \in DOMAIN new |-> new[k].name]]

\* A reservation appends its ranges, and their names to the list of the cluster.
LEMMA ShapeAppended ==
    ASSUME NEW R, NEW N, NEW T, Shape(R, N), NEW c \in Cluster, NEW new, Fresh(new, c, R, N, T),
           NEW all, NEW M, Appended(new, c, R, N, all, M)
    PROVE  /\ Shape(all, M)
           /\ \A d \in Cluster : \A x : Contains(M[d], x) <=>
                 Contains(N[d], x) \/ (d = c /\ HasName(new, x))
<1> DEFINE added == [k \in DOMAIN new |-> new[k].name]
<1>0. /\ new \in Seq(RangeType) /\ NamesDiffer(new)
      /\ \A k \in DOMAIN new :
            /\ new[k].start <= new[k].end /\ new[k].used = {} /\ new[k].owner = c
            /\ new[k].start..new[k].end \subseteq Address
            /\ ~HasName(R, new[k].name)
            /\ \A d \in Cluster : ~Contains(N[d], new[k].name)
  BY DEF Fresh
<1>1. /\ R \in Seq(RangeType) /\ N \in [Cluster -> Seq(RangeName)]
      /\ DOMAIN new = 1..Len(new) /\ Len(new) \in Nat
  BY <1>0 DEF Shape
<1>2. added \in Seq(RangeName) /\ DOMAIN added = DOMAIN new
      /\ \A k \in DOMAIN new : added[k] = new[k].name
  <2>0. \A k \in DOMAIN new : new[k] \in RangeType
    BY <1>0
  <2>1. \A k \in DOMAIN new : new[k].name \in RangeName
    BY <2>0 DEF RangeType
  <2>2. added \in [1..Len(new) -> RangeName]
    BY <1>1, <2>1
  <2> QED BY <1>1, <2>2
<1>3. IsInjective(added)
  BY <1>0, <1>2 DEF IsInjective, NamesDiffer
<1> HIDE DEF added
<1>4. \A x : Contains(added, x) <=> HasName(new, x)
  <2>1. DOMAIN added = 1..Len(added)
    BY <1>2
  <2> QED BY <1>1, <1>2, <2>1 DEF Contains, HasName
<1>5. \A d \in Cluster : M[d] = IF d = c THEN N[c] \o added ELSE N[d]
  BY <1>1 DEF added, Appended
<1>6. M \in [Cluster -> Seq(RangeName)]
  <2>1. N[c] \o added \in Seq(RangeName)
    BY <1>1, <1>2
  <2>2. M = [N EXCEPT ![c] = N[c] \o added]
    BY DEF added, Appended
  <2> QED BY <1>1, <2>1, <2>2
<1>7. \A d \in Cluster : \A x : Contains(M[d], x) <=>
         Contains(N[d], x) \/ (d = c /\ HasName(new, x))
  <2>1. \A x : Contains(N[c] \o added, x) <=> Contains(N[c], x) \/ Contains(added, x)
    BY <1>1, <1>2, ConcatContains
  <2> QED BY <1>4, <1>5, <2>1
<1>8. ASSUME NEW d \in Cluster PROVE IsInjective(M[d])
  <2>1. CASE d = c
    <3>1. ASSUME NEW k \in DOMAIN N[c], NEW l \in DOMAIN added, N[c][k] = added[l] PROVE FALSE
      <4>1. Contains(N[c], added[l])
        BY <1>1, <3>1 DEF Contains
      <4> QED BY <1>0, <1>2, <4>1
    <3>2. IsInjective(N[c])
      BY DEF Shape
    <3>3. IsInjective(N[c] \o added)
      BY <1>1, <1>2, <1>3, <3>1, <3>2, ConcatInjective
    <3> QED BY <1>5, <2>1, <3>3
  <2>2. CASE d # c
    BY <1>5, <2>2 DEF Shape
  <2> QED BY <2>1, <2>2
<1>9. all = R \o new
  BY DEF Appended
<1>10. /\ all \in Seq(RangeType) /\ DOMAIN all = 1..(Len(R) + Len(new)) /\ Len(R) \in Nat
       /\ DOMAIN R = 1..Len(R)
       /\ \A k \in DOMAIN all : /\ k <= Len(R) => k \in DOMAIN R /\ all[k] = R[k]
                                /\ ~(k <= Len(R)) =>
                                     k - Len(R) \in DOMAIN new /\ all[k] = new[k - Len(R)]
  <2>1. /\ all \in Seq(RangeType) /\ Len(all) = Len(R) + Len(new) /\ Len(R) \in Nat
        /\ \A k \in 1..(Len(R) + Len(new)) :
              all[k] = IF k <= Len(R) THEN R[k] ELSE new[k - Len(R)]
    BY <1>0, <1>1, <1>9
  <2> QED BY <1>1, <2>1
<1>11. ASSUME NEW k \in DOMAIN R, NEW l \in DOMAIN new PROVE R[k].name # new[l].name
  BY <1>0 DEF HasName
<1>12. NamesDiffer(all)
  <2> SUFFICES ASSUME NEW k \in DOMAIN all, NEW l \in DOMAIN all, all[k].name = all[l].name
               PROVE  k = l
    BY DEF NamesDiffer
  <2>1. CASE k <= Len(R) /\ l <= Len(R)
    BY <1>10, <2>1 DEF Shape, NamesDiffer
  <2>2. CASE k <= Len(R) /\ ~(l <= Len(R))
    BY <1>10, <1>11, <2>2
  <2>3. CASE ~(k <= Len(R)) /\ l <= Len(R)
    BY <1>10, <1>11, <2>3
  <2>4. CASE ~(k <= Len(R)) /\ ~(l <= Len(R))
    <3>1. k - Len(R) = l - Len(R)
      BY <1>0, <1>10, <2>4 DEF NamesDiffer
    <3> QED BY <1>10, <3>1
  <2> QED BY <2>1, <2>2, <2>3, <2>4
<1>13. \A k \in DOMAIN all : /\ all[k].start <= all[k].end
                             /\ all[k].start..all[k].end \subseteq Address
                             /\ all[k].used \subseteq all[k].start..all[k].end
  <2> TAKE k \in DOMAIN all
  <2>1. CASE k <= Len(R)
    BY <1>10, <2>1 DEF Shape
  <2>2. CASE ~(k <= Len(R))
    BY <1>0, <1>10, <2>2
  <2> QED BY <2>1, <2>2
<1>14. ASSUME NEW d \in Cluster, NEW k \in DOMAIN all, Contains(M[d], all[k].name)
       PROVE  all[k].owner = d
  <2>1. CASE k <= Len(R)
    <3>1. k \in DOMAIN R /\ all[k] = R[k]
      BY <1>10, <2>1
    <3>2. ~HasName(new, R[k].name)
      BY <1>11, <3>1 DEF HasName
    <3> QED BY <1>7, <1>14, <3>1, <3>2 DEF Shape
  <2>2. CASE ~(k <= Len(R))
    <3>1. k - Len(R) \in DOMAIN new /\ all[k] = new[k - Len(R)]
      BY <1>10, <2>2
    <3> QED BY <1>0, <1>7, <1>14, <3>1
  <2> QED BY <2>1, <2>2
<1> QED BY <1>6, <1>7, <1>8, <1>9, <1>10, <1>12, <1>13, <1>14 DEF Shape
-----------------------------------------------------------------------------
(***************************************************************************)
(* The base: what holds whatever happens and whatever the constants are.   *)
(* An address that is about to be marked belongs to the range, if that is  *)
(* still there, and the range to the cluster of the blueprint.             *)
(***************************************************************************)
Pending(ranges, tasks) ==
    \A w \in Worker : tasks[w].op = "assign" =>
        \A i \in DOMAIN ranges : ranges[i].name = tasks[w].range =>
            /\ InRange(tasks[w].ip, ranges[i])
            /\ ranges[i].owner = ClusterOf[tasks[w].blueprint]

SavedType == [pools : Seq(PoolRequest), ranges : Seq(RangeType),
              names : [Cluster -> Seq(RangeName)], ips : [Blueprint -> Seq(Address)]]

Base ==
    /\ allocation_pool \in Seq(PoolRequest)
    /\ reserved_ips \in [Blueprint -> Seq(Address)]
    /\ deleting \subseteq Blueprint
    /\ task \in [Worker -> TaskType]
    /\ saved \in SavedType
    /\ Shape(reserved_ranges, ip_pools)
    /\ Shape(saved.ranges, saved.names)
    /\ Pending(reserved_ranges, task)

\* What a thread that does something carries along, and the forms it takes.
LEMMA TaskFacts ==
    ASSUME NEW t \in TaskType
    PROVE  /\ t.op = "reserve" => t.cluster \in Cluster /\ t.ips \in Seq(Address)
           /\ t.op = "assign" => /\ t.blueprint \in Blueprint /\ t.range \in RangeName
                                 /\ t.ip \in Address
           /\ t.op = "cleanup" => t.blueprint \in Blueprint /\ t.todo \in Seq(Address)
<1> QED BY DEF TaskType, Idle

\* The four forms are tasks.
LEMMA TaskForms ==
    /\ Idle \in TaskType
    /\ \A c \in Cluster, ips \in Seq(Address) :
          [op |-> "reserve", cluster |-> c, ips |-> ips] \in TaskType
    /\ \A b \in Blueprint, n \in RangeName, ip \in Address :
          [op |-> "assign", blueprint |-> b, range |-> n, ip |-> ip] \in TaskType
    /\ \A b \in Blueprint, todo \in Seq(Address) :
          [op |-> "cleanup", blueprint |-> b, todo |-> todo] \in TaskType
<1> QED BY DEF TaskType

\* At first there is nothing to say.
LEMMA BaseInit == Init => Base
<1> SUFFICES ASSUME Init PROVE Base
  OBVIOUS
<1>1. Shape(<<>>, [c \in Cluster |-> <<>>])
  BY DEF Shape, NamesDiffer, IsInjective
<1>2. saved \in SavedType /\ saved.ranges = <<>> /\ saved.names = [c \in Cluster |-> <<>>]
  BY DEF Init, SavedType
<1>3. task \in [Worker -> TaskType]
  BY TaskForms DEF Init
<1>4. Pending(reserved_ranges, task)
  BY DEF Init, Pending
<1> QED BY <1>1, <1>2, <1>3, <1>4 DEF Init, Base

\* The three ways a step leaves the documents.
SavesTopology == SaveTopology(saved)
SavesIps == \E b \in Blueprint, ips \in Seq(Address) : saved' = [saved EXCEPT !.ips[b] = ips]

\* What the documents are after a step that saves one of them, or none.
LEMMA SavedFacts ==
    ASSUME saved \in SavedType, allocation_pool' \in Seq(PoolRequest),
           Shape(reserved_ranges', ip_pools'),
           SavesTopology \/ SavesIps \/ UNCHANGED saved
    PROVE  /\ saved' \in SavedType
           /\ SavesTopology => /\ saved'.ranges = reserved_ranges' /\ saved'.names = ip_pools'
                               /\ saved'.ips = saved.ips
           /\ ~SavesTopology => saved'.ranges = saved.ranges /\ saved'.names = saved.names
<1>1. reserved_ranges' \in Seq(RangeType) /\ ip_pools' \in [Cluster -> Seq(RangeName)]
  BY DEF Shape
<1>2. CASE SavesTopology
  BY <1>1, <1>2 DEF SavesTopology, SaveTopology, SavedType
<1>3. CASE SavesIps /\ ~SavesTopology
  BY <1>3 DEF SavesIps, SavedType
<1>4. CASE UNCHANGED saved /\ ~SavesTopology
  BY <1>4
<1> QED BY <1>2, <1>3, <1>4

\* A step keeps Base when what it leaves in memory has the right shape.
LEMMA BaseStep ==
    ASSUME Base, allocation_pool' \in Seq(PoolRequest),
           reserved_ips' \in [Blueprint -> Seq(Address)], deleting' \subseteq Blueprint,
           task' \in [Worker -> TaskType], Shape(reserved_ranges', ip_pools'),
           Pending(reserved_ranges', task'),
           SavesTopology \/ SavesIps \/ UNCHANGED saved
    PROVE  Base'
<1>1. saved' \in SavedType
  BY SavedFacts DEF Base
<1>2. Shape(saved'.ranges, saved'.names)
  <2>1. CASE SavesTopology
    BY <2>1, SavedFacts DEF Base
  <2>2. CASE ~SavesTopology
    BY <2>2, SavedFacts DEF Base
  <2> QED BY <2>1, <2>2
<1> QED BY <1>1, <1>2 DEF Base
-----------------------------------------------------------------------------
\* What the actions do to the ranges, in terms of one range or of the new ones.
LEMMA NamedItem ==
    ASSUME NEW S, NEW list \in Seq(S), NEW name, HasName(list, name)
    PROVE  \E k \in DOMAIN list : Named(list, name) = list[k] /\ list[k].name = name
<1> DEFINE I == {i \in 1..Len(list) : list[i].name = name}
<1>1. I # {} /\ I \in SUBSET Nat
  BY DEF HasName
<1>2. Named(list, name) = list[Min(I)]
  BY <1>1 DEF Named, SelectInSeq
<1>3. Min(I) \in I
  BY <1>1, LeastNumber DEF Min
<1>4. DOMAIN list = 1..Len(list)
  OBVIOUS
<1> QED BY <1>2, <1>3, <1>4

\* The range that list.remove takes out is the named one when the ranges are disjoint.
LEMMA RemovedRange ==
    ASSUME NEW R, NEW N, Shape(R, N), NEW k \in DOMAIN R
    PROVE  \E i \in DOMAIN R : Removed(R, R[k]) = RemoveAt(R, i) /\ (Apart(R) => i = k)
<1> DEFINE I == {i \in 1..Len(R) : R[i] = R[k] \/ Equal(R[i], R[k])}
<1>0. R \in Seq(RangeType) /\ DOMAIN R = 1..Len(R)
  BY DEF Shape
<1>1. k \in I /\ I \in SUBSET Nat
  BY <1>0
<1>2. Removed(R, R[k]) = RemoveAt(R, Min(I))
  BY <1>1 DEF Removed, SelectInSeq
<1>3. Min(I) \in I
  BY <1>1, LeastNumber DEF Min
<1>4. PICK i : i = Min(I)
  OBVIOUS
<1>5. i \in DOMAIN R /\ (R[i] = R[k] \/ Equal(R[i], R[k]))
  BY <1>0, <1>3, <1>4
<1>6. ASSUME Apart(R) PROVE i = k
  <2>1. CASE R[i] = R[k]
    BY <1>5, <2>1 DEF Shape, NamesDiffer
  <2>2. CASE Equal(R[i], R[k])
    <3>1. R[i] \in RangeType
      BY <1>0, <1>5
    <3>2. /\ R[i].start \in Address /\ R[i].end \in Address /\ R[i].start <= R[i].end
          /\ R[i].start \in Nat /\ R[i].end \in Nat
      BY <1>5, <3>1, AddressFacts DEF RangeType, Shape
    <3>3. InRange(R[i].start, R[i]) /\ InRange(R[i].end, R[i])
      BY <3>2 DEF InRange
    <3> QED BY <1>5, <1>6, <2>2, <3>2, <3>3 DEF Apart, Equal
  <2> QED BY <1>5, <2>1, <2>2
<1> QED BY <1>2, <1>4, <1>5, <1>6

\* The ranges have only addresses that were found; different addresses, disjoint ranges.
Covers(ips, new) ==
    /\ \A k \in DOMAIN new : \A ip \in Address :
          InRange(ip, new[k]) => \E i \in DOMAIN ips : ips[i] = ip
    /\ IsInjective(ips) => Apart(new)

\* reserve_range, second half: the new ranges and where they go.
LEMMA CommitFacts ==
    ASSUME Base, NEW w \in Worker, ReserveCommit(w)
    PROVE  \E c \in Cluster : \E new :
             /\ Fresh(new, c, reserved_ranges, ip_pools, task)
             /\ Covers(task[w].ips, new)
             /\ Appended(new, c, reserved_ranges, ip_pools, reserved_ranges', ip_pools')
<1>1. PICK c, ips : c = task[w].cluster /\ ips = task[w].ips
  OBVIOUS
<1>2. task[w] \in TaskType /\ task[w].op = "reserve"
  BY DEF Base, ReserveCommit
<1>3. c \in Cluster /\ ips \in Seq(Address)
  BY <1>1, <1>2, TaskFacts
<1>4. Cardinality(Cuts(ips)) <= Cardinality(FreshNames)
  BY <1>1 DEF ReserveCommit
<1>5. PICK new : new = NewRanges(ips, c)
  OBVIOUS
<1>6. /\ new \in Seq(RangeType) /\ NamesDiffer(new)
      /\ \A k \in DOMAIN new :
            /\ new[k].start <= new[k].end /\ new[k].used = {} /\ new[k].owner = c
            /\ new[k].start..new[k].end \subseteq Address
            /\ new[k].name \in FreshNames
            /\ \A ip \in Address : InRange(ip, new[k]) => \E i \in DOMAIN ips : ips[i] = ip
      /\ IsInjective(ips) => Apart(new)
  BY <1>3, <1>4, <1>5, NewRangesFacts
<1>7. /\ reserved_ranges' = reserved_ranges \o new
      /\ ip_pools' = [ip_pools EXCEPT ![c] = @ \o [k \in DOMAIN new |-> new[k].name]]
  BY <1>1, <1>5 DEF ReserveCommit
<1>8. \A n \in FreshNames :
         /\ ~HasName(reserved_ranges, n) /\ \A d \in Cluster : ~Contains(ip_pools[d], n)
         /\ \A v \in Worker : task[v].op = "assign" => task[v].range # n
  BY DEF FreshNames
<1>9. \A k \in DOMAIN new :
         /\ ~HasName(reserved_ranges, new[k].name)
         /\ \A d \in Cluster : ~Contains(ip_pools[d], new[k].name)
         /\ \A v \in Worker : task[v].op = "assign" => task[v].range # new[k].name
  BY <1>6, <1>8
<1>10. Fresh(new, c, reserved_ranges, ip_pools, task)
  BY <1>6, <1>9 DEF Fresh
<1>11. Covers(task[w].ips, new)
  BY <1>1, <1>6 DEF Covers
<1>12. Appended(new, c, reserved_ranges, ip_pools, reserved_ranges', ip_pools')
  BY <1>7 DEF Appended
<1> QED BY <1>3, <1>10, <1>11, <1>12

\* release_range: one range goes, the named one when ranges are disjoint.
LEMMA ReleaseFacts ==
    ASSUME Base, NEW n \in RangeName, NEW c \in Cluster, ReleaseRange(n, c)
    PROVE  \E i \in DOMAIN reserved_ranges :
             /\ reserved_ranges' = RemoveAt(reserved_ranges, i)
             /\ \/ ip_pools' = ip_pools /\ ~Contains(ip_pools[c], n) /\ UNCHANGED saved
                \/ ip_pools' = [ip_pools EXCEPT ![c] = RemoveFirst(@, n)] /\ SaveTopology(saved)
             /\ Apart(reserved_ranges) =>
                   /\ reserved_ranges[i].name = n
                   /\ InUse(reserved_ranges[i]) => "used_range" \in Hazard
                   /\ reserved_ranges[i].owner # c => "wrong_cluster" \in Hazard
<1>1. Shape(reserved_ranges, ip_pools) /\ reserved_ranges \in Seq(RangeType)
  BY DEF Base, Shape
<1>2. PICK k \in DOMAIN reserved_ranges :
         Named(reserved_ranges, n) = reserved_ranges[k] /\ reserved_ranges[k].name = n
  BY <1>1, NamedItem DEF ReleaseRange
<1>3. PICK i \in DOMAIN reserved_ranges :
         /\ Removed(reserved_ranges, reserved_ranges[k]) = RemoveAt(reserved_ranges, i)
         /\ Apart(reserved_ranges) => i = k
  BY <1>1, RemovedRange
<1>4. reserved_ranges' = RemoveAt(reserved_ranges, i)
  BY <1>2, <1>3 DEF ReleaseRange
<1>5. \/ ip_pools' = ip_pools /\ ~Contains(ip_pools[c], n) /\ UNCHANGED saved
      \/ ip_pools' = [ip_pools EXCEPT ![c] = RemoveFirst(@, n)] /\ SaveTopology(saved)
  BY DEF ReleaseRange
<1>6. /\ InUse(reserved_ranges[k]) => "used_range" \in Hazard
      /\ reserved_ranges[k].owner # c => "wrong_cluster" \in Hazard
  BY <1>2 DEF ReleaseRange
<1> QED BY <1>2, <1>3, <1>4, <1>5, <1>6

\* assign_ip_address, first half: an unused address of a range of the cluster.
LEMMA PickFacts ==
    ASSUME Base, NEW w \in Worker, NEW b \in Blueprint, AssignPick(w, b)
    PROVE  \E i \in DOMAIN reserved_ranges, ip \in Address :
             /\ InRange(ip, reserved_ranges[i]) /\ ip \notin reserved_ranges[i].used
             /\ reserved_ranges[i].owner = ClusterOf[b]
             /\ task' = [task EXCEPT ![w] = [op |-> "assign", blueprint |-> b,
                                             range |-> reserved_ranges[i].name, ip |-> ip]]
<1>1. /\ Shape(reserved_ranges, ip_pools) /\ reserved_ranges \in Seq(RangeType)
      /\ ip_pools \in [Cluster -> Seq(RangeName)] /\ ClusterOf[b] \in Cluster
  BY NetworkAssumption DEF Base, Shape
<1>2. PICK j \in DOMAIN ip_pools[ClusterOf[b]] :
         LET name == ip_pools[ClusterOf[b]][j]
         IN  /\ HasFree(name)
             /\ task' = [task EXCEPT ![w] =
                           [op |-> "assign", blueprint |-> b, range |-> name,
                            ip |-> Min(Unused(Named(reserved_ranges, name)))]]
  BY DEF AssignPick
<1>3. PICK name : name = ip_pools[ClusterOf[b]][j]
  OBVIOUS
<1>4. Contains(ip_pools[ClusterOf[b]], name)
  <2>1. DOMAIN ip_pools[ClusterOf[b]] = 1..Len(ip_pools[ClusterOf[b]])
    BY <1>1
  <2> QED BY <1>3, <2>1 DEF Contains
<1>5. PICK i \in DOMAIN reserved_ranges :
         Named(reserved_ranges, name) = reserved_ranges[i] /\ reserved_ranges[i].name = name
  BY <1>1, <1>2, <1>3, NamedItem DEF HasFree, Resolves
<1>6. PICK U : U = Unused(reserved_ranges[i])
  OBVIOUS
<1>7. /\ reserved_ranges[i] \in RangeType
      /\ reserved_ranges[i].start \in Address /\ reserved_ranges[i].end \in Address
      /\ reserved_ranges[i].start \in Nat /\ reserved_ranges[i].end \in Nat
  <2>1. reserved_ranges[i] \in RangeType
    BY <1>1
  <2> QED BY <2>1, AddressFacts DEF RangeType
<1>8. U # {} /\ U \in SUBSET Nat
  BY <1>2, <1>3, <1>5, <1>6, <1>7 DEF HasFree, Unused
<1>9. PICK ip : ip = Min(U)
  OBVIOUS
<1>10. ip \in U
  BY <1>8, <1>9, LeastNumber DEF Min
<1>11. ip \in reserved_ranges[i].start..reserved_ranges[i].end /\ ip \notin reserved_ranges[i].used
  BY <1>6, <1>10 DEF Unused
<1>12. ip \in Address
  BY <1>1, <1>11 DEF Shape
<1>13. reserved_ranges[i].owner = ClusterOf[b]
  BY <1>1, <1>4, <1>5 DEF Shape
<1>14. InRange(ip, reserved_ranges[i])
  BY <1>7, <1>11 DEF InRange
<1> QED BY <1>2, <1>3, <1>5, <1>6, <1>9, <1>11, <1>12, <1>13, <1>14

\* assign_ip_address marks the address in the range with the name, if it is there.
LEMMA MarkFacts ==
    ASSUME Base, NEW w \in Worker, AssignMark(w)
    PROVE  /\ reserved_ranges' \in Seq(RangeType) /\ Kept(reserved_ranges', reserved_ranges)
           /\ \A i \in DOMAIN reserved_ranges : reserved_ranges'[i].used =
                 IF reserved_ranges[i].name = task[w].range
                 THEN reserved_ranges[i].used \cup {task[w].ip} ELSE reserved_ranges[i].used
           /\ Shape(reserved_ranges', ip_pools')
<1>1. PICK R, new, n, ip : /\ R = reserved_ranges /\ new = reserved_ranges'
                           /\ n = task[w].range /\ ip = task[w].ip
  OBVIOUS
<1>2. R \in Seq(RangeType) /\ DOMAIN R = 1..Len(R) /\ Len(R) \in Nat
  BY <1>1 DEF Base, Shape
<1>3. ip \in Address
  <2>1. task[w] \in TaskType /\ task[w].op = "assign"
    BY DEF Base, AssignMark
  <2> QED BY <1>1, <2>1, TaskFacts
<1>4. new = [i \in DOMAIN R |-> IF R[i].name = n THEN [R[i] EXCEPT !.used = @ \cup {ip}] ELSE R[i]]
  BY <1>1 DEF AssignMark
<1>5. \A i \in DOMAIN R : R[i] \in RangeType
  BY <1>2
<1>6. ASSUME NEW i \in DOMAIN R
      PROVE  /\ new[i] \in RangeType
             /\ new[i].name = R[i].name /\ new[i].owner = R[i].owner
             /\ new[i].start = R[i].start /\ new[i].end = R[i].end
             /\ new[i].used = IF R[i].name = n THEN R[i].used \cup {ip} ELSE R[i].used
  <2>1. CASE R[i].name = n
    <3>1. new[i] = [R[i] EXCEPT !.used = @ \cup {ip}]
      BY <1>4, <2>1
    <3> QED BY <1>3, <1>5, <2>1, <3>1 DEF RangeType
  <2>2. CASE R[i].name # n
    BY <1>4, <1>5, <2>2
  <2> QED BY <2>1, <2>2
<1>7. DOMAIN new = DOMAIN R /\ new \in Seq(RangeType)
  <2>1. DOMAIN new = DOMAIN R
    BY <1>4
  <2>2. new \in [1..Len(R) -> RangeType]
    <3>1. new = [i \in 1..Len(R) |-> new[i]]
      BY <1>2, <1>4
    <3> QED BY <1>2, <1>6, <3>1
  <2> QED BY <1>2, <2>1, <2>2
<1>8. Kept(new, R)
  BY <1>6, <1>7 DEF Kept
<1>9. Shape(R, ip_pools)
  BY <1>1 DEF Base
<1>10. \A i \in DOMAIN R : new[i].used \subseteq R[i].start..R[i].end
  <2> TAKE i \in DOMAIN R
  <2>1. R[i].used \subseteq R[i].start..R[i].end
    BY <1>9 DEF Shape
  <2>2. CASE R[i].name = n
    <3>1. InRange(ip, R[i])
      BY <1>1, <2>2 DEF Base, Pending, AssignMark
    <3>2. ip \in Nat /\ R[i].start \in Nat /\ R[i].end \in Nat
      BY <1>3, <1>5, AddressFacts DEF RangeType
    <3>3. ip \in R[i].start..R[i].end
      BY <3>1, <3>2 DEF InRange
    <3> QED BY <1>6, <2>1, <2>2, <3>3
  <2>3. CASE R[i].name # n
    BY <1>6, <2>1, <2>3
  <2> QED BY <2>2, <2>3
<1>11. Shape(new, ip_pools)
  BY <1>7, <1>8, <1>9, <1>10, ShapeKept
<1>12. ip_pools' = ip_pools
  BY DEF AssignMark
<1>13. reserved_ranges' = new /\ reserved_ranges = R /\ task[w].range = n /\ task[w].ip = ip
  BY <1>1
<1> QED BY <1>6, <1>7, <1>8, <1>11, <1>12, <1>13

\* One address is free again, if its range belongs to the cluster.
Freed(new, old, c, ip) ==
    /\ Kept(new, old)
    /\ \E i \in DOMAIN old :
          /\ InRange(ip, old[i])
          /\ \A j \in DOMAIN old : new[j].used =
                IF j = i /\ old[i].owner = c THEN old[j].used \ {ip} ELSE old[j].used

\* release_ip_address frees the address in the first range that contains it, when that
\* belongs to the cluster.
LEMMA FreeFacts ==
    ASSUME NEW N, Shape(reserved_ranges, N), NEW c, NEW ip,
           RangeByIp(ip) # 0, FreeAddress(c, ip)
    PROVE  /\ reserved_ranges' \in Seq(RangeType) /\ Kept(reserved_ranges', reserved_ranges)
           /\ Freed(reserved_ranges', reserved_ranges, c, ip)
           /\ Shape(reserved_ranges', N)
<1>1. PICK R, new : R = reserved_ranges /\ new = reserved_ranges'
  OBVIOUS
<1>2. R \in Seq(RangeType) /\ DOMAIN R = 1..Len(R) /\ Len(R) \in Nat /\ Shape(R, N)
  BY <1>1 DEF Shape
<1> DEFINE I == {j \in 1..Len(R) : InRange(ip, R[j])}
<1>3. RangeByIp(ip) = IF I # {} THEN Min(I) ELSE 0
  BY <1>1 DEF RangeByIp, SelectInSeq
<1>4. I # {} /\ I \in SUBSET Nat
  BY <1>3
<1>5. Min(I) \in I
  BY <1>4, LeastNumber DEF Min
<1>6. PICK i : i = Min(I)
  OBVIOUS
<1>7. i \in DOMAIN R /\ InRange(ip, R[i]) /\ RangeByIp(ip) = i
  BY <1>2, <1>3, <1>4, <1>5, <1>6
<1>8. new = IF R[i].owner = c THEN [R EXCEPT ![i].used = @ \ {ip}] ELSE R
  BY <1>1, <1>7 DEF FreeAddress
<1> HIDE DEF I
<1>9. \A j \in DOMAIN R : R[j] \in RangeType
  BY <1>2
<1>10. ASSUME NEW j \in DOMAIN R
       PROVE  /\ new[j] \in RangeType
              /\ new[j].name = R[j].name /\ new[j].owner = R[j].owner
              /\ new[j].start = R[j].start /\ new[j].end = R[j].end
              /\ new[j].used = IF j = i /\ R[i].owner = c THEN R[j].used \ {ip} ELSE R[j].used
  <2>1. CASE j = i /\ R[i].owner = c
    <3>1. new[j] = [R[j] EXCEPT !.used = @ \ {ip}]
      BY <1>7, <1>8, <2>1
    <3> QED BY <1>9, <2>1, <3>1 DEF RangeType
  <2>2. CASE ~(j = i /\ R[i].owner = c)
    <3>1. new[j] = R[j]
      BY <1>7, <1>8, <2>2
    <3> QED BY <1>9, <2>2, <3>1
  <2> QED BY <2>1, <2>2
<1>11. DOMAIN new = DOMAIN R /\ new \in Seq(RangeType)
  <2>1. DOMAIN new = DOMAIN R /\ new = [j \in DOMAIN R |-> new[j]]
    <3>1. R = [j \in DOMAIN R |-> R[j]]
      BY <1>2
    <3>2. CASE R[i].owner = c
      BY <1>8, <3>2
    <3>3. CASE R[i].owner # c
      BY <1>8, <3>1, <3>3
    <3> QED BY <3>2, <3>3
  <2>2. new \in [1..Len(R) -> RangeType]
    BY <1>2, <1>10, <2>1
  <2> QED BY <1>2, <2>1, <2>2
<1>12. Kept(new, R)
  BY <1>10, <1>11 DEF Kept
<1>13. \A j \in DOMAIN R : new[j].used \subseteq R[j].start..R[j].end
  <2> TAKE j \in DOMAIN R
  <2>1. new[j].used \subseteq R[j].used
    BY <1>10
  <2> QED BY <1>2, <2>1 DEF Shape
<1>14. Shape(new, N)
  BY <1>2, <1>11, <1>12, <1>13, ShapeKept
<1>15. Freed(new, R, c, ip)
  BY <1>7, <1>10, <1>12 DEF Freed
<1>16. reserved_ranges' = new /\ reserved_ranges = R
  BY <1>1
<1> QED BY <1>11, <1>12, <1>14, <1>15, <1>16

\* The same for the list of a blueprint's addresses.
LEMMA IpsFacts ==
    ASSUME NEW s \in Seq(Address), NEW ip \in Address
    PROVE  Append(s, ip) \in Seq(Address) /\ RemoveFirst(s, ip) \in Seq(Address)
<1> QED BY RemoveFirstFacts

\* The pools after list.remove.
LEMMA PoolsFacts ==
    ASSUME NEW s \in Seq(PoolRequest), NEW name, HasName(s, name)
    PROVE  Removed(s, Named(s, name)) \in Seq(PoolRequest)
<1>1. PICK k \in 1..Len(s) : Named(s, name) = s[k]
  BY NamedFacts
<1>2. PICK i \in 1..Len(s) : Removed(s, Named(s, name)) = RemoveAt(s, i)
  BY <1>1, RemovedFacts
<1> QED BY <1>2, RemoveAtItems

\* Ranges that stay keep pending assignments in order.
LEMMA PendingKept ==
    ASSUME NEW R, NEW new, NEW T, Pending(R, T), Kept(new, R)
    PROVE  Pending(new, T)
<1> QED BY DEF Pending, Kept, InRange

\* A thread that stops what it was doing, or starts something else than an assignment.
LEMMA PendingTask ==
    ASSUME NEW R, NEW T \in [Worker -> TaskType], Pending(R, T), NEW w \in Worker, NEW t,
           t.op # "assign"
    PROVE  Pending(R, [T EXCEPT ![w] = t])
<1> QED BY DEF Pending

\* Every step keeps Base, whatever the constants and the hazards.
LEMMA BaseInductive ==
    ASSUME Base, [Next]_vars
    PROVE  Base'
<1>1. /\ allocation_pool \in Seq(PoolRequest) /\ reserved_ips \in [Blueprint -> Seq(Address)]
      /\ deleting \subseteq Blueprint /\ task \in [Worker -> TaskType] /\ saved \in SavedType
      /\ Shape(reserved_ranges, ip_pools) /\ Shape(saved.ranges, saved.names)
      /\ Pending(reserved_ranges, task)
      /\ \A w \in Worker : task[w] \in TaskType
  BY DEF Base
<1>2. ASSUME NEW p \in PoolRequest, AddPool(p) PROVE Base'
  <2>1. allocation_pool' \in Seq(PoolRequest)
    BY <1>1, <1>2 DEF AddPool
  <2> QED BY <1>1, <1>2, <2>1, BaseStep DEF AddPool, SavesTopology
<1>3. ASSUME NEW p \in PoolRequest, RemovePool(p.name) PROVE Base'
  <2>1. allocation_pool' \in Seq(PoolRequest)
    BY <1>1, <1>3, PoolsFacts DEF RemovePool
  <2> QED BY <1>1, <1>3, <2>1, BaseStep DEF RemovePool, SavesTopology
<1>4. ASSUME NEW w \in Worker, NEW c \in Cluster, NEW n \in 1..MaxLength, ReserveFind(w, c, n)
      PROVE  Base'
  <2>1. PICK ips : ips = SubSeq(AvailableIps, 1, n)
    OBVIOUS
  <2>2. ips \in Seq(Address)
    <3>1. PICK all : all = AvailableIps
      OBVIOUS
    <3>2. all \in Seq(Address)
      BY <1>1, <3>1, AvailableIpsFacts
    <3>3. n <= Len(all) /\ n \in Nat
      BY <1>4, <3>1, NetworkAssumption DEF ReserveFind
    <3> QED BY <2>1, <3>1, <3>2, <3>3, SubSeqProperties
  <2>3. PICK t : t = [op |-> "reserve", cluster |-> c, ips |-> ips]
    OBVIOUS
  <2>4. t \in TaskType /\ t.op # "assign"
    BY <2>2, <2>3, TaskForms
  <2>5. task' = [task EXCEPT ![w] = t]
    BY <1>4, <2>1, <2>3 DEF ReserveFind
  <2>6. task' \in [Worker -> TaskType] /\ Pending(reserved_ranges, task')
    BY <1>1, <2>4, <2>5, PendingTask
  <2> QED BY <1>1, <1>4, <2>6, BaseStep DEF ReserveFind
<1>5. ASSUME NEW w \in Worker, ReserveCommit(w) PROVE Base'
  <2>0. PICK c \in Cluster : \E new :
             /\ Fresh(new, c, reserved_ranges, ip_pools, task)
             /\ Appended(new, c, reserved_ranges, ip_pools, reserved_ranges', ip_pools')
    BY <1>5, CommitFacts
  <2>1. PICK new :
             /\ Fresh(new, c, reserved_ranges, ip_pools, task)
             /\ Appended(new, c, reserved_ranges, ip_pools, reserved_ranges', ip_pools')
    BY <2>0
  <2>2. Shape(reserved_ranges', ip_pools')
    BY <1>1, <2>1, ShapeAppended
  <2>3. task' = [task EXCEPT ![w] = Idle] /\ Idle.op # "assign"
    BY <1>5 DEF ReserveCommit, Idle
  <2>4. task' \in [Worker -> TaskType] /\ Pending(reserved_ranges, task')
    BY <1>1, <2>3, TaskForms, PendingTask
  <2>5. Pending(reserved_ranges', task')
    <3>1. PICK R, all, T : R = reserved_ranges /\ all = reserved_ranges' /\ T = task'
      OBVIOUS
    <3>2. R \in Seq(RangeType) /\ all = R \o new /\ new \in Seq(RangeType)
      BY <1>1, <2>1, <3>1 DEF Shape, Fresh, Appended
    <3>3. \A i \in DOMAIN all : \/ i \in DOMAIN R /\ all[i] = R[i]
                                \/ \E k \in DOMAIN new : all[i] = new[k]
      <4>1. /\ Len(all) = Len(R) + Len(new) /\ Len(R) \in Nat /\ Len(new) \in Nat
            /\ DOMAIN all = 1..(Len(R) + Len(new)) /\ DOMAIN R = 1..Len(R)
            /\ DOMAIN new = 1..Len(new)
            /\ \A i \in 1..(Len(R) + Len(new)) :
                  all[i] = IF i <= Len(R) THEN R[i] ELSE new[i - Len(R)]
        BY <3>2
      <4> TAKE i \in DOMAIN all
      <4>2. CASE i <= Len(R)
        BY <4>1, <4>2
      <4>3. CASE ~(i <= Len(R))
        <5>1. i - Len(R) \in DOMAIN new
          BY <4>1, <4>3
        <5> QED BY <4>1, <4>3, <5>1
      <4> QED BY <4>2, <4>3
    <3>4. \A v \in Worker : T[v].op = "assign" => T[v] = task[v]
      BY <1>1, <2>3, <3>1
    <3>5. Pending(R, T)
      BY <2>4, <3>1
    <3>6. Pending(all, T)
      BY <2>1, <3>3, <3>4, <3>5 DEF Pending, Fresh
    <3> QED BY <3>1, <3>6
  <2> QED BY <1>1, <1>5, <2>2, <2>4, <2>5, BaseStep DEF ReserveCommit, SavesTopology
<1>6. ASSUME NEW n \in RangeName, NEW c \in Cluster, ReleaseRange(n, c) PROVE Base'
  <2>1. PICK i \in DOMAIN reserved_ranges :
             /\ reserved_ranges' = RemoveAt(reserved_ranges, i)
             /\ \/ ip_pools' = ip_pools /\ UNCHANGED saved
                \/ ip_pools' = [ip_pools EXCEPT ![c] = RemoveFirst(@, n)] /\ SaveTopology(saved)
    BY <1>6, ReleaseFacts
  <2>2. Shape(reserved_ranges', ip_pools')
    BY <1>1, <2>1, ShapeRemoved
  <2>3. Pending(reserved_ranges', task)
    <3>1. PICK R, new : R = reserved_ranges /\ new = reserved_ranges'
      OBVIOUS
    <3>2. R \in Seq(RangeType) /\ i \in 1..Len(R) /\ new = RemoveAt(R, i)
      BY <1>1, <2>1, <3>1 DEF Shape
    <3>3. \A k \in DOMAIN new : \E a \in DOMAIN R : new[k] = R[a]
      BY <3>2, RemoveAtItems
    <3>4. Pending(R, task)
      BY <1>1, <3>1
    <3>5. Pending(new, task)
      BY <3>3, <3>4 DEF Pending
    <3> QED BY <3>1, <3>5
  <2> QED BY <1>1, <1>6, <2>1, <2>2, <2>3, BaseStep DEF ReleaseRange, SavesTopology
<1>7. ASSUME NEW w \in Worker, NEW b \in Blueprint, AssignPick(w, b) PROVE Base'
  <2>1. PICK i \in DOMAIN reserved_ranges, ip \in Address :
             /\ InRange(ip, reserved_ranges[i]) /\ ip \notin reserved_ranges[i].used
             /\ reserved_ranges[i].owner = ClusterOf[b]
             /\ task' = [task EXCEPT ![w] = [op |-> "assign", blueprint |-> b,
                                             range |-> reserved_ranges[i].name, ip |-> ip]]
    BY <1>7, PickFacts
  <2>2. PICK t : t = [op |-> "assign", blueprint |-> b, range |-> reserved_ranges[i].name, ip |-> ip]
    OBVIOUS
  <2>3. reserved_ranges[i] \in RangeType
    BY <1>1 DEF Shape
  <2>4. t \in TaskType /\ task' = [task EXCEPT ![w] = t]
    BY <2>1, <2>2, <2>3, TaskForms DEF RangeType
  <2>5. \A j \in DOMAIN reserved_ranges : reserved_ranges[j].name = t.range => j = i
    BY <1>1, <2>2 DEF Shape, NamesDiffer
  <2>6. Pending(reserved_ranges, task')
    BY <1>1, <2>1, <2>2, <2>4, <2>5 DEF Pending
  <2>7. task' \in [Worker -> TaskType]
    BY <1>1, <2>4
  <2> QED BY <1>1, <1>7, <2>6, <2>7, BaseStep DEF AssignPick
<1>8. ASSUME NEW w \in Worker, AssignMark(w) PROVE Base'
  <2>1. Kept(reserved_ranges', reserved_ranges) /\ Shape(reserved_ranges', ip_pools')
    BY <1>8, MarkFacts
  <2>2. task' = [task EXCEPT ![w] = Idle] /\ Idle.op # "assign"
    BY <1>8 DEF AssignMark, Idle
  <2>3. task' \in [Worker -> TaskType] /\ Pending(reserved_ranges, task')
    BY <1>1, <2>2, TaskForms, PendingTask
  <2>4. Pending(reserved_ranges', task')
    BY <2>1, <2>3, PendingKept
  <2>5. reserved_ips' \in [Blueprint -> Seq(Address)]
    <3>1. PICK b, ip : b = task[w].blueprint /\ ip = task[w].ip
      OBVIOUS
    <3>2. b \in Blueprint /\ ip \in Address /\ reserved_ips' = [reserved_ips EXCEPT ![b] = Append(@, ip)]
      BY <1>1, <1>8, <3>1, TaskFacts DEF AssignMark
    <3>3. PICK s : s = Append(reserved_ips[b], ip)
      OBVIOUS
    <3>4. s \in Seq(Address)
      BY <1>1, <3>2, <3>3, IpsFacts
    <3> QED BY <1>1, <3>2, <3>3, <3>4
  <2> QED BY <1>1, <1>8, <2>1, <2>3, <2>4, <2>5, BaseStep DEF AssignMark, SavesTopology
<1>9. ASSUME NEW b \in Blueprint, SaveProvider(b) PROVE Base'
  <2>1. SavesIps
    BY <1>1, <1>9 DEF SaveProvider, SavesIps
  <2> QED BY <1>1, <1>9, <2>1, BaseStep DEF SaveProvider
<1>10. ASSUME NEW b \in Blueprint, NEW ip \in Address, ReleaseIp(b, ip) PROVE Base'
  <2>1. Kept(reserved_ranges', reserved_ranges) /\ Shape(reserved_ranges', ip_pools)
    BY <1>1, <1>10, FreeFacts DEF ReleaseIp
  <2>2. Pending(reserved_ranges', task)
    BY <1>1, <2>1, PendingKept
  <2>3. reserved_ips' \in [Blueprint -> Seq(Address)]
    <3>1. PICK s : s = RemoveFirst(reserved_ips[b], ip)
      OBVIOUS
    <3>2. s \in Seq(Address)
      BY <1>1, <3>1, IpsFacts
    <3> QED BY <1>1, <1>10, <3>1, <3>2 DEF ReleaseIp
  <2> QED BY <1>1, <1>10, <2>1, <2>2, <2>3, BaseStep DEF ReleaseIp, SavesTopology
<1>11. ASSUME NEW w \in Worker, NEW b \in Blueprint, CleanupStart(w, b) PROVE Base'
  <2>1. PICK t : t = [op |-> "cleanup", blueprint |-> b, todo |-> reserved_ips[b]]
    OBVIOUS
  <2>2. t \in TaskType /\ t.op # "assign" /\ task' = [task EXCEPT ![w] = t]
    BY <1>1, <1>11, <2>1, TaskForms DEF CleanupStart
  <2>3. task' \in [Worker -> TaskType] /\ Pending(reserved_ranges, task')
    BY <1>1, <2>2, PendingTask
  <2> QED BY <1>1, <1>11, <2>3, BaseStep DEF CleanupStart
<1>12. ASSUME NEW w \in Worker, CleanupStep(w) PROVE Base'
  <2>1. Kept(reserved_ranges', reserved_ranges) /\ Shape(reserved_ranges', ip_pools)
    BY <1>1, <1>12, FreeFacts DEF CleanupStep
  <2>2. PICK t : t = [task[w] EXCEPT !.todo = Tail(@)]
    OBVIOUS
  <2>3. t \in TaskType /\ t.op # "assign"
    <3>1. PICK u : u = task[w]
      OBVIOUS
    <3>2. u \in [op : {"cleanup"}, blueprint : Blueprint, todo : Seq(Address)] /\ u.todo # <<>>
      BY <1>1, <1>12, <3>1 DEF CleanupStep, TaskType, Idle
    <3>3. PICK s : s = Tail(u.todo)
      OBVIOUS
    <3>4. s \in Seq(Address)
      BY <3>2, <3>3
    <3>5. t = [op |-> "cleanup", blueprint |-> u.blueprint, todo |-> s]
      BY <2>2, <3>1, <3>2, <3>3
    <3> QED BY <3>2, <3>4, <3>5, TaskForms
  <2>4. task' = [task EXCEPT ![w] = t]
    BY <1>12, <2>2 DEF CleanupStep
  <2>5. task' \in [Worker -> TaskType] /\ Pending(reserved_ranges, task')
    BY <1>1, <2>3, <2>4, PendingTask
  <2>6. Pending(reserved_ranges', task')
    BY <2>1, <2>5, PendingKept
  <2> QED BY <1>1, <1>12, <2>1, <2>5, <2>6, BaseStep DEF CleanupStep, SavesTopology
<1>13. ASSUME NEW w \in Worker, CleanupFail(w) \/ CleanupEnd(w) PROVE Base'
  <2>1. task' = [task EXCEPT ![w] = Idle] /\ Idle.op # "assign"
    BY <1>13 DEF CleanupFail, CleanupEnd, Idle
  <2>2. task' \in [Worker -> TaskType] /\ Pending(reserved_ranges, task')
    BY <1>1, <2>1, TaskForms, PendingTask
  <2>3. CASE CleanupFail(w)
    BY <1>1, <2>2, <2>3, BaseStep DEF CleanupFail
  <2>4. CASE CleanupEnd(w)
    <3>1. PICK b : b = task[w].blueprint
      OBVIOUS
    <3>2. /\ b \in Blueprint /\ reserved_ips' = [reserved_ips EXCEPT ![b] = <<>>]
          /\ saved' = [saved EXCEPT !.ips[b] = <<>>] /\ deleting' = deleting \ {b}
      BY <1>1, <2>4, <3>1, TaskFacts DEF CleanupEnd
    <3>3. <<>> \in Seq(Address)
      OBVIOUS
    <3>4. SavesIps
      BY <3>2, <3>3 DEF SavesIps
    <3>5. reserved_ips' \in [Blueprint -> Seq(Address)]
      BY <1>1, <3>2, <3>3
    <3> QED BY <1>1, <2>2, <2>4, <3>2, <3>4, <3>5, BaseStep DEF CleanupEnd
  <2> QED BY <1>13, <2>3, <2>4
<1>14. CASE Stop
  <2>1. /\ saved.pools \in Seq(PoolRequest) /\ saved.ips \in [Blueprint -> Seq(Address)]
    BY <1>1 DEF SavedType
  <2>2. task' \in [Worker -> TaskType] /\ \A w \in Worker : task'[w].op # "assign"
    BY <1>14, TaskForms DEF Stop, Idle
  <2>3. Pending(reserved_ranges', task')
    BY <2>2 DEF Pending
  <2> QED BY <1>1, <1>14, <2>1, <2>2, <2>3, BaseStep DEF Stop
<1>15. CASE UNCHANGED vars
  BY <1>1, <1>15, BaseStep DEF vars
<1> QED
  BY <1>2, <1>3, <1>4, <1>5, <1>6, <1>7, <1>8, <1>9, <1>10, <1>11, <1>12, <1>13, <1>14, <1>15
  DEF Next

\* The types, for every value of the constants and every hazard: in particular an address
\* is marked only in a range that contains it, also when ranges are released and reserved
\* while it is being assigned.
THEOREM PoolTypes == Spec => []TypeOK
<1>1. Init => Base
  BY BaseInit
<1>2. Base /\ [Next]_vars => Base'
  BY BaseInductive
<1>3. Base => TypeOK
  BY DEF Base, TypeOK, Shape
<1> QED BY <1>1, <1>2, <1>3, PTL DEF Spec
-----------------------------------------------------------------------------
(***************************************************************************)
(* Order among the ranges, when no two reservations overlap in time and no *)
(* pool is inside another one: ranges are disjoint and listed by their     *)
(* owners, in memory and in the document, and the addresses a reservation  *)
(* has found are still free when it commits.                               *)
(***************************************************************************)
Listed(ranges, names) ==
    \A i \in DOMAIN ranges : Contains(names[ranges[i].owner], ranges[i].name)

Resolved(ranges, names) ==
    \A c \in Cluster : \A x : Contains(names[c], x) =>
        \E i \in DOMAIN ranges : ranges[i].name = x /\ ranges[i].owner = c

Orderly(ranges, names) ==
    /\ Apart(ranges) /\ Listed(ranges, names)
    /\ "wrong_cluster" \notin Hazard => Resolved(ranges, names)

Reserving(ranges, tasks) ==
    \A w \in Worker : tasks[w].op = "reserve" =>
        /\ IsInjective(tasks[w].ips)
        /\ \A k \in DOMAIN tasks[w].ips : \A i \in DOMAIN ranges : ~InRange(tasks[w].ips[k], ranges[i])
        /\ \A v \in Worker : tasks[v].op = "reserve" => v = w

Order ==
    /\ Base
    /\ PoolInv
    /\ Orderly(reserved_ranges, ip_pools)
    /\ Orderly(saved.ranges, saved.names)
    /\ Reserving(reserved_ranges, task)

OneReservation == NoNesting /\ "reserve_race" \notin Hazard

\* Marking and freeing addresses changes nothing about ranges.
LEMMA OrderlyKept ==
    ASSUME NEW R, NEW N, Orderly(R, N), NEW new, Kept(new, R)
    PROVE  Orderly(new, N)
<1>1. Apart(new)
  BY DEF Orderly, Apart, Kept, InRange
<1>2. Listed(new, N)
  BY DEF Orderly, Listed, Kept
<1>3. "wrong_cluster" \notin Hazard => Resolved(new, N)
  BY DEF Orderly, Resolved, Kept
<1> QED BY <1>1, <1>2, <1>3 DEF Orderly

\* New ranges that meet none of the old ones are in order.
LEMMA OrderlyAppended ==
    ASSUME NEW R, NEW N, NEW T, Shape(R, N), Orderly(R, N), NEW c \in Cluster, NEW new,
           Fresh(new, c, R, N, T), NEW all, NEW M, Appended(new, c, R, N, all, M), Apart(new),
           \A k \in DOMAIN new : \A ip \in Address : InRange(ip, new[k]) =>
              \A i \in DOMAIN R : ~InRange(ip, R[i])
    PROVE  Orderly(all, M)
<1>1. \A d \in Cluster : \A x : Contains(M[d], x) <=>
         Contains(N[d], x) \/ (d = c /\ HasName(new, x))
  BY ShapeAppended
<1>2. R \in Seq(RangeType) /\ new \in Seq(RangeType) /\ all = R \o new
  BY DEF Shape, Fresh, Appended
<1>3. /\ DOMAIN all = 1..(Len(R) + Len(new)) /\ Len(R) \in Nat /\ Len(new) \in Nat
      /\ DOMAIN R = 1..Len(R) /\ DOMAIN new = 1..Len(new)
      /\ \A k \in DOMAIN all : /\ k <= Len(R) => k \in DOMAIN R /\ all[k] = R[k]
                               /\ ~(k <= Len(R)) =>
                                    k - Len(R) \in DOMAIN new /\ all[k] = new[k - Len(R)]
  <2>1. /\ Len(all) = Len(R) + Len(new) /\ Len(R) \in Nat /\ Len(new) \in Nat
        /\ DOMAIN all = 1..(Len(R) + Len(new))
        /\ DOMAIN R = 1..Len(R) /\ DOMAIN new = 1..Len(new)
        /\ \A k \in 1..(Len(R) + Len(new)) :
              all[k] = IF k <= Len(R) THEN R[k] ELSE new[k - Len(R)]
    BY <1>2
  <2> QED BY <2>1
<1>4. Apart(all)
  <2> SUFFICES ASSUME NEW k \in DOMAIN all, NEW l \in DOMAIN all, k # l, NEW ip \in Address,
                      InRange(ip, all[k]), InRange(ip, all[l])
               PROVE  FALSE
    BY DEF Apart
  <2>1. CASE k <= Len(R) /\ l <= Len(R)
    BY <1>3, <2>1 DEF Orderly, Apart
  <2>2. CASE k <= Len(R) /\ ~(l <= Len(R))
    BY <1>3, <2>2
  <2>3. CASE ~(k <= Len(R)) /\ l <= Len(R)
    BY <1>3, <2>3
  <2>4. CASE ~(k <= Len(R)) /\ ~(l <= Len(R))
    <3>1. k - Len(R) # l - Len(R)
      BY <1>3
    <3> QED BY <1>3, <2>4, <3>1 DEF Apart
  <2> QED BY <2>1, <2>2, <2>3, <2>4
<1>5. Listed(all, M)
  <2> SUFFICES ASSUME NEW k \in DOMAIN all PROVE Contains(M[all[k].owner], all[k].name)
    BY DEF Listed
  <2>1. CASE k <= Len(R)
    <3>1. k \in DOMAIN R /\ all[k] = R[k] /\ R[k].owner \in Cluster
      <4>1. k \in DOMAIN R /\ all[k] = R[k]
        BY <1>3, <2>1
      <4>2. R[k] \in RangeType
        BY <1>2, <4>1
      <4> QED BY <4>1, <4>2 DEF RangeType
    <3> QED BY <1>1, <3>1 DEF Orderly, Listed
  <2>2. CASE ~(k <= Len(R))
    <3>1. PICK j \in DOMAIN new : all[k] = new[j]
      BY <1>3, <2>2
    <3>2. new[j].owner = c /\ HasName(new, new[j].name)
      BY <3>1 DEF Fresh, HasName
    <3> QED BY <1>1, <3>1, <3>2
  <2> QED BY <2>1, <2>2
<1>6. ASSUME "wrong_cluster" \notin Hazard PROVE Resolved(all, M)
  <2>0. /\ \A i \in DOMAIN R : i \in DOMAIN all /\ all[i] = R[i]
        /\ \A j \in DOMAIN new : Len(R) + j \in DOMAIN all /\ all[Len(R) + j] = new[j]
    <3>1. \A i \in DOMAIN R : i \in DOMAIN all /\ i <= Len(R)
      BY <1>3
    <3>2. \A j \in DOMAIN new : /\ Len(R) + j \in DOMAIN all /\ ~(Len(R) + j <= Len(R))
                                /\ (Len(R) + j) - Len(R) = j
      BY <1>3
    <3>3. \A j \in DOMAIN new : all[Len(R) + j] = new[j]
      BY <1>3, <3>2
    <3> QED BY <1>3, <3>1, <3>2, <3>3
  <2> SUFFICES ASSUME NEW d \in Cluster, NEW x, Contains(M[d], x)
               PROVE  \E i \in DOMAIN all : all[i].name = x /\ all[i].owner = d
    BY DEF Resolved
  <2>1. CASE Contains(N[d], x)
    <3>1. PICK i \in DOMAIN R : R[i].name = x /\ R[i].owner = d
      BY <1>6, <2>1 DEF Orderly, Resolved
    <3> QED BY <2>0, <3>1
  <2>2. CASE d = c /\ HasName(new, x)
    <3>1. PICK j \in DOMAIN new : new[j].name = x
      BY <2>2 DEF HasName
    <3>2. new[j].owner = c
      BY DEF Fresh
    <3> QED BY <2>0, <2>2, <3>1, <3>2
  <2> QED BY <1>1, <2>1, <2>2
<1> QED BY <1>4, <1>5, <1>6 DEF Orderly

\* A range goes with its name, when it is in the list of that cluster.
LEMMA OrderlyRemoved ==
    ASSUME NEW R, NEW N, Shape(R, N), Orderly(R, N), NEW i \in DOMAIN R,
           NEW new, new = RemoveAt(R, i), NEW c \in Cluster, NEW M,
           \/ M = N /\ ~Contains(N[c], R[i].name)
           \/ M = [N EXCEPT ![c] = RemoveFirst(@, R[i].name)],
           "wrong_cluster" \notin Hazard => R[i].owner = c
    PROVE  Orderly(new, M)
<1> DEFINE n == R[i].name
<1>1. R \in Seq(RangeType) /\ i \in 1..Len(R) /\ N \in [Cluster -> Seq(RangeName)]
  BY DEF Shape
<1>2. /\ new \in Seq(RangeType)
      /\ \A k \in DOMAIN new : \E a \in DOMAIN R : a # i /\ new[k] = R[a]
      /\ \A k, l \in DOMAIN new : k # l => \E a, b \in DOMAIN R :
            a # b /\ new[k] = R[a] /\ new[l] = R[b]
      /\ \A a \in DOMAIN R : a # i => \E k \in DOMAIN new : new[k] = R[a]
  BY <1>1, RemoveAtItems
<1>3. /\ \A d \in Cluster : \A x : Contains(M[d], x) => Contains(N[d], x)
      /\ \A d \in Cluster : \A x : Contains(N[d], x) /\ x # n => Contains(M[d], x)
      /\ ~Contains(M[c], n)
  <2>1. CASE M = N /\ ~Contains(N[c], R[i].name)
    BY <2>1
  <2>2. CASE M = [N EXCEPT ![c] = RemoveFirst(@, R[i].name)]
    <3>1. PICK list : list = RemoveFirst(N[c], n)
      OBVIOUS
    <3>2. \A x : Contains(list, x) <=> Contains(N[c], x) /\ x # n
      <4>1. N[c] \in Seq(RangeName) /\ IsInjective(N[c])
        BY <1>1 DEF Shape
      <4> QED BY <3>1, <4>1, RemoveFirstFacts
    <3>3. \A d \in Cluster : M[d] = IF d = c THEN list ELSE N[d]
      BY <1>1, <2>2, <3>1
    <3> QED BY <3>2, <3>3
  <2> QED BY <2>1, <2>2
<1>4. \A a \in DOMAIN R : a # i => R[a].name # n
  BY DEF Shape, NamesDiffer
<1>5. Apart(new)
  <2> SUFFICES ASSUME NEW k \in DOMAIN new, NEW l \in DOMAIN new, k # l, NEW ip \in Address,
                      InRange(ip, new[k]), InRange(ip, new[l])
               PROVE  FALSE
    BY DEF Apart
  <2>1. PICK a \in DOMAIN R, b \in DOMAIN R : a # b /\ new[k] = R[a] /\ new[l] = R[b]
    BY <1>2
  <2> QED BY <2>1 DEF Orderly, Apart
<1>6. Listed(new, M)
  <2> SUFFICES ASSUME NEW k \in DOMAIN new PROVE Contains(M[new[k].owner], new[k].name)
    BY DEF Listed
  <2>1. PICK a \in DOMAIN R : a # i /\ new[k] = R[a]
    BY <1>2
  <2>2. R[a].owner \in Cluster
    <3>1. R[a] \in RangeType
      BY <1>1
    <3> QED BY <3>1 DEF RangeType
  <2> QED BY <1>3, <1>4, <2>1, <2>2 DEF Orderly, Listed
<1>7. ASSUME "wrong_cluster" \notin Hazard PROVE Resolved(new, M)
  <2> SUFFICES ASSUME NEW d \in Cluster, NEW x, Contains(M[d], x)
               PROVE  \E k \in DOMAIN new : new[k].name = x /\ new[k].owner = d
    BY DEF Resolved
  <2>1. PICK a \in DOMAIN R : R[a].name = x /\ R[a].owner = d
    BY <1>3, <1>7 DEF Orderly, Resolved
  <2>2. a # i
    BY <1>3, <1>7, <2>1
  <2> QED BY <1>2, <2>1, <2>2
<1> QED BY <1>5, <1>6, <1>7 DEF Orderly

\* At first there are no ranges.
LEMMA OrderInit == Init => Order
<1> SUFFICES ASSUME Init PROVE Order
  OBVIOUS
<1>1. Orderly(<<>>, [c \in Cluster |-> <<>>])
  BY DEF Orderly, Apart, Listed, Resolved, Contains
<1>2. saved.ranges = <<>> /\ saved.names = [c \in Cluster |-> <<>>]
  BY DEF Init
<1>3. Reserving(reserved_ranges, task)
  BY DEF Init, Reserving, Idle
<1> QED BY <1>1, <1>2, <1>3, BaseInit, PoolInvInit DEF Init, Order

\* What is left to show of a step: the ranges in memory and the reservations.
LEMMA OrderStep ==
    ASSUME OneReservation, Order, [Next]_vars,
           Orderly(reserved_ranges', ip_pools'), Reserving(reserved_ranges', task'),
           SavesTopology \/ SavesIps \/ UNCHANGED saved
    PROVE  Order'
<1>1. Base' /\ PoolInv'
  BY BaseInductive, PoolInvStep DEF Order, OneReservation
<1>2. saved \in SavedType /\ allocation_pool' \in Seq(PoolRequest)
      /\ Shape(reserved_ranges', ip_pools')
  BY <1>1 DEF Order, Base
<1>3. Orderly(saved'.ranges, saved'.names)
  <2>1. CASE SavesTopology
    BY <1>2, <2>1, SavedFacts
  <2>2. CASE ~SavesTopology
    BY <1>2, <2>2, SavedFacts DEF Order
  <2> QED BY <2>1, <2>2
<1> QED BY <1>1, <1>3 DEF Order

\* Addresses found free stay so while the ranges stay.
LEMMA ReservingKept ==
    ASSUME NEW R, NEW new, NEW T, Reserving(R, T), Kept(new, R)
    PROVE  Reserving(new, T)
<1> QED BY DEF Reserving, Kept, InRange

\* A thread begins or ends something other than a reservation.
LEMMA ReservingTask ==
    ASSUME NEW R, NEW T \in [Worker -> TaskType], Reserving(R, T), NEW w \in Worker, NEW t,
           t.op # "reserve"
    PROVE  Reserving(R, [T EXCEPT ![w] = t])
<1> QED BY DEF Reserving

\* Every step keeps Order, when reservations follow one another.
LEMMA OrderInductive ==
    ASSUME OneReservation, Order, [Next]_vars
    PROVE  Order'
<1>1. /\ Base /\ task \in [Worker -> TaskType]
      /\ Shape(reserved_ranges, ip_pools) /\ Orderly(reserved_ranges, ip_pools)
      /\ Apart(reserved_ranges) /\ Reserving(reserved_ranges, task)
  BY DEF Order, Base, Orderly
<1>2. ASSUME NEW p \in PoolRequest, AddPool(p) \/ RemovePool(p.name) PROVE Order'
  BY <1>1, <1>2, OrderStep DEF AddPool, RemovePool, SavesTopology
<1>3. ASSUME NEW w \in Worker, NEW c \in Cluster, NEW n \in 1..MaxLength, ReserveFind(w, c, n)
      PROVE  Order'
  <2>1. PICK all, ips : all = AvailableIps /\ ips = SubSeq(all, 1, n)
    OBVIOUS
  <2>2. /\ all \in Seq(Address) /\ IsInjective(all)
        /\ \A k \in DOMAIN all : ~IsIpReserved(all[k])
    BY <2>1, AvailableIpsFacts DEF Order, Base, PoolInv
  <2>3. n <= Len(all) /\ n \in Nat
    BY <1>3, <2>1, NetworkAssumption DEF ReserveFind
  <2>4. DOMAIN ips = 1..n /\ \A k \in 1..n : ips[k] = all[k] /\ k \in DOMAIN all
    BY <2>1, <2>2, <2>3, SubSeqProperties
  <2>5. IsInjective(ips)
    BY <2>2, <2>4 DEF IsInjective
  <2>6. \A k \in DOMAIN ips : \A i \in DOMAIN reserved_ranges : ~InRange(ips[k], reserved_ranges[i])
    BY <2>2, <2>4 DEF IsIpReserved
  <2>7. PICK t : t = [op |-> "reserve", cluster |-> c, ips |-> ips]
    OBVIOUS
  <2>8. task' = [task EXCEPT ![w] = t]
    BY <1>3, <2>1, <2>7 DEF ReserveFind
  <2>9. \A v \in Worker : task[v].op # "reserve"
    BY <1>3 DEF ReserveFind, OneReservation
  <2>10. PICK T : T = task'
    OBVIOUS
  <2>11. \A v \in Worker : T[v].op = "reserve" => v = w /\ T[v].ips = ips
    BY <1>1, <2>7, <2>8, <2>9, <2>10
  <2>12. Reserving(reserved_ranges, T)
    BY <2>5, <2>6, <2>11 DEF Reserving
  <2> QED BY <1>1, <1>3, <2>10, <2>12, OrderStep DEF ReserveFind
<1>4. ASSUME NEW w \in Worker, ReserveCommit(w) PROVE Order'
  <2>1. PICK c \in Cluster : \E new :
             /\ Fresh(new, c, reserved_ranges, ip_pools, task)
             /\ Covers(task[w].ips, new)
             /\ Appended(new, c, reserved_ranges, ip_pools, reserved_ranges', ip_pools')
    BY <1>1, <1>4, CommitFacts
  <2>2. PICK new :
             /\ Fresh(new, c, reserved_ranges, ip_pools, task)
             /\ Covers(task[w].ips, new)
             /\ Appended(new, c, reserved_ranges, ip_pools, reserved_ranges', ip_pools')
    BY <2>1
  <2>3. task[w].op = "reserve"
    BY <1>4 DEF ReserveCommit
  <2>4. Apart(new) /\ \A k \in DOMAIN new : \A ip \in Address : InRange(ip, new[k]) =>
           \A i \in DOMAIN reserved_ranges : ~InRange(ip, reserved_ranges[i])
    BY <1>1, <2>2, <2>3 DEF Covers, Reserving
  <2>5. Orderly(reserved_ranges', ip_pools')
    BY <1>1, <2>2, <2>4, OrderlyAppended
  <2>6. PICK T : T = task'
    OBVIOUS
  <2>7. \A v \in Worker : T[v].op # "reserve"
    <3>1. T = [task EXCEPT ![w] = Idle] /\ Idle.op # "reserve"
      BY <1>4, <2>6 DEF ReserveCommit, Idle
    <3> QED BY <1>1, <2>3, <3>1 DEF Reserving
  <2>8. Reserving(reserved_ranges', T)
    BY <2>7 DEF Reserving
  <2> QED BY <1>4, <2>5, <2>6, <2>8, OrderStep DEF ReserveCommit, SavesTopology
<1>5. ASSUME NEW n \in RangeName, NEW c \in Cluster, ReleaseRange(n, c) PROVE Order'
  <2>1. PICK i \in DOMAIN reserved_ranges :
             /\ reserved_ranges' = RemoveAt(reserved_ranges, i)
             /\ \/ ip_pools' = ip_pools /\ ~Contains(ip_pools[c], n) /\ UNCHANGED saved
                \/ ip_pools' = [ip_pools EXCEPT ![c] = RemoveFirst(@, n)] /\ SaveTopology(saved)
             /\ reserved_ranges[i].name = n
             /\ reserved_ranges[i].owner # c => "wrong_cluster" \in Hazard
    BY <1>1, <1>5, ReleaseFacts
  <2>2. Orderly(reserved_ranges', ip_pools')
    <3>1. PICK R, N, new, M : /\ R = reserved_ranges /\ N = ip_pools
                              /\ new = reserved_ranges' /\ M = ip_pools'
      OBVIOUS
    <3>2. /\ Shape(R, N) /\ Orderly(R, N) /\ i \in DOMAIN R /\ new = RemoveAt(R, i)
          /\ \/ M = N /\ ~Contains(N[c], R[i].name)
             \/ M = [N EXCEPT ![c] = RemoveFirst(@, R[i].name)]
          /\ "wrong_cluster" \notin Hazard => R[i].owner = c
      BY <1>1, <2>1, <3>1
    <3>3. Orderly(new, M)
      BY <3>2, OrderlyRemoved
    <3> QED BY <3>1, <3>3
  <2>3. Reserving(reserved_ranges', task)
    <3>1. PICK R, new : R = reserved_ranges /\ new = reserved_ranges'
      OBVIOUS
    <3>2. R \in Seq(RangeType) /\ i \in 1..Len(R) /\ new = RemoveAt(R, i)
      BY <1>1, <2>1, <3>1 DEF Shape
    <3>3. \A k \in DOMAIN new : \E a \in DOMAIN R : new[k] = R[a]
      BY <3>2, RemoveAtItems
    <3>4. Reserving(R, task)
      BY <1>1, <3>1
    <3>5. Reserving(new, task)
      BY <3>3, <3>4 DEF Reserving
    <3> QED BY <3>1, <3>5
  <2>4. UNCHANGED task
    BY <1>5 DEF ReleaseRange
  <2> QED BY <2>1, <2>2, <2>3, <2>4, OrderStep DEF SavesTopology
<1>6. ASSUME NEW w \in Worker, NEW b \in Blueprint, AssignPick(w, b) \/ CleanupStart(w, b)
      PROVE  Order'
  <2>1. \E t : t.op # "reserve" /\ task' = [task EXCEPT ![w] = t]
    <3>1. CASE AssignPick(w, b)
      <4>1. PICK i \in DOMAIN reserved_ranges, ip \in Address :
               task' = [task EXCEPT ![w] = [op |-> "assign", blueprint |-> b,
                                            range |-> reserved_ranges[i].name, ip |-> ip]]
        BY <1>1, <3>1, PickFacts
      <4>2. PICK t : t = [op |-> "assign", blueprint |-> b,
                          range |-> reserved_ranges[i].name, ip |-> ip]
        OBVIOUS
      <4>3. t.op # "reserve" /\ task' = [task EXCEPT ![w] = t]
        BY <4>1, <4>2
      <4> QED BY <4>3
    <3>2. CASE CleanupStart(w, b)
      <4>1. PICK t : t = [op |-> "cleanup", blueprint |-> b, todo |-> reserved_ips[b]]
        OBVIOUS
      <4>2. t.op # "reserve" /\ task' = [task EXCEPT ![w] = t]
        BY <3>2, <4>1 DEF CleanupStart
      <4> QED BY <4>2
    <3> QED BY <1>6, <3>1, <3>2
  <2>2. Reserving(reserved_ranges, task')
    <3>1. PICK t : t.op # "reserve" /\ task' = [task EXCEPT ![w] = t]
      BY <2>1
    <3> QED BY <1>1, <3>1, ReservingTask
  <2>3. UNCHANGED <<reserved_ranges, ip_pools, saved>>
    BY <1>6 DEF AssignPick, CleanupStart
  <2> QED BY <1>1, <2>2, <2>3, OrderStep
<1>7. ASSUME NEW w \in Worker, AssignMark(w) PROVE Order'
  <2>1. Kept(reserved_ranges', reserved_ranges) /\ ip_pools' = ip_pools
    BY <1>1, <1>7, MarkFacts DEF AssignMark
  <2>2. task' = [task EXCEPT ![w] = Idle] /\ Idle.op # "reserve" /\ SavesTopology
    BY <1>7 DEF AssignMark, Idle, SavesTopology
  <2>3. Reserving(reserved_ranges, task')
    BY <1>1, <2>2, ReservingTask
  <2>4. Reserving(reserved_ranges', task') /\ Orderly(reserved_ranges', ip_pools')
    BY <1>1, <2>1, <2>3, ReservingKept, OrderlyKept
  <2> QED BY <2>2, <2>4, OrderStep
<1>8. ASSUME NEW b \in Blueprint, SaveProvider(b) PROVE Order'
  <2>1. SavesIps
    BY <1>1, <1>8 DEF SaveProvider, SavesIps, Base
  <2> QED BY <1>1, <1>8, <2>1, OrderStep DEF SaveProvider
<1>9. ASSUME NEW b \in Blueprint, NEW ip \in Address, ReleaseIp(b, ip) PROVE Order'
  <2>1. Kept(reserved_ranges', reserved_ranges)
    BY <1>1, <1>9, FreeFacts DEF ReleaseIp
  <2>2. Reserving(reserved_ranges', task) /\ Orderly(reserved_ranges', ip_pools)
    BY <1>1, <2>1, ReservingKept, OrderlyKept
  <2> QED BY <1>9, <2>2, OrderStep DEF ReleaseIp, SavesTopology
<1>10. ASSUME NEW w \in Worker, CleanupStep(w) PROVE Order'
  <2>1. Kept(reserved_ranges', reserved_ranges)
    BY <1>1, <1>10, FreeFacts DEF CleanupStep
  <2>2. PICK t : t = [task[w] EXCEPT !.todo = Tail(@)]
    OBVIOUS
  <2>3. t.op # "reserve" /\ task' = [task EXCEPT ![w] = t]
    BY <1>10, <2>2 DEF CleanupStep
  <2>4. Reserving(reserved_ranges, task')
    BY <1>1, <2>3, ReservingTask
  <2>5. Reserving(reserved_ranges', task') /\ Orderly(reserved_ranges', ip_pools)
    BY <1>1, <2>1, <2>4, ReservingKept, OrderlyKept
  <2> QED BY <1>10, <2>5, OrderStep DEF CleanupStep, SavesTopology
<1>11. ASSUME NEW w \in Worker, CleanupFail(w) \/ CleanupEnd(w) PROVE Order'
  <2>1. task' = [task EXCEPT ![w] = Idle] /\ Idle.op # "reserve"
    BY <1>11 DEF CleanupFail, CleanupEnd, Idle
  <2>2. Reserving(reserved_ranges, task')
    BY <1>1, <2>1, ReservingTask
  <2>3. CASE CleanupFail(w)
    BY <1>1, <2>2, <2>3, OrderStep DEF CleanupFail
  <2>4. CASE CleanupEnd(w)
    <3>1. PICK b : b = task[w].blueprint
      OBVIOUS
    <3>2. b \in Blueprint /\ saved' = [saved EXCEPT !.ips[b] = <<>>]
      BY <1>1, <2>4, <3>1, TaskFacts DEF CleanupEnd
    <3>3. <<>> \in Seq(Address)
      OBVIOUS
    <3>4. SavesIps
      BY <3>2, <3>3 DEF SavesIps
    <3> QED BY <1>1, <2>2, <2>4, <3>4, OrderStep DEF CleanupEnd
  <2> QED BY <1>11, <2>3, <2>4
<1>12. CASE Stop
  <2>1. \A w \in Worker : task'[w].op # "reserve"
    BY <1>12 DEF Stop, Idle
  <2>2. Reserving(reserved_ranges', task')
    BY <2>1 DEF Reserving
  <2>3. Orderly(reserved_ranges', ip_pools')
    BY <1>12 DEF Stop, Order
  <2> QED BY <1>12, <2>2, <2>3, OrderStep DEF Stop
<1>13. CASE UNCHANGED vars
  BY <1>1, <1>13, OrderStep DEF vars
<1> QED
  BY <1>2, <1>3, <1>4, <1>5, <1>6, <1>7, <1>8, <1>9, <1>10, <1>11, <1>12, <1>13 DEF Next

\* Order holds in every reachable state.
LEMMA OrderAlways == OneReservation => (Spec => []Order)
<1> SUFFICES ASSUME OneReservation PROVE Spec => []Order
  OBVIOUS
<1>1. Init => Order
  BY OrderInit
<1>2. Order /\ [Next]_vars => Order'
  BY OrderInductive
<1> QED BY <1>1, <1>2, PTL DEF Spec

\* No address is in two reserved ranges, whatever else goes wrong: addresses assigned
\* twice, ranges released while in use or in the name of another cluster, deletions that
\* fail, restarts.
THEOREM RangesStayDisjoint == OneReservation => (Spec => []RangesDisjoint)
<1>1. Order => RangesDisjoint
  BY DEF Order, Orderly, Apart, RangesDisjoint
<1> QED BY <1>1, OrderAlways, PTL

\* Every range is in the list of its owner, under the same conditions.
THEOREM RangesStayListed == OneReservation => (Spec => []RangesListed)
<1>1. Order => RangesListed
  BY DEF Order, Orderly, Listed, RangesListed
<1> QED BY <1>1, OrderAlways, PTL

\* Every name a cluster lists is a range it owns, when ranges are released in the name of
\* their own cluster.
THEOREM NamesKeepResolving ==
    OneReservation /\ "wrong_cluster" \notin Hazard => (Spec => []NamesResolve)
<1> SUFFICES ASSUME OneReservation, "wrong_cluster" \notin Hazard PROVE Spec => []NamesResolve
  OBVIOUS
<1>1. Order => NamesResolve
  <2> SUFFICES ASSUME Order, NEW c \in Cluster, NEW n \in ToSet(ip_pools[c])
               PROVE  \E i \in DOMAIN reserved_ranges :
                         reserved_ranges[i].name = n /\ reserved_ranges[i].owner = c
    BY DEF NamesResolve
  <2>1. ip_pools[c] \in Seq(RangeName)
    BY DEF Order, Base, Shape
  <2>2. Contains(ip_pools[c], n)
    BY <2>1 DEF ToSet, Contains
  <2> QED BY <2>2 DEF Order, Orderly, Resolved
<1>2. Spec => []Order
  BY OrderAlways
<1> QED BY <1>1, <1>2, PTL

\* In a list whose intervals have no address in common list.remove takes the item it is given,
\* though it compares by overlap.
LEMMA RemovedNamed ==
    ASSUME NEW S, NEW list \in Seq(S), NEW name, HasName(list, name),
           \A i \in DOMAIN list : /\ list[i].start \in Address /\ list[i].end \in Address
                                  /\ list[i].start <= list[i].end,
           \A i, j \in DOMAIN list : i # j =>
              \A ip \in Address : ~(InRange(ip, list[i]) /\ InRange(ip, list[j]))
    PROVE  TakenOut(Removed(list, Named(list, name)), list, name)
<1> DEFINE I == {i \in 1..Len(list) : list[i].name = name}
<1>1. I # {} /\ I \in SUBSET Nat
  BY DEF HasName
<1>2. Min(I) \in I
  BY <1>1, LeastNumber DEF Min
<1>3. PICK k \in 1..Len(list) : list[k].name = name /\ Named(list, name) = list[k]
  BY <1>1, <1>2 DEF Named, SelectInSeq
<1> DEFINE J == {i \in 1..Len(list) : list[i] = list[k] \/ Equal(list[i], list[k])}
<1>4. k \in J /\ J \in SUBSET Nat
  OBVIOUS
<1>5. Removed(list, list[k]) = RemoveAt(list, Min(J))
  BY <1>4 DEF Removed, SelectInSeq
<1>6. Min(J) \in J
  BY <1>4, LeastNumber DEF Min
<1>7. ASSUME NEW i \in J PROVE i = k
  <2> i \in DOMAIN list /\ k \in DOMAIN list
    OBVIOUS
  <2>1. list[i].start \in Address /\ list[i].end \in Address /\ list[i].start <= list[i].end
    OBVIOUS
  <2>2. list[i].start \in Nat /\ list[i].end \in Nat /\ list[i].start <= list[i].end
    BY <2>1, AddressFacts
  <2>3. InRange(list[i].start, list[i]) /\ InRange(list[i].end, list[i])
    BY <2>2 DEF InRange
  <2>4. InRange(list[i].start, list[k]) \/ InRange(list[i].end, list[k])
    BY <1>7, <2>3 DEF Equal
  <2> QED BY <2>1, <2>3, <2>4
<1>8. Removed(list, list[k]) = RemoveAt(list, k)
  BY <1>5, <1>6, <1>7
<1> QED BY <1>3, <1>8 DEF TakenOut

\* The pool that is removed and the range that is released are the ones that were named, since
\* no two of them overlap.
THEOREM NamedAreRemoved == OneReservation => (Spec => RemovesTheNamed)
<1> SUFFICES ASSUME OneReservation PROVE Spec => RemovesTheNamed
  OBVIOUS
<1>1. ASSUME Order PROVE OnlyTheNamed
  <2>1. ASSUME NEW p \in PoolRequest, RemovePool(p.name)
        PROVE  TakenOut(allocation_pool', allocation_pool, p.name)
    <3>1. /\ allocation_pool \in Seq(PoolRequest)
          /\ \A i, j \in DOMAIN allocation_pool : i # j => \A ip \in Address :
                ~(InRange(ip, allocation_pool[i]) /\ InRange(ip, allocation_pool[j]))
      BY <1>1 DEF Order, PoolInv, GoodPools
    <3>2. \A i \in DOMAIN allocation_pool :
             /\ allocation_pool[i].start \in Address /\ allocation_pool[i].end \in Address
             /\ allocation_pool[i].start <= allocation_pool[i].end
      <4> SUFFICES ASSUME NEW q \in PoolRequest
                   PROVE  q.start \in Address /\ q.end \in Address /\ q.start <= q.end
        BY <3>1
      <4>1. q.start \in Nat /\ q.end \in Nat /\ q.start <= q.end
        BY NetworkAssumption
      <4>2. q.start \in q.start..q.end /\ q.end \in q.start..q.end
        BY <4>1
      <4> QED BY <4>1, <4>2 DEF Address
    <3>3. HasName(allocation_pool, p.name)
      BY <2>1 DEF RemovePool
    <3>4. allocation_pool' = Removed(allocation_pool, Named(allocation_pool, p.name))
      BY <2>1 DEF RemovePool
    <3> QED BY <3>1, <3>2, <3>3, <3>4, RemovedNamed
  <2>2. ASSUME NEW n \in RangeName, NEW c \in Cluster, ReleaseRange(n, c)
        PROVE  TakenOut(reserved_ranges', reserved_ranges, n)
    <3>1. reserved_ranges \in Seq(RangeType) /\ Apart(reserved_ranges)
      BY <1>1 DEF Order, Base, Orderly, Shape
    <3>2. \A i \in DOMAIN reserved_ranges :
             /\ reserved_ranges[i].start \in Address /\ reserved_ranges[i].end \in Address
             /\ reserved_ranges[i].start <= reserved_ranges[i].end
      <4>1. \A i \in DOMAIN reserved_ranges : reserved_ranges[i] \in RangeType
        BY <3>1
      <4>2. \A r \in RangeType : r.start \in Address /\ r.end \in Address
        BY DEF RangeType
      <4>3. \A i \in DOMAIN reserved_ranges : reserved_ranges[i].start <= reserved_ranges[i].end
        BY <1>1 DEF Order, Base, Shape
      <4> QED BY <4>1, <4>2, <4>3
    <3>3. HasName(reserved_ranges, n)
      BY <2>2 DEF ReleaseRange
    <3>4. reserved_ranges' = Removed(reserved_ranges, Named(reserved_ranges, n))
      BY <2>2 DEF ReleaseRange
    <3> QED BY <3>1, <3>2, <3>3, <3>4, RemovedNamed DEF Apart
  <2> QED BY <2>1, <2>2 DEF OnlyTheNamed
<1>2. Spec => []Order
  BY OrderAlways
<1> QED BY <1>1, <1>2, PTL DEF RemovesTheNamed
-----------------------------------------------------------------------------
\* The thread works on the addresses of the blueprint; the thread cleans it up.
WorksOn(t, b) == t.op \in {"assign", "cleanup"} /\ t.blueprint = b
CleansUp(t, b) == t.op = "cleanup" /\ t.blueprint = b
Cleaned(tasks, b) == \E w \in Worker : CleansUp(tasks[w], b)

\* The addresses a blueprint answers for: those it has, and during its deletion those
\* that are still to be given back.
Owns(tasks, ips, b, ip) ==
    \/ \E w \in Worker : CleansUp(tasks[w], b) /\ Contains(tasks[w].todo, ip)
    \/ ~Cleaned(tasks, b) /\ Contains(ips[b], ip)

\* One thread at a time works on a blueprint, and a deletion gives back what the
\* blueprint has.
Staff(tasks, ips) ==
    /\ \A v, w \in Worker : \A b \in Blueprint : WorksOn(tasks[v], b) /\ WorksOn(tasks[w], b) => v = w
    /\ \A w \in Worker : \A b \in Blueprint : CleansUp(tasks[w], b) =>
          \A ip : Contains(tasks[w].todo, ip) => Contains(ips[b], ip)

\* Threads stop what they do, and nobody else's blueprint changes under a deletion.
LEMMA StaffKept ==
    ASSUME NEW T, NEW I, Staff(T, I), NEW T2, NEW I2,
           \A v \in Worker : T2[v] = T[v] \/ T2[v].op \notin {"assign", "cleanup"},
           \A v \in Worker : \A b \in Blueprint : CleansUp(T2[v], b) => I2[b] = I[b]
    PROVE  Staff(T2, I2)
<1>1. \A v \in Worker : \A b \in Blueprint : WorksOn(T2[v], b) => WorksOn(T[v], b) /\ T2[v] = T[v]
  BY DEF WorksOn
<1>2. \A v \in Worker : \A b \in Blueprint : CleansUp(T2[v], b) => WorksOn(T2[v], b)
  BY DEF CleansUp, WorksOn
<1>3. ASSUME NEW w \in Worker, NEW b \in Blueprint, CleansUp(T2[w], b), NEW ip, Contains(T2[w].todo, ip)
      PROVE  Contains(I2[b], ip)
  <2>1. T2[w] = T[w] /\ I2[b] = I[b]
    BY <1>1, <1>2, <1>3
  <2> QED BY <1>3, <2>1 DEF Staff
<1>4. \A v, w \in Worker : \A b \in Blueprint : WorksOn(T2[v], b) /\ WorksOn(T2[w], b) => v = w
  BY <1>1 DEF Staff
<1> QED BY <1>3, <1>4 DEF Staff

\* A thread begins to work on a blueprint nobody works on.
LEMMA StaffStarts ==
    ASSUME NEW T \in [Worker -> TaskType], NEW I, Staff(T, I), NEW w \in Worker, NEW b \in Blueprint, NEW t,
           WorksOn(t, b), \A v \in Worker : ~WorksOn(T[v], b),
           t.op = "cleanup" => t.todo = I[b]
    PROVE  Staff([T EXCEPT ![w] = t], I)
<1>1. PICK T2 : T2 = [T EXCEPT ![w] = t]
  OBVIOUS
<1>2. \A v \in Worker : T2[v] = IF v = w THEN t ELSE T[v]
  BY <1>1
<1>3. \A c : WorksOn(t, c) => c = b
  BY DEF WorksOn
<1>4. \A u, v \in Worker : \A c \in Blueprint : WorksOn(T2[u], c) /\ WorksOn(T2[v], c) => u = v
  <2> SUFFICES ASSUME NEW u \in Worker, NEW v \in Worker, NEW c \in Blueprint,
                      WorksOn(T2[u], c), WorksOn(T2[v], c), u # v
               PROVE  FALSE
    OBVIOUS
  <2>1. CASE u = w
    BY <1>2, <1>3, <2>1
  <2>2. CASE v = w
    BY <1>2, <1>3, <2>2
  <2>3. CASE u # w /\ v # w
    BY <1>2, <2>3 DEF Staff
  <2> QED BY <2>1, <2>2, <2>3
<1>5. ASSUME NEW v \in Worker, NEW c \in Blueprint, CleansUp(T2[v], c), NEW ip, Contains(T2[v].todo, ip)
      PROVE  Contains(I[c], ip)
  <2>1. CASE v = w
    <3>1. c = b /\ t.todo = I[b]
      BY <1>2, <1>5, <2>1 DEF CleansUp, WorksOn
    <3> QED BY <1>2, <1>5, <2>1, <3>1
  <2>2. CASE v # w
    BY <1>2, <1>5, <2>2 DEF Staff
  <2> QED BY <2>1, <2>2
<1> QED BY <1>1, <1>4, <1>5 DEF Staff

\* A deletion gives one address back.
TailOf(T2, T, w) == T2 = [T EXCEPT ![w].todo = Tail(@)]

\* Giving one address back leaves the deletion with the others.
LEMMA StaffGoesOn ==
    ASSUME NEW T \in [Worker -> TaskType], NEW I, Staff(T, I), NEW w \in Worker,
           T[w].op = "cleanup", T[w].todo # <<>>, NEW T2, TailOf(T2, T, w)
    PROVE  /\ Staff(T2, I)
           /\ \A v \in Worker : v # w => T2[v] = T[v]
           /\ T2[w].op = "cleanup" /\ T2[w].blueprint = T[w].blueprint
           /\ T2[w].todo = Tail(T[w].todo)
<1>1. T[w].todo \in Seq(Address)
  BY TaskFacts
<1>2. /\ \A v \in Worker : v # w => T2[v] = T[v]
      /\ T2[w] = [T[w] EXCEPT !.todo = Tail(@)]
  BY DEF TailOf
<1>3. T[w] \in [op : {"cleanup"}, blueprint : Blueprint, todo : Seq(Address)]
  BY DEF TaskType, Idle
<1>4. /\ T2[w].op = "cleanup" /\ T2[w].blueprint = T[w].blueprint
      /\ T2[w].todo = Tail(T[w].todo)
  BY <1>2, <1>3
<1>5. \A v \in Worker : \A b \in Blueprint :
         /\ WorksOn(T2[v], b) <=> WorksOn(T[v], b)
         /\ CleansUp(T2[v], b) <=> CleansUp(T[v], b)
  BY <1>2, <1>3, <1>4 DEF WorksOn, CleansUp
<1>6. \A ip : Contains(T2[w].todo, ip) => Contains(T[w].todo, ip)
  <2>1. PICK s : s = T[w].todo
    OBVIOUS
  <2>2. s \in Seq(Address) /\ s # <<>>
    BY <1>1, <2>1
  <2>3. Len(Tail(s)) = Len(s) - 1 /\ \A i \in 1..Len(Tail(s)) : Tail(s)[i] = s[i + 1] /\ i + 1 \in 1..Len(s)
    BY <2>2, HeadTailProperties
  <2> QED BY <1>4, <2>1, <2>3 DEF Contains
<1>7. ASSUME NEW v \in Worker, NEW b \in Blueprint, CleansUp(T2[v], b), NEW ip, Contains(T2[v].todo, ip)
      PROVE  Contains(I[b], ip)
  BY <1>2, <1>5, <1>6, <1>7 DEF Staff
<1>8. \A u, v \in Worker : \A b \in Blueprint : WorksOn(T2[u], b) /\ WorksOn(T2[v], b) => u = v
  BY <1>5 DEF Staff
<1> QED BY <1>2, <1>4, <1>7, <1>8 DEF Staff
-----------------------------------------------------------------------------
\* At first all threads are idle.
LEMMA StaffInit == Init => Staff(task, reserved_ips)
<1> QED BY DEF Init, Staff, WorksOn, CleansUp, Idle

\* Every step keeps Staff, whatever the constants and the hazards.
LEMMA StaffInductive ==
    ASSUME Base, Staff(task, reserved_ips), [Next]_vars
    PROVE  Staff(task', reserved_ips')
<1>1. task \in [Worker -> TaskType] /\ reserved_ips \in [Blueprint -> Seq(Address)]
      /\ \A w \in Worker : task[w] \in TaskType
  BY DEF Base
<1>2. PICK T, I, T2, I2 : T = task /\ I = reserved_ips /\ T2 = task' /\ I2 = reserved_ips'
  OBVIOUS
<1>3. ASSUME \A v \in Worker : T2[v] = T[v] \/ T2[v].op \notin {"assign", "cleanup"},
             \A v \in Worker : \A b \in Blueprint : CleansUp(T2[v], b) => I2[b] = I[b]
      PROVE  Staff(task', reserved_ips')
  BY <1>2, <1>3, StaffKept
<1>4. ASSUME UNCHANGED <<task, reserved_ips>> PROVE Staff(task', reserved_ips')
  BY <1>2, <1>3, <1>4
<1>5. ASSUME NEW w \in Worker, NEW t, t.op \notin {"assign", "cleanup"},
             task' = [task EXCEPT ![w] = t], UNCHANGED reserved_ips
      PROVE  Staff(task', reserved_ips')
  <2>1. \A v \in Worker : T2[v] = T[v] \/ T2[v].op \notin {"assign", "cleanup"}
    BY <1>1, <1>2, <1>5
  <2> QED BY <1>2, <1>3, <1>5, <2>1
<1>6. ASSUME NEW w \in Worker, NEW b \in Blueprint, WorksOn(task[w], b),
             task' = [task EXCEPT ![w] = Idle], \A c \in Blueprint : c # b => I2[c] = I[c]
      PROVE  Staff(task', reserved_ips')
  <2>1. \A v \in Worker : T2[v] = T[v] \/ T2[v].op \notin {"assign", "cleanup"}
    BY <1>1, <1>2, <1>6 DEF Idle
  <2>2. ASSUME NEW v \in Worker, NEW c \in Blueprint, CleansUp(T2[v], c) PROVE I2[c] = I[c]
    <3>1. v # w
      BY <1>1, <1>2, <1>6, <2>2 DEF CleansUp, Idle
    <3>2. WorksOn(task[v], c)
      BY <1>1, <1>2, <1>6, <2>2, <3>1 DEF CleansUp, WorksOn
    <3>3. c # b
      BY <1>6, <3>1, <3>2 DEF Staff
    <3> QED BY <1>6, <3>3
  <2> QED BY <1>3, <2>1, <2>2
<1>7. ASSUME NEW p \in PoolRequest, AddPool(p) \/ RemovePool(p.name) PROVE Staff(task', reserved_ips')
  BY <1>4, <1>7 DEF AddPool, RemovePool
<1>8. ASSUME NEW w \in Worker, NEW c \in Cluster, NEW n \in 1..MaxLength, ReserveFind(w, c, n)
      PROVE  Staff(task', reserved_ips')
  <2>1. PICK t : t = [op |-> "reserve", cluster |-> c, ips |-> SubSeq(AvailableIps, 1, n)]
    OBVIOUS
  <2>2. t.op = "reserve"
    BY <2>1
  <2> QED BY <1>5, <1>8, <2>1, <2>2 DEF ReserveFind
<1>9. ASSUME NEW w \in Worker, ReserveCommit(w) \/ CleanupFail(w) PROVE Staff(task', reserved_ips')
  BY <1>5, <1>9 DEF ReserveCommit, CleanupFail, Idle
<1>10. ASSUME NEW n \in RangeName, NEW c \in Cluster, ReleaseRange(n, c) PROVE Staff(task', reserved_ips')
  BY <1>4, <1>10 DEF ReleaseRange
<1>11. ASSUME NEW w \in Worker, NEW b \in Blueprint, AssignPick(w, b) PROVE Staff(task', reserved_ips')
  <2>1. PICK i \in DOMAIN reserved_ranges, ip \in Address :
           task' = [task EXCEPT ![w] = [op |-> "assign", blueprint |-> b,
                                        range |-> reserved_ranges[i].name, ip |-> ip]]
    BY <1>11, PickFacts
  <2>2. PICK t : t = [op |-> "assign", blueprint |-> b, range |-> reserved_ranges[i].name, ip |-> ip]
    OBVIOUS
  <2>3. task' = [task EXCEPT ![w] = t] /\ WorksOn(t, b) /\ t.op # "cleanup"
    BY <2>1, <2>2 DEF WorksOn
  <2>4. \A v \in Worker : ~WorksOn(task[v], b)
    BY <1>11 DEF AssignPick, Busy, WorksOn
  <2>5. UNCHANGED reserved_ips
    BY <1>11 DEF AssignPick
  <2> QED BY <1>1, <2>3, <2>4, <2>5, StaffStarts
<1>12. ASSUME NEW w \in Worker, NEW b \in Blueprint, CleanupStart(w, b) PROVE Staff(task', reserved_ips')
  <2>1. PICK t : t = [op |-> "cleanup", blueprint |-> b, todo |-> reserved_ips[b]]
    OBVIOUS
  <2>2. task' = [task EXCEPT ![w] = t] /\ WorksOn(t, b) /\ t.todo = reserved_ips[b]
    BY <1>12, <2>1 DEF WorksOn, CleanupStart
  <2>3. \A v \in Worker : ~WorksOn(task[v], b)
    BY <1>12 DEF CleanupStart, Busy, WorksOn
  <2>4. UNCHANGED reserved_ips
    BY <1>12 DEF CleanupStart
  <2> QED BY <1>1, <2>2, <2>3, <2>4, StaffStarts
<1>13. ASSUME NEW w \in Worker, AssignMark(w) PROVE Staff(task', reserved_ips')
  <2>1. PICK b, ip : b = task[w].blueprint /\ ip = task[w].ip
    OBVIOUS
  <2>2. b \in Blueprint /\ WorksOn(task[w], b)
    BY <1>1, <1>13, <2>1, TaskFacts DEF AssignMark, WorksOn
  <2>3. reserved_ips' = [reserved_ips EXCEPT ![b] = Append(@, ip)] /\ task' = [task EXCEPT ![w] = Idle]
    BY <1>13, <2>1 DEF AssignMark
  <2>4. \A c \in Blueprint : c # b => I2[c] = I[c]
    BY <1>1, <1>2, <2>3
  <2> QED BY <1>6, <2>2, <2>3, <2>4
<1>14. ASSUME NEW w \in Worker, CleanupEnd(w) PROVE Staff(task', reserved_ips')
  <2>1. PICK b : b = task[w].blueprint
    OBVIOUS
  <2>2. b \in Blueprint /\ WorksOn(task[w], b)
    BY <1>1, <1>14, <2>1, TaskFacts DEF CleanupEnd, WorksOn
  <2>3. reserved_ips' = [reserved_ips EXCEPT ![b] = <<>>] /\ task' = [task EXCEPT ![w] = Idle]
    BY <1>14, <2>1 DEF CleanupEnd
  <2>4. \A c \in Blueprint : c # b => I2[c] = I[c]
    BY <1>1, <1>2, <2>3
  <2> QED BY <1>6, <2>2, <2>3, <2>4
<1>15. ASSUME NEW b \in Blueprint, SaveProvider(b) PROVE Staff(task', reserved_ips')
  BY <1>4, <1>15 DEF SaveProvider
<1>16. ASSUME NEW b \in Blueprint, NEW ip \in Address, ReleaseIp(b, ip) PROVE Staff(task', reserved_ips')
  <2>1. \A v \in Worker : ~CleansUp(task[v], b)
    BY <1>16 DEF ReleaseIp, Busy, CleansUp
  <2>2. T2 = T /\ \A c \in Blueprint : c # b => I2[c] = I[c]
    BY <1>1, <1>2, <1>16 DEF ReleaseIp
  <2> QED BY <1>2, <1>3, <2>1, <2>2
<1>17. ASSUME NEW w \in Worker, CleanupStep(w) PROVE Staff(task', reserved_ips')
  <2>1. T[w].op = "cleanup" /\ T[w].todo # <<>> /\ TailOf(T2, T, w) /\ I2 = I
    BY <1>2, <1>17 DEF CleanupStep, TailOf
  <2> QED BY <1>1, <1>2, <2>1, StaffGoesOn
<1>18. CASE Stop
  <2>1. \A v \in Worker : T2[v].op = "none"
    BY <1>2, <1>18 DEF Stop, Idle
  <2> QED BY <1>3, <2>1 DEF CleansUp
<1>19. CASE UNCHANGED vars
  BY <1>4, <1>19 DEF vars
<1> QED
  BY <1>7, <1>8, <1>9, <1>10, <1>11, <1>12, <1>13, <1>14, <1>15, <1>16, <1>17, <1>18, <1>19
  DEF Next
-----------------------------------------------------------------------------
(***************************************************************************)
(* Every used address has somebody who answers for it: a blueprint on the  *)
(* cluster that owns the range.                                            *)
(***************************************************************************)
UsedBy(ranges, tasks, ips) ==
    \A i \in DOMAIN ranges : \A ip \in ranges[i].used :
        \E b \in Blueprint : ClusterOf[b] = ranges[i].owner /\ Owns(tasks, ips, b, ip)

\* The deletions that go on are the same.
SameCleanups(T2, T) ==
    \A v \in Worker : T2[v].op = "cleanup" \/ T[v].op = "cleanup" => T2[v] = T[v]

\* With the same deletions a blueprint answers for what it did, if it still has it.
LEMMA OwnsKept ==
    ASSUME NEW T, NEW T2, SameCleanups(T2, T), NEW I, NEW I2, NEW b, NEW ip,
           ~Cleaned(T, b) /\ Contains(I[b], ip) => Contains(I2[b], ip),
           Owns(T, I, b, ip)
    PROVE  Owns(T2, I2, b, ip)
<1>1. \A v \in Worker : CleansUp(T2[v], b) <=> CleansUp(T[v], b)
  BY DEF SameCleanups, CleansUp
<1>2. Cleaned(T2, b) <=> Cleaned(T, b)
  BY <1>1 DEF Cleaned
<1>3. \A v \in Worker : CleansUp(T[v], b) => T2[v] = T[v]
  BY DEF SameCleanups, CleansUp
<1> QED BY <1>1, <1>2, <1>3 DEF Owns

\* No address becomes used, and blueprints answer for what they did.
LEMMA UsedByKept ==
    ASSUME NEW R, NEW T, NEW I, UsedBy(R, T, I), NEW R2, NEW T2, NEW I2,
           \A i \in DOMAIN R2 : \A ip \in R2[i].used :
              \E j \in DOMAIN R : R[j].owner = R2[i].owner /\ ip \in R[j].used,
           \A b \in Blueprint : \A ip : Owns(T, I, b, ip) => Owns(T2, I2, b, ip)
    PROVE  UsedBy(R2, T2, I2)
<1> SUFFICES ASSUME NEW i \in DOMAIN R2, NEW ip \in R2[i].used
             PROVE  \E b \in Blueprint : ClusterOf[b] = R2[i].owner /\ Owns(T2, I2, b, ip)
  BY DEF UsedBy
<1>1. PICK j \in DOMAIN R : R[j].owner = R2[i].owner /\ ip \in R[j].used
  OBVIOUS
<1>2. PICK b \in Blueprint : ClusterOf[b] = R[j].owner /\ Owns(T, I, b, ip)
  BY <1>1 DEF UsedBy
<1> QED BY <1>1, <1>2

\* An address is given back: blueprint b, and nobody else, stops to answer for it.
LEMMA UsedByFreed ==
    ASSUME NEW R, NEW N, Shape(R, N), Apart(R), NEW T, NEW I, UsedBy(R, T, I),
           NEW b \in Blueprint, NEW ip \in Address, NEW R2, Freed(R2, R, ClusterOf[b], ip),
           NEW T2, NEW I2,
           \A a \in Blueprint : \A x : Owns(T, I, a, x) /\ ~(a = b /\ x = ip) => Owns(T2, I2, a, x)
    PROVE  UsedBy(R2, T2, I2)
<1> SUFFICES ASSUME NEW j \in DOMAIN R2, NEW x \in R2[j].used
             PROVE  \E a \in Blueprint : ClusterOf[a] = R2[j].owner /\ Owns(T2, I2, a, x)
  BY DEF UsedBy
<1> PICK i \in DOMAIN R :
       /\ InRange(ip, R[i])
       /\ \A k \in DOMAIN R : R2[k].used = IF k = i /\ R[i].owner = ClusterOf[b]
                                         THEN R[k].used \ {ip} ELSE R[k].used
  BY DEF Freed
<1>1. j \in DOMAIN R /\ x \in R[j].used /\ R2[j].owner = R[j].owner
  BY DEF Kept, Freed
<1>2. PICK a \in Blueprint : ClusterOf[a] = R[j].owner /\ Owns(T, I, a, x)
  BY <1>1 DEF UsedBy
<1>3. ~(a = b /\ x = ip)
  <2> SUFFICES ASSUME a = b, x = ip PROVE FALSE
    OBVIOUS
  <2>1. R[j] \in RangeType
    BY <1>1 DEF Shape
  <2>2. R[j].used \subseteq R[j].start..R[j].end /\ R[j].start \in Nat /\ R[j].end \in Nat
    BY <1>1, <2>1, AddressFacts DEF Shape, RangeType
  <2>3. InRange(ip, R[j])
    BY <1>1, <2>2 DEF InRange
  <2>4. j = i
    BY <1>1, <2>3 DEF Apart
  <2> QED BY <1>1, <1>2, <2>4
<1>4. Owns(T2, I2, a, x)
  BY <1>2, <1>3
<1> QED BY <1>1, <1>2, <1>4

\* The addresses of a list after one is removed, or added.
LEMMA AppendContains ==
    ASSUME NEW s \in Seq(Address), NEW ip \in Address, NEW x
    PROVE  Contains(Append(s, ip), x) <=> Contains(s, x) \/ x = ip
<1>1. /\ Len(Append(s, ip)) = Len(s) + 1 /\ Len(s) \in Nat
      /\ \A k \in 1..Len(s) : Append(s, ip)[k] = s[k]
      /\ Append(s, ip)[Len(s) + 1] = ip
  OBVIOUS
<1>2. ASSUME Contains(Append(s, ip), x) PROVE Contains(s, x) \/ x = ip
  <2>1. PICK k \in 1..(Len(s) + 1) : Append(s, ip)[k] = x
    BY <1>1, <1>2 DEF Contains
  <2>2. CASE k = Len(s) + 1
    BY <1>1, <2>1, <2>2
  <2>3. CASE k # Len(s) + 1
    <3>1. k \in 1..Len(s)
      BY <1>1, <2>3
    <3> QED BY <1>1, <2>1, <3>1 DEF Contains
  <2> QED BY <2>2, <2>3
<1>3. ASSUME Contains(s, x) PROVE Contains(Append(s, ip), x)
  <2>1. PICK k \in 1..Len(s) : s[k] = x
    BY <1>3 DEF Contains
  <2>2. k \in 1..(Len(s) + 1)
    BY <1>1
  <2> QED BY <1>1, <2>1, <2>2 DEF Contains
<1>4. ASSUME x = ip PROVE Contains(Append(s, ip), x)
  <2>1. Len(s) + 1 \in 1..(Len(s) + 1)
    BY <1>1
  <2> QED BY <1>1, <1>4, <2>1 DEF Contains
<1> QED BY <1>2, <1>3, <1>4

\* The addresses a deletion has left after the first one.
LEMMA TailContains ==
    ASSUME NEW s \in Seq(Address), s # <<>>, NEW x
    PROVE  /\ Head(s) \in Address /\ Contains(s, Head(s))
           /\ Contains(Tail(s), x) => Contains(s, x)
           /\ Contains(s, x) /\ x # Head(s) => Contains(Tail(s), x)
           /\ IsInjective(s) => IsInjective(Tail(s)) /\ ~Contains(Tail(s), Head(s))
<1>1. /\ Head(s) = s[1] /\ Head(s) \in Address /\ Tail(s) \in Seq(Address)
      /\ Len(s) \in Nat /\ Len(s) # 0 /\ DOMAIN s = 1..Len(s)
      /\ Len(Tail(s)) = Len(s) - 1 /\ \A i \in 1..(Len(s) - 1) : Tail(s)[i] = s[i + 1]
  BY HeadTailProperties, EmptySeq
<1>2. 1 \in 1..Len(s) /\ \A i \in 1..(Len(s) - 1) : i + 1 \in 1..Len(s) /\ i + 1 # 1
  BY <1>1
<1>3. \A k \in 1..Len(s) : k # 1 => k - 1 \in 1..(Len(s) - 1) /\ (k - 1) + 1 = k
  BY <1>1
<1>4. Contains(s, Head(s))
  BY <1>1, <1>2 DEF Contains
<1>5. Contains(Tail(s), x) => Contains(s, x)
  BY <1>1, <1>2 DEF Contains
<1>6. ASSUME Contains(s, x), x # Head(s) PROVE Contains(Tail(s), x)
  <2>1. PICK k \in 1..Len(s) : s[k] = x
    BY <1>6 DEF Contains
  <2>2. k - 1 \in 1..(Len(s) - 1) /\ Tail(s)[k - 1] = x
    BY <1>1, <1>3, <1>6, <2>1
  <2> QED BY <1>1, <2>2 DEF Contains
<1>7. ASSUME IsInjective(s) PROVE IsInjective(Tail(s)) /\ ~Contains(Tail(s), Head(s))
  <2>1. DOMAIN Tail(s) = 1..(Len(s) - 1)
    BY <1>1
  <2>2. ASSUME NEW i \in DOMAIN Tail(s), NEW j \in DOMAIN Tail(s), Tail(s)[i] = Tail(s)[j] PROVE i = j
    <3>1. i + 1 = j + 1
      BY <1>1, <1>2, <1>7, <2>1, <2>2 DEF IsInjective
    <3> QED BY <1>1, <2>1, <3>1
  <2>3. ~Contains(Tail(s), Head(s))
    BY <1>1, <1>2, <1>7 DEF Contains, IsInjective
  <2> QED BY <2>2, <2>3 DEF IsInjective
<1> QED BY <1>1, <1>4, <1>5, <1>6, <1>7

\* A thread that neither cleaned the blueprint up nor does so now changes nothing for it.
LEMMA OwnsOther ==
    ASSUME NEW T, NEW I, NEW T2, NEW I2, NEW w \in Worker, NEW a, NEW x,
           \A v \in Worker : v # w => T2[v] = T[v],
           ~CleansUp(T[w], a), ~CleansUp(T2[w], a), I2[a] = I[a]
    PROVE  Owns(T2, I2, a, x) <=> Owns(T, I, a, x)
<1>1. \A v \in Worker : CleansUp(T2[v], a) <=> CleansUp(T[v], a)
  OBVIOUS
<1>2. \A v \in Worker : CleansUp(T[v], a) => T2[v] = T[v]
  OBVIOUS
<1>3. Cleaned(T2, a) <=> Cleaned(T, a)
  BY <1>1 DEF Cleaned
<1> QED BY <1>1, <1>2, <1>3 DEF Owns

\* During its deletion a blueprint answers for what the deletion has still to give back.
LEMMA OwnsCleaned ==
    ASSUME NEW T, NEW I, Staff(T, I), NEW w \in Worker, NEW b \in Blueprint, CleansUp(T[w], b), NEW x
    PROVE  Owns(T, I, b, x) <=> Contains(T[w].todo, x)
<1>1. Cleaned(T, b)
  BY DEF Cleaned
<1>2. \A v \in Worker : CleansUp(T[v], b) => v = w
  BY DEF CleansUp, Staff, WorksOn
<1> QED BY <1>1, <1>2 DEF Owns

\* Who answers for what in the steps of a deletion.
LEMMA StartOwns ==
    ASSUME Base, Staff(task, reserved_ips), NEW w \in Worker, NEW b \in Blueprint,
           CleanupStart(w, b), NEW a, NEW x
    PROVE  Owns(task', reserved_ips', a, x) <=> Owns(task, reserved_ips, a, x)
<1>1. PICK T, I, T2, I2 : T = task /\ I = reserved_ips /\ T2 = task' /\ I2 = reserved_ips'
  OBVIOUS
<1>2. PICK t : t = [op |-> "cleanup", blueprint |-> b, todo |-> I[b]]
  OBVIOUS
<1>3. T \in [Worker -> TaskType] /\ T[w] = Idle /\ I2 = I
      /\ \A v \in Worker : ~WorksOn(T[v], b)
  BY <1>1 DEF Base, CleanupStart, Busy, WorksOn
<1>4. T2 = [T EXCEPT ![w] = t]
  BY <1>1, <1>2 DEF CleanupStart
<1>5. /\ T2[w] = t /\ \A v \in Worker : v # w => T2[v] = T[v]
      /\ \A c : CleansUp(t, c) <=> c = b
      /\ \A c : ~CleansUp(T[w], c)
  BY <1>2, <1>3, <1>4 DEF CleansUp, Idle
<1>6. CASE a # b
  <2>1. ~CleansUp(T[w], a) /\ ~CleansUp(T2[w], a) /\ I2[a] = I[a]
    BY <1>3, <1>5, <1>6
  <2>2. Owns(T2, I2, a, x) <=> Owns(T, I, a, x)
    BY <1>5, <2>1, OwnsOther
  <2> QED BY <1>1, <2>2
<1>7. CASE a = b
  <2>1. \A v \in Worker : ~CleansUp(T[v], b)
    BY <1>3 DEF CleansUp, WorksOn
  <2>2. Owns(T, I, b, x) <=> Contains(I[b], x)
    BY <2>1 DEF Owns, Cleaned
  <2>3. \A v \in Worker : CleansUp(T2[v], b) <=> v = w
    BY <1>5, <2>1
  <2>4. t.todo = I[b]
    BY <1>2
  <2>5. Owns(T2, I2, b, x) <=> Contains(I[b], x)
    BY <1>5, <2>3, <2>4 DEF Owns, Cleaned
  <2> QED BY <1>1, <1>7, <2>2, <2>5
<1> QED BY <1>6, <1>7

\* One address is given back: only the blueprint in deletion answers for less.
LEMMA StepOwns ==
    ASSUME Base, Staff(task, reserved_ips), NEW w \in Worker, CleanupStep(w), NEW x
    PROVE  /\ \A a : a # task[w].blueprint =>
                 (Owns(task', reserved_ips', a, x) <=> Owns(task, reserved_ips, a, x))
           /\ Owns(task, reserved_ips, task[w].blueprint, x) <=> Contains(task[w].todo, x)
           /\ Owns(task', reserved_ips', task[w].blueprint, x) <=> Contains(Tail(task[w].todo), x)
<1>1. PICK T, I, T2, I2 : T = task /\ I = reserved_ips /\ T2 = task' /\ I2 = reserved_ips'
  OBVIOUS
<1>2. T \in [Worker -> TaskType] /\ T[w].op = "cleanup" /\ T[w].todo # <<>> /\ TailOf(T2, T, w)
      /\ I2 = I /\ Staff(T, I)
  BY <1>1 DEF Base, CleanupStep, TailOf
<1>3. /\ Staff(T2, I)
      /\ \A v \in Worker : v # w => T2[v] = T[v]
      /\ T2[w].op = "cleanup" /\ T2[w].blueprint = T[w].blueprint
      /\ T2[w].todo = Tail(T[w].todo)
  BY <1>2, StaffGoesOn
<1>4. /\ T[w].blueprint \in Blueprint
      /\ CleansUp(T[w], T[w].blueprint) /\ CleansUp(T2[w], T[w].blueprint)
  BY <1>2, <1>3, TaskFacts DEF CleansUp
<1>5. \A a : a # T[w].blueprint => ~CleansUp(T[w], a) /\ ~CleansUp(T2[w], a)
  BY <1>3 DEF CleansUp
<1>6. \A a : a # T[w].blueprint => (Owns(T2, I2, a, x) <=> Owns(T, I, a, x))
  BY <1>2, <1>3, <1>5, OwnsOther
<1>7. Owns(T, I, T[w].blueprint, x) <=> Contains(T[w].todo, x)
  BY <1>2, <1>4, OwnsCleaned
<1>8. Owns(T2, I2, T[w].blueprint, x) <=> Contains(Tail(T[w].todo), x)
  BY <1>2, <1>3, <1>4, OwnsCleaned
<1> QED BY <1>1, <1>6, <1>7, <1>8

\* The deletion fails or ends: the blueprint answers for what it has again.
LEMMA EndOwns ==
    ASSUME Base, Staff(task, reserved_ips), NEW w \in Worker, CleanupFail(w) \/ CleanupEnd(w), NEW x
    PROVE  /\ \A a \in Blueprint : a # task[w].blueprint =>
                 (Owns(task', reserved_ips', a, x) <=> Owns(task, reserved_ips, a, x))
           /\ Owns(task, reserved_ips, task[w].blueprint, x) <=> Contains(task[w].todo, x)
           /\ Owns(task', reserved_ips', task[w].blueprint, x)
                 <=> Contains(reserved_ips'[task[w].blueprint], x)
<1>1. PICK T, I, T2, I2 : T = task /\ I = reserved_ips /\ T2 = task' /\ I2 = reserved_ips'
  OBVIOUS
<1>2. PICK b : b = T[w].blueprint
  OBVIOUS
<1>3. b \in Blueprint /\ T \in [Worker -> TaskType] /\ T[w].op = "cleanup" /\ T2 = [T EXCEPT ![w] = Idle]
      /\ Staff(T, I)
  BY <1>1, <1>2, TaskFacts DEF Base, CleanupFail, CleanupEnd, Raises
<1>4. ASSUME NEW a \in Blueprint, a # b PROVE I2[a] = I[a]
  <2>1. I2 = I \/ I2 = [I EXCEPT ![b] = <<>>]
    BY <1>1, <1>2 DEF CleanupFail, CleanupEnd
  <2>2. I \in [Blueprint -> Seq(Address)]
    BY <1>1 DEF Base
  <2> QED BY <1>4, <2>1, <2>2
<1>5. T2[w] = Idle /\ \A v \in Worker : v # w => T2[v] = T[v]
  BY <1>3
<1>6. CleansUp(T[w], b) /\ \A a : a # b => ~CleansUp(T[w], a) 
  BY <1>2, <1>3 DEF CleansUp
<1>7. \A a : ~CleansUp(T2[w], a)
  BY <1>5 DEF CleansUp, Idle
<1>8. \A a \in Blueprint : a # b => (Owns(T2, I2, a, x) <=> Owns(T, I, a, x))
  BY <1>4, <1>5, <1>6, <1>7, OwnsOther
<1>9. Owns(T, I, b, x) <=> Contains(T[w].todo, x)
  BY <1>3, <1>6, OwnsCleaned
<1>10. \A v \in Worker : ~CleansUp(T2[v], b)
  BY <1>3, <1>5, <1>6, <1>7 DEF CleansUp, Staff, WorksOn
<1>11. Owns(T2, I2, b, x) <=> Contains(I2[b], x)
  BY <1>10 DEF Owns, Cleaned
<1> QED BY <1>1, <1>2, <1>8, <1>9, <1>11
-----------------------------------------------------------------------------
\* Without a stop or a forced deletion nothing is forgotten before it is given back.
NoneForgotten == OneReservation /\ "stop" \notin Hazard /\ "force" \notin Hazard

\* A thread takes up, or lays down, something other than a deletion.
LEMMA OtherTask ==
    ASSUME NEW T \in [Worker -> TaskType], NEW w \in Worker, NEW t,
           T[w].op # "cleanup", t.op # "cleanup"
    PROVE  SameCleanups([T EXCEPT ![w] = t], T)
<1>1. PICK T2 : T2 = [T EXCEPT ![w] = t]
  OBVIOUS
<1>2. \A v \in Worker : T2[v] = IF v = w THEN t ELSE T[v]
  BY <1>1
<1>3. SameCleanups(T2, T)
  BY <1>2 DEF SameCleanups
<1> QED BY <1>1, <1>3

\* Every step keeps UsedBy, when nothing is forgotten.
LEMMA UsedInductive ==
    ASSUME NoneForgotten, Order, Staff(task, reserved_ips),
           UsedBy(reserved_ranges, task, reserved_ips), [Next]_vars
    PROVE  UsedBy(reserved_ranges', task', reserved_ips')
<1>1. PICK R, T, I, R2, T2, I2 : /\ R = reserved_ranges /\ T = task /\ I = reserved_ips
                                 /\ R2 = reserved_ranges' /\ T2 = task' /\ I2 = reserved_ips'
  OBVIOUS
<1>2. /\ Base /\ T \in [Worker -> TaskType] /\ I \in [Blueprint -> Seq(Address)]
      /\ Shape(R, ip_pools) /\ Apart(R) /\ R \in Seq(RangeType)
      /\ Staff(T, I) /\ UsedBy(R, T, I) /\ Pending(R, T)
  BY <1>1 DEF Order, Base, Orderly, Shape
<1>3. ASSUME SameCleanups(T2, T), I2 = I,
             \A i \in DOMAIN R2 : \A ip \in R2[i].used :
                \E j \in DOMAIN R : R[j].owner = R2[i].owner /\ ip \in R[j].used
      PROVE  UsedBy(R2, T2, I2)
  <2>1. \A b \in Blueprint : \A ip : Owns(T, I, b, ip) => Owns(T2, I2, b, ip)
    BY <1>3, OwnsKept
  <2> QED BY <1>2, <1>3, <2>1, UsedByKept
<1>4. ASSUME R2 = R, SameCleanups(T2, T), I2 = I PROVE UsedBy(R2, T2, I2)
  BY <1>3, <1>4
<1>5. ASSUME UNCHANGED <<reserved_ranges, task, reserved_ips>> PROVE UsedBy(R2, T2, I2)
  BY <1>1, <1>2, <1>5
<1>6. ASSUME NEW p \in PoolRequest, AddPool(p) \/ RemovePool(p.name) PROVE UsedBy(R2, T2, I2)
  BY <1>5, <1>6 DEF AddPool, RemovePool
<1>7. ASSUME NEW w \in Worker, NEW c \in Cluster, NEW n \in 1..MaxLength, ReserveFind(w, c, n)
      PROVE  UsedBy(R2, T2, I2)
  <2>1. PICK t : t = [op |-> "reserve", cluster |-> c, ips |-> SubSeq(AvailableIps, 1, n)]
    OBVIOUS
  <2>2. t.op # "cleanup" /\ T[w].op # "cleanup" /\ T2 = [T EXCEPT ![w] = t]
    BY <1>1, <1>7, <2>1 DEF ReserveFind, Idle
  <2>3. SameCleanups(T2, T)
    BY <1>2, <2>2, OtherTask
  <2> QED BY <1>1, <1>4, <1>7, <2>3 DEF ReserveFind
<1>8. ASSUME NEW w \in Worker, NEW b \in Blueprint, AssignPick(w, b) PROVE UsedBy(R2, T2, I2)
  <2>1. PICK i \in DOMAIN R, ip \in Address :
           T2 = [T EXCEPT ![w] = [op |-> "assign", blueprint |-> b, range |-> R[i].name, ip |-> ip]]
    BY <1>1, <1>2, <1>8, PickFacts
  <2>2. PICK t : t = [op |-> "assign", blueprint |-> b, range |-> R[i].name, ip |-> ip]
    OBVIOUS
  <2>3. T[w].op # "cleanup"
    BY <1>1, <1>8 DEF AssignPick, Idle
  <2>4. t.op # "cleanup" /\ T2 = [T EXCEPT ![w] = t]
    BY <2>1, <2>2
  <2>5. SameCleanups(T2, T)
    BY <1>2, <2>3, <2>4, OtherTask
  <2> QED BY <1>1, <1>4, <1>8, <2>5 DEF AssignPick
<1>9. ASSUME NEW w \in Worker, ReserveCommit(w) PROVE UsedBy(R2, T2, I2)
  <2>1. PICK c \in Cluster : \E new :
             /\ Fresh(new, c, reserved_ranges, ip_pools, task)
             /\ Covers(task[w].ips, new)
             /\ Appended(new, c, reserved_ranges, ip_pools, reserved_ranges', ip_pools')
    BY <1>2, <1>9, CommitFacts
  <2>2. PICK new : Fresh(new, c, reserved_ranges, ip_pools, task)
                   /\ Appended(new, c, reserved_ranges, ip_pools, reserved_ranges', ip_pools')
    BY <2>1
  <2>3. /\ R2 = R \o new /\ new \in Seq(RangeType)
        /\ \A k \in DOMAIN new : new[k].used = {}
    BY <1>1, <2>2 DEF Fresh, Appended
  <2>4. \A i \in DOMAIN R2 : \A ip \in R2[i].used :
           \E j \in DOMAIN R : R[j].owner = R2[i].owner /\ ip \in R[j].used
    <3> SUFFICES ASSUME NEW i \in DOMAIN R2, NEW ip \in R2[i].used
                 PROVE  \E j \in DOMAIN R : R[j].owner = R2[i].owner /\ ip \in R[j].used
      OBVIOUS
    <3>1. /\ Len(R) \in Nat /\ Len(new) \in Nat /\ i \in 1..(Len(R) + Len(new))
          /\ DOMAIN R = 1..Len(R) /\ DOMAIN new = 1..Len(new)
          /\ R2[i] = IF i <= Len(R) THEN R[i] ELSE new[i - Len(R)]
      BY <1>2, <2>3
    <3>2. CASE i <= Len(R)
      <4>1. i \in DOMAIN R /\ R2[i] = R[i]
        BY <3>1, <3>2
      <4> QED BY <4>1
    <3>3. CASE ~(i <= Len(R))
      <4>1. i - Len(R) \in DOMAIN new /\ R2[i] = new[i - Len(R)]
        BY <3>1, <3>3
      <4> QED BY <2>3, <4>1
    <3> QED BY <3>2, <3>3
  <2>5. SameCleanups(T2, T) /\ I2 = I
    <3>1. T2 = [T EXCEPT ![w] = Idle] /\ Idle.op # "cleanup" /\ T[w].op # "cleanup" /\ I2 = I
      BY <1>1, <1>9 DEF ReserveCommit, Idle
    <3> QED BY <1>2, <3>1, OtherTask
  <2> QED BY <1>3, <2>4, <2>5
<1>10. ASSUME NEW n \in RangeName, NEW c \in Cluster, ReleaseRange(n, c) PROVE UsedBy(R2, T2, I2)
  <2>1. PICK i \in DOMAIN R : R2 = RemoveAt(R, i)
    BY <1>1, <1>2, <1>10, ReleaseFacts
  <2>2. i \in 1..Len(R)
    BY <1>2, <2>1
  <2>3. \A k \in DOMAIN R2 : \E a \in DOMAIN R : R2[k] = R[a]
    BY <1>2, <2>1, <2>2, RemoveAtItems
  <2>4. \A k \in DOMAIN R2 : \A ip \in R2[k].used :
           \E j \in DOMAIN R : R[j].owner = R2[k].owner /\ ip \in R[j].used
    BY <2>3
  <2>5. SameCleanups(T2, T) /\ I2 = I
    BY <1>1, <1>10 DEF ReleaseRange, SameCleanups
  <2> QED BY <1>3, <2>4, <2>5
<1>11. ASSUME NEW w \in Worker, AssignMark(w) PROVE UsedBy(R2, T2, I2)
  <2>1. PICK b, ip : b = T[w].blueprint /\ ip = T[w].ip
    OBVIOUS
  <2>2. T[w].op = "assign" /\ b \in Blueprint /\ ip \in Address
    BY <1>1, <1>2, <1>11, <2>1, TaskFacts DEF AssignMark
  <2>3. /\ Kept(R2, R)
        /\ \A i \in DOMAIN R : R2[i].used = IF R[i].name = T[w].range
                                            THEN R[i].used \cup {ip} ELSE R[i].used
    BY <1>1, <1>2, <1>11, <2>1, MarkFacts
  <2>4. I2 = [I EXCEPT ![b] = Append(@, ip)] /\ T2 = [T EXCEPT ![w] = Idle]
    BY <1>1, <1>11, <2>1 DEF AssignMark
  <2>5. SameCleanups(T2, T)
    BY <1>2, <2>2, <2>4, OtherTask DEF Idle
  <2>6. \A a \in Blueprint : \A x :
           Contains(I2[a], x) <=> Contains(I[a], x) \/ (a = b /\ x = ip)
    <3> SUFFICES ASSUME NEW a \in Blueprint, NEW x
                 PROVE  Contains(I2[a], x) <=> Contains(I[a], x) \/ (a = b /\ x = ip)
      OBVIOUS
    <3>1. CASE a = b
      <4>1. I2[a] = Append(I[a], ip) /\ I[a] \in Seq(Address)
        BY <1>2, <2>2, <2>4, <3>1
      <4> QED BY <2>2, <3>1, <4>1, AppendContains
    <3>2. CASE a # b
      BY <1>2, <2>4, <3>2
    <3> QED BY <3>1, <3>2
  <2>7. \A a \in Blueprint : \A x : Owns(T, I, a, x) => Owns(T2, I2, a, x)
    BY <2>5, <2>6, OwnsKept
  <2>8. Owns(T2, I2, b, ip)
    <3>1. \A v \in Worker : ~CleansUp(T2[v], b)
      <4>1. \A v \in Worker : ~CleansUp(T[v], b)
        BY <1>2, <2>1, <2>2 DEF Staff, WorksOn, CleansUp
      <4> QED BY <2>5, <4>1 DEF SameCleanups, CleansUp
    <3> QED BY <2>2, <2>6, <3>1 DEF Owns, Cleaned
  <2> SUFFICES ASSUME NEW i \in DOMAIN R2, NEW x \in R2[i].used
               PROVE  \E a \in Blueprint : ClusterOf[a] = R2[i].owner /\ Owns(T2, I2, a, x)
    BY DEF UsedBy
  <2>9. i \in DOMAIN R /\ R2[i].owner = R[i].owner
    BY <2>3 DEF Kept
  <2>10. CASE x \in R[i].used
    <3>1. PICK a \in Blueprint : ClusterOf[a] = R[i].owner /\ Owns(T, I, a, x)
      BY <1>2, <2>9, <2>10 DEF UsedBy
    <3> QED BY <2>7, <2>9, <3>1
  <2>11. CASE x \notin R[i].used
    <3>1. R[i].name = T[w].range /\ x = ip
      BY <2>3, <2>9, <2>11
    <3>2. R[i].owner = ClusterOf[b]
      BY <1>2, <2>1, <2>2, <2>9, <3>1 DEF Pending
    <3> QED BY <2>2, <2>8, <2>9, <3>1, <3>2
  <2> QED BY <2>10, <2>11
<1>12. ASSUME NEW b \in Blueprint, SaveProvider(b) PROVE UsedBy(R2, T2, I2)
  BY <1>5, <1>12 DEF SaveProvider
<1>13. ASSUME NEW b \in Blueprint, NEW ip \in Address, ReleaseIp(b, ip) PROVE UsedBy(R2, T2, I2)
  <2>1. Freed(R2, R, ClusterOf[b], ip)
    <3>1. RangeByIp(ip) # 0 /\ FreeAddress(ClusterOf[b], ip) /\ Shape(reserved_ranges, ip_pools)
      BY <1>1, <1>2, <1>13 DEF ReleaseIp
    <3> QED BY <1>1, <3>1, FreeFacts
  <2>2. T2 = T /\ I2 = [I EXCEPT ![b] = RemoveFirst(@, ip)]
    BY <1>1, <1>13 DEF ReleaseIp
  <2>3. \A a \in Blueprint : \A x : Contains(I[a], x) /\ ~(a = b /\ x = ip) => Contains(I2[a], x)
    <3> SUFFICES ASSUME NEW a \in Blueprint, NEW x, Contains(I[a], x), ~(a = b /\ x = ip)
                 PROVE  Contains(I2[a], x)
      OBVIOUS
    <3>1. CASE a = b
      <4>1. I2[a] = RemoveFirst(I[a], ip) /\ I[a] \in Seq(Address)
        BY <1>2, <2>2, <3>1
      <4>2. x # ip
        BY <3>1
      <4> QED BY <4>1, <4>2, RemoveFirstFacts
    <3>2. CASE a # b
      BY <1>2, <2>2, <3>2
    <3> QED BY <3>1, <3>2
  <2>4. \A a \in Blueprint : \A x : Owns(T, I, a, x) /\ ~(a = b /\ x = ip) => Owns(T2, I2, a, x)
    BY <2>2, <2>3 DEF Owns
  <2> QED BY <1>2, <2>1, <2>4, UsedByFreed
<1>14. ASSUME NEW w \in Worker, NEW b \in Blueprint, CleanupStart(w, b) PROVE UsedBy(R2, T2, I2)
  <2>1. R2 = R
    BY <1>1, <1>14 DEF CleanupStart
  <2>2. \A a \in Blueprint : \A x : Owns(T, I, a, x) => Owns(T2, I2, a, x)
    BY <1>1, <1>2, <1>14, StartOwns
  <2> QED BY <1>2, <2>1, <2>2, UsedByKept
<1>15. ASSUME NEW w \in Worker, CleanupStep(w) PROVE UsedBy(R2, T2, I2)
  <2>1. PICK b, s, ip : b = T[w].blueprint /\ s = T[w].todo /\ ip = Head(s)
    OBVIOUS
  <2>2. b \in Blueprint /\ s \in Seq(Address) /\ s # <<>>
    BY <1>1, <1>2, <1>15, <2>1, TaskFacts DEF CleanupStep
  <2>3. ip \in Address
    BY <2>1, <2>2, TailContains
  <2>4. Freed(R2, R, ClusterOf[b], ip)
    <3>1. RangeByIp(ip) # 0 /\ FreeAddress(ClusterOf[b], ip) /\ Shape(reserved_ranges, ip_pools)
      BY <1>1, <1>2, <1>15, <2>1 DEF CleanupStep
    <3> QED BY <1>1, <3>1, FreeFacts
  <2>5. ASSUME NEW a \in Blueprint, NEW x, Owns(T, I, a, x), ~(a = b /\ x = ip)
        PROVE  Owns(T2, I2, a, x)
    <3>1. CASE a # b
      BY <1>1, <1>2, <1>15, <2>1, <2>5, <3>1, StepOwns
    <3>2. CASE a = b
      <4>1. Contains(s, x)
        BY <1>1, <1>2, <1>15, <2>1, <2>5, <3>2, StepOwns
      <4>2. Contains(Tail(s), x)
        BY <2>1, <2>2, <2>5, <3>2, <4>1, TailContains
      <4> QED BY <1>1, <1>2, <1>15, <2>1, <3>2, <4>2, StepOwns
    <3> QED BY <3>1, <3>2
  <2> QED BY <1>2, <2>2, <2>3, <2>4, <2>5, UsedByFreed
<1>16. ASSUME NEW w \in Worker, CleanupFail(w) \/ CleanupEnd(w) PROVE UsedBy(R2, T2, I2)
  <2>1. PICK b : b = T[w].blueprint
    OBVIOUS
  <2>2. R2 = R /\ T[w].op = "cleanup" /\ b \in Blueprint
    BY <1>1, <1>2, <1>16, <2>1, TaskFacts DEF CleanupFail, CleanupEnd, Raises
  <2>3. ASSUME NEW a \in Blueprint, NEW x, Owns(T, I, a, x) PROVE Owns(T2, I2, a, x)
    <3>1. CASE a # b
      BY <1>1, <1>2, <1>16, <2>1, <2>3, <3>1, EndOwns
    <3>2. CASE a = b
      <4>1. Contains(T[w].todo, x)
        BY <1>1, <1>2, <1>16, <2>1, <2>3, <3>2, EndOwns
      <4>2. CASE CleanupFail(w)
        <5>1. I2 = I
          BY <1>1, <4>2 DEF CleanupFail
        <5>2. Contains(I[b], x)
          BY <1>2, <2>1, <2>2, <4>1 DEF Staff, CleansUp
        <5> QED BY <1>1, <1>2, <1>16, <2>1, <3>2, <5>1, <5>2, EndOwns
      <4>3. CASE CleanupEnd(w)
        <5>1. T[w].todo = <<>>
          BY <1>1, <4>3 DEF CleanupEnd, NoneForgotten
        <5> QED BY <4>1, <5>1 DEF Contains
      <4> QED BY <1>16, <4>2, <4>3
    <3> QED BY <3>1, <3>2
  <2> QED BY <1>2, <2>2, <2>3, UsedByKept
<1>17. ASSUME Stop PROVE UsedBy(R2, T2, I2)
  BY <1>17 DEF Stop, NoneForgotten
<1>18. ASSUME UNCHANGED vars PROVE UsedBy(R2, T2, I2)
  BY <1>5, <1>18 DEF vars
<1>19. UsedBy(R2, T2, I2)
  BY <1>6, <1>7, <1>8, <1>9, <1>10, <1>11, <1>12, <1>13, <1>14, <1>15, <1>16, <1>17, <1>18
  DEF Next
<1> QED BY <1>1, <1>19

\* A used address is in the data of a blueprint, as long as the process runs and deletions
\* are not forced: addresses assigned twice, ranges released while in use, releases on their
\* own and deletions that fail leave none behind.
THEOREM NoAddressLeaks == NoneForgotten => (Spec => []UsedIsHeld)
<1> DEFINE All == Order /\ Staff(task, reserved_ips) /\ UsedBy(reserved_ranges, task, reserved_ips)
<1> SUFFICES ASSUME NoneForgotten PROVE Spec => []UsedIsHeld
  OBVIOUS
<1>1. Init => All
  <2>1. Init => UsedBy(reserved_ranges, task, reserved_ips)
    BY DEF Init, UsedBy
  <2> QED BY <2>1, OrderInit, StaffInit
<1>2. All /\ [Next]_vars => All'
  <2> SUFFICES ASSUME All, [Next]_vars PROVE All'
    OBVIOUS
  <2>1. Order'
    BY OrderInductive DEF NoneForgotten
  <2>2. Staff(task', reserved_ips')
    BY StaffInductive DEF Order
  <2>3. UsedBy(reserved_ranges', task', reserved_ips')
    BY UsedInductive
  <2> QED BY <2>1, <2>2, <2>3
<1>3. All => UsedIsHeld
  <2> SUFFICES ASSUME All, NEW i \in DOMAIN reserved_ranges, NEW ip \in reserved_ranges[i].used
               PROVE  \E b \in Blueprint : Contains(reserved_ips[b], ip)
    BY DEF UsedIsHeld
  <2>1. PICK b \in Blueprint : Owns(task, reserved_ips, b, ip)
    BY DEF UsedBy
  <2>2. Contains(reserved_ips[b], ip)
    BY <2>1 DEF Owns, Staff
  <2> QED BY <2>2
<1> QED BY <1>1, <1>2, <1>3, PTL DEF Spec
-----------------------------------------------------------------------------
(***************************************************************************)
(* No address with two blueprints, when ranges are released only after     *)
(* their addresses, assignments on a cluster follow one another, and a     *)
(* deletion that has begun ends.                                           *)
(***************************************************************************)
\* The blueprints in deletion are those a thread cleans up.
Exact(tasks, gone) == gone = {b \in Blueprint : Cleaned(tasks, b)}

\* A blueprint has each address once.
Once(tasks, ips) ==
    /\ \A b \in Blueprint : IsInjective(ips[b])
    /\ \A w \in Worker : tasks[w].op = "cleanup" => IsInjective(tasks[w].todo)

\* No two blueprints answer for the same address.
NotShared(tasks, ips) ==
    \A a, b \in Blueprint : \A x : Owns(tasks, ips, a, x) /\ Owns(tasks, ips, b, x) => a = b

\* What a blueprint answers for is used in a range of its cluster.
Marked(ranges, tasks, ips) ==
    \A b \in Blueprint : \A x : Owns(tasks, ips, b, x) =>
        \E i \in DOMAIN ranges : ranges[i].owner = ClusterOf[b] /\ x \in ranges[i].used

\* An address that is about to be marked is unused in a range that is still there, and
\* nobody else is assigning on the cluster.
Picked(ranges, tasks) ==
    \A w \in Worker : tasks[w].op = "assign" =>
        /\ \E i \in DOMAIN ranges : ranges[i].name = tasks[w].range /\ tasks[w].ip \notin ranges[i].used
        /\ \A v \in Worker : /\ tasks[v].op = "assign"
                             /\ ClusterOf[tasks[v].blueprint] = ClusterOf[tasks[w].blueprint]
                             => v = w

\* The documents: every range, and when they can be loaded no address that is given back.
Documents(docs, ranges, ips) ==
    /\ \A i \in DOMAIN ranges : \E j \in DOMAIN docs.ranges : docs.ranges[j] = ranges[i]
    /\ "stop" \in Hazard => \A b \in Blueprint :
          IsInjective(docs.ips[b]) /\ \A x : Contains(docs.ips[b], x) => Contains(ips[b], x)

Held(ranges, tasks, ips, gone) ==
    /\ Exact(tasks, gone) /\ Once(tasks, ips) /\ NotShared(tasks, ips)
    /\ Marked(ranges, tasks, ips) /\ Picked(ranges, tasks)

\* Nobody answers for more than before, and what somebody answers for stays marked.
LEMMA MarkedKept ==
    ASSUME NEW R, NEW T, NEW I, NotShared(T, I), Marked(R, T, I), NEW R2, NEW T2, NEW I2,
           \A b \in Blueprint : \A x : Owns(T2, I2, b, x) => Owns(T, I, b, x),
           \A i \in DOMAIN R : \A x \in R[i].used : \A b \in Blueprint :
              Owns(T2, I2, b, x) => \E j \in DOMAIN R2 : R2[j].owner = R[i].owner /\ x \in R2[j].used
    PROVE  NotShared(T2, I2) /\ Marked(R2, T2, I2)
<1>1. NotShared(T2, I2)
  BY DEF NotShared
<1>2. ASSUME NEW b \in Blueprint, NEW x, Owns(T2, I2, b, x)
      PROVE  \E j \in DOMAIN R2 : R2[j].owner = ClusterOf[b] /\ x \in R2[j].used
  <2>1. PICK i \in DOMAIN R : R[i].owner = ClusterOf[b] /\ x \in R[i].used
    BY <1>2 DEF Marked
  <2> QED BY <1>2, <2>1
<1> QED BY <1>1, <1>2 DEF Marked

\* No assignment begins, and the pending ones keep their range and their address.
LEMMA PickedKept ==
    ASSUME NEW R, NEW T, Picked(R, T), NEW R2, NEW T2,
           \A v \in Worker : T2[v].op = "assign" => T2[v] = T[v],
           \A v \in Worker : T2[v].op = "assign" => \A i \in DOMAIN R :
              R[i].name = T[v].range /\ T[v].ip \notin R[i].used =>
                 \E j \in DOMAIN R2 : R2[j].name = R[i].name /\ T[v].ip \notin R2[j].used
    PROVE  Picked(R2, T2)
<1> SUFFICES ASSUME NEW w \in Worker, T2[w].op = "assign"
    PROVE  /\ \E i \in DOMAIN R2 : R2[i].name = T2[w].range /\ T2[w].ip \notin R2[i].used
           /\ \A v \in Worker : /\ T2[v].op = "assign"
                                /\ ClusterOf[T2[v].blueprint] = ClusterOf[T2[w].blueprint]
                                => v = w
  BY DEF Picked
<1>1. T2[w] = T[w] /\ T[w].op = "assign"
  OBVIOUS
<1>2. PICK i \in DOMAIN R : R[i].name = T[w].range /\ T[w].ip \notin R[i].used
  BY <1>1 DEF Picked
<1>3. \E j \in DOMAIN R2 : R2[j].name = R[i].name /\ T[w].ip \notin R2[j].used
  BY <1>2
<1>4. ASSUME NEW v \in Worker, T2[v].op = "assign",
             ClusterOf[T2[v].blueprint] = ClusterOf[T2[w].blueprint]
      PROVE  v = w
  <2>1. T2[v] = T[v] /\ T[v].op = "assign"
    BY <1>4
  <2> QED BY <1>1, <1>4, <2>1 DEF Picked
<1> QED BY <1>1, <1>2, <1>3, <1>4

\* A range that is in use, or of which an address is about to be marked.
Wanted(r, tasks) ==
    r.used # {} \/ \E w \in Worker : tasks[w].op = "assign" /\ tasks[w].range = r.name

\* The same deletions and the same addresses.
LEMMA OwnsSame ==
    ASSUME NEW T, NEW T2, SameCleanups(T2, T), NEW I, NEW b, NEW x
    PROVE  Owns(T2, I, b, x) <=> Owns(T, I, b, x)
<1>1. SameCleanups(T, T2)
  BY DEF SameCleanups
<1> QED BY <1>1, OwnsKept

\* The same deletions.
LEMMA ExactSame ==
    ASSUME NEW T, NEW T2, SameCleanups(T2, T), NEW D, Exact(T, D)
    PROVE  Exact(T2, D)
<1>1. \A b : Cleaned(T2, b) <=> Cleaned(T, b)
  BY DEF Cleaned, CleansUp, SameCleanups
<1> QED BY <1>1 DEF Exact

\* The same deletions, and addresses without repetition.
LEMMA OnceSame ==
    ASSUME NEW T, NEW T2, SameCleanups(T2, T), NEW I, Once(T, I), NEW I2,
           \A b \in Blueprint : IsInjective(I2[b])
    PROVE  Once(T2, I2)
<1> QED BY DEF Once, SameCleanups

\* Deletions and addresses stay as they are; a range that is in use, or wanted, stays too.
LEMMA HeldQuietly ==
    ASSUME NEW R, NEW T, NEW I, NEW D, Held(R, T, I, D), NEW R2, NEW T2, SameCleanups(T2, T),
           \A v \in Worker : T2[v].op = "assign" => T2[v] = T[v],
           \A i \in DOMAIN R : Wanted(R[i], T) => \E j \in DOMAIN R2 : R2[j] = R[i]
    PROVE  Held(R2, T2, I, D)
<1>1. Exact(T2, D) /\ Once(T2, I)
  BY ExactSame, OnceSame DEF Held, Once
<1>2. \A b \in Blueprint : \A x : Owns(T2, I, b, x) => Owns(T, I, b, x)
  BY OwnsSame
<1>3. \A i \in DOMAIN R : \A x \in R[i].used :
         \E j \in DOMAIN R2 : R2[j].owner = R[i].owner /\ x \in R2[j].used
  BY DEF Wanted
<1>4. NotShared(T2, I) /\ Marked(R2, T2, I)
  BY <1>2, <1>3, MarkedKept DEF Held
<1>5. ASSUME NEW v \in Worker, T2[v].op = "assign",
             NEW i \in DOMAIN R, R[i].name = T[v].range, T[v].ip \notin R[i].used
      PROVE  \E j \in DOMAIN R2 : R2[j].name = R[i].name /\ T[v].ip \notin R2[j].used
  <2>1. Wanted(R[i], T)
    BY <1>5 DEF Wanted
  <2> QED BY <1>5, <2>1
<1>6. Picked(R2, T2)
  BY <1>5, PickedKept DEF Held
<1> QED BY <1>1, <1>4, <1>6 DEF Held

\* An address is given back: its blueprint is the only one that answered for it.
LEMMA MarkedFreed ==
    ASSUME NEW R, NEW T, NEW I, NotShared(T, I), Marked(R, T, I),
           NEW b \in Blueprint, NEW ip, Owns(T, I, b, ip), NEW R2, Freed(R2, R, ClusterOf[b], ip),
           NEW T2, NEW I2,
           \A a \in Blueprint : \A x : Owns(T2, I2, a, x) => Owns(T, I, a, x),
           ~Owns(T2, I2, b, ip)
    PROVE  NotShared(T2, I2) /\ Marked(R2, T2, I2)
<1>1. \A a \in Blueprint : ~Owns(T2, I2, a, ip)
  BY DEF NotShared
<1>2. ASSUME NEW i \in DOMAIN R, NEW x \in R[i].used, NEW a \in Blueprint, Owns(T2, I2, a, x)
      PROVE  \E j \in DOMAIN R2 : R2[j].owner = R[i].owner /\ x \in R2[j].used
  <2>1. x # ip
    BY <1>1, <1>2
  <2>2. i \in DOMAIN R2 /\ R2[i].owner = R[i].owner /\ x \in R2[i].used
    BY <2>1 DEF Freed, Kept
  <2> QED BY <2>2
<1> QED BY <1>2, MarkedKept

\* A pending assignment stays in order when some address is freed.
LEMMA PickedFreed ==
    ASSUME NEW R, NEW T, Picked(R, T), NEW c, NEW ip, NEW R2, Freed(R2, R, c, ip), NEW T2,
           \A v \in Worker : T2[v].op = "assign" => T2[v] = T[v]
    PROVE  Picked(R2, T2)
<1>1. \A i \in DOMAIN R : i \in DOMAIN R2 /\ R2[i].name = R[i].name /\ R2[i].used \subseteq R[i].used
  BY DEF Freed, Kept
<1> QED BY <1>1, PickedKept

\* The address that is about to be marked is nobody's.
LEMMA PendingIsFree ==
    ASSUME NEW R, NEW N, NEW T \in [Worker -> TaskType], NEW I, Shape(R, N), Apart(R), Pending(R, T),
           Marked(R, T, I), Picked(R, T), NEW w \in Worker, T[w].op = "assign", NEW a \in Blueprint
    PROVE  ~Owns(T, I, a, T[w].ip)
<1>1. PICK i \in DOMAIN R : R[i].name = T[w].range /\ T[w].ip \notin R[i].used
  BY DEF Picked
<1>2. InRange(T[w].ip, R[i]) /\ T[w].ip \in Address
  BY <1>1, TaskFacts DEF Pending
<1> SUFFICES ASSUME Owns(T, I, a, T[w].ip) PROVE FALSE
  OBVIOUS
<1>3. PICK j \in DOMAIN R : T[w].ip \in R[j].used
  BY DEF Marked
<1>4. R[j] \in RangeType
  BY DEF Shape
<1>5. R[j].used \subseteq R[j].start..R[j].end /\ R[j].start \in Nat /\ R[j].end \in Nat
  BY <1>4, AddressFacts DEF Shape, RangeType
<1>6. InRange(T[w].ip, R[j])
  BY <1>3, <1>5 DEF InRange
<1>7. i = j
  BY <1>2, <1>6 DEF Apart
<1> QED BY <1>1, <1>3, <1>7

\* The search by address finds a range when there is one.
LEMMA FoundByIp ==
    ASSUME NEW i \in DOMAIN reserved_ranges, reserved_ranges \in Seq(RangeType),
           NEW ip, InRange(ip, reserved_ranges[i])
    PROVE  RangeByIp(ip) # 0
<1>1. PICK R : R = reserved_ranges
  OBVIOUS
<1> DEFINE I == {j \in 1..Len(R) : InRange(ip, R[j])}
<1>2. RangeByIp(ip) = IF I # {} THEN Min(I) ELSE 0
  BY <1>1 DEF RangeByIp, SelectInSeq
<1>3. i \in I /\ I \in SUBSET Nat /\ 0 \notin I
  BY <1>1
<1>4. Min(I) \in I
  BY <1>3, LeastNumber DEF Min
<1> QED BY <1>2, <1>3, <1>4

\* What a blueprint answers for can be given back.
LEMMA MarkedIsFound ==
    ASSUME Base, Marked(reserved_ranges, task, reserved_ips), NEW b \in Blueprint, NEW x,
           Owns(task, reserved_ips, b, x)
    PROVE  RangeByIp(x) # 0
<1>1. PICK R : R = reserved_ranges
  OBVIOUS
<1>2. PICK i \in DOMAIN R : x \in R[i].used
  BY <1>1 DEF Marked
<1>3. R \in Seq(RangeType) /\ R[i] \in RangeType /\ R[i].used \subseteq R[i].start..R[i].end
  BY <1>1, <1>2 DEF Base, Shape
<1>4. R[i].start \in Nat /\ R[i].end \in Nat
  BY <1>3, AddressFacts DEF RangeType
<1>5. InRange(x, R[i])
  BY <1>2, <1>3, <1>4 DEF InRange
<1> QED BY <1>1, <1>3, <1>5, FoundByIp

\* One reservation at a time, and one assignment on a cluster; no range is released while in
\* use; a deletion that has begun ends; no single addresses are released where the process
\* may stop.
Careful ==
    /\ OneReservation
    /\ "assign_race" \notin Hazard /\ "used_range" \notin Hazard /\ "cleanup_fails" \notin Hazard
    /\ ~("release_one" \in Hazard /\ "stop" \in Hazard)

HeldNow == Held(reserved_ranges, task, reserved_ips, deleting)
              /\ Documents(saved, reserved_ranges, reserved_ips)

\* Nothing of it changes.
LEMMA HeldSame ==
    ASSUME Held(reserved_ranges, task, reserved_ips, deleting),
           UNCHANGED <<reserved_ranges, task, reserved_ips, deleting>>
    PROVE  Held(reserved_ranges', task', reserved_ips', deleting')
<1> QED OBVIOUS

\* A thread begins or ends a reservation.
LEMMA HeldTask ==
    ASSUME task \in [Worker -> TaskType], Held(reserved_ranges, task, reserved_ips, deleting),
           UNCHANGED <<reserved_ips, deleting>>,
           NEW w \in Worker, NEW t, task[w].op # "cleanup", t.op \notin {"assign", "cleanup"},
           task' = [task EXCEPT ![w] = t],
           \A i \in DOMAIN reserved_ranges :
              \E j \in DOMAIN reserved_ranges' : reserved_ranges'[j] = reserved_ranges[i]
    PROVE  Held(reserved_ranges', task', reserved_ips', deleting')
<1>1. PICK R, T, R2, T2 : /\ R = reserved_ranges /\ T = task
                          /\ R2 = reserved_ranges' /\ T2 = task'
  OBVIOUS
<1>2. SameCleanups(T2, T)
  BY <1>1, OtherTask
<1>3. \A v \in Worker : T2[v].op = "assign" => T2[v] = T[v]
  BY <1>1
<1>4. \A i \in DOMAIN R : Wanted(R[i], T) => \E j \in DOMAIN R2 : R2[j] = R[i]
  BY <1>1
<1>5. Held(R, T, reserved_ips, deleting)
  BY <1>1
<1>6. Held(R2, T2, reserved_ips, deleting)
  BY <1>2, <1>3, <1>4, <1>5, HeldQuietly
<1> QED BY <1>1, <1>6

\* reserve_range, second half.
LEMMA HeldCommit ==
    ASSUME Order, HeldNow, NEW w \in Worker, ReserveCommit(w)
    PROVE  Held(reserved_ranges', task', reserved_ips', deleting')
<1>1. PICK c \in Cluster : \E new :
           /\ Fresh(new, c, reserved_ranges, ip_pools, task)
           /\ Covers(task[w].ips, new)
           /\ Appended(new, c, reserved_ranges, ip_pools, reserved_ranges', ip_pools')
  BY CommitFacts DEF Order
<1>2. PICK new : Fresh(new, c, reserved_ranges, ip_pools, task)
                 /\ Appended(new, c, reserved_ranges, ip_pools, reserved_ranges', ip_pools')
  BY <1>1
<1>3. PICK R, R2 : R = reserved_ranges /\ R2 = reserved_ranges'
  OBVIOUS
<1>4. R \in Seq(RangeType) /\ new \in Seq(RangeType) /\ R2 = R \o new
  BY <1>2, <1>3 DEF Order, Base, Shape, Fresh, Appended
<1>5. DOMAIN R = 1..Len(R) /\ Len(R) \in Nat /\ Len(new) \in Nat
      /\ DOMAIN R2 = 1..(Len(R) + Len(new)) /\ \A i \in 1..Len(R) : R2[i] = R[i]
  BY <1>4
<1>6. \A i \in DOMAIN R : \E j \in DOMAIN R2 : R2[j] = R[i]
  BY <1>5
<1>7. task[w].op # "cleanup" /\ Idle.op \notin {"assign", "cleanup"}
  BY DEF ReserveCommit, Idle
<1> QED BY <1>3, <1>6, <1>7, HeldTask DEF ReserveCommit, Order, Base, HeldNow

\* release_range takes no range that is in use or wanted.
LEMMA HeldRelease ==
    ASSUME Careful, Order, HeldNow, NEW n \in RangeName, NEW c \in Cluster, ReleaseRange(n, c)
    PROVE  Held(reserved_ranges', task', reserved_ips', deleting')
<1>1. PICK R, R2 : R = reserved_ranges /\ R2 = reserved_ranges'
  OBVIOUS
<1>2. Base /\ Apart(reserved_ranges)
  BY DEF Order, Orderly
<1>3. PICK i \in DOMAIN reserved_ranges :
         /\ reserved_ranges' = RemoveAt(reserved_ranges, i)
         /\ InUse(reserved_ranges[i]) => "used_range" \in Hazard
  BY <1>2, ReleaseFacts
<1>4. R \in Seq(RangeType) /\ i \in 1..Len(R) /\ R2 = RemoveAt(R, i) /\ ~Wanted(R[i], task)
  BY <1>1, <1>2, <1>3 DEF Base, Shape, Careful, InUse, Wanted
<1>5. \A a \in DOMAIN R : a # i => \E k \in DOMAIN R2 : R2[k] = R[a]
  BY <1>4, RemoveAtItems
<1>6. \A a \in DOMAIN R : Wanted(R[a], task) => \E k \in DOMAIN R2 : R2[k] = R[a]
  BY <1>4, <1>5
<1>7. SameCleanups(task, task)
  BY DEF SameCleanups
<1>8. Held(R2, task, reserved_ips, deleting)
  BY <1>1, <1>6, <1>7, HeldQuietly DEF HeldNow
<1> QED BY <1>1, <1>8 DEF ReleaseRange

\* assign_ip_address, first half: the only one on its cluster.
LEMMA HeldPick ==
    ASSUME Careful, Order, Staff(task, reserved_ips), HeldNow,
           NEW w \in Worker, NEW b \in Blueprint, AssignPick(w, b)
    PROVE  Held(reserved_ranges', task', reserved_ips', deleting')
<1>1. PICK R, T, I, T2 : R = reserved_ranges /\ T = task /\ I = reserved_ips /\ T2 = task'
  OBVIOUS
<1>2. PICK i \in DOMAIN R, ip \in Address :
         /\ ip \notin R[i].used
         /\ T2 = [T EXCEPT ![w] = [op |-> "assign", blueprint |-> b, range |-> R[i].name, ip |-> ip]]
  BY <1>1, PickFacts DEF Order
<1>3. PICK t : t = [op |-> "assign", blueprint |-> b, range |-> R[i].name, ip |-> ip]
  OBVIOUS
<1>4. /\ T \in [Worker -> TaskType] /\ T2 = [T EXCEPT ![w] = t] /\ T[w].op # "cleanup"
      /\ t.op = "assign" /\ t.blueprint = b /\ t.range = R[i].name /\ t.ip = ip
  <2>1. T \in [Worker -> TaskType] /\ T[w].op # "cleanup"
    BY <1>1 DEF Order, Base, AssignPick, Idle
  <2> QED BY <1>2, <1>3, <2>1
<1>5. SameCleanups(T2, T)
  BY <1>4, OtherTask
<1>6. Held(R, T, I, deleting)
  BY <1>1 DEF HeldNow
<1>7. Exact(T2, deleting) /\ Once(T2, I)
  BY <1>5, <1>6, ExactSame, OnceSame DEF Held, Once
<1>8. NotShared(T2, I) /\ Marked(R, T2, I)
  <2>1. \A a \in Blueprint : \A x : Owns(T2, I, a, x) => Owns(T, I, a, x)
    BY <1>5, OwnsSame
  <2> QED BY <1>6, <2>1, MarkedKept DEF Held
<1>9. \A v \in Worker : T[v].op = "assign" => ClusterOf[T[v].blueprint] # ClusterOf[b]
  BY <1>1 DEF AssignPick, Careful
<1>10. \A v \in Worker : T2[v] = IF v = w THEN t ELSE T[v]
  BY <1>4
<1>11. Picked(R, T2)
  <2> SUFFICES ASSUME NEW u \in Worker, T2[u].op = "assign"
      PROVE  /\ \E k \in DOMAIN R : R[k].name = T2[u].range /\ T2[u].ip \notin R[k].used
             /\ \A v \in Worker : /\ T2[v].op = "assign"
                                  /\ ClusterOf[T2[v].blueprint] = ClusterOf[T2[u].blueprint]
                                  => v = u
    BY DEF Picked
  <2>1. \E k \in DOMAIN R : R[k].name = T2[u].range /\ T2[u].ip \notin R[k].used
    <3>1. CASE u = w
      BY <1>2, <1>4, <1>10, <3>1
    <3>2. CASE u # w
      BY <1>6, <1>10, <3>2 DEF Held, Picked
    <3> QED BY <3>1, <3>2
  <2>2. ASSUME NEW v \in Worker, T2[v].op = "assign",
               ClusterOf[T2[v].blueprint] = ClusterOf[T2[u].blueprint], v # u
        PROVE  FALSE
    <3>1. CASE u = w
      BY <1>4, <1>9, <1>10, <2>2, <3>1
    <3>2. CASE v = w
      BY <1>4, <1>9, <1>10, <2>2, <3>2
    <3>3. CASE u # w /\ v # w
      BY <1>6, <1>10, <2>2, <3>3 DEF Held, Picked
    <3> QED BY <3>1, <3>2, <3>3
  <2> QED BY <2>1, <2>2
<1>12. Held(R, T2, I, deleting)
  BY <1>7, <1>8, <1>11 DEF Held
<1> QED BY <1>1, <1>12 DEF AssignPick

\* assign_ip_address, second half: nobody else has the address.
LEMMA HeldMark ==
    ASSUME Careful, Order, Staff(task, reserved_ips), HeldNow, NEW w \in Worker, AssignMark(w)
    PROVE  Held(reserved_ranges', task', reserved_ips', deleting')
<1>1. PICK R, T, I, R2, T2, I2 : /\ R = reserved_ranges /\ T = task /\ I = reserved_ips
                                 /\ R2 = reserved_ranges' /\ T2 = task' /\ I2 = reserved_ips'
  OBVIOUS
<1>2. PICK b, ip : b = T[w].blueprint /\ ip = T[w].ip
  OBVIOUS
<1>3. /\ Base /\ T \in [Worker -> TaskType] /\ I \in [Blueprint -> Seq(Address)]
      /\ Shape(R, ip_pools) /\ Apart(R) /\ Pending(R, T) /\ Staff(T, I)
      /\ Held(R, T, I, deleting)
  BY <1>1 DEF Order, Base, Orderly, HeldNow
<1>4. T[w].op = "assign" /\ b \in Blueprint /\ ip \in Address
  BY <1>1, <1>2, <1>3, TaskFacts DEF AssignMark
<1>5. /\ Kept(R2, R)
      /\ \A i \in DOMAIN R : R2[i].used = IF R[i].name = T[w].range
                                          THEN R[i].used \cup {ip} ELSE R[i].used
  BY <1>1, <1>2, <1>3, MarkFacts
<1>6. I2 = [I EXCEPT ![b] = Append(@, ip)] /\ T2 = [T EXCEPT ![w] = Idle]
  BY <1>1, <1>2 DEF AssignMark
<1>7. SameCleanups(T2, T) /\ \A v \in Worker : T2[v].op = "assign" => v # w /\ T2[v] = T[v]
  <2>1. SameCleanups(T2, T)
    BY <1>3, <1>4, <1>6, OtherTask DEF Idle
  <2> QED BY <1>3, <1>6, <2>1 DEF Idle
<1>8. \A a \in Blueprint : ~Owns(T, I, a, ip)
  BY <1>2, <1>3, <1>4, PendingIsFree DEF Held
<1>9. ~Cleaned(T, b)
  BY <1>2, <1>3, <1>4 DEF Cleaned, Staff, WorksOn, CleansUp
<1>10. I2[b] = Append(I[b], ip) /\ I[b] \in Seq(Address) /\ \A a \in Blueprint : a # b => I2[a] = I[a]
  BY <1>3, <1>4, <1>6
<1>11. \A a \in Blueprint : \A x : Owns(T2, I2, a, x) <=> Owns(T, I, a, x) \/ (a = b /\ x = ip)
  <2> SUFFICES ASSUME NEW a \in Blueprint, NEW x
               PROVE  Owns(T2, I2, a, x) <=> Owns(T, I, a, x) \/ (a = b /\ x = ip)
    OBVIOUS
  <2>1. Owns(T2, I2, a, x) <=> Owns(T, I2, a, x)
    BY <1>7, OwnsSame
  <2>2. CASE a # b
    BY <1>10, <2>1, <2>2 DEF Owns
  <2>3. CASE a = b
    <3>1. Contains(I2[b], x) <=> Contains(I[b], x) \/ x = ip
      BY <1>4, <1>10, AppendContains
    <3>2. \A v \in Worker : ~CleansUp(T[v], b)
      BY <1>9 DEF Cleaned
    <3> QED BY <2>1, <2>3, <3>1, <3>2 DEF Owns, Cleaned
  <2> QED BY <2>2, <2>3
<1>12. Exact(T2, deleting)
  BY <1>3, <1>7, ExactSame DEF Held
<1>13. Once(T2, I2)
  <2>1. ~Contains(I[b], ip) /\ IsInjective(I[b])
    BY <1>3, <1>4, <1>8, <1>9 DEF Owns, Held, Once
  <2>2. IsInjective(Append(I[b], ip))
    <3>1. PICK s : s = I[b]
      OBVIOUS
    <3>2. s \in Seq(Address) /\ IsInjective(s) /\ \A k \in 1..Len(s) : s[k] # ip
      BY <1>10, <2>1, <3>1 DEF Contains
    <3>3. /\ Len(s) \in Nat /\ DOMAIN s = 1..Len(s) /\ DOMAIN Append(s, ip) = 1..(Len(s) + 1)
          /\ \A k \in 1..Len(s) : Append(s, ip)[k] = s[k]
          /\ Append(s, ip)[Len(s) + 1] = ip
          /\ \A k \in 1..(Len(s) + 1) : k \in 1..Len(s) \/ k = Len(s) + 1
      BY <1>4, <3>2
    <3> QED BY <3>1, <3>2, <3>3 DEF IsInjective
  <2>3. \A a \in Blueprint : IsInjective(I2[a])
    BY <1>3, <1>10, <2>2 DEF Held, Once
  <2> QED BY <1>3, <1>7, <2>3, OnceSame DEF Held
<1>14. NotShared(T2, I2)
  BY <1>3, <1>8, <1>11 DEF Held, NotShared
<1>15. Marked(R2, T2, I2)
  <2> SUFFICES ASSUME NEW a \in Blueprint, NEW x, Owns(T2, I2, a, x)
               PROVE  \E i \in DOMAIN R2 : R2[i].owner = ClusterOf[a] /\ x \in R2[i].used
    BY DEF Marked
  <2>1. CASE Owns(T, I, a, x)
    <3>1. PICK i \in DOMAIN R : R[i].owner = ClusterOf[a] /\ x \in R[i].used
      BY <1>3, <2>1 DEF Held, Marked
    <3>2. i \in DOMAIN R2 /\ R2[i].owner = R[i].owner /\ x \in R2[i].used
      BY <1>5, <3>1 DEF Kept
    <3> QED BY <3>1, <3>2
  <2>2. CASE a = b /\ x = ip
    <3>1. PICK i \in DOMAIN R : R[i].name = T[w].range
      BY <1>3, <1>4 DEF Held, Picked
    <3>2. R[i].owner = ClusterOf[b]
      BY <1>2, <1>3, <1>4, <3>1 DEF Pending
    <3>3. i \in DOMAIN R2 /\ R2[i].owner = R[i].owner /\ x \in R2[i].used
      BY <1>5, <2>2, <3>1 DEF Kept
    <3> QED BY <2>2, <3>2, <3>3
  <2> QED BY <1>11, <2>1, <2>2
<1>16. Picked(R2, T2)
  <2>1. ASSUME NEW v \in Worker, T2[v].op = "assign",
               NEW i \in DOMAIN R, R[i].name = T[v].range, T[v].ip \notin R[i].used
        PROVE  \E j \in DOMAIN R2 : R2[j].name = R[i].name /\ T[v].ip \notin R2[j].used
    <3>1. v # w /\ T[v].op = "assign"
      BY <1>7, <2>1
    <3>2. ClusterOf[T[v].blueprint] # ClusterOf[b]
      BY <1>2, <1>3, <1>4, <3>1 DEF Held, Picked
    <3>3. R[i].owner = ClusterOf[T[v].blueprint]
      BY <1>3, <2>1, <3>1 DEF Pending
    <3>4. R[i].name # T[w].range
      BY <1>2, <1>3, <1>4, <3>2, <3>3 DEF Pending
    <3>5. i \in DOMAIN R2 /\ R2[i].name = R[i].name /\ R2[i].used = R[i].used
      BY <1>5, <3>4 DEF Kept
    <3> QED BY <2>1, <3>5
  <2>2. \A v \in Worker : T2[v].op = "assign" => T2[v] = T[v]
    BY <1>7
  <2> QED BY <1>3, <2>1, <2>2, PickedKept DEF Held
<1>17. Held(R2, T2, I2, deleting)
  BY <1>12, <1>13, <1>14, <1>15, <1>16 DEF Held
<1> QED BY <1>1, <1>17 DEF AssignMark

\* release_k8s_multus_ip on its own.
LEMMA HeldReleaseIp ==
    ASSUME Order, HeldNow, NEW b \in Blueprint, NEW ip \in Address, ReleaseIp(b, ip)
    PROVE  Held(reserved_ranges', task', reserved_ips', deleting')
<1>1. PICK R, T, I, R2, I2 : /\ R = reserved_ranges /\ T = task /\ I = reserved_ips
                             /\ R2 = reserved_ranges' /\ I2 = reserved_ips'
  OBVIOUS
<1>2. /\ I \in [Blueprint -> Seq(Address)] /\ Shape(R, ip_pools) /\ Held(R, T, I, deleting)
  BY <1>1 DEF Order, Base, HeldNow
<1>3. Freed(R2, R, ClusterOf[b], ip)
  <2>1. RangeByIp(ip) # 0 /\ FreeAddress(ClusterOf[b], ip) /\ Shape(reserved_ranges, ip_pools)
    BY <1>1, <1>2 DEF ReleaseIp
  <2> QED BY <1>1, <2>1, FreeFacts
<1>4. /\ ~Cleaned(T, b) /\ Contains(I[b], ip)
      /\ I2 = [I EXCEPT ![b] = RemoveFirst(@, ip)]
  BY <1>1 DEF ReleaseIp, Busy, Cleaned, CleansUp
<1>5. I2[b] = RemoveFirst(I[b], ip) /\ \A a \in Blueprint : a # b => I2[a] = I[a]
  BY <1>2, <1>4
<1>6. /\ \A x : Contains(I2[b], x) => Contains(I[b], x)
      /\ IsInjective(I2[b]) /\ ~Contains(I2[b], ip)
  <2>1. I[b] \in Seq(Address) /\ IsInjective(I[b])
    BY <1>2 DEF Held, Once
  <2> QED BY <1>5, <2>1, RemoveFirstFacts
<1>7. \A a \in Blueprint : \A x : Owns(T, I2, a, x) => Owns(T, I, a, x)
  BY <1>5, <1>6 DEF Owns
<1>8. ~Owns(T, I2, b, ip) /\ Owns(T, I, b, ip)
  BY <1>4, <1>6 DEF Owns, Cleaned
<1>9. NotShared(T, I2) /\ Marked(R2, T, I2)
  BY <1>2, <1>3, <1>7, <1>8, MarkedFreed DEF Held
<1>10. Picked(R2, T)
  BY <1>2, <1>3, PickedFreed DEF Held
<1>11. Once(T, I2) /\ Exact(T, deleting)
  BY <1>2, <1>5, <1>6 DEF Held, Once
<1>12. Held(R2, T, I2, deleting)
  BY <1>9, <1>10, <1>11 DEF Held
<1> QED BY <1>1, <1>12 DEF ReleaseIp

\* A deletion begins: the blueprint answers for the same addresses.
LEMMA HeldStart ==
    ASSUME Order, Staff(task, reserved_ips), HeldNow,
           NEW w \in Worker, NEW b \in Blueprint, CleanupStart(w, b)
    PROVE  Held(reserved_ranges', task', reserved_ips', deleting')
<1>1. PICK R, T, I, T2, D : /\ R = reserved_ranges /\ T = task /\ I = reserved_ips
                            /\ T2 = task' /\ D = deleting
  OBVIOUS
<1>2. /\ Base /\ T \in [Worker -> TaskType] /\ Held(R, T, I, D) /\ T[w] = Idle
  BY <1>1 DEF Order, Base, HeldNow, CleanupStart
<1>3. PICK t : t = [op |-> "cleanup", blueprint |-> b, todo |-> I[b]]
  OBVIOUS
<1>4. T2 = [T EXCEPT ![w] = t]
  BY <1>1, <1>3 DEF CleanupStart
<1>5. /\ T2[w] = t /\ \A v \in Worker : v # w => T2[v] = T[v]
      /\ t.op = "cleanup" /\ t.blueprint = b /\ t.todo = I[b]
      /\ T[w].op = "none"
  BY <1>2, <1>3, <1>4 DEF Idle
<1>6. \A a \in Blueprint : \A x : Owns(T2, I, a, x) => Owns(T, I, a, x)
  <2>1. \A a \in Blueprint : \A x : Owns(task', reserved_ips', a, x) => Owns(task, reserved_ips, a, x)
    BY <1>2, StartOwns
  <2> QED BY <1>1, <2>1 DEF CleanupStart
<1>7. NotShared(T2, I) /\ Marked(R, T2, I)
  BY <1>2, <1>6, MarkedKept DEF Held
<1>8. Picked(R, T2)
  <2>1. \A v \in Worker : T2[v].op = "assign" => T2[v] = T[v]
    BY <1>5
  <2> QED BY <1>2, <2>1, PickedKept DEF Held
<1>9. Once(T2, I)
  BY <1>2, <1>5 DEF Held, Once
<1>10. Exact(T2, D \cup {b})
  <2>1. \A a \in Blueprint : Cleaned(T2, a) <=> Cleaned(T, a) \/ a = b
    BY <1>5 DEF Cleaned, CleansUp
  <2> QED BY <1>2, <2>1 DEF Held, Exact
<1>11. Held(R, T2, I, D \cup {b})
  BY <1>7, <1>8, <1>9, <1>10 DEF Held
<1> QED BY <1>1, <1>11 DEF CleanupStart

\* A deletion gives one address back, the only copy of it.
LEMMA HeldStep ==
    ASSUME Order, Staff(task, reserved_ips), HeldNow, NEW w \in Worker, CleanupStep(w)
    PROVE  Held(reserved_ranges', task', reserved_ips', deleting')
<1>1. PICK R, T, I, R2, T2, D : /\ R = reserved_ranges /\ T = task /\ I = reserved_ips
                                /\ R2 = reserved_ranges' /\ T2 = task' /\ D = deleting
  OBVIOUS
<1>2. PICK b, s, ip : b = T[w].blueprint /\ s = T[w].todo /\ ip = Head(s)
  OBVIOUS
<1>3. /\ Base /\ T \in [Worker -> TaskType] /\ Shape(R, ip_pools)
      /\ Held(R, T, I, D) /\ Staff(T, I)
  BY <1>1 DEF Order, Base, HeldNow
<1>4. T[w].op = "cleanup" /\ b \in Blueprint /\ s \in Seq(Address) /\ s # <<>> /\ IsInjective(s)
  BY <1>1, <1>2, <1>3, TaskFacts DEF CleanupStep, Held, Once
<1>5. /\ Contains(s, ip) /\ IsInjective(Tail(s)) /\ ~Contains(Tail(s), ip)
      /\ \A x : Contains(Tail(s), x) => Contains(s, x)
  BY <1>2, <1>4, TailContains
<1>6. Freed(R2, R, ClusterOf[b], ip)
  <2>1. RangeByIp(ip) # 0 /\ FreeAddress(ClusterOf[b], ip) /\ Shape(reserved_ranges, ip_pools)
    BY <1>1, <1>2, <1>3 DEF CleanupStep
  <2> QED BY <1>1, <2>1, FreeFacts
<1>7. TailOf(T2, T, w) /\ reserved_ips' = I
  BY <1>1 DEF CleanupStep, TailOf
<1>8. /\ \A v \in Worker : v # w => T2[v] = T[v]
      /\ T2[w].op = "cleanup" /\ T2[w].blueprint = b /\ T2[w].todo = Tail(s)
  BY <1>2, <1>3, <1>4, <1>7, StaffGoesOn
<1>9. /\ \A a \in Blueprint : \A x : a # b => (Owns(T2, I, a, x) <=> Owns(T, I, a, x))
      /\ \A x : Owns(T, I, b, x) <=> Contains(s, x)
      /\ \A x : Owns(T2, I, b, x) <=> Contains(Tail(s), x)
  BY <1>1, <1>2, <1>3, <1>7, StepOwns
<1>10. NotShared(T2, I) /\ Marked(R2, T2, I)
  <2>1. \A a \in Blueprint : \A x : Owns(T2, I, a, x) => Owns(T, I, a, x)
    BY <1>5, <1>9
  <2>2. Owns(T, I, b, ip) /\ ~Owns(T2, I, b, ip)
    BY <1>5, <1>9
  <2> QED BY <1>3, <1>4, <1>6, <2>1, <2>2, MarkedFreed DEF Held
<1>11. Picked(R2, T2)
  <2>1. \A v \in Worker : T2[v].op = "assign" => T2[v] = T[v]
    BY <1>8
  <2> QED BY <1>3, <1>6, <2>1, PickedFreed DEF Held
<1>12. Once(T2, I)
  BY <1>3, <1>5, <1>8 DEF Held, Once
<1>13. Exact(T2, D)
  <2>1. \A a \in Blueprint : Cleaned(T2, a) <=> Cleaned(T, a)
    BY <1>2, <1>4, <1>8 DEF Cleaned, CleansUp
  <2> QED BY <1>3, <2>1 DEF Held, Exact
<1>14. Held(R2, T2, I, D)
  BY <1>10, <1>11, <1>12, <1>13 DEF Held
<1> QED BY <1>1, <1>14 DEF CleanupStep

\* A deletion finds the range of every address, so that it does not fail.
LEMMA HeldNeverFails ==
    ASSUME Careful, Order, Staff(task, reserved_ips), HeldNow, NEW w \in Worker
    PROVE  ~CleanupFail(w)
<1> SUFFICES ASSUME CleanupFail(w) PROVE FALSE
  OBVIOUS
<1>1. PICK T, b, s : T = task /\ b = T[w].blueprint /\ s = T[w].todo
  OBVIOUS
<1>2. T[w].op = "cleanup" /\ s # <<>> /\ RangeByIp(Head(s)) = 0
  BY <1>1 DEF CleanupFail, Raises, Careful
<1>3. T[w] \in TaskType /\ Base
  BY <1>1 DEF Order, Base
<1>4. b \in Blueprint /\ s \in Seq(Address)
  BY <1>1, <1>2, <1>3, TaskFacts
<1>5. Contains(s, Head(s))
  BY <1>2, <1>4, TailContains
<1>6. Owns(T, reserved_ips, b, Head(s))
  BY <1>1, <1>2, <1>5 DEF Owns, CleansUp
<1> QED BY <1>1, <1>2, <1>3, <1>4, <1>6, MarkedIsFound DEF HeldNow, Held

\* A deletion ends, whether all is given back or it was forced.
LEMMA HeldEnd ==
    ASSUME Order, Staff(task, reserved_ips), HeldNow, NEW w \in Worker, CleanupEnd(w)
    PROVE  Held(reserved_ranges', task', reserved_ips', deleting')
<1>1. PICK R, T, I, T2, I2, D : /\ R = reserved_ranges /\ T = task /\ I = reserved_ips
                                /\ T2 = task' /\ I2 = reserved_ips' /\ D = deleting
  OBVIOUS
<1>2. PICK b : b = T[w].blueprint
  OBVIOUS
<1>3. /\ Base /\ T \in [Worker -> TaskType] /\ I \in [Blueprint -> Seq(Address)]
      /\ Held(R, T, I, D) /\ Staff(T, I)
  BY <1>1 DEF Order, Base, HeldNow
<1>4. T[w].op = "cleanup" /\ b \in Blueprint
  BY <1>1, <1>2, <1>3, TaskFacts DEF CleanupEnd
<1>5. I2 = [I EXCEPT ![b] = <<>>] /\ T2 = [T EXCEPT ![w] = Idle] /\ deleting' = D \ {b}
  BY <1>1, <1>2 DEF CleanupEnd
<1>6. /\ I2[b] = <<>> /\ \A a \in Blueprint : a # b => I2[a] = I[a]
      /\ T2[w].op = "none" /\ \A v \in Worker : v # w => T2[v] = T[v]
  BY <1>3, <1>4, <1>5 DEF Idle
<1>7. \A a \in Blueprint : \A x : Owns(T2, I2, a, x) => Owns(T, I, a, x)
  <2> SUFFICES ASSUME NEW a \in Blueprint, NEW x, Owns(T2, I2, a, x) PROVE Owns(T, I, a, x)
    OBVIOUS
  <2>1. CASE a # b
    BY <1>1, <1>2, <1>3, <2>1, EndOwns
  <2>2. CASE a = b
    <3>1. Contains(I2[b], x)
      BY <1>1, <1>2, <1>3, <2>2, EndOwns
    <3> QED BY <1>6, <3>1 DEF Contains
  <2> QED BY <2>1, <2>2
<1>8. NotShared(T2, I2) /\ Marked(R, T2, I2)
  BY <1>3, <1>7, MarkedKept DEF Held
<1>9. Picked(R, T2)
  <2>1. \A v \in Worker : T2[v].op = "assign" => T2[v] = T[v]
    BY <1>6
  <2> QED BY <1>3, <2>1, PickedKept DEF Held
<1>10. Once(T2, I2)
  BY <1>3, <1>6 DEF Held, Once, IsInjective
<1>11. Exact(T2, D \ {b})
  <2>1. CleansUp(T[w], b) /\ ~CleansUp(T2[w], b)
    BY <1>2, <1>4, <1>6 DEF CleansUp
  <2>2. ASSUME NEW v \in Worker, v # w PROVE ~CleansUp(T2[v], b)
    <3>1. CleansUp(T[v], b) => WorksOn(T[v], b)
      BY DEF CleansUp, WorksOn
    <3>2. WorksOn(T[w], b)
      BY <2>1 DEF CleansUp, WorksOn
    <3>3. T2[v] = T[v]
      BY <1>6, <2>2
    <3> QED BY <1>3, <1>4, <2>2, <3>1, <3>2, <3>3 DEF Staff
  <2>3. ~Cleaned(T2, b)
    BY <2>1, <2>2 DEF Cleaned
  <2>4. ASSUME NEW a \in Blueprint, a # b, NEW v \in Worker
        PROVE  CleansUp(T2[v], a) <=> CleansUp(T[v], a)
    <3>1. CASE v = w
      BY <1>2, <1>6, <2>4, <3>1 DEF CleansUp
    <3>2. CASE v # w
      BY <1>6, <3>2
    <3> QED BY <3>1, <3>2
  <2>5. \A a \in Blueprint : a # b => (Cleaned(T2, a) <=> Cleaned(T, a))
    BY <2>4 DEF Cleaned
  <2>6. \A a \in Blueprint : Cleaned(T2, a) <=> Cleaned(T, a) /\ a # b
    BY <2>3, <2>5
  <2> QED BY <1>3, <2>6 DEF Held, Exact
<1>12. Held(R, T2, I2, D \ {b})
  BY <1>8, <1>9, <1>10, <1>11 DEF Held
<1> QED BY <1>1, <1>5, <1>12 DEF CleanupEnd

\* Nobody is in deletion when the process stops, and what a provider has saved it still has.
LEMMA HeldStop ==
    ASSUME Careful, Order, HeldNow, Stop
    PROVE  Held(reserved_ranges', task', reserved_ips', deleting')
<1>1. PICK R, T, I, R2, T2, I2, D : /\ R = reserved_ranges /\ T = task /\ I = reserved_ips
                                    /\ R2 = reserved_ranges' /\ T2 = task' /\ I2 = reserved_ips'
                                    /\ D = deleting
  OBVIOUS
<1>2. /\ Held(R, T, I, D) /\ R2 = saved.ranges /\ I2 = saved.ips /\ deleting' = D
      /\ Documents(saved, R, I) /\ "stop" \in Hazard
  BY <1>1 DEF HeldNow, Stop
<1>3. \A v \in Worker : T[v].op # "cleanup" /\ T2[v].op = "none"
  BY <1>1 DEF Stop, Careful, Idle
<1>4. \A a : ~Cleaned(T, a) /\ ~Cleaned(T2, a) /\ \A v \in Worker : ~CleansUp(T2[v], a)
  BY <1>3 DEF Cleaned, CleansUp
<1>5. \A a \in Blueprint : \A x : Owns(T2, I2, a, x) => Owns(T, I, a, x)
  BY <1>2, <1>4 DEF Owns, Documents
<1>6. \A i \in DOMAIN R : \A x \in R[i].used : \A b \in Blueprint :
         Owns(T2, I2, b, x) => \E j \in DOMAIN R2 : R2[j].owner = R[i].owner /\ x \in R2[j].used
  <2> SUFFICES ASSUME NEW i \in DOMAIN R, NEW x \in R[i].used
               PROVE  \E j \in DOMAIN R2 : R2[j].owner = R[i].owner /\ x \in R2[j].used
    OBVIOUS
  <2>1. PICK j \in DOMAIN R2 : R2[j] = R[i]
    BY <1>2 DEF Documents
  <2> QED BY <2>1
<1>7. NotShared(T2, I2) /\ Marked(R2, T2, I2)
  <2>1. NotShared(T, I) /\ Marked(R, T, I)
    BY <1>2 DEF Held
  <2> QED BY <1>5, <1>6, <2>1, MarkedKept
<1>8. Once(T2, I2)
  BY <1>2, <1>3 DEF Once, Documents
<1>9. Picked(R2, T2)
  BY <1>3 DEF Picked
<1>10. Exact(T2, D)
  BY <1>2, <1>4 DEF Held, Exact
<1>11. Held(R2, T2, I2, D)
  BY <1>7, <1>8, <1>9, <1>10 DEF Held
<1> QED BY <1>1, <1>2, <1>11
-----------------------------------------------------------------------------
\* The document of the topology has every range, before and after the step.
LEMMA DocumentsSaved ==
    ASSUME Base, Base', Documents(saved, reserved_ranges, reserved_ips), SavesTopology,
           "stop" \in Hazard => \A b \in Blueprint : \A x :
              Contains(reserved_ips[b], x) => Contains(reserved_ips'[b], x)
    PROVE  Documents(saved', reserved_ranges', reserved_ips')
<1>1. PICK S2, R2, I2 : S2 = saved' /\ R2 = reserved_ranges' /\ I2 = reserved_ips'
  OBVIOUS
<1>2. S2.ranges = R2 /\ S2.ips = saved.ips
  BY <1>1, SavedFacts DEF Base
<1>3. Documents(S2, R2, I2)
  BY <1>1, <1>2 DEF Documents
<1> QED BY <1>1, <1>3

\* Ranges go from memory only, and the saved addresses are still there.
LEMMA DocumentsKept ==
    ASSUME NEW S, NEW R, NEW I, Documents(S, R, I), NEW S2, S2.ranges = S.ranges, NEW R2, NEW I2,
           \A i \in DOMAIN R2 : \E j \in DOMAIN R : R2[i] = R[j],
           "stop" \in Hazard => \A b \in Blueprint :
              IsInjective(S2.ips[b]) /\ \A x : Contains(S2.ips[b], x) => Contains(I2[b], x)
    PROVE  Documents(S2, R2, I2)
<1>1. ASSUME NEW i \in DOMAIN R2 PROVE \E j \in DOMAIN S2.ranges : S2.ranges[j] = R2[i]
  <2>1. PICK k \in DOMAIN R : R2[i] = R[k]
    OBVIOUS
  <2>2. PICK j \in DOMAIN S.ranges : S.ranges[j] = R[k]
    BY DEF Documents
  <2> QED BY <2>1, <2>2
<1> QED BY <1>1 DEF Documents

\* Nothing of it changes.
LEMMA DocumentsSame ==
    ASSUME Documents(saved, reserved_ranges, reserved_ips),
           UNCHANGED <<saved, reserved_ranges, reserved_ips>>
    PROVE  Documents(saved', reserved_ranges', reserved_ips')
<1> QED OBVIOUS

\* A blueprint's saved addresses are replaced by those it has after the step.
LEMMA DocumentsIps ==
    ASSUME Base, Documents(saved, reserved_ranges, reserved_ips), NEW b \in Blueprint, NEW ips,
           IsInjective(ips), ips = reserved_ips'[b], saved' = [saved EXCEPT !.ips[b] = ips],
           \A a \in Blueprint : a # b => reserved_ips'[a] = reserved_ips[a],
           UNCHANGED reserved_ranges
    PROVE  Documents(saved', reserved_ranges', reserved_ips')
<1>1. PICK S, S2, R, I, I2 : /\ S = saved /\ S2 = saved' /\ R = reserved_ranges
                             /\ I = reserved_ips /\ I2 = reserved_ips'
  OBVIOUS
<1>2. S \in SavedType /\ S2 = [S EXCEPT !.ips[b] = ips]
  BY <1>1 DEF Base
<1>3. S2.ranges = S.ranges /\ \A a \in Blueprint : S2.ips[a] = IF a = b THEN ips ELSE S.ips[a]
  BY <1>2 DEF SavedType
<1>4. "stop" \in Hazard => \A a \in Blueprint :
         IsInjective(S2.ips[a]) /\ \A x : Contains(S2.ips[a], x) => Contains(I2[a], x)
  <2> SUFFICES ASSUME "stop" \in Hazard, NEW a \in Blueprint
               PROVE  IsInjective(S2.ips[a])
                      /\ \A x : Contains(S2.ips[a], x) => Contains(I2[a], x)
    OBVIOUS
  <2>1. CASE a = b
    BY <1>1, <1>3, <2>1
  <2>2. CASE a # b
    <3>1. S2.ips[a] = S.ips[a] /\ I2[a] = I[a]
      BY <1>1, <1>3, <2>2
    <3> QED BY <1>1, <3>1 DEF Documents
  <2> QED BY <2>1, <2>2
<1>5. \A i \in DOMAIN R : \E j \in DOMAIN S2.ranges : S2.ranges[j] = R[i]
  BY <1>1, <1>3 DEF Documents
<1>6. Documents(S2, R, I2)
  BY <1>4, <1>5 DEF Documents
<1> QED BY <1>1, <1>6

\* Every step keeps the documents ahead in ranges and behind in addresses.
LEMMA DocumentsInductive ==
    ASSUME Careful, Order, Order', HeldNow, [Next]_vars
    PROVE  Documents(saved', reserved_ranges', reserved_ips')
<1>1. /\ Base /\ Base' /\ Documents(saved, reserved_ranges, reserved_ips)
      /\ \A b \in Blueprint : IsInjective(reserved_ips[b])
      /\ reserved_ips \in [Blueprint -> Seq(Address)]
  BY DEF Order, HeldNow, Held, Once, Base
<1>2. ASSUME SavesTopology, UNCHANGED reserved_ips
      PROVE  Documents(saved', reserved_ranges', reserved_ips')
  BY <1>1, <1>2, DocumentsSaved
<1>3. ASSUME NEW p \in PoolRequest, AddPool(p) \/ RemovePool(p.name)
      PROVE  Documents(saved', reserved_ranges', reserved_ips')
  BY <1>2, <1>3 DEF AddPool, RemovePool, SavesTopology
<1>4. ASSUME NEW w \in Worker, NEW c \in Cluster, NEW n \in 1..MaxLength, ReserveFind(w, c, n)
      PROVE  Documents(saved', reserved_ranges', reserved_ips')
  BY <1>1, <1>4, DocumentsSame DEF ReserveFind
<1>5. ASSUME NEW n \in RangeName, NEW c \in Cluster, ReleaseRange(n, c)
      PROVE  Documents(saved', reserved_ranges', reserved_ips')
  <2>1. CASE SavesTopology
    BY <1>2, <1>5, <2>1 DEF ReleaseRange
  <2>2. CASE UNCHANGED saved
    <3>1. PICK S, R, I, R2 : /\ S = saved /\ R = reserved_ranges /\ I = reserved_ips
                             /\ R2 = reserved_ranges'
      OBVIOUS
    <3>2. PICK i \in DOMAIN R : R2 = RemoveAt(R, i)
      BY <1>1, <1>5, <3>1, ReleaseFacts
    <3>3. R \in Seq(RangeType) /\ i \in 1..Len(R)
      BY <1>1, <3>1, <3>2 DEF Base, Shape
    <3>4. \A k \in DOMAIN R2 : \E a \in DOMAIN R : R2[k] = R[a]
      BY <3>2, <3>3, RemoveAtItems
    <3>5. Documents(S, R, I)
      BY <1>1, <3>1
    <3>6. Documents(S, R2, I)
      BY <3>4, <3>5, DocumentsKept DEF Documents
    <3> QED BY <1>5, <2>2, <3>1, <3>6 DEF ReleaseRange
  <2> QED BY <1>5, <2>1, <2>2 DEF ReleaseRange, SavesTopology
<1>6. ASSUME NEW w \in Worker, NEW b \in Blueprint, AssignPick(w, b) \/ CleanupStart(w, b)
      PROVE  Documents(saved', reserved_ranges', reserved_ips')
  BY <1>1, <1>6, DocumentsSame DEF AssignPick, CleanupStart
<1>7. ASSUME NEW w \in Worker, ReserveCommit(w) \/ CleanupStep(w)
      PROVE  Documents(saved', reserved_ranges', reserved_ips')
  BY <1>2, <1>7 DEF ReserveCommit, CleanupStep, SavesTopology
<1>8. ASSUME NEW w \in Worker, AssignMark(w)
      PROVE  Documents(saved', reserved_ranges', reserved_ips')
  <2>1. PICK b, ip, I, I2 : /\ b = task[w].blueprint /\ ip = task[w].ip
                            /\ I = reserved_ips /\ I2 = reserved_ips'
    OBVIOUS
  <2>2. b \in Blueprint /\ ip \in Address
    BY <1>1, <1>8, <2>1, TaskFacts DEF AssignMark, Base
  <2>3. I \in [Blueprint -> Seq(Address)] /\ I2 = [I EXCEPT ![b] = Append(@, ip)]
    BY <1>1, <1>8, <2>1 DEF AssignMark
  <2>4. ASSUME NEW a \in Blueprint, NEW x, Contains(I[a], x) PROVE Contains(I2[a], x)
    <3>1. CASE a = b
      <4>1. I2[a] = Append(I[a], ip) /\ I[a] \in Seq(Address)
        BY <2>2, <2>3, <3>1
      <4> QED BY <2>2, <2>4, <4>1, AppendContains
    <3>2. CASE a # b
      BY <2>3, <2>4, <3>2
    <3> QED BY <3>1, <3>2
  <2>5. \A a \in Blueprint : \A x : Contains(reserved_ips[a], x) => Contains(reserved_ips'[a], x)
    BY <2>1, <2>4
  <2>6. SavesTopology
    BY <1>8 DEF AssignMark, SavesTopology
  <2> QED BY <1>1, <2>5, <2>6, DocumentsSaved
<1>9. ASSUME NEW w \in Worker, CleanupFail(w)
      PROVE  Documents(saved', reserved_ranges', reserved_ips')
  BY <1>1, <1>9, DocumentsSame DEF CleanupFail
<1>10. ASSUME NEW w \in Worker, CleanupEnd(w)
       PROVE  Documents(saved', reserved_ranges', reserved_ips')
  <2>1. PICK b : b = task[w].blueprint
    OBVIOUS
  <2>2. b \in Blueprint
    BY <1>1, <1>10, <2>1, TaskFacts DEF CleanupEnd, Base
  <2>3. /\ reserved_ips' = [reserved_ips EXCEPT ![b] = <<>>]
        /\ saved' = [saved EXCEPT !.ips[b] = <<>>] /\ UNCHANGED reserved_ranges
    BY <1>10, <2>1 DEF CleanupEnd
  <2>4. reserved_ips'[b] = <<>> /\ \A a \in Blueprint : a # b => reserved_ips'[a] = reserved_ips[a]
    BY <1>1, <2>2, <2>3
  <2>5. IsInjective(<<>>)
    BY DEF IsInjective
  <2> QED BY <1>1, <2>2, <2>3, <2>4, <2>5, DocumentsIps
<1>11. ASSUME NEW b \in Blueprint, SaveProvider(b)
       PROVE  Documents(saved', reserved_ranges', reserved_ips')
  <2>1. /\ UNCHANGED <<reserved_ranges, reserved_ips>>
        /\ saved' = [saved EXCEPT !.ips[b] = reserved_ips[b]]
    BY <1>11 DEF SaveProvider
  <2> QED BY <1>1, <2>1, DocumentsIps
<1>12. ASSUME NEW b \in Blueprint, NEW ip \in Address, ReleaseIp(b, ip)
       PROVE  Documents(saved', reserved_ranges', reserved_ips')
  <2>1. "stop" \notin Hazard /\ SavesTopology
    BY <1>12 DEF ReleaseIp, Careful, SavesTopology
  <2> QED BY <1>1, <2>1, DocumentsSaved
<1>13. CASE Stop
  <2>1. PICK S, S2, R2, I2 : /\ S = saved /\ S2 = saved' /\ R2 = reserved_ranges'
                             /\ I2 = reserved_ips'
    OBVIOUS
  <2>2. S2 = S /\ R2 = S.ranges /\ I2 = S.ips
    BY <1>13, <2>1 DEF Stop
  <2>3. Documents(S2, R2, I2)
    BY <1>1, <1>13, <2>1, <2>2 DEF Documents, Stop
  <2> QED BY <2>1, <2>3
<1>14. CASE UNCHANGED vars
  BY <1>1, <1>14, DocumentsSame DEF vars
<1> QED
  BY <1>3, <1>4, <1>5, <1>6, <1>7, <1>8, <1>9, <1>10, <1>11, <1>12, <1>13, <1>14 DEF Next
-----------------------------------------------------------------------------
\* At first no blueprint has an address.
LEMMA HeldInit == Init => HeldNow
<1> SUFFICES ASSUME Init PROVE HeldNow
  OBVIOUS
<1>1. PICK R, T, I, D : R = reserved_ranges /\ T = task /\ I = reserved_ips /\ D = deleting
  OBVIOUS
<1>2. R = <<>> /\ D = {} /\ \A b \in Blueprint : I[b] = <<>> /\ saved.ips[b] = <<>>
  BY <1>1 DEF Init
<1>3. \A w \in Worker : T[w].op = "none"
  BY <1>1 DEF Init, Idle
<1>4. \A b, x : ~Contains(<<>>, x) /\ IsInjective(<<>>)
  BY DEF Contains, IsInjective
<1>5. \A b : ~Cleaned(T, b)
  BY <1>3 DEF Cleaned, CleansUp
<1>6. \A b \in Blueprint : \A x : ~Owns(T, I, b, x)
  BY <1>2, <1>3, <1>4 DEF Owns, CleansUp
<1>7. Exact(T, D) /\ Once(T, I) /\ NotShared(T, I) /\ Marked(R, T, I) /\ Picked(R, T)
  BY <1>2, <1>3, <1>4, <1>5, <1>6 DEF Exact, Once, NotShared, Marked, Picked
<1>8. Documents(saved, R, I)
  BY <1>2, <1>4 DEF Documents
<1> QED BY <1>1, <1>7, <1>8 DEF HeldNow, Held

\* Every step keeps Held and the documents.
LEMMA HeldInductive ==
    ASSUME Careful, Order, Order', Staff(task, reserved_ips), HeldNow, [Next]_vars
    PROVE  HeldNow'
<1> DEFINE Goal == Held(reserved_ranges', task', reserved_ips', deleting')
<1>1. /\ Base /\ task \in [Worker -> TaskType]
      /\ Held(reserved_ranges, task, reserved_ips, deleting)
  BY DEF Order, Base, HeldNow
<1>2. ASSUME NEW p \in PoolRequest, AddPool(p) \/ RemovePool(p.name) PROVE Goal
  BY <1>1, <1>2, HeldSame DEF AddPool, RemovePool
<1>3. ASSUME NEW w \in Worker, NEW c \in Cluster, NEW n \in 1..MaxLength, ReserveFind(w, c, n)
      PROVE  Goal
  <2>1. PICK t : t = [op |-> "reserve", cluster |-> c, ips |-> SubSeq(AvailableIps, 1, n)]
    OBVIOUS
  <2>2. t.op \notin {"assign", "cleanup"} /\ task[w].op # "cleanup"
    BY <1>3, <2>1 DEF ReserveFind, Idle
  <2>3. task' = [task EXCEPT ![w] = t] /\ UNCHANGED <<reserved_ranges, reserved_ips, deleting>>
    BY <1>3, <2>1 DEF ReserveFind
  <2> QED BY <1>1, <2>2, <2>3, HeldTask
<1>4. ASSUME NEW w \in Worker, ReserveCommit(w) PROVE Goal
  BY <1>4, HeldCommit
<1>5. ASSUME NEW n \in RangeName, NEW c \in Cluster, ReleaseRange(n, c) PROVE Goal
  BY <1>5, HeldRelease
<1>6. ASSUME NEW w \in Worker, NEW b \in Blueprint, AssignPick(w, b) PROVE Goal
  BY <1>6, HeldPick
<1>7. ASSUME NEW w \in Worker, AssignMark(w) PROVE Goal
  BY <1>7, HeldMark
<1>8. ASSUME NEW b \in Blueprint, SaveProvider(b) PROVE Goal
  BY <1>1, <1>8, HeldSame DEF SaveProvider
<1>9. ASSUME NEW b \in Blueprint, NEW ip \in Address, ReleaseIp(b, ip) PROVE Goal
  BY <1>9, HeldReleaseIp
<1>10. ASSUME NEW w \in Worker, NEW b \in Blueprint, CleanupStart(w, b) PROVE Goal
  BY <1>10, HeldStart
<1>11. ASSUME NEW w \in Worker, CleanupStep(w) PROVE Goal
  BY <1>11, HeldStep
<1>12. ASSUME NEW w \in Worker, CleanupFail(w) PROVE Goal
  BY <1>12, HeldNeverFails
<1>13. ASSUME NEW w \in Worker, CleanupEnd(w) PROVE Goal
  BY <1>13, HeldEnd
<1>14. ASSUME Stop PROVE Goal
  BY <1>14, HeldStop
<1>15. ASSUME UNCHANGED vars PROVE Goal
  BY <1>1, <1>15, HeldSame DEF vars
<1> HIDE DEF Goal
<1>16. Goal
  BY <1>2, <1>3, <1>4, <1>5, <1>6, <1>7, <1>8, <1>9, <1>10, <1>11, <1>12, <1>13, <1>14, <1>15
  DEF Next
<1>17. Documents(saved', reserved_ranges', reserved_ips')
  BY DocumentsInductive
<1> QED BY <1>16, <1>17 DEF HeldNow, Goal

\* Held and Order hold in every reachable state.
LEMMA HeldAlways == Careful => (Spec => [](Order /\ HeldNow))
<1> DEFINE All == Order /\ Staff(task, reserved_ips) /\ HeldNow
<1> SUFFICES ASSUME Careful PROVE Spec => [](Order /\ HeldNow)
  OBVIOUS
<1>1. Init => All
  BY OrderInit, StaffInit, HeldInit
<1>2. All /\ [Next]_vars => All'
  <2> SUFFICES ASSUME All, [Next]_vars PROVE All'
    OBVIOUS
  <2>1. Order'
    BY OrderInductive DEF Careful
  <2>2. Staff(task', reserved_ips')
    BY StaffInductive DEF Order
  <2>3. HeldNow'
    BY <2>1, HeldInductive
  <2> QED BY <2>1, <2>2, <2>3
<1>3. All => Order /\ HeldNow
  OBVIOUS
<1> QED BY <1>1, <1>2, <1>3, PTL DEF Spec

\* What a blueprint holds it answers for: nobody cleans up a blueprint outside its deletion.
LEMMA HeldIsOwned ==
    ASSUME Order, HeldNow, NEW b \in Blueprint, NEW ip \in Holds(b)
    PROVE  b \notin deleting /\ Owns(task, reserved_ips, b, ip)
<1>1. b \notin deleting /\ ip \in ToSet(reserved_ips[b])
  BY DEF Holds
<1>2. reserved_ips[b] \in Seq(Address)
  BY DEF Order, Base
<1>3. Contains(reserved_ips[b], ip)
  BY <1>1, <1>2 DEF ToSet, Contains
<1>4. ~Cleaned(task, b)
  BY <1>1 DEF HeldNow, Held, Exact
<1> QED BY <1>1, <1>3, <1>4 DEF Owns

\* An address a blueprint has is marked as used in a range of the blueprint's cluster, also
\* when ranges are released in the name of another cluster, deletions are forced and the
\* process stops between the saves of the two documents.
THEOREM HeldStaysUsed == Careful => (Spec => []HeldIsUsed)
<1> SUFFICES ASSUME Careful PROVE Spec => []HeldIsUsed
  OBVIOUS
<1>1. Order /\ HeldNow => HeldIsUsed
  <2> SUFFICES ASSUME Order, HeldNow, NEW b \in Blueprint, NEW ip \in Holds(b)
               PROVE  \E i \in DOMAIN reserved_ranges :
                         reserved_ranges[i].owner = ClusterOf[b] /\ ip \in reserved_ranges[i].used
    BY DEF HeldIsUsed
  <2>1. Owns(task, reserved_ips, b, ip)
    BY HeldIsOwned
  <2> QED BY <2>1 DEF HeldNow, Held, Marked
<1>2. Spec => [](Order /\ HeldNow)
  BY HeldAlways
<1> QED BY <1>1, <1>2, PTL

\* Under the same conditions an address is with one blueprint at most, and once: also an
\* address that is being given back is not given out again before.
THEOREM AddressesStayApart == Careful => (Spec => []NoAddressShared)
<1> SUFFICES ASSUME Careful PROVE Spec => []NoAddressShared
  OBVIOUS
<1>1. Order /\ HeldNow => NoAddressShared
  <2> SUFFICES ASSUME Order, HeldNow PROVE NoAddressShared
    OBVIOUS
  <2>1. \A b \in Blueprint \ deleting : IsInjective(reserved_ips[b])
    BY DEF HeldNow, Held, Once
  <2>2. ASSUME NEW a \in Blueprint, NEW b \in Blueprint, a # b PROVE Holds(a) \cap Holds(b) = {}
    <3> SUFFICES ASSUME NEW ip \in Holds(a), ip \in Holds(b) PROVE FALSE
      OBVIOUS
    <3>1. Owns(task, reserved_ips, a, ip) /\ Owns(task, reserved_ips, b, ip)
      BY HeldIsOwned
    <3> QED BY <2>2, <3>1 DEF HeldNow, Held, NotShared
  <2> QED BY <2>1, <2>2 DEF NoAddressShared
<1>2. Spec => [](Order /\ HeldNow)
  BY HeldAlways
<1> QED BY <1>1, <1>2, PTL
=============================================================================
