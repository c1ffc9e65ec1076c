--------------------------- MODULE KubeAccessProofs ---------------------------
(***************************************************************************)
(* Accounts and rights in the namespaces of a cluster, for any number of   *)
(* namespaces, users and workers, whatever calls of the API fail.          *)
(*                                                                         *)
(* Reached says what a call that has come to its k-th step may rely on:    *)
(* what it has made or looked up is there, unless the namespace is absent. *)
(* The steps that are left then find the namespace missing and raise: it   *)
(* does not come back while the call runs.  That is ~Overlap, the          *)
(* hypothesis on the rights; with it dropped, the look-up of an account    *)
(* may have seen the earlier namespace of the name.                        *)
(***************************************************************************)
EXTENDS KubeAccess, SequenceTheorems, TLAPS

\* There is something to name, and the bounds are numbers.
Bounded == Namespace # {} /\ User # {} /\ MaxCreations \in Nat /\ MaxFaults \in Nat

\* The steps of the operations, and what is left of them from a step on.
LEMMA StepsOf ==
    /\ Steps("create_service_account") = <<"account">>
    /\ Steps("create_admin_sa") =
          <<"account", "role", "subject", "rolefor", "bind", "owner", "secret", "read">>
    /\ Steps("give_admin_rights") = <<"subject", "rolefor", "bind">>
    /\ Steps("create_secret") = <<"owner", "secret">>
    /\ Steps("kubectl_user") = <<"request", "approve">>
BY DEF Steps

StepNames == {"account", "role", "subject", "rolefor", "bind", "owner", "secret", "read",
              "request", "approve"}

LEMMA StepsAreSeq ==
    ASSUME NEW op \in Operations
    PROVE  Steps(op) \in Seq(StepNames) /\ Len(Steps(op)) \in 1..8
<1>1. CASE op = "create_service_account"
  <2>1. <<"account">> \in Seq(StepNames)
    BY DEF StepNames
  <2>2. Len(<<"account">>) = 1
    OBVIOUS
  <2>3. Steps(op) = Steps("create_service_account")
    BY <1>1
  <2>4. PICK s : s = <<"account">>
    OBVIOUS
  <2>5. s \in Seq(StepNames) /\ Len(s) \in 1..8
    BY <2>1, <2>2, <2>4
  <2> QED BY <2>3, <2>4, <2>5, StepsOf
<1>2. CASE op = "create_admin_sa"
  <2>1. <<"account", "role", "subject", "rolefor", "bind", "owner", "secret", "read">> \in Seq(StepNames)
    BY DEF StepNames
  <2>2. Len(<<"account", "role", "subject", "rolefor", "bind", "owner", "secret", "read">>) = 8
    OBVIOUS
  <2>3. Steps(op) = Steps("create_admin_sa")
    BY <1>2
  <2>4. PICK s : s = <<"account", "role", "subject", "rolefor", "bind", "owner", "secret", "read">>
    OBVIOUS
  <2>5. s \in Seq(StepNames) /\ Len(s) \in 1..8
    BY <2>1, <2>2, <2>4
  <2> QED BY <2>3, <2>4, <2>5, StepsOf
<1>3. CASE op = "give_admin_rights"
  <2>1. <<"subject", "rolefor", "bind">> \in Seq(StepNames)
    BY DEF StepNames
  <2>2. Len(<<"subject", "rolefor", "bind">>) = 3
    OBVIOUS
  <2>3. Steps(op) = Steps("give_admin_rights")
    BY <1>3
  <2>4. PICK s : s = <<"subject", "rolefor", "bind">>
    OBVIOUS
  <2>5. s \in Seq(StepNames) /\ Len(s) \in 1..8
    BY <2>1, <2>2, <2>4
  <2> QED BY <2>3, <2>4, <2>5, StepsOf
<1>4. CASE op = "create_secret"
  <2>1. <<"owner", "secret">> \in Seq(StepNames)
    BY DEF StepNames
  <2>2. Len(<<"owner", "secret">>) = 2
    OBVIOUS
  <2>3. Steps(op) = Steps("create_secret")
    BY <1>4
  <2>4. PICK s : s = <<"owner", "secret">>
    OBVIOUS
  <2>5. s \in Seq(StepNames) /\ Len(s) \in 1..8
    BY <2>1, <2>2, <2>4
  <2> QED BY <2>3, <2>4, <2>5, StepsOf
<1>5. CASE op = "kubectl_user"
  <2>1. <<"request", "approve">> \in Seq(StepNames)
    BY DEF StepNames
  <2>2. Len(<<"request", "approve">>) = 2
    OBVIOUS
  <2>3. Steps(op) = Steps("kubectl_user")
    BY <1>5
  <2>4. PICK s : s = <<"request", "approve">>
    OBVIOUS
  <2>5. s \in Seq(StepNames) /\ Len(s) \in 1..8
    BY <2>1, <2>2, <2>4
  <2> QED BY <2>3, <2>4, <2>5, StepsOf
<1> QED BY <1>1, <1>2, <1>3, <1>4, <1>5 DEF Operations

From(op, k) == SubSeq(Steps(op), k, Len(Steps(op)))

LEMMA FromFacts ==
    ASSUME NEW op \in Operations, NEW k \in 1..Len(Steps(op))
    PROVE  /\ From(op, k) \in Seq(StepNames) /\ From(op, k) # <<>>
           /\ Len(From(op, k)) = Len(Steps(op)) - k + 1
           /\ Head(From(op, k)) = Steps(op)[k]
           /\ k < Len(Steps(op)) => Tail(From(op, k)) = From(op, k + 1)
<1> DEFINE s == Steps(op)
<1>1. s \in Seq(StepNames) /\ k \in 1..Len(s)
  BY StepsAreSeq
<1>2. From(op, k) = SubSeq(s, k, Len(s)) /\ From(op, k + 1) = SubSeq(s, k + 1, Len(s))
  BY DEF From
<1> HIDE DEF s
<1>3. /\ SubSeq(s, k, Len(s)) \in Seq(StepNames) /\ Len(SubSeq(s, k, Len(s))) = Len(s) - k + 1
      /\ \A i \in 1..(Len(s) - k + 1) : SubSeq(s, k, Len(s))[i] = s[k + i - 1]
  BY <1>1
<1>4. SubSeq(s, k, Len(s)) # <<>> /\ Head(SubSeq(s, k, Len(s))) = s[k]
  <2>1. PICK t : t = SubSeq(s, k, Len(s))
    OBVIOUS
  <2>2. t \in Seq(StepNames) /\ Len(t) > 0 /\ t[1] = s[k]
    BY <1>1, <1>3, <2>1
  <2>3. t # <<>> /\ Head(t) = t[1]
    BY <2>2
  <2> QED BY <2>1, <2>2, <2>3
<1>5. ASSUME k < Len(s) PROVE Tail(SubSeq(s, k, Len(s))) = SubSeq(s, k + 1, Len(s))
  <2>1. PICK a, b : a = Tail(SubSeq(s, k, Len(s))) /\ b = SubSeq(s, k + 1, Len(s))
    OBVIOUS
  <2>2. /\ b \in Seq(StepNames) /\ Len(b) = Len(s) - k
        /\ \A i \in 1..(Len(s) - k) : b[i] = s[k + i]
    BY <1>1, <1>5, <2>1
  <2>3. /\ a \in Seq(StepNames) /\ Len(a) = Len(s) - k
        /\ \A i \in 1..(Len(s) - k) : a[i] = SubSeq(s, k, Len(s))[i + 1]
    BY <1>1, <1>3, <1>4, <2>1
  <2>4. ASSUME NEW i \in 1..Len(a) PROVE a[i] = b[i]
    <3>1. i \in 1..(Len(s) - k) /\ i + 1 \in 1..(Len(s) - k + 1) /\ k + (i + 1) - 1 = k + i
      BY <1>1, <2>3, <2>4
    <3>2. a[i] = s[k + (i + 1) - 1]
      BY <1>3, <2>3, <3>1
    <3> QED BY <2>2, <3>1, <3>2
  <2> QED BY <2>1, <2>2, <2>3, <2>4, SeqEqual
<1> QED BY <1>1, <1>2, <1>3, <1>4, <1>5 DEF s

\* Where a step stands in the operations.
LEMMA Places ==
    ASSUME NEW op \in Operations, NEW k \in 1..Len(Steps(op)), NEW s, s = Steps(op)[k]
    PROVE  /\ s = "account" => op \in {"create_service_account", "create_admin_sa"} /\ k = 1
           /\ s = "role" => op = "create_admin_sa" /\ k = 2
           /\ s = "rolefor" => (op = "create_admin_sa" /\ k = 4) \/ (op = "give_admin_rights" /\ k = 2)
           /\ s = "subject" => (op = "create_admin_sa" /\ k = 3) \/ (op = "give_admin_rights" /\ k = 1)
           /\ s = "owner" => (op = "create_admin_sa" /\ k = 6) \/ (op = "create_secret" /\ k = 1)
           /\ s = "bind" => (op = "create_admin_sa" /\ k = 5) \/ (op = "give_admin_rights" /\ k = 3)
           /\ s = "secret" => (op = "create_admin_sa" /\ k = 7) \/ (op = "create_secret" /\ k = 2)
           /\ s = "read" => op = "create_admin_sa" /\ k = 8
           /\ s \in {"request", "approve"} => op = "kubectl_user"
           /\ op = "create_admin_sa" /\ k = Len(Steps(op)) => s = "read"
<1>1. CASE op = "create_service_account"
  <2>1. Steps(op) = <<"account">>
    BY <1>1, StepsOf
  <2>2. Steps(op)[1] = "account" /\ k = 1
    BY <2>1
  <2> QED BY <1>1, <2>2
<1>2. CASE op = "create_admin_sa"
  <2>1. Steps(op) = <<"account", "role", "subject", "rolefor", "bind", "owner", "secret", "read">>
    BY <1>2, StepsOf
  <2>2. k \in 1..8 /\ Len(Steps(op)) = 8
    BY <2>1
  <2>3. /\ k = 1 => s = "account"
        /\ k = 2 => s = "role"
        /\ k = 3 => s = "subject"
        /\ k = 4 => s = "rolefor"
        /\ k = 5 => s = "bind"
        /\ k = 6 => s = "owner"
        /\ k = 7 => s = "secret"
        /\ k = 8 => s = "read"
    BY <2>1
  <2>4. k = 1 \/ k = 2 \/ k = 3 \/ k = 4 \/ k = 5 \/ k = 6 \/ k = 7 \/ k = 8
    BY <2>2
  <2>5. Len(Steps(op)) = 8
    BY <2>2
  <2> QED BY <1>2, <2>3, <2>4, <2>5
<1>3. CASE op = "give_admin_rights"
  <2>1. Steps(op) = <<"subject", "rolefor", "bind">>
    BY <1>3, StepsOf
  <2>2. k \in 1..3
    BY <2>1
  <2>3. (k = 1 => s = "subject") /\ (k = 2 => s = "rolefor") /\ (k = 3 => s = "bind")
    BY <2>1
  <2> QED BY <1>3, <2>2, <2>3
<1>4. CASE op = "create_secret"
  <2>1. Steps(op) = <<"owner", "secret">>
    BY <1>4, StepsOf
  <2>2. k \in 1..2
    BY <2>1
  <2>3. (k = 1 => s = "owner") /\ (k = 2 => s = "secret")
    BY <2>1
  <2> QED BY <1>4, <2>2, <2>3
<1>5. CASE op = "kubectl_user"
  <2>1. Steps(op) = <<"request", "approve">>
    BY <1>5, StepsOf
  <2>2. k \in 1..2
    BY <2>1
  <2>3. (k = 1 => s = "request") /\ (k = 2 => s = "approve")
    BY <2>1
  <2> QED BY <1>5, <2>2, <2>3
<1> QED BY <1>1, <1>2, <1>3, <1>4, <1>5 DEF Operations
-----------------------------------------------------------------------------
\* What a call that has come to its k-th step has made or looked up.
Reached(c, k) ==
    ~Overlap /\ ns[c.n] # "absent" =>
        /\ c.op \in {"create_admin_sa", "give_admin_rights", "create_secret"} /\ k > 1 =>
              <<c.n, c.u>> \in accounts
        /\ c.op = "create_admin_sa" => /\ k > 2 => c.n \in roles
                                       /\ k > 5 => <<c.n, c.u>> \in bindings
                                       /\ k > 7 => <<c.n, c.u>> \in secrets

Calls == [op : Operations \cup {"none"}, todo : Seq(StepNames), n : Namespace, u : User]
Going(c) == /\ c \in Calls /\ c.op \in Operations
            /\ \E k \in 1..Len(Steps(c.op)) : c.todo = From(c.op, k) /\ Reached(c, k)
Underway == /\ call \in [Worker -> Calls]
            /\ \A w \in Worker, c \in Calls : c = call[w] => c = Free \/ Going(c)

\* Accounts that were returned, and rights, as they stay until the namespace goes.
Complete == ~Overlap => \A g \in granted : /\ g \in accounts /\ g \in bindings /\ g \in secrets
                                           /\ g[1] \in roles
Backed == ~Overlap => bindings \cup secrets \subseteq accounts

Inv == TypeOK /\ Underway /\ Complete /\ Backed

LEMMA FreeFacts == Bounded => Free \in Calls /\ Free.op = "none" /\ Free.todo = <<>>
BY DEF Bounded, Free, Calls

\* Objects are only added and the namespace stays: what holds of a call goes on to hold.
Grows == /\ ns' = ns /\ accounts \subseteq accounts' /\ roles \subseteq roles'
         /\ bindings \subseteq bindings' /\ secrets \subseteq secrets'

LEMMA CallsGo ==
    ASSUME Bounded, Underway, Grows, NEW w \in Worker, NEW d, d = Free \/ Going(d)',
           call' = [call EXCEPT ![w] = d]
    PROVE  Underway'
<1>1. d \in Calls
  BY FreeFacts DEF Going
<1>2. call' \in [Worker -> Calls]
  BY <1>1 DEF Underway
<1>3. ASSUME NEW c, Going(c) PROVE Going(c)'
  <2>1. \A k \in 1..Len(Steps(c.op)) : Reached(c, k) => Reached(c, k)'
    BY DEF Reached, Grows
  <2> QED BY <1>3, <2>1 DEF Going
<1>4. call'[w] = d /\ \A v \in Worker : v # w => call'[v] = call[v]
  BY DEF Underway
<1>5. ASSUME NEW v \in Worker, NEW c \in Calls, c = call'[v] PROVE c = Free \/ Going(c)'
  <2>1. CASE v = w
    BY <1>4, <1>5, <2>1
  <2>2. CASE v # w
    <3>1. c = Free \/ Going(c)
      BY <1>4, <1>5, <2>2 DEF Underway
    <3> QED BY <1>3, <3>1
  <2> QED BY <2>1, <2>2
<1> QED BY <1>2, <1>5 DEF Underway

\* A worker at a step is in the middle of a call, at a place where the operation has it.
LEMMA AtPlace ==
    ASSUME Bounded, Underway, NEW w \in Worker, NEW s, At(w, s)
    PROVE  \E c \in Calls : \E k \in 1..Len(Steps(c.op)) :
              /\ c = call[w] /\ c.op \in Operations /\ Going(c)
              /\ c.todo = From(c.op, k) /\ Reached(c, k) /\ s = Steps(c.op)[k]
<1>1. PICK c \in Calls : c = call[w]
  BY DEF Underway
<1>2. c.todo # <<>> /\ Head(c.todo) = s
  BY <1>1 DEF At
<1>3. Going(c)
  BY <1>1, <1>2, FreeFacts DEF Underway
<1>4. PICK k \in 1..Len(Steps(c.op)) : c.todo = From(c.op, k) /\ Reached(c, k)
  BY <1>3 DEF Going
<1>5. c.op \in Operations
  BY <1>3 DEF Going
<1>6. s = Steps(c.op)[k]
  BY <1>2, <1>4, <1>5, FromFacts
<1> QED BY <1>1, <1>3, <1>4, <1>5, <1>6

\* When a step has done what the next one relies on, the call goes on.
LEMMA Advance ==
    ASSUME Bounded, Underway, Grows, NEW w \in Worker, NEW s, At(w, s), Done(w),
           NEW c, c = call[w],
           \A k \in 1..Len(Steps(c.op)) : Steps(c.op)[k] = s /\ Reached(c, k) => Reached(c, k + 1)'
    PROVE  Underway'
<1>1. PICK k \in 1..Len(Steps(c.op)) :
         /\ c \in Calls /\ c.op \in Operations /\ c.todo = From(c.op, k) /\ Reached(c, k)
         /\ s = Steps(c.op)[k]
  BY AtPlace
<1>2. Len(Steps(c.op)) \in 1..8
  BY <1>1, StepsAreSeq
<1>3. Len(c.todo) = Len(Steps(c.op)) - k + 1
  BY <1>1, FromFacts
<1>4. CASE Len(c.todo) = 1
  <2>1. call' = [call EXCEPT ![w] = Free]
    BY <1>4 DEF Done
  <2> QED BY <2>1, CallsGo
<1>5. CASE Len(c.todo) # 1
  <2>1. PICK d : d = [c EXCEPT !.todo = Tail(c.todo)]
    OBVIOUS
  <2>2. call' = [call EXCEPT ![w] = d]
    BY <1>5, <2>1 DEF Done
  <2>3. k < Len(Steps(c.op)) /\ k + 1 \in 1..Len(Steps(c.op))
    BY <1>2, <1>3, <1>5
  <2>4. Tail(c.todo) = From(c.op, k + 1) /\ From(c.op, k + 1) \in Seq(StepNames)
    BY <1>1, <2>3, FromFacts
  <2>5. /\ d \in Calls /\ d.op = c.op /\ d.n = c.n /\ d.u = c.u
        /\ d.todo = From(c.op, k + 1)
    BY <1>1, <2>1, <2>4 DEF Calls
  <2>6. Reached(c, k + 1)'
    BY <1>1
  <2>7. Reached(d, k + 1)'
    BY <2>5, <2>6 DEF Reached
  <2>8. Going(d)'
    BY <1>1, <2>3, <2>5, <2>7 DEF Going
  <2> QED BY <2>2, <2>8, CallsGo
<1> QED BY <1>4, <1>5

\* What an operation returns: only with its last step, the reading of the secret.
LEMMA Returned ==
    ASSUME Bounded, Underway, NEW w \in Worker, NEW s, At(w, s), Done(w)
    PROVE  /\ granted' = granted \/ granted' = granted \cup {Key(w)}
           /\ s # "read" => granted' = granted
<1>1. PICK c \in Calls : \E k \in 1..Len(Steps(c.op)) :
         /\ c = call[w] /\ c.op \in Operations /\ c.todo = From(c.op, k) /\ s = Steps(c.op)[k]
  BY AtPlace
<1>2. PICK k \in 1..Len(Steps(c.op)) :
         c = call[w] /\ c.op \in Operations /\ c.todo = From(c.op, k) /\ s = Steps(c.op)[k]
  BY <1>1
<1>3. Len(c.todo) = Len(Steps(c.op)) - k + 1 /\ Len(Steps(c.op)) \in 1..8
  BY <1>2, FromFacts, StepsAreSeq
<1>4. ASSUME c.op = "create_admin_sa", Len(c.todo) = 1 PROVE s = "read"
  <2>1. k = Len(Steps(c.op))
    <3>1. PICK l, m : l = Len(Steps(c.op)) /\ m = Len(c.todo)
      OBVIOUS
    <3>2. l \in 1..8 /\ k \in 1..l /\ m = l - k + 1 /\ m = 1
      BY <1>3, <1>4, <3>1
    <3> QED BY <3>1, <3>2
  <2>2. c.op = "create_admin_sa" /\ k = Len(Steps(c.op)) => s = "read"
    <3>1. PICK op : op = c.op
      OBVIOUS
    <3>2. op \in Operations /\ k \in 1..Len(Steps(op)) /\ s = Steps(op)[k]
      BY <1>2, <3>1
    <3>3. op = "create_admin_sa" /\ k = Len(Steps(op)) => s = "read"
      BY <3>2, Places
    <3> QED BY <3>1, <3>3
  <2> QED BY <1>4, <2>1, <2>2
<1> QED BY <1>2, <1>4 DEF Done, Key

\* A call that is given up.
LEMMA Dropped ==
    ASSUME Bounded, Underway, Grows, NEW w \in Worker, Raise(w)
    PROVE  Underway' /\ granted' = granted
BY CallsGo DEF Raise
-----------------------------------------------------------------------------
\* The step of a worker: what it does next is right, and what it returns is complete.
LEMMA WorkerSteps ==
    ASSUME Bounded, Inv, NEW w \in Worker,
           CreateAccount(w) \/ CreateRole(w) \/ CheckAccount(w) \/ Bind(w) \/ CreateSecret(w)
           \/ ReadSecret(w) \/ RequestCertificate(w) \/ ApproveCertificate(w) \/ ApiFails(w)
    PROVE  Underway' /\ Complete' /\ Backed'
<1> PICK c : c = call[w]
  OBVIOUS
<1>1. ASSUME Grows, Raise(w), UNCHANGED <<bindings, secrets>>
      PROVE  Underway' /\ Complete' /\ Backed'
  <2>1. Underway' /\ granted' = granted
    BY <1>1, Dropped DEF Inv
  <2> QED BY <1>1, <2>1 DEF Inv, Complete, Backed, Grows
<1>2. ASSUME NEW s, s # "read", At(w, s), Done(w), Grows,
             \A k \in 1..Len(Steps(c.op)) : Steps(c.op)[k] = s /\ Reached(c, k) => Reached(c, k + 1)'
      PROVE  Underway' /\ Complete'
  <2>1. Underway'
    BY <1>2, Advance DEF Inv
  <2>2. granted' = granted
    BY <1>2, Returned DEF Inv
  <2> QED BY <1>2, <2>1, <2>2 DEF Inv, Complete, Grows
<1>3. ASSUME NEW s, At(w, s)
      PROVE  /\ c \in Calls /\ c.op \in Operations
             /\ \E k \in 1..Len(Steps(c.op)) : s = Steps(c.op)[k] /\ Reached(c, k)
  BY <1>3, AtPlace DEF Inv
<1>4. c \in Calls
  BY DEF Inv, Underway
<1>5. Key(w) = <<c.n, c.u>> /\ Key(w) \in Namespace \X User
  BY <1>4 DEF Key, Calls
<1>6. CASE CreateAccount(w)
  <2>1. CASE Done(w) /\ accounts' = accounts \cup {Key(w)}
    <3>1. Grows /\ UNCHANGED <<ns, bindings, secrets, roles>> /\ At(w, "account")
      BY <1>6, <2>1 DEF CreateAccount, Grows
    <3>2. ASSUME NEW k \in 1..Len(Steps(c.op)), Steps(c.op)[k] = "account", Reached(c, k)
          PROVE  Reached(c, k + 1)'
      <4>1. k = 1
        BY <1>3, <3>1, <3>2, Places
      <4> QED BY <1>5, <2>1, <3>1, <4>1 DEF Reached
    <3>3. Underway' /\ Complete'
      BY <1>2, <2>1, <3>1, <3>2
    <3> QED BY <2>1, <3>1, <3>3 DEF Inv, Backed
  <2>2. CASE Raise(w) /\ UNCHANGED accounts
    BY <1>1, <1>6, <2>2 DEF CreateAccount, Grows
  <2> QED BY <1>6, <2>1, <2>2 DEF CreateAccount
<1>7. CASE CreateRole(w)
  <2>1. PICK s \in {"role", "rolefor"} : At(w, s)
    BY <1>7 DEF CreateRole
  <2>2. CASE Done(w) /\ roles' = roles \cup {call[w].n}
    <3>1. Grows /\ UNCHANGED <<ns, bindings, secrets, accounts>> /\ c.n \in roles'
      BY <1>7, <2>2 DEF CreateRole, Grows
    <3>2. ASSUME NEW k \in 1..Len(Steps(c.op)), Steps(c.op)[k] = s, Reached(c, k)
          PROVE  Reached(c, k + 1)'
      <4>1. \/ c.op = "create_admin_sa" /\ k \in {2, 4}
            \/ c.op = "give_admin_rights" /\ k = 2
        <5>1. PICK op \in Operations : op = c.op
          BY <1>3, <2>1
        <5>2. k \in 1..Len(Steps(op)) /\ s = Steps(op)[k]
          BY <3>2, <5>1
        <5>3. /\ s = "role" => op = "create_admin_sa" /\ k = 2
              /\ s = "rolefor" => (op = "create_admin_sa" /\ k = 4) \/ (op = "give_admin_rights" /\ k = 2)
          BY <5>2, Places
        <5> QED BY <2>1, <5>1, <5>3
      <4> QED BY <3>1, <3>2, <4>1 DEF Reached
    <3>3. Underway' /\ Complete'
      BY <1>2, <2>1, <2>2, <3>1, <3>2
    <3> QED BY <3>1, <3>3 DEF Inv, Backed
  <2>3. CASE Raise(w) /\ UNCHANGED roles
    BY <1>1, <1>7, <2>3 DEF CreateRole, Grows
  <2> QED BY <1>7, <2>2, <2>3 DEF CreateRole
<1>8. CASE CheckAccount(w)
  <2>1. PICK s \in {"subject", "owner"} : At(w, s)
    BY <1>8 DEF CheckAccount
  <2>2. Grows /\ UNCHANGED <<ns, roles, bindings, secrets, accounts>>
    BY <1>8 DEF CheckAccount, Grows, objects
  <2>3. CASE Key(w) \in accounts /\ Done(w)
    <3>1. ASSUME NEW k \in 1..Len(Steps(c.op)), Steps(c.op)[k] = s, Reached(c, k)
          PROVE  Reached(c, k + 1)'
      <4>1. \/ c.op = "create_admin_sa" /\ k \in {3, 6}
            \/ c.op \in {"give_admin_rights", "create_secret"} /\ k = 1
        BY <1>3, <2>1, <3>1, Places
      <4> QED BY <1>5, <2>2, <2>3, <3>1, <4>1 DEF Reached
    <3>2. Underway' /\ Complete'
      BY <1>2, <2>1, <2>2, <2>3, <3>1
    <3> QED BY <2>2, <3>2 DEF Inv, Backed
  <2>4. CASE Raise(w)
    BY <1>1, <2>2, <2>4
  <2> QED BY <1>8, <2>3, <2>4 DEF CheckAccount
<1>9. CASE Bind(w)
  <2>1. CASE Done(w) /\ bindings' = bindings \cup {Key(w)} /\ Active(w)
    <3>1. Grows /\ UNCHANGED <<ns, roles, secrets, accounts>> /\ At(w, "bind")
      BY <1>9, <2>1 DEF Bind, Grows
    <3>2. ASSUME NEW k \in 1..Len(Steps(c.op)), Steps(c.op)[k] = "bind", Reached(c, k)
          PROVE  Reached(c, k + 1)' /\ (~Overlap => <<c.n, c.u>> \in accounts)
      <4>1. \/ c.op = "create_admin_sa" /\ k = 5
            \/ c.op = "give_admin_rights" /\ k = 3
        BY <1>3, <3>1, <3>2, Places
      <4>2. ns[c.n] # "absent"
        BY <2>1 DEF Active
      <4> QED BY <1>5, <2>1, <3>1, <3>2, <4>1, <4>2 DEF Reached
    <3>3. Underway' /\ Complete'
      BY <1>2, <2>1, <3>1, <3>2
    <3>4. ~Overlap => Key(w) \in accounts
      BY <1>3, <1>5, <3>1, <3>2
    <3> QED BY <2>1, <3>1, <3>3, <3>4 DEF Inv, Backed
  <2>2. CASE Raise(w) /\ UNCHANGED bindings
    BY <1>1, <1>9, <2>2 DEF Bind, Grows
  <2> QED BY <1>9, <2>1, <2>2 DEF Bind
<1>10. CASE CreateSecret(w)
  <2>1. CASE Done(w) /\ secrets' = secrets \cup {Key(w)} /\ Active(w)
    <3>1. Grows /\ UNCHANGED <<ns, roles, bindings, accounts>> /\ At(w, "secret")
      BY <1>10, <2>1 DEF CreateSecret, Grows
    <3>2. ASSUME NEW k \in 1..Len(Steps(c.op)), Steps(c.op)[k] = "secret", Reached(c, k)
          PROVE  Reached(c, k + 1)' /\ (~Overlap => <<c.n, c.u>> \in accounts)
      <4>1. \/ c.op = "create_admin_sa" /\ k = 7
            \/ c.op = "create_secret" /\ k = 2
        BY <1>3, <3>1, <3>2, Places
      <4>2. ns[c.n] # "absent"
        BY <2>1 DEF Active
      <4> QED BY <1>5, <2>1, <3>1, <3>2, <4>1, <4>2 DEF Reached
    <3>3. Underway' /\ Complete'
      BY <1>2, <2>1, <3>1, <3>2
    <3>4. ~Overlap => Key(w) \in accounts
      BY <1>3, <1>5, <3>1, <3>2
    <3> QED BY <2>1, <3>1, <3>3, <3>4 DEF Inv, Backed
  <2>2. CASE Raise(w) /\ UNCHANGED secrets
    BY <1>1, <1>10, <2>2 DEF CreateSecret, Grows
  <2> QED BY <1>10, <2>1, <2>2 DEF CreateSecret
<1>11. CASE ReadSecret(w)
  <2>1. Grows /\ UNCHANGED <<ns, roles, bindings, secrets, accounts>> /\ At(w, "read")
    BY <1>11 DEF ReadSecret, Grows, objects
  <2>2. CASE ns[c.n] # "absent" /\ Done(w)
    <3>1. PICK k \in 1..Len(Steps(c.op)) : "read" = Steps(c.op)[k] /\ Reached(c, k)
      BY <1>3, <2>1
    <3>2. c.op = "create_admin_sa" /\ k = 8
      BY <1>3, <2>1, <3>1, Places
    <3>3. ~Overlap => /\ <<c.n, c.u>> \in accounts /\ <<c.n, c.u>> \in bindings
                      /\ <<c.n, c.u>> \in secrets /\ c.n \in roles
      BY <2>2, <3>1, <3>2 DEF Reached
    <3>4. granted' \subseteq granted \cup {Key(w)}
      BY <2>1, <2>2, Returned DEF Inv
    <3>5. Complete'
      BY <1>5, <2>1, <3>3, <3>4 DEF Inv, Complete
    <3>6. ASSUME NEW j \in 1..Len(Steps(c.op)), Steps(c.op)[j] = "read", Reached(c, j)
          PROVE  Reached(c, j + 1)'
      BY <2>1, <3>3 DEF Reached
    <3>7. Underway'
      BY <2>1, <2>2, <3>6, Advance DEF Inv
    <3> QED BY <2>1, <3>5, <3>7 DEF Inv, Backed
  <2>3. CASE Raise(w)
    BY <1>1, <2>1, <2>3
  <2> QED BY <1>11, <2>2, <2>3 DEF ReadSecret
<1>12. CASE RequestCertificate(w) \/ ApproveCertificate(w)
  <2>1. PICK s \in {"request", "approve"} : At(w, s)
    BY <1>12 DEF RequestCertificate, ApproveCertificate
  <2>2. Grows /\ UNCHANGED <<ns, roles, bindings, secrets, accounts>>
    BY <1>12 DEF RequestCertificate, ApproveCertificate, Grows, objects
  <2>3. CASE Done(w)
    <3>1. ASSUME NEW k \in 1..Len(Steps(c.op)), Steps(c.op)[k] = s, Reached(c, k)
          PROVE  Reached(c, k + 1)'
      <4>1. c.op = "kubectl_user"
        BY <1>3, <2>1, <3>1, Places
      <4> QED BY <4>1 DEF Reached
    <3>2. Underway' /\ Complete'
      BY <1>2, <2>1, <2>2, <2>3, <3>1
    <3> QED BY <2>2, <3>2 DEF Inv, Backed
  <2>4. CASE Raise(w)
    BY <1>1, <2>2, <2>4
  <2> QED BY <1>12, <2>3, <2>4 DEF RequestCertificate, ApproveCertificate
<1>13. CASE ApiFails(w)
  BY <1>1, <1>13 DEF ApiFails, Grows, objects
<1> QED BY <1>6, <1>7, <1>8, <1>9, <1>10, <1>11, <1>12, <1>13

\* A call begins before its first step.
LEMMA CallSteps ==
    ASSUME Bounded, Inv, NEW w \in Worker, NEW op \in Operations, NEW n \in Namespace, NEW u \in User,
           Call(w, op, n, u)
    PROVE  Underway' /\ Complete' /\ Backed'
<1>1. PICK s : s = Steps(op)
  OBVIOUS
<1>2. s \in Seq(StepNames) /\ Len(s) \in 1..8
  BY <1>1, StepsAreSeq
<1>3. SubSeq(s, 1, Len(s)) = s
  BY <1>2, SubSeqFull
<1>4. From(op, 1) = s /\ 1 \in 1..Len(Steps(op))
  BY <1>1, <1>2, <1>3 DEF From
<1>5. PICK d : d = [op |-> op, todo |-> Steps(op), n |-> n, u |-> u]
  OBVIOUS
<1>6. d \in Calls /\ d.op = op /\ d.todo = s
  BY <1>1, <1>2, <1>5 DEF Calls
<1>7. Reached(d, 1)'
  BY <1>5, StepsAreSeq DEF Reached
<1>8. Going(d)'
  BY <1>4, <1>6, <1>7 DEF Going
<1>9. Grows /\ UNCHANGED <<ns, accounts, roles, bindings, secrets, granted>>
  BY DEF Call, Grows, objects
<1>10. call' = [call EXCEPT ![w] = d]
  BY <1>5 DEF Call
<1>11. Underway'
  BY <1>8, <1>9, <1>10, CallsGo DEF Inv
<1> QED BY <1>9, <1>11 DEF Inv, Complete, Backed

\* A step of the cluster or of a user on a namespace.
LEMMA NamespaceSteps ==
    ASSUME Bounded, Inv, NEW n \in Namespace, UNCHANGED call,
           CreateNamespace(n) \/ DeleteNamespace(n) \/ Terminate(n)
           \/ \E u \in User : GiveClusterAdmin(n, u)
    PROVE  Underway' /\ Complete' /\ Backed'
<1>1. ASSUME NEW w \in Worker, NEW c, c = call[w], Going(c), NEW k, Reached(c, k) PROVE Reached(c, k)'
  <2>1. c.op # "none" /\ c.n \in Namespace
    BY <1>1 DEF Going, Calls, Operations
  <2>2. CASE CreateNamespace(n)
    <3>1. ~Overlap => c.n # n
      BY <1>1, <2>1, <2>2, FreeFacts DEF CreateNamespace
    <3>2. /\ c.n # n => ns'[c.n] = ns[c.n]
          /\ UNCHANGED <<accounts, roles, bindings, secrets>>
      BY <2>1, <2>2 DEF CreateNamespace, objects, Inv, TypeOK
    <3> QED BY <1>1, <3>1, <3>2 DEF Reached
  <2>3. CASE DeleteNamespace(n)
    <3>1. /\ ns'[c.n] # "absent" => ns[c.n] # "absent"
          /\ UNCHANGED <<accounts, roles, bindings, secrets>>
      BY <2>1, <2>3 DEF DeleteNamespace, objects, Inv, TypeOK
    <3> QED BY <1>1, <3>1 DEF Reached
  <2>4. CASE Terminate(n)
    <3>1. /\ c.n = n => ns'[c.n] = "absent"
          /\ c.n # n => ns'[c.n] = ns[c.n]
      BY <2>1, <2>4 DEF Terminate, Inv, TypeOK
    <3>2. c.n # n => /\ <<c.n, c.u>> \in accounts => <<c.n, c.u>> \in accounts'
                     /\ <<c.n, c.u>> \in bindings => <<c.n, c.u>> \in bindings'
                     /\ <<c.n, c.u>> \in secrets => <<c.n, c.u>> \in secrets'
                     /\ c.n \in roles => c.n \in roles'
      BY <2>4 DEF Terminate
    <3> QED BY <1>1, <3>1, <3>2 DEF Reached
  <2>5. CASE \E u \in User : GiveClusterAdmin(n, u)
    <3>1. UNCHANGED <<ns, accounts, roles, bindings, secrets>>
      BY <2>5 DEF GiveClusterAdmin, objects
    <3> QED BY <1>1, <3>1 DEF Reached
  <2> QED BY <2>2, <2>3, <2>4, <2>5
<1>2. ASSUME NEW w \in Worker, NEW c \in Calls, c = call[w] PROVE c = Free \/ Going(c)'
  <2>1. c = Free \/ Going(c)
    BY <1>2 DEF Inv, Underway
  <2> QED BY <1>1, <1>2, <2>1 DEF Going
<1>3. Underway'
  BY <1>2 DEF Inv, Underway
<1>4. CASE Terminate(n)
  <2>1. Complete'
    BY <1>4 DEF Terminate, Inv, Complete
  <2>2. Backed'
    BY <1>4 DEF Terminate, Inv, Backed
  <2> QED BY <1>3, <2>1, <2>2
<1>5. CASE ~Terminate(n)
  <2>1. UNCHANGED <<accounts, roles, bindings, secrets, granted>>
    BY <1>5 DEF CreateNamespace, DeleteNamespace, GiveClusterAdmin, objects
  <2> QED BY <1>3, <2>1 DEF Inv, Complete, Backed
<1> QED BY <1>4, <1>5
-----------------------------------------------------------------------------
LEMMA InvInit == Bounded /\ Init => Inv
<1> SUFFICES ASSUME Bounded, Init PROVE Inv
  OBVIOUS
<1>1. TypeOK
  <2>1. \A w \in Worker : call[w] = Free
    BY DEF Init
  <2>2. Free.op = "none" /\ Free.n \in Namespace /\ Free.u \in User
    BY FreeFacts DEF Calls
  <2>3. \A w \in Worker : call[w].op \in Operations \cup {"none"} /\ call[w].n \in Namespace /\ call[w].u \in User
    BY <2>1, <2>2
  <2> QED BY <2>3 DEF Init, TypeOK, Bounded
<1>2. Underway
  BY FreeFacts DEF Init, Underway
<1>3. Complete /\ Backed
  BY DEF Init, Complete, Backed
<1> QED BY <1>1, <1>2, <1>3 DEF Inv

\* Calls keep their shape; the rest of the types follows step by step.
LEMMA TypesKept ==
    ASSUME Bounded, Inv, [Next]_vars, Underway'
    PROVE  TypeOK'
<1>1. \A w \in Worker : call'[w].op \in Operations \cup {"none"} /\ call'[w].n \in Namespace /\ call'[w].u \in User
  <2>1. call' \in [Worker -> Calls]
    BY DEF Underway
  <2> QED BY <2>1 DEF Calls
<1>2. \A w \in Worker : /\ Key(w) \in Namespace \X User /\ call[w].n \in Namespace
                        /\ call[w].u \in User
                        /\ <<call[w].n, call[w].u>> \in Namespace \X User
  BY DEF Inv, TypeOK, Key
<1>3. CASE UNCHANGED vars
  BY <1>3 DEF vars, Inv, TypeOK
<1>4. ASSUME NEW w \in Worker, NEW op \in Operations, NEW n \in Namespace, NEW u \in User,
             Call(w, op, n, u)
      PROVE  TypeOK'
  BY <1>1, <1>4 DEF Call, objects, Inv, TypeOK
<1>5. ASSUME NEW w \in Worker, Done(w) \/ Raise(w) PROVE granted' \subseteq Namespace \X User
  BY <1>2, <1>5 DEF Done, Raise, Inv, TypeOK
<1>6. ASSUME NEW w \in Worker,
             CreateAccount(w) \/ CreateRole(w) \/ CheckAccount(w) \/ Bind(w) \/ CreateSecret(w)
             \/ ReadSecret(w)
      PROVE  TypeOK'
  <2>1. granted' \subseteq Namespace \X User
    BY <1>5, <1>6 DEF CreateAccount, CreateRole, CheckAccount, Bind, CreateSecret, ReadSecret
  <2>2. /\ accounts' \subseteq Namespace \X User /\ roles' \subseteq Namespace
        /\ bindings' \subseteq Namespace \X User /\ secrets' \subseteq Namespace \X User
    BY <1>2, <1>6 DEF CreateAccount, CreateRole, CheckAccount, Bind, CreateSecret, ReadSecret,
                      objects, Inv, TypeOK
  <2>3. UNCHANGED <<ns, clusterAdmins, requests, creations, faults>>
    BY <1>6 DEF CreateAccount, CreateRole, CheckAccount, Bind, CreateSecret, ReadSecret
  <2> QED BY <1>1, <2>1, <2>2, <2>3 DEF Inv, TypeOK
<1>7. ASSUME NEW w \in Worker, RequestCertificate(w) \/ ApproveCertificate(w) \/ ApiFails(w)
      PROVE  TypeOK'
  <2>1. granted' \subseteq Namespace \X User
    BY <1>5, <1>7 DEF RequestCertificate, ApproveCertificate, ApiFails
  <2>2. /\ UNCHANGED <<ns, accounts, roles, bindings, secrets, clusterAdmins, creations>>
        /\ requests' \in [User -> {"none", "pending", "approved"}]
    BY <1>2, <1>7 DEF RequestCertificate, ApproveCertificate, ApiFails, objects, Inv, TypeOK
  <2>3. faults' \in 0..MaxFaults
    BY <1>7 DEF RequestCertificate, ApproveCertificate, ApiFails, Inv, TypeOK, Bounded
  <2> QED BY <1>1, <2>1, <2>2, <2>3 DEF Inv, TypeOK
<1>8. ASSUME NEW n \in Namespace, CreateNamespace(n) \/ DeleteNamespace(n) PROVE TypeOK'
  BY <1>1, <1>8 DEF CreateNamespace, DeleteNamespace, objects, Inv, TypeOK, Bounded
<1>9. ASSUME NEW n \in Namespace, Terminate(n) PROVE TypeOK'
  BY <1>1, <1>9 DEF Terminate, Inv, TypeOK
<1>10. ASSUME NEW n \in Namespace, NEW u \in User, GiveClusterAdmin(n, u) PROVE TypeOK'
  BY <1>1, <1>10 DEF GiveClusterAdmin, objects, Inv, TypeOK
<1> QED BY <1>3, <1>4, <1>6, <1>7, <1>8, <1>9, <1>10 DEF Next

LEMMA InvInductive == Bounded /\ Inv /\ [Next]_vars => Inv'
<1> SUFFICES ASSUME Bounded, Inv, [Next]_vars PROVE Inv'
  OBVIOUS
<1>1. Underway' /\ Complete' /\ Backed'
  <2>1. CASE UNCHANGED vars
    <3>1. UNCHANGED <<ns, accounts, roles, bindings, secrets, call, granted>>
      BY <2>1 DEF vars
    <3>2. Underway'
      BY <3>1 DEF Inv, Underway, Going, Reached
    <3> QED BY <3>1, <3>2 DEF Inv, Complete, Backed
  <2>2. ASSUME NEW n \in Namespace,
               CreateNamespace(n) \/ DeleteNamespace(n) \/ Terminate(n)
               \/ \E u \in User : GiveClusterAdmin(n, u)
        PROVE  Underway' /\ Complete' /\ Backed'
    <3>1. UNCHANGED call
      BY <2>2 DEF CreateNamespace, DeleteNamespace, Terminate, GiveClusterAdmin
    <3> QED BY <2>2, <3>1, NamespaceSteps
  <2> QED BY <2>1, <2>2, WorkerSteps, CallSteps DEF Next
<1>2. TypeOK'
  BY <1>1, TypesKept
<1> QED BY <1>1, <1>2 DEF Inv

LEMMA InvAgrees == Inv => TypeOK /\ (~Overlap => GrantedIsComplete /\ RightsHaveAccounts)
BY DEF Inv, Complete, Backed, GrantedIsComplete, RightsHaveAccounts

\* Namespaces, rights and calls keep their types, also when a namespace is created again
\* under a call that runs in it.
THEOREM AccessTypes == Bounded => (Spec => []TypeOK)
<1> SUFFICES ASSUME Bounded PROVE Spec => []TypeOK
  OBVIOUS
<1>1. Inv => TypeOK
  BY InvAgrees
<1> QED BY <1>1, InvInit, InvInductive, PTL DEF Spec

\* What create_admin_sa_for_namespace returned has its account, role, binding and secret,
\* though each is another call of the API and any of them may fail for somebody else.
THEOREM GrantedStaysComplete == Bounded /\ ~Overlap => (Spec => []GrantedIsComplete)
<1> SUFFICES ASSUME Bounded, ~Overlap PROVE Spec => []GrantedIsComplete
  OBVIOUS
<1>1. Inv => GrantedIsComplete
  BY InvAgrees
<1> QED BY <1>1, InvInit, InvInductive, PTL DEF Spec

\* Rights are given and secrets made for an account that is there, although the account is
\* looked up some calls before and its namespace may be deleted in between.
THEOREM RightsKeepAccounts == Bounded /\ ~Overlap => (Spec => []RightsHaveAccounts)
<1> SUFFICES ASSUME Bounded, ~Overlap PROVE Spec => []RightsHaveAccounts
  OBVIOUS
<1>1. Inv => RightsHaveAccounts
  BY InvAgrees
<1> QED BY <1>1, InvInit, InvInductive, PTL DEF Spec
=============================================================================
