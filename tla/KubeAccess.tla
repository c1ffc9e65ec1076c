----------------------------- MODULE KubeAccess -----------------------------
(***************************************************************************)
(* Namespaces, service accounts and their rights in a Kubernetes cluster   *)
(* (kubernetes_manager.py:324-650, utils/k8s/kube_api_utils_class.py).     *)
(*                                                                         *)
(* Each call of the Kubernetes API is a step: an operation of the manager  *)
(* makes several, with look-ups in between, and other workers may delete   *)
(* the namespace meanwhile.  The API server refuses names that exist, and  *)
(* new objects in a namespace that is being deleted, which takes its       *)
(* objects with it; cluster-wide objects stay.                             *)
(***************************************************************************)
EXTENDS Naturals, Sequences, FiniteSets

CONSTANTS
    Namespace, User, Worker,
    Overlap,         \* may a namespace be created again while a call on it runs?
    MaxCreations,    \* bound: namespaces created
    MaxFaults        \* bound: calls of the API that fail

VARIABLES
    ns,              \* namespace -> "absent", "active" or "terminating"
    accounts,        \* service accounts: <<namespace, user>>
    roles,           \* namespaces with the role "admin"
    bindings,        \* role bindings <<namespace, user>>; their name holds the user's
    secrets,         \* secrets <<namespace, user>>
    clusterAdmins,   \* cluster role bindings <<namespace, user>>
    requests,        \* certificate signing requests: user -> "none", "pending" or "approved"
    call,            \* what each worker is doing
    granted,         \* history: accounts create_admin_sa_for_namespace has returned
    creations, faults

vars == <<ns, accounts, roles, bindings, secrets, clusterAdmins, requests, call, granted,
          creations, faults>>

\* The calls an operation makes, in order.
Steps(op) ==
    CASE op = "create_service_account" -> <<"account">>
      [] op = "create_admin_sa" -> <<"account", "role", "subject", "rolefor", "bind", "owner", "secret", "read">>
      [] op = "give_admin_rights" -> <<"subject", "rolefor", "bind">>
      [] op = "create_secret" -> <<"owner", "secret">>
      [] op = "kubectl_user" -> <<"request", "approve">>

Operations == {"create_service_account", "create_admin_sa", "give_admin_rights",
               "create_secret", "kubectl_user"}

Free == [op |-> "none", todo |-> <<>>, n |-> CHOOSE n \in Namespace : TRUE,
         u |-> CHOOSE u \in User : TRUE]

Init ==
    /\ ns = [n \in Namespace |-> "absent"]
    /\ accounts = {} /\ roles = {} /\ bindings = {} /\ secrets = {} /\ clusterAdmins = {}
    /\ requests = [u \in User |-> "none"]
    /\ call = [w \in Worker |-> Free]
    /\ granted = {}
    /\ creations = 0
    /\ faults = 0

objects == <<accounts, roles, bindings, secrets>>

Call(w, op, n, u) ==
    /\ call[w] = Free
    /\ call' = [call EXCEPT ![w] = [op |-> op, todo |-> Steps(op), n |-> n, u |-> u]]
    /\ UNCHANGED <<ns, objects, clusterAdmins, requests, granted, creations, faults>>

At(w, step) == call[w].todo # <<>> /\ Head(call[w].todo) = step

\* The step is done; with the last one the operation returns its result.
Done(w) ==
    /\ call' = IF Len(call[w].todo) = 1 THEN [call EXCEPT ![w] = Free]
               ELSE [call EXCEPT ![w].todo = Tail(@)]
    /\ granted' = IF call[w].op = "create_admin_sa" /\ Len(call[w].todo) = 1
                  THEN granted \cup {<<call[w].n, call[w].u>>} ELSE granted

Raise(w) == call' = [call EXCEPT ![w] = Free] /\ UNCHANGED granted

Active(w) == ns[call[w].n] = "active"
Key(w) == <<call[w].n, call[w].u>>

----------------------------------------------------------------------------
\* create_namespaced_service_account
CreateAccount(w) ==
    /\ At(w, "account")
    /\ IF Active(w) /\ Key(w) \notin accounts
       THEN Done(w) /\ accounts' = accounts \cup {Key(w)}
       ELSE Raise(w) /\ UNCHANGED accounts
    /\ UNCHANGED <<ns, roles, bindings, secrets, clusterAdmins, requests, creations, faults>>

\* create_admin_role: one that exists is taken
CreateRole(w) ==
    /\ \/ At(w, "role")
       \/ At(w, "rolefor")
    /\ IF call[w].n \in roles \/ Active(w)
       THEN Done(w) /\ roles' = roles \cup {call[w].n}
       ELSE Raise(w) /\ UNCHANGED roles
    /\ UNCHANGED <<ns, accounts, bindings, secrets, clusterAdmins, requests, creations, faults>>

\* check_namespace_exist and check_sa_exist, before a binding or a secret
CheckAccount(w) ==
    /\ At(w, "subject") \/ At(w, "owner")
    /\ IF ns[call[w].n] # "absent" /\ Key(w) \in accounts THEN Done(w) ELSE Raise(w)
    /\ UNCHANGED <<ns, objects, clusterAdmins, requests, creations, faults>>

\* create_namespaced_role_binding
BindIgnoring(w) ==   \* a mutant of Bind: an error of the API is only logged
    /\ At(w, "bind")
    /\ Done(w)
    /\ \/ Active(w) /\ bindings' = bindings \cup {Key(w)} /\ UNCHANGED faults
       \/ faults < MaxFaults /\ faults' = faults + 1 /\ UNCHANGED bindings
    /\ UNCHANGED <<ns, accounts, roles, secrets, clusterAdmins, requests, creations>>

Bind(w) ==
    /\ At(w, "bind")
    /\ IF Active(w) /\ Key(w) \notin bindings
       THEN Done(w) /\ bindings' = bindings \cup {Key(w)}
       ELSE Raise(w) /\ UNCHANGED bindings
    /\ UNCHANGED <<ns, accounts, roles, secrets, clusterAdmins, requests, creations, faults>>

\* create_namespaced_secret
CreateSecret(w) ==
    /\ At(w, "secret")
    /\ IF Active(w) /\ Key(w) \notin secrets
       THEN Done(w) /\ secrets' = secrets \cup {Key(w)}
       ELSE Raise(w) /\ UNCHANGED secrets
    /\ UNCHANGED <<ns, accounts, roles, bindings, clusterAdmins, requests, creations, faults>>

\* get_secrets: the list may be empty, the namespace has to be there
ReadSecret(w) ==
    /\ At(w, "read")
    /\ IF ns[call[w].n] # "absent" THEN Done(w) ELSE Raise(w)
    /\ UNCHANGED <<ns, objects, clusterAdmins, requests, creations, faults>>

\* cert_sign_req: a request of that name must not exist, nothing removes it
RequestCertificate(w) ==
    /\ At(w, "request")
    /\ IF requests[call[w].u] = "none"
       THEN Done(w) /\ requests' = [requests EXCEPT ![call[w].u] = "pending"]
       ELSE Raise(w) /\ UNCHANGED requests
    /\ UNCHANGED <<ns, objects, clusterAdmins, creations, faults>>

ApproveCertificate(w) ==
    /\ At(w, "approve")
    /\ Done(w)
    /\ requests' = [requests EXCEPT ![call[w].u] = "approved"]
    /\ UNCHANGED <<ns, objects, clusterAdmins, creations, faults>>

\* A call of the API fails: ApiException ends the operation, what it made stays.
ApiFails(w) ==
    /\ call[w] # Free
    /\ faults < MaxFaults
    /\ faults' = faults + 1
    /\ Raise(w)
    /\ UNCHANGED <<ns, objects, clusterAdmins, requests, creations>>

----------------------------------------------------------------------------
\* One call of the API each

\* cluster_admin_to_sa looks nothing up
GiveClusterAdmin(n, u) ==
    /\ <<n, u>> \notin clusterAdmins
    /\ clusterAdmins' = clusterAdmins \cup {<<n, u>>}
    /\ UNCHANGED <<ns, objects, requests, call, granted, creations, faults>>

CreateNamespace(n) ==
    /\ ns[n] = "absent"
    /\ Overlap \/ \A w \in Worker : call[w] = Free \/ call[w].n # n
    /\ creations < MaxCreations
    /\ creations' = creations + 1
    /\ ns' = [ns EXCEPT ![n] = "active"]
    /\ UNCHANGED <<objects, clusterAdmins, requests, call, granted, faults>>

DeleteNamespace(n) ==
    /\ ns[n] = "active"
    /\ ns' = [ns EXCEPT ![n] = "terminating"]
    /\ UNCHANGED <<objects, clusterAdmins, requests, call, granted, creations, faults>>

\* The cluster has removed the objects of the namespace, in any order, and it.
Terminate(n) ==
    /\ ns[n] = "terminating"
    /\ ns' = [ns EXCEPT ![n] = "absent"]
    /\ accounts' = {a \in accounts : a[1] # n}
    /\ roles' = roles \ {n}
    /\ bindings' = {b \in bindings : b[1] # n}
    /\ secrets' = {s \in secrets : s[1] # n}
    /\ granted' = {g \in granted : g[1] # n}
    /\ UNCHANGED <<clusterAdmins, requests, call, creations, faults>>

Next ==
    \/ \E w \in Worker :
         \/ \E op \in Operations, n \in Namespace, u \in User : Call(w, op, n, u)
         \/ CreateAccount(w) \/ CreateRole(w) \/ CheckAccount(w) \/ Bind(w) \/ CreateSecret(w)
         \/ ReadSecret(w) \/ RequestCertificate(w) \/ ApproveCertificate(w) \/ ApiFails(w)
    \/ \E n \in Namespace :
         \/ CreateNamespace(n) \/ DeleteNamespace(n) \/ Terminate(n)
         \/ \E u \in User : GiveClusterAdmin(n, u)

Spec == Init /\ [][Next]_vars

----------------------------------------------------------------------------
TypeOK ==
    /\ ns \in [Namespace -> {"absent", "active", "terminating"}]
    /\ accounts \subseteq Namespace \X User
    /\ roles \subseteq Namespace
    /\ bindings \subseteq Namespace \X User
    /\ secrets \subseteq Namespace \X User
    /\ clusterAdmins \subseteq Namespace \X User
    /\ requests \in [User -> {"none", "pending", "approved"}]
    /\ \A w \in Worker : call[w].op \in Operations \cup {"none"} /\ call[w].n \in Namespace /\ call[w].u \in User
    /\ granted \subseteq Namespace \X User
    /\ creations \in 0..MaxCreations
    /\ faults \in 0..MaxFaults

\* An account create_admin_sa_for_namespace has returned is complete as long as
\* nobody deletes its namespace: account, role, binding and secret are there,
\* whatever other operations on the namespace fail or overlap.
GrantedIsComplete ==
    \A g \in {g \in granted : ns[g[1]] = "active"} :
                       /\ g \in accounts /\ g \in bindings /\ g \in secrets
                       /\ g[1] \in roles

\* Rights and secrets in a namespace always belong to an account of it, although
\* the account is looked up some calls before they are created and the namespace
\* may be deleted meanwhile (kube_api_utils_class.py:269-302).
\* With Overlap this fails: the look-up may have seen the earlier namespace.
RightsHaveAccounts ==
    \A r \in bindings \cup secrets : ns[r[1]] = "active" => r \in accounts
=============================================================================
