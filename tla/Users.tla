------------------------------- MODULE Users -------------------------------
(***************************************************************************)
(* The user manager (nfvcl_core/managers/user_manager.py), its repository  *)
(* and the pairs of tokens it issues (utils/auth/tokens.py).               *)
(*                                                                         *)
(* add_user and delete_user run in the workers of the task manager; login, *)
(* refresh and logout run in the threads of the REST server and work on    *)
(* the User OBJECT they looked up, which they put back into the dictionary *)
(* and save.  A token is the number of the pair it belongs to; the         *)
(* signature keys live in memory, so a restart invalidates every pair.     *)
(* Expiration only adds refusals and is left out.                          *)
(***************************************************************************)
EXTENDS Naturals, Sequences, FiniteSets

CONSTANTS
    Name, Admin,      \* user names, one of them the administrator
    Password,
    Actor,            \* threads: workers and request threads
    Together,         \* may adding and deleting overlap other calls on a user?
    MaxObjects,       \* bound: User objects created between two restarts
    MaxPairs,         \* bound: pairs of tokens created between two restarts
    MaxStops          \* bound: restarts

VARIABLES
    object,    \* the User objects: a sequence, never shortened
    users,     \* UserManager.users: name -> index of an object, or 0
    db,        \* the collection: name -> sequence of passwords, one a document
    pairs,     \* the pairs of tokens issued with the present signature keys
    call,      \* what each thread is doing
    account,   \* history: the password the last finished call left, or NoUser
    mixed,     \* history: names on which two calls have overlapped
    stops

vars == <<object, users, db, pairs, call, account, mixed, stops>>

NoUser == "no user"

Free == [at |-> "free", kind |-> "none", name |-> Admin, obj |-> 0, pair |-> 0, found |-> FALSE]

Call == [at : {"free", "set", "access", "refresh", "update", "put", "find", "write", "pop", "erase"},
         kind : {"none", "add", "delete", "login", "logout"}, name : Name,
         obj : 0..MaxObjects, pair : 0..MaxPairs, found : BOOLEAN]

Busy(n) == {a \in Actor : call[a].at # "free" /\ call[a].name = n}

Doc(n) == IF db[n] = <<>> THEN NoUser ELSE db[n][Len(db[n])]

\* A call on n begins.  Unless Together, the caller that adds or deletes is alone.
Begin(a, n, kind, at, o, k) ==
    /\ call[a].at = "free"
    /\ \/ Together
       \/ Busy(n) = {}
       \/ kind \in {"login", "logout"} /\ \A b \in Busy(n) : call[b].kind \in {"login", "logout"}
    /\ call' = [call EXCEPT ![a] = [Free EXCEPT !.at = at, !.kind = kind, !.name = n,
                                                !.obj = o, !.pair = k]]
    /\ mixed' = IF Busy(n) = {} THEN mixed \ {n} ELSE mixed \cup {n}

Goto(a, at) == call' = [call EXCEPT ![a].at = at]

\* The call returns: what it left is what everybody has to find from now on.
Return(a, password) ==
    /\ call' = [call EXCEPT ![a] = Free]
    /\ account' = [account EXCEPT ![call[a].name] = password]

\* load: one object of each document; the entry of the last one stays.
Index == CHOOSE f \in [Name -> 1..Cardinality(Name)] : \A m, n \in Name : f[m] = f[n] => m = n

LoadedObjects(docs) ==
    [i \in 1..Cardinality(Name) |->
        [password |-> docs[CHOOSE n \in Name : Index[n] = i], access |-> 0, refresh |-> 0]]

LoadedUsers(docs) == [n \in Name |-> IF docs[n] = NoUser THEN 0 ELSE Index[n]]

\* The first start finds no user and adds the administrator.
Init ==
    /\ \E p \in Password : account = [n \in Name |-> IF n = Admin THEN p ELSE NoUser]
    /\ db = [n \in Name |-> IF n = Admin THEN <<account[n]>> ELSE <<>>]
    /\ object = LoadedObjects(account)
    /\ users = LoadedUsers(account)
    /\ pairs = 0
    /\ call = [a \in Actor |-> Free]
    /\ mixed = {}
    /\ stops = 0

----------------------------------------------------------------------------
\* add_user

AddCheck(a, n, p) ==
    /\ users[n] = 0
    /\ Len(object) < MaxObjects
    /\ Begin(a, n, "add", "set", Len(object) + 1, 0)
    /\ object' = Append(object, [password |-> p, access |-> 0, refresh |-> 0])
    /\ UNCHANGED <<users, db, pairs, account, stops>>

\* self.users[username] = user, in add_user and in update_user
Put(a) ==
    /\ call[a].at \in {"set", "put"}
    /\ users' = [users EXCEPT ![call[a].name] = call[a].obj]
    /\ Goto(a, "find")
    /\ UNCHANGED <<object, db, pairs, account, mixed, stops>>

\* UserRepository.save_user: find_one, then update_one or insert_one
SaveFind(a) ==
    /\ call[a].at = "find"
    /\ call' = [call EXCEPT ![a].at = "write", ![a].found = db[call[a].name] # <<>>]
    /\ UNCHANGED <<object, users, db, pairs, account, mixed, stops>>

SaveWrite(a) ==
    /\ call[a].at = "write"
    /\ LET n == call[a].name
           p == object[call[a].obj].password
       IN  /\ db' = [db EXCEPT ![n] =
                       IF ~call[a].found THEN Append(@, p)
                       ELSE IF @ = <<>> THEN @ ELSE [@ EXCEPT ![1] = p]]
           /\ Return(a, p)
    /\ UNCHANGED <<object, users, pairs, mixed, stops>>

----------------------------------------------------------------------------
\* delete_user

DeleteCheck(a, n) ==
    /\ n # Admin
    /\ users[n] # 0
    /\ Begin(a, n, "delete", "pop", users[n], 0)
    /\ UNCHANGED <<object, users, db, pairs, account, stops>>

\* The entry may be gone by now: del raises KeyError, and the call ends.
DeletePop(a) ==
    /\ call[a].at = "pop"
    /\ users' = [users EXCEPT ![call[a].name] = 0]
    /\ IF users[call[a].name] = 0 THEN call' = [call EXCEPT ![a] = Free]
                                  ELSE Goto(a, "erase")
    /\ UNCHANGED <<object, db, pairs, account, mixed, stops>>

DeleteErase(a) ==
    /\ call[a].at = "erase"
    /\ LET n == call[a].name
       IN  db' = [db EXCEPT ![n] = IF @ = <<>> THEN @ ELSE Tail(@)]
    /\ Return(a, NoUser)
    /\ UNCHANGED <<object, users, pairs, mixed, stops>>

----------------------------------------------------------------------------
\* login, refresh_token and logout

Login(a, n, p) ==
    /\ users[n] # 0
    /\ object[users[n]].password = p
    /\ pairs < MaxPairs
    /\ Begin(a, n, "login", "access", users[n], pairs + 1)
    /\ pairs' = pairs + 1
    /\ UNCHANGED <<object, users, db, account, stops>>

\* The user is found by the name in the token, the hash is the object's.
Refresh(a, n, k) ==
    /\ users[n] # 0
    /\ object[users[n]].refresh = k
    /\ pairs < MaxPairs
    /\ Begin(a, n, "login", "access", users[n], pairs + 1)
    /\ pairs' = pairs + 1
    /\ UNCHANGED <<object, users, db, account, stops>>

\* check_token
Valid(n, k) == users[n] # 0 /\ object[users[n]].access = k

Logout(a, n, k) ==
    /\ Valid(n, k)
    /\ Begin(a, n, "logout", "access", users[n], 0)
    /\ UNCHANGED <<object, users, db, pairs, account, stops>>

SetAccess(a) ==
    /\ call[a].at = "access"
    /\ object' = [object EXCEPT ![call[a].obj].access = call[a].pair]
    /\ Goto(a, "refresh")
    /\ UNCHANGED <<users, db, pairs, account, mixed, stops>>

KeepRefresh(a) ==   \* a mutant of SetRefresh: logout only clears the access token
    /\ call[a].at = "refresh"
    /\ object' = [object EXCEPT ![call[a].obj].refresh =
                     IF call[a].kind = "logout" THEN @ ELSE call[a].pair]
    /\ Goto(a, "update")
    /\ UNCHANGED <<users, db, pairs, account, mixed, stops>>

SetRefresh(a) ==
    /\ call[a].at = "refresh"
    /\ object' = [object EXCEPT ![call[a].obj].refresh = call[a].pair]
    /\ Goto(a, "update")
    /\ UNCHANGED <<users, db, pairs, account, mixed, stops>>

\* update_user: 404 when the name is no longer there
UpdateCheck(a) ==
    /\ call[a].at = "update"
    /\ IF users[call[a].name] # 0 THEN Goto(a, "put") ELSE call' = [call EXCEPT ![a] = Free]
    /\ UNCHANGED <<object, users, db, pairs, account, mixed, stops>>

----------------------------------------------------------------------------
\* The process stops; the documents are loaded and new keys verify no old token.
Restart ==
    /\ stops < MaxStops
    /\ stops' = stops + 1
    /\ LET docs == [n \in Name |-> Doc(n)]
       IN  /\ object' = LoadedObjects(docs)
           /\ users' = LoadedUsers(docs)
           /\ account' = [n \in Name |-> IF Busy(n) = {} THEN account[n] ELSE docs[n]]
    /\ pairs' = 0
    /\ call' = [a \in Actor |-> Free]
    /\ mixed' = {}
    /\ UNCHANGED db

Step(a) ==
    \/ Put(a) \/ SaveFind(a) \/ SaveWrite(a)
    \/ DeletePop(a) \/ DeleteErase(a)
    \/ SetAccess(a) \/ SetRefresh(a) \/ UpdateCheck(a)

Next ==
    \/ \E a \in Actor :
         \/ Step(a)
         \/ \E n \in Name :
              \/ DeleteCheck(a, n)
              \/ \E p \in Password : AddCheck(a, n, p) \/ Login(a, n, p)
              \/ \E k \in 1..MaxPairs : Refresh(a, n, k) \/ Logout(a, n, k)
    \/ Restart

Spec == Init /\ [][Next]_vars

----------------------------------------------------------------------------
TypeOK ==
    /\ object \in Seq([password : Password \cup {NoUser}, access : 0..MaxPairs, refresh : 0..MaxPairs])
    /\ users \in [Name -> 0..Len(object)]
    /\ db \in [Name -> Seq(Password)]
    /\ pairs \in 0..MaxPairs
    /\ call \in [Actor -> Call]
    /\ account \in [Name -> Password \cup {NoUser}]
    /\ mixed \in SUBSET Name
    /\ stops \in 0..MaxStops

Remembered(n) == IF users[n] = 0 THEN NoUser ELSE object[users[n]].password

\* When no call works on a user, the dictionary and the documents say what
\* the last call that returned said, after any number of logins and restarts:
\* a deleted user stays deleted, a re-created one has its new password
\* (user_manager.py:149 "Delete a user from the manager and the database").
AccountsDurable ==
    \A n \in Name : Busy(n) = {} => Remembered(n) = account[n] /\ Doc(n) = account[n]

\* There is never more than one document of a user: delete_user removes one.
OneDocument == \A n \in Name : Len(db[n]) <= 1

\* Once the calls on a user are over, and they did not overlap, the user's
\* two hashes are those of one pair, and both are cleared by a logout.
PairTogether ==
    \A n \in Name \ mixed :
        Busy(n) = {} /\ users[n] # 0 => object[users[n]].access = object[users[n]].refresh
=============================================================================
