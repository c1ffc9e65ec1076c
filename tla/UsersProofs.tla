----------------------------- MODULE UsersProofs -----------------------------
(***************************************************************************)
(* The accounts and the pairs of tokens, for any number of users, threads, *)
(* passwords, logins and restarts.                                         *)
(*                                                                         *)
(* A call holds on to the User object it looked up while the dictionary    *)
(* may get another one for the name.  Base says that two names never share *)
(* an object, whoever still knows it.  Accounts needs that calls which add *)
(* or delete are alone on their user: Follows says what such a call has    *)
(* left so far in memory and in the database, and that logins, refreshes   *)
(* and logouts, which may overlap, change neither.  Pairs needs no such    *)
(* hypothesis: it speaks of the users on which no two calls have           *)
(* overlapped, and Lone of what the one call at work has left.             *)
(***************************************************************************)
EXTENDS Users, FiniteSetTheorems, FunctionTheorems, TLAPS

\* What the bounds and the sets of names and passwords are.
Bounded ==
    /\ IsFiniteSet(Name) /\ Admin \in Name /\ NoUser \notin Password
    /\ Together \in BOOLEAN
    /\ MaxObjects \in Nat /\ Cardinality(Name) <= MaxObjects
    /\ MaxPairs \in Nat /\ MaxStops \in Nat

Object == [password : Password \cup {NoUser}, access : 0..MaxPairs, refresh : 0..MaxPairs]
Logins == {"login", "logout"}

\* Where a call of its kind can be.
Shape(c) ==
    /\ c.at = "free" <=> c.kind = "none"
    /\ c.kind = "add" => c.at \in {"set", "find", "write"}
    /\ c.kind = "delete" => c.at \in {"pop", "erase"}
    /\ c.kind \in Logins => c.at \in {"access", "refresh", "update", "put", "find", "write"}

\* The objects that the dictionary or a call knows as those of n.
Objects(n) == ({users[n]} \ {0}) \cup {call[a].obj : a \in Busy(n)}

Owned ==
    /\ \A n \in Name : \A i \in Objects(n) : i \in DOMAIN object /\ object[i].password \in Password
    /\ \A m, n \in Name : m # n => Objects(m) \cap Objects(n) = {}

Base ==
    /\ TypeOK /\ Len(object) <= MaxObjects
    /\ \A a \in Actor : Shape(call[a])
    /\ Owned
-----------------------------------------------------------------------------
\* The documents of a start are numbered, each with a number of its own.
LEMMA IndexFacts ==
    ASSUME Bounded
    PROVE  /\ Cardinality(Name) \in Nat
           /\ Index \in [Name -> 1..Cardinality(Name)]
           /\ \A m, n \in Name : Index[m] = Index[n] => m = n
           /\ \A i \in 1..Cardinality(Name) : \E n \in Name : Index[n] = i
<1>1. PICK k : k = Cardinality(Name)
  OBVIOUS
<1>2. k \in Nat /\ ExistsBijection(Name, 1..k)
  BY <1>1, FS_CardinalityType, Fun_ExistsBijSymmetric DEF Bounded
<1>3. PICK f : f \in Bijection(Name, 1..k)
  BY <1>2 DEF ExistsBijection
<1>4. f \in [Name -> 1..k] /\ \A m, n \in Name : f[m] = f[n] => m = n
  BY <1>3 DEF Bijection, Injection, IsInjective
<1>5. Index \in [Name -> 1..k] /\ \A m, n \in Name : Index[m] = Index[n] => m = n
  BY <1>1, <1>4 DEF Index
<1>6. Index \in Injection(Name, 1..k)
  BY <1>5 DEF Injection, IsInjective
<1>7. IsFiniteSet(1..k) /\ Cardinality(1..k) = k
  BY <1>2, FS_Interval
<1>8. Index \in Surjection(Name, 1..k)
  BY <1>1, <1>6, <1>7, FS_Injection
<1>9. \A i \in 1..k : \E n \in Name : Index[n] = i
  BY <1>8 DEF Surjection
<1> QED BY <1>1, <1>2, <1>5, <1>9

\* What load makes of the documents: an object of each account, and no entry without one.
LEMMA LoadFacts ==
    ASSUME Bounded, NEW docs \in [Name -> Password \cup {NoUser}]
    PROVE  /\ LoadedObjects(docs) \in Seq(Object)
           /\ Len(LoadedObjects(docs)) <= MaxObjects
           /\ LoadedUsers(docs) \in [Name -> 0..Len(LoadedObjects(docs))]
           /\ \A n \in Name : LoadedUsers(docs)[n] = 0 <=> docs[n] = NoUser
           /\ \A n \in Name : LoadedUsers(docs)[n] # 0 =>
                 LoadedObjects(docs)[LoadedUsers(docs)[n]] =
                    [password |-> docs[n], access |-> 0, refresh |-> 0]
           /\ \A m, n \in Name : LoadedUsers(docs)[m] = LoadedUsers(docs)[n] =>
                 m = n \/ LoadedUsers(docs)[m] = 0
           /\ \A n \in Name : LoadedUsers(docs)[n] # 0 =>
                 /\ LoadedUsers(docs)[n] \in DOMAIN LoadedObjects(docs)
                 /\ LoadedObjects(docs)[LoadedUsers(docs)[n]].password \in Password
<1>1. PICK k : k = Cardinality(Name)
  OBVIOUS
<1>2. /\ k \in Nat /\ k <= MaxObjects
      /\ Index \in [Name -> 1..k]
      /\ \A m, n \in Name : Index[m] = Index[n] => m = n
      /\ \A i \in 1..k : \E n \in Name : Index[n] = i
  BY <1>1, IndexFacts DEF Bounded
<1> DEFINE name(i) == CHOOSE n \in Name : Index[n] = i
<1>3. \A i \in 1..k : name(i) \in Name /\ Index[name(i)] = i
  BY <1>2
<1>4. \A n \in Name : name(Index[n]) = n
  BY <1>2, <1>3
<1>5. PICK o : o = LoadedObjects(docs)
  OBVIOUS
<1>6. o = [i \in 1..k |-> [password |-> docs[name(i)], access |-> 0, refresh |-> 0]]
  BY <1>1, <1>5 DEF LoadedObjects
<1> HIDE DEF name
<1>7. o \in Seq(Object) /\ Len(o) = k
  <2>1. \A i \in 1..k : [password |-> docs[name(i)], access |-> 0, refresh |-> 0] \in Object
    BY <1>3 DEF Object, Bounded
  <2>2. o \in [1..k -> Object]
    BY <1>6, <2>1
  <2> QED BY <1>2, <2>2
<1>8. PICK u : u = LoadedUsers(docs)
  OBVIOUS
<1>9. u = [n \in Name |-> IF docs[n] = NoUser THEN 0 ELSE Index[n]]
  BY <1>8 DEF LoadedUsers
<1>10. /\ u \in [Name -> 0..k]
       /\ \A n \in Name : u[n] = 0 <=> docs[n] = NoUser
       /\ \A n \in Name : u[n] # 0 => u[n] = Index[n] /\ u[n] \in 1..k
  BY <1>2, <1>9
<1>11. \A n \in Name : u[n] # 0 => o[u[n]] = [password |-> docs[n], access |-> 0, refresh |-> 0]
  BY <1>4, <1>6, <1>10
<1>12. \A m, n \in Name : u[m] = u[n] => m = n \/ u[m] = 0
  BY <1>2, <1>10
<1>13. \A n \in Name : u[n] # 0 => u[n] \in DOMAIN o /\ o[u[n]].password \in Password
  <2> TAKE n \in Name
  <2> HAVE u[n] # 0
  <2>1. docs[n] \in Password /\ u[n] \in DOMAIN o
    BY <1>6, <1>10
  <2>2. o[u[n]] = [password |-> docs[n], access |-> 0, refresh |-> 0]
    BY <1>11
  <2>3. o[u[n]].password = docs[n]
    BY <2>2
  <2> QED BY <2>1, <2>3
<1> QED BY <1>2, <1>5, <1>7, <1>8, <1>10, <1>11, <1>12, <1>13
-----------------------------------------------------------------------------
\* A step of a call is a new record for one actor.
Turns(a, d) == call' = [call EXCEPT ![a] = d]

\* A call that goes on keeps what it knows.
Goes(c, d) ==
    /\ d \in Call /\ d.kind = c.kind /\ d.name = c.name /\ d.obj = c.obj /\ d.pair = c.pair

LEMMA FreeFacts ==
    Bounded => /\ Free \in Call /\ Shape(Free) /\ Free.at = "free" /\ Free.obj = 0
               /\ Free.kind = "none"
BY DEF Bounded, Free, Call, Shape, Logins

LEMMA GotoTurns ==
    ASSUME call \in [Actor -> Call], NEW a \in Actor,
           NEW at \in {"find", "erase", "refresh", "update", "put"}, Goto(a, at)
    PROVE  \E d : Turns(a, d) /\ Goes(call[a], d) /\ d.at = at
<1>1. PICK c \in Call : c = call[a]
  OBVIOUS
<1>2. PICK d : d = [c EXCEPT !.at = at]
  OBVIOUS
<1>3. at \in {"free", "set", "access", "refresh", "update", "put", "find", "write", "pop", "erase"}
  OBVIOUS
<1>4. Goes(c, d) /\ d.at = at
  BY <1>2, <1>3 DEF Goes, Call
<1>5. Turns(a, d)
  BY <1>1, <1>2 DEF Goto, Turns
<1> QED BY <1>1, <1>4, <1>5

LEMMA FindTurns ==
    ASSUME call \in [Actor -> Call], NEW a \in Actor, SaveFind(a)
    PROVE  \E d : /\ Turns(a, d) /\ Goes(call[a], d) /\ d.at = "write"
                  /\ d.found = (db[call[a].name] # <<>>)
<1>1. PICK c \in Call : c = call[a]
  OBVIOUS
<1>2. PICK found \in BOOLEAN : found = (db[c.name] # <<>>)
  OBVIOUS
<1>3. PICK d : d = [c EXCEPT !.at = "write", !.found = found]
  OBVIOUS
<1>4. Goes(c, d) /\ d.at = "write" /\ d.found = found
  BY <1>3 DEF Goes, Call
<1>5. Turns(a, d)
  BY <1>1, <1>2, <1>3 DEF SaveFind, Turns
<1> QED BY <1>1, <1>2, <1>4, <1>5

\* A call begins.
Begun(d, n, kind, at, o, k) ==
    /\ d \in Call /\ Shape(d) /\ d.at = at /\ d.kind = kind /\ d.name = n
    /\ d.obj = o /\ d.pair = k

LEMMA BeginTurns ==
    ASSUME Bounded, call \in [Actor -> Call], NEW a \in Actor, NEW n \in Name,
           NEW kind, NEW at, NEW o \in 0..MaxObjects, NEW k \in 0..MaxPairs,
           <<kind, at>> \in {<<"add", "set">>, <<"delete", "pop">>, <<"login", "access">>,
                             <<"logout", "access">>},
           Begin(a, n, kind, at, o, k)
    PROVE  /\ \E d : Turns(a, d) /\ Begun(d, n, kind, at, o, k)
           /\ call[a].at = "free"
<1>1. PICK d : d = [Free EXCEPT !.at = at, !.kind = kind, !.name = n, !.obj = o, !.pair = k]
  OBVIOUS
<1>2. d = [at |-> at, kind |-> kind, name |-> n, obj |-> o, pair |-> k, found |-> FALSE]
  BY <1>1 DEF Free
<1>3. /\ at \in {"set", "pop", "access"} /\ kind \in {"add", "delete", "login", "logout"}
      /\ kind = "add" <=> at = "set"
      /\ kind = "delete" <=> at = "pop"
  OBVIOUS
<1>4. d \in Call
  BY <1>2, <1>3 DEF Call
<1>5. d.at = at /\ d.kind = kind /\ d.name = n /\ d.obj = o /\ d.pair = k
  BY <1>2
<1>6. Shape(d)
  BY <1>3, <1>5 DEF Shape, Logins
<1>7. Turns(a, d) /\ call[a].at = "free"
  BY <1>1 DEF Begin, Turns
<1> QED BY <1>4, <1>5, <1>6, <1>7 DEF Begun
-----------------------------------------------------------------------------
\* Actor a, at work on n if on anybody, makes a step: its call becomes d, and the
\* dictionary may change at n.
Works(a, n, d) ==
    /\ d \in Call /\ Turns(a, d)
    /\ call[a].at # "free" => call[a].name = n
    /\ d.at # "free" => d.name = n
    /\ users' = [users EXCEPT ![n] = users'[n]]

LEMMA WorksCalls ==
    ASSUME call \in [Actor -> Call], DOMAIN users = Name,
           NEW a \in Actor, NEW n \in Name, NEW d, Works(a, n, d)
    PROVE  /\ call' \in [Actor -> Call] /\ call'[a] = d
           /\ \A b \in Actor \ {a} : call'[b] = call[b]
           /\ \A m \in Name \ {n} : Busy(m)' = Busy(m) /\ Objects(m)' = Objects(m)
           /\ Busy(n)' = IF d.at = "free" THEN Busy(n) \ {a} ELSE Busy(n) \cup {a}
           /\ \A i \in Objects(n)' : \/ i \in Objects(n)
                                     \/ i = users'[n] /\ i # 0
                                     \/ i = d.obj /\ d.at # "free"
<1>1. call' \in [Actor -> Call] /\ call'[a] = d /\ \A b \in Actor \ {a} : call'[b] = call[b]
  BY DEF Works, Turns
<1>2. ASSUME NEW m \in Name \ {n} PROVE Busy(m)' = Busy(m)
  <2>1. \A b \in Actor : call'[b].at # "free" /\ call'[b].name = m
                            <=> call[b].at # "free" /\ call[b].name = m
    BY <1>1, <1>2 DEF Works
  <2> QED BY <2>1 DEF Busy
<1>3. ASSUME NEW m \in Name \ {n} PROVE Objects(m)' = Objects(m)
  <2>1. a \notin Busy(m) /\ users'[m] = users[m]
    BY DEF Busy, Works
  <2>2. \A b \in Busy(m) : call'[b] = call[b]
    BY <1>1, <2>1 DEF Busy
  <2>3. {call'[b].obj : b \in Busy(m)'} = {call[b].obj : b \in Busy(m)}
    BY <1>2, <2>2
  <2> QED BY <2>1, <2>3 DEF Objects
<1>4. Busy(n)' = IF d.at = "free" THEN Busy(n) \ {a} ELSE Busy(n) \cup {a}
  <2>1. \A b \in Actor \ {a} : call'[b].at # "free" /\ call'[b].name = n
                                  <=> call[b].at # "free" /\ call[b].name = n
    BY <1>1
  <2>2. call'[a].at # "free" /\ call'[a].name = n <=> d.at # "free"
    BY <1>1 DEF Works
  <2> QED BY <2>1, <2>2 DEF Busy
<1>5. ASSUME NEW i \in Objects(n)'
      PROVE  \/ i \in Objects(n)
             \/ i = users'[n] /\ i # 0
             \/ i = d.obj /\ d.at # "free"
  <2>1. CASE i = users'[n] /\ i # 0
    BY <2>1
  <2>2. ASSUME NEW b \in Busy(n)', i = call'[b].obj
        PROVE  i \in Objects(n) \/ (i = d.obj /\ d.at # "free")
    <3>1. CASE b = a
      BY <1>1, <1>4, <2>2, <3>1
    <3>2. CASE b # a
      <4>1. b \in Busy(n) /\ b \in Actor
        BY <1>4, <3>2 DEF Busy
      <4>2. call'[b] = call[b]
        BY <1>1, <3>2, <4>1
      <4> QED BY <2>2, <4>1, <4>2 DEF Objects
    <3> QED BY <3>1, <3>2
  <2> QED BY <1>5, <2>1, <2>2 DEF Objects
<1> QED BY <1>1, <1>2, <1>3, <1>4, <1>5

\* Objects are never lost, nor do they change their password.
Extended(old, new) ==
    \A i \in DOMAIN old : i \in DOMAIN new /\ new[i].password = old[i].password

\* No two names share an object after a step that uses those of n, or a new one.
LEMMA OwnedStep ==
    ASSUME Base, NEW a \in Actor, NEW n \in Name, NEW d, Works(a, n, d),
           Extended(object, object'),
           NEW new, \A i \in new : i \in DOMAIN object' \ DOMAIN object
                                   /\ object'[i].password \in Password,
           users'[n] \in Objects(n) \cup new \cup {0},
           d.at # "free" => d.obj \in Objects(n) \cup new
    PROVE  Owned'
<1>1. call \in [Actor -> Call] /\ DOMAIN users = Name
  BY DEF Base, TypeOK
<1>2. \A i \in Objects(n)' : i \in Objects(n) \cup new
  BY <1>1, WorksCalls
<1>3. \A m \in Name \ {n} : Objects(m)' = Objects(m)
  BY <1>1, WorksCalls
<1>4. /\ \A m \in Name : \A i \in Objects(m) :
            i \in DOMAIN object /\ object[i].password \in Password
      /\ \A k, m \in Name : k # m => Objects(k) \cap Objects(m) = {}
  BY DEF Base, Owned
<1>5. ASSUME NEW m \in Name, NEW i \in Objects(m)'
      PROVE  i \in DOMAIN object' /\ object'[i].password \in Password
  <2>1. CASE i \in Objects(m)
    BY <1>4, <2>1 DEF Extended
  <2>2. CASE i \notin Objects(m)
    <3>1. m = n
      BY <1>3, <1>5, <2>2
    <3> QED BY <1>2, <1>5, <2>2, <3>1
  <2> QED BY <2>1, <2>2
<1>6. \A m \in Name \ {n} : Objects(m)' \cap Objects(n)' = {}
  BY <1>2, <1>3, <1>4
<1>7. \A k, m \in Name : k # m => Objects(k)' \cap Objects(m)' = {}
  BY <1>3, <1>4, <1>6
<1> QED BY <1>5, <1>7 DEF Owned
-----------------------------------------------------------------------------
\* The hash of one token is replaced.
Hashed(old, i, k, new) ==
    new = [old EXCEPT ![i].access = k] \/ new = [old EXCEPT ![i].refresh = k]

LEMMA TokenFacts ==
    ASSUME NEW old \in Seq(Object), NEW i \in DOMAIN old, NEW k \in 0..MaxPairs, NEW new,
           Hashed(old, i, k, new)
    PROVE  /\ new \in Seq(Object) /\ Len(new) = Len(old) /\ DOMAIN new = DOMAIN old
           /\ Extended(old, new)
           /\ \A j \in DOMAIN old \ {i} : new[j] = old[j]
           /\ \/ new[i].access = k /\ new[i].refresh = old[i].refresh
              \/ new[i].refresh = k /\ new[i].access = old[i].access
<1>1. PICK x \in Object : x = old[i]
  OBVIOUS
<1>2. PICK y : new = [old EXCEPT ![i] = y] /\ (y = [x EXCEPT !.access = k]
                                                 \/ y = [x EXCEPT !.refresh = k])
  BY <1>1 DEF Hashed
<1>3. /\ y \in Object /\ y.password = x.password
      /\ \/ y.access = k /\ y.refresh = x.refresh
         \/ y.refresh = k /\ y.access = x.access
  BY <1>2 DEF Object
<1>4. /\ new \in Seq(Object) /\ Len(new) = Len(old) /\ DOMAIN new = DOMAIN old
      /\ new[i] = y /\ \A j \in DOMAIN old \ {i} : new[j] = old[j]
  BY <1>2, <1>3
<1>5. Extended(old, new)
  BY <1>1, <1>3, <1>4 DEF Extended
<1> QED BY <1>1, <1>3, <1>4, <1>5

\* What a step of a call has to show for Base.
LEMMA BaseStep ==
    ASSUME Bounded, Base, NEW a \in Actor, NEW n \in Name, NEW d, Works(a, n, d), Shape(d),
           object' \in Seq(Object), Len(object') <= MaxObjects, Extended(object, object'),
           NEW new, \A i \in new : i \in DOMAIN object' \ DOMAIN object
                                   /\ object'[i].password \in Password,
           users'[n] \in Objects(n) \cup new \cup {0},
           d.at # "free" => d.obj \in Objects(n) \cup new,
           db' \in [Name -> Seq(Password)], pairs' \in 0..MaxPairs,
           account' \in [Name -> Password \cup {NoUser}], mixed' \subseteq Name,
           stops' = stops
    PROVE  Base'
<1>1. /\ call \in [Actor -> Call] /\ users \in [Name -> 0..Len(object)] /\ DOMAIN users = Name
      /\ object \in Seq(Object) /\ DOMAIN object = 1..Len(object) /\ Len(object) \in Nat
      /\ \A b \in Actor : Shape(call[b])
      /\ \A m \in Name : \A i \in Objects(m) : i \in DOMAIN object
      /\ stops \in 0..MaxStops
  BY DEF Base, TypeOK, Owned, Object
<1>2. Owned'
  BY OwnedStep
<1>3. call' \in [Actor -> Call] /\ \A b \in Actor : Shape(call'[b])
  <2>1. /\ call' \in [Actor -> Call] /\ call'[a] = d
        /\ \A b \in Actor \ {a} : call'[b] = call[b]
    BY <1>1, WorksCalls
  <2>2. ASSUME NEW b \in Actor PROVE Shape(call'[b])
    <3>1. CASE b = a
      BY <2>1, <3>1
    <3>2. CASE b # a
      BY <1>1, <2>1, <3>2
    <3> QED BY <3>1, <3>2
  <2> QED BY <2>1, <2>2
<1>4. users' \in [Name -> 0..Len(object')]
  <2>1. \A i \in DOMAIN object : i \in DOMAIN object'
    BY DEF Extended
  <2>2. DOMAIN object' = 1..Len(object') /\ Len(object') \in Nat
    OBVIOUS
  <2>3. users'[n] \in 0..Len(object')
    BY <1>1, <2>1, <2>2
  <2>4. \A m \in Name : users[m] \in 0..Len(object')
    <3> TAKE m \in Name
    <3>1. users[m] = 0 \/ users[m] \in DOMAIN object
      BY <1>1
    <3> QED BY <2>1, <2>2, <3>1
  <2>5. users' = [users EXCEPT ![n] = users'[n]]
    BY DEF Works
  <2> QED BY <1>1, <2>3, <2>4, <2>5
<1> QED BY <1>1, <1>2, <1>3, <1>4 DEF Base, TypeOK, Object
-----------------------------------------------------------------------------
\* What a call in progress knows.
LEMMA BusyFacts ==
    ASSUME Base, NEW a \in Actor, call[a].at # "free"
    PROVE  /\ call[a] \in Call /\ call[a].name \in Name /\ a \in Busy(call[a].name)
           /\ Shape(call[a]) /\ call[a].obj \in Objects(call[a].name)
           /\ call[a].obj \in DOMAIN object /\ call[a].obj # 0
           /\ object[call[a].obj].password \in Password
<1>1. call[a] \in Call /\ Shape(call[a]) /\ DOMAIN object = 1..Len(object)
  BY DEF Base, TypeOK
<1>2. call[a].name \in Name /\ call[a].obj \in 0..MaxObjects
  BY <1>1 DEF Call
<1>3. a \in Busy(call[a].name)
  BY DEF Busy
<1>4. call[a].obj \in Objects(call[a].name)
  BY <1>3 DEF Objects
<1>5. call[a].obj \in DOMAIN object /\ object[call[a].obj].password \in Password
  BY <1>2, <1>4 DEF Base, Owned
<1> QED BY <1>1, <1>2, <1>3, <1>4, <1>5

\* What an entry of the dictionary is.
LEMMA EntryFacts ==
    ASSUME Bounded, Base, NEW n \in Name
    PROVE  /\ users[n] \in 0..MaxObjects
           /\ users[n] # 0 => /\ users[n] \in Objects(n) /\ users[n] \in DOMAIN object
                              /\ object[users[n]].password \in Password
<1>1. users[n] \in 0..Len(object) /\ Len(object) <= MaxObjects /\ Len(object) \in Nat
      /\ MaxObjects \in Nat
  BY DEF Base, TypeOK, Bounded
<1>2. users[n] # 0 => users[n] \in Objects(n)
  BY DEF Objects
<1>3. users[n] \in 0..MaxObjects
  BY <1>1
<1> QED BY <1>2, <1>3 DEF Base, Owned

\* A call goes on.
LEMMA GoesWorks ==
    ASSUME Base, NEW a \in Actor, NEW d, Turns(a, d), Goes(call[a], d), call[a].at # "free",
           UNCHANGED users \/ \E u : users' = [users EXCEPT ![call[a].name] = u]
    PROVE  Works(a, call[a].name, d) /\ d.obj \in Objects(call[a].name)
<1>1. call[a].name \in Name /\ DOMAIN users = Name /\ users = [n \in Name |-> users[n]]
  BY BusyFacts DEF Base, TypeOK
<1>2. users' = [users EXCEPT ![call[a].name] = users'[call[a].name]]
  BY <1>1
<1>3. d \in Call /\ d.name = call[a].name /\ d.obj = call[a].obj
  BY DEF Goes
<1> QED BY <1>2, <1>3, BusyFacts DEF Works

\* A call ends.
LEMMA EndsWorks ==
    ASSUME Bounded, Base, NEW a \in Actor, Turns(a, Free), call[a].at # "free",
           UNCHANGED users \/ \E u : users' = [users EXCEPT ![call[a].name] = u]
    PROVE  Works(a, call[a].name, Free)
<1>1. call[a].name \in Name /\ DOMAIN users = Name /\ users = [n \in Name |-> users[n]]
  BY BusyFacts DEF Base, TypeOK
<1>2. users' = [users EXCEPT ![call[a].name] = users'[call[a].name]]
  BY <1>1
<1> QED BY <1>2, FreeFacts DEF Works

\* A call begins.
LEMMA BeginsWorks ==
    ASSUME Base, NEW a \in Actor, NEW n \in Name, NEW d, NEW kind, NEW at, NEW o, NEW k,
           Turns(a, d), Begun(d, n, kind, at, o, k), call[a].at = "free", UNCHANGED users
    PROVE  Works(a, n, d) /\ Shape(d)
<1>1. users' = [users EXCEPT ![n] = users'[n]]
  BY DEF Base, TypeOK
<1> QED BY <1>1 DEF Works, Begun

\* The conjuncts of TypeOK for an object that stays.
LEMMA SameObjects ==
    ASSUME Base, UNCHANGED object
    PROVE  /\ object' \in Seq(Object) /\ Len(object') <= MaxObjects /\ Extended(object, object')
BY DEF Base, TypeOK, Object, Extended
-----------------------------------------------------------------------------
LEMMA BaseInit == Bounded /\ Init => Base
<1> SUFFICES ASSUME Bounded, Init PROVE Base
  OBVIOUS
<1>1. account \in [Name -> Password \cup {NoUser}]
  BY DEF Init
<1>2. PICK docs \in [Name -> Password \cup {NoUser}] : docs = account
  BY <1>1
<1>3. /\ object \in Seq(Object) /\ Len(object) <= MaxObjects
      /\ users \in [Name -> 0..Len(object)]
      /\ \A n \in Name : users[n] = 0 <=> docs[n] = NoUser
      /\ \A n \in Name : users[n] # 0 =>
            users[n] \in DOMAIN object /\ object[users[n]].password \in Password
      /\ \A m, n \in Name : users[m] = users[n] => m = n \/ users[m] = 0
  BY <1>2, LoadFacts DEF Init
<1>4. db \in [Name -> Seq(Password)]
  <2>1. \A n \in Name : n = Admin => account[n] \in Password
    BY DEF Init
  <2> QED BY <2>1 DEF Init
<1>5. call \in [Actor -> Call] /\ \A a \in Actor : Shape(call[a]) /\ call[a].at = "free"
  BY FreeFacts DEF Init
<1>6. \A n \in Name : Busy(n) = {} /\ Objects(n) = {users[n]} \ {0}
  BY <1>5 DEF Busy, Objects
<1>7. Owned
  <2>1. ASSUME NEW n \in Name, NEW i \in Objects(n)
        PROVE  i \in DOMAIN object /\ object[i].password \in Password
    BY <1>3, <1>6, <2>1
  <2>2. \A m, n \in Name : m # n => Objects(m) \cap Objects(n) = {}
    BY <1>3, <1>6
  <2> QED BY <2>1, <2>2 DEF Owned
<1> QED BY <1>1, <1>3, <1>4, <1>5, <1>7 DEF Base, TypeOK, Object, Init, Bounded

\* A call of n puts its object into the dictionary, goes on or ends, and leaves the rest.
LEMMA BaseGoes ==
    ASSUME Bounded, Base, NEW a \in Actor, NEW d, Turns(a, d), Goes(call[a], d), Shape(d),
           call[a].at # "free",
           \/ UNCHANGED users
           \/ users' = [users EXCEPT ![call[a].name] = 0]
           \/ users' = [users EXCEPT ![call[a].name] = call[a].obj],
           object' \in Seq(Object), Len(object') <= MaxObjects, Extended(object, object'),
           UNCHANGED <<db, pairs, account, mixed, stops>>
    PROVE  Base'
<1>1. PICK n \in Name : n = call[a].name
  BY BusyFacts
<1>2. Works(a, n, d) /\ d.obj \in Objects(n)
  BY <1>1, GoesWorks
<1>3. users'[n] \in Objects(n) \cup {0}
  <2>1. call[a].obj \in Objects(n) /\ users[n] \in Objects(n) \cup {0} /\ DOMAIN users = Name
    BY <1>1, BusyFacts, EntryFacts DEF Base, TypeOK
  <2> QED BY <1>1, <2>1
<1>4. /\ db' \in [Name -> Seq(Password)] /\ pairs' \in 0..MaxPairs
      /\ account' \in [Name -> Password \cup {NoUser}] /\ mixed' \subseteq Name /\ stops' = stops
  BY DEF Base, TypeOK
<1>5. PICK new : new = {}
  OBVIOUS
<1>6. /\ \A i \in new : i \in DOMAIN object' \ DOMAIN object /\ object'[i].password \in Password
      /\ users'[n] \in Objects(n) \cup new \cup {0}
      /\ d.at # "free" => d.obj \in Objects(n) \cup new
  BY <1>2, <1>3, <1>5
<1> QED BY <1>2, <1>4, <1>6, BaseStep

LEMMA BaseEnds ==
    ASSUME Bounded, Base, NEW a \in Actor, Turns(a, Free), call[a].at # "free",
           UNCHANGED users \/ users' = [users EXCEPT ![call[a].name] = 0],
           db' \in [Name -> Seq(Password)], account' \in [Name -> Password \cup {NoUser}],
           UNCHANGED <<object, pairs, mixed, stops>>
    PROVE  Base'
<1>1. PICK n \in Name : n = call[a].name
  BY BusyFacts
<1>2. Works(a, n, Free) /\ Shape(Free) /\ Free.at = "free"
  BY <1>1, EndsWorks, FreeFacts
<1>3. users'[n] \in Objects(n) \cup {0}
  <2>1. users[n] \in Objects(n) \cup {0} /\ DOMAIN users = Name
    BY EntryFacts DEF Base, TypeOK
  <2> QED BY <1>1, <2>1
<1>4. pairs' \in 0..MaxPairs /\ mixed' \subseteq Name /\ stops' = stops
  BY DEF Base, TypeOK
<1>5. PICK new : new = {}
  OBVIOUS
<1>6. /\ \A i \in new : i \in DOMAIN object' \ DOMAIN object /\ object'[i].password \in Password
      /\ users'[n] \in Objects(n) \cup new \cup {0}
      /\ Free.at # "free" => Free.obj \in Objects(n) \cup new
  BY <1>2, <1>3, <1>5
<1>7. object' \in Seq(Object) /\ Len(object') <= MaxObjects /\ Extended(object, object')
  BY SameObjects
<1> QED BY <1>2, <1>4, <1>6, <1>7, BaseStep

LEMMA BaseBegins ==
    ASSUME Bounded, Base, NEW a \in Actor, NEW n \in Name, NEW d, NEW kind, NEW at, NEW k,
           Turns(a, d), Begun(d, n, kind, at, users[n], k), call[a].at = "free", users[n] # 0,
           pairs' \in 0..MaxPairs, mixed' \subseteq Name,
           UNCHANGED <<object, users, db, account, stops>>
    PROVE  Base'
<1>1. Works(a, n, d) /\ Shape(d)
  BY BeginsWorks
<1>2. db' \in [Name -> Seq(Password)] /\ account' \in [Name -> Password \cup {NoUser}]
  BY DEF Base, TypeOK
<1>3. users[n] \in Objects(n) /\ users'[n] = users[n] /\ d.obj = users[n]
  BY EntryFacts DEF Begun
<1>4. PICK new : new = {}
  OBVIOUS
<1>5. /\ \A i \in new : i \in DOMAIN object' \ DOMAIN object /\ object'[i].password \in Password
      /\ users'[n] \in Objects(n) \cup new \cup {0}
      /\ d.at # "free" => d.obj \in Objects(n) \cup new
  BY <1>3, <1>4
<1>6. object' \in Seq(Object) /\ Len(object') <= MaxObjects /\ Extended(object, object')
  BY SameObjects
<1> QED BY <1>1, <1>2, <1>5, <1>6, BaseStep

LEMMA BaseRestart == Bounded /\ Base /\ Restart => Base'
<1> SUFFICES ASSUME Bounded, Base, Restart PROVE Base'
  OBVIOUS
<1>1. PICK docs : docs = [n \in Name |-> Doc(n)]
  OBVIOUS
<1>2. docs \in [Name -> Password \cup {NoUser}]
  <2>1. \A n \in Name : Doc(n) \in Password \cup {NoUser}
    BY DEF Base, TypeOK, Doc
  <2> QED BY <1>1, <2>1
<1>3. /\ object' = LoadedObjects(docs) /\ users' = LoadedUsers(docs)
      /\ account' = [n \in Name |-> IF Busy(n) = {} THEN account[n] ELSE docs[n]]
  BY <1>1 DEF Restart
<1>4. /\ object' \in Seq(Object) /\ Len(object') <= MaxObjects
      /\ users' \in [Name -> 0..Len(object')]
      /\ \A n \in Name : users'[n] # 0 =>
            users'[n] \in DOMAIN object' /\ object'[users'[n]].password \in Password
      /\ \A m, n \in Name : users'[m] = users'[n] => m = n \/ users'[m] = 0
  BY <1>2, <1>3, LoadFacts
<1>5. call' \in [Actor -> Call] /\ \A a \in Actor : Shape(call'[a]) /\ call'[a].at = "free"
  BY FreeFacts DEF Restart
<1>6. \A n \in Name : Busy(n)' = {} /\ Objects(n)' = {users'[n]} \ {0}
  BY <1>5 DEF Busy, Objects
<1>7. Owned'
  <2>1. ASSUME NEW n \in Name, NEW i \in Objects(n)'
        PROVE  i \in DOMAIN object' /\ object'[i].password \in Password
    BY <1>4, <1>6, <2>1
  <2>2. \A m, n \in Name : m # n => Objects(m)' \cap Objects(n)' = {}
    BY <1>4, <1>6
  <2> QED BY <2>1, <2>2 DEF Owned
<1>8. account' \in [Name -> Password \cup {NoUser}]
  BY <1>2, <1>3 DEF Base, TypeOK
<1>9. /\ db' \in [Name -> Seq(Password)] /\ pairs' \in 0..MaxPairs
      /\ mixed' \in SUBSET Name /\ stops' \in 0..MaxStops
  BY DEF Restart, Base, TypeOK, Bounded
<1> QED BY <1>4, <1>5, <1>7, <1>8, <1>9 DEF Base, TypeOK, Object

\* A call of the worker a goes one step on.
LEMMA BaseGoesOn ==
    ASSUME Bounded, Base, NEW a \in Actor, call[a].at # "free",
           Put(a) \/ SaveFind(a) \/ SetAccess(a) \/ SetRefresh(a)
    PROVE  Base'
<1>1. /\ call \in [Actor -> Call] /\ Shape(call[a]) /\ call[a].obj \in DOMAIN object
      /\ call[a] \in Call /\ call[a].pair \in 0..MaxPairs
      /\ object \in Seq(Object) /\ Len(object) <= MaxObjects
  BY BusyFacts DEF Base, TypeOK, Object, Call
<1>2. ASSUME Put(a) PROVE Base'
  <2>1. PICK d : Turns(a, d) /\ Goes(call[a], d) /\ d.at = "find"
    BY <1>1, <1>2, GotoTurns DEF Put
  <2>2. Shape(d)
    BY <1>1, <1>2, <2>1 DEF Put, Shape, Goes, Logins
  <2> QED BY <1>2, <2>1, <2>2, BaseGoes, SameObjects DEF Put
<1>3. ASSUME SaveFind(a) PROVE Base'
  <2>1. PICK d : Turns(a, d) /\ Goes(call[a], d) /\ d.at = "write"
    BY <1>1, <1>3, FindTurns
  <2>2. Shape(d)
    BY <1>1, <1>3, <2>1 DEF SaveFind, Shape, Goes, Logins
  <2> QED BY <1>3, <2>1, <2>2, BaseGoes, SameObjects DEF SaveFind
<1>4. ASSUME SetAccess(a) PROVE Base'
  <2>1. PICK d : Turns(a, d) /\ Goes(call[a], d) /\ d.at = "refresh"
    BY <1>1, <1>4, GotoTurns DEF SetAccess
  <2>2. Shape(d)
    BY <1>1, <1>4, <2>1 DEF SetAccess, Shape, Goes, Logins
  <2>3. PICK i \in DOMAIN object, k \in 0..MaxPairs : i = call[a].obj /\ k = call[a].pair
    BY <1>1
  <2>4. PICK new : new = object'
    OBVIOUS
  <2>5. Hashed(object, i, k, new)
    BY <1>4, <2>3, <2>4 DEF SetAccess, Hashed
  <2>6. object \in Seq(Object)
    BY <1>1
  <2>7. new \in Seq(Object) /\ Len(new) = Len(object) /\ Extended(object, new)
    BY <2>5, <2>6, TokenFacts
  <2>8. object' \in Seq(Object) /\ Len(object') <= MaxObjects /\ Extended(object, object')
    BY <1>1, <2>7, <2>4
  <2> QED BY <1>4, <2>1, <2>2, <2>8, BaseGoes DEF SetAccess
<1>5. ASSUME SetRefresh(a) PROVE Base'
  <2>1. PICK d : Turns(a, d) /\ Goes(call[a], d) /\ d.at = "update"
    BY <1>1, <1>5, GotoTurns DEF SetRefresh
  <2>2. Shape(d)
    BY <1>1, <1>5, <2>1 DEF SetRefresh, Shape, Goes, Logins
  <2>3. PICK i \in DOMAIN object, k \in 0..MaxPairs : i = call[a].obj /\ k = call[a].pair
    BY <1>1
  <2>4. PICK new : new = object'
    OBVIOUS
  <2>5. Hashed(object, i, k, new)
    BY <1>5, <2>3, <2>4 DEF SetRefresh, Hashed
  <2>6. object \in Seq(Object)
    BY <1>1
  <2>7. new \in Seq(Object) /\ Len(new) = Len(object) /\ Extended(object, new)
    BY <2>5, <2>6, TokenFacts
  <2>8. object' \in Seq(Object) /\ Len(object') <= MaxObjects /\ Extended(object, object')
    BY <1>1, <2>7, <2>4
  <2> QED BY <1>5, <2>1, <2>2, <2>8, BaseGoes DEF SetRefresh
<1> QED BY <1>2, <1>3, <1>4, <1>5

\* What a call writes into the collection.
LEMMA WriteFacts ==
    ASSUME NEW docs \in Seq(Password), NEW p \in Password, NEW found \in BOOLEAN, NEW new,
           new = IF ~found THEN Append(docs, p)
                 ELSE IF docs = <<>> THEN docs ELSE [docs EXCEPT ![1] = p]
    PROVE  /\ new \in Seq(Password)
           /\ docs = <<>> /\ ~found => Len(new) = 1 /\ new[1] = p
           /\ Len(docs) = 1 /\ found => Len(new) = 1 /\ new[1] = p
<1>1. CASE ~found
  BY <1>1
<1>2. CASE found /\ docs = <<>>
  BY <1>2
<1>3. CASE found /\ docs # <<>>
  BY <1>3
<1> QED BY <1>1, <1>2, <1>3

\* It ends, or takes one of two ways.
LEMMA BaseOver ==
    ASSUME Bounded, Base, NEW a \in Actor, call[a].at # "free",
           SaveWrite(a) \/ DeletePop(a) \/ DeleteErase(a) \/ UpdateCheck(a)
    PROVE  Base'
<1>1. PICK n \in Name : n = call[a].name
  BY BusyFacts
<1>2. PICK c \in Call : c = call[a]
  BY BusyFacts
<1>3. /\ call \in [Actor -> Call] /\ Shape(c) /\ c.found \in BOOLEAN
      /\ object[c.obj].password \in Password
      /\ db \in [Name -> Seq(Password)] /\ account \in [Name -> Password \cup {NoUser}]
  BY <1>2, BusyFacts DEF Base, TypeOK, Call
<1>4. ASSUME SaveWrite(a) PROVE Base'
  <2>1. PICK p \in Password : p = object[c.obj].password
    BY <1>3
  <2>2. PICK new : new = IF ~c.found THEN Append(db[n], p)
                         ELSE IF db[n] = <<>> THEN db[n] ELSE [db[n] EXCEPT ![1] = p]
    OBVIOUS
  <2>3. new \in Seq(Password)
    BY <1>3, <2>2, WriteFacts
  <2>4. db' = [db EXCEPT ![n] = new]
    BY <1>1, <1>2, <1>4, <2>1, <2>2 DEF SaveWrite
  <2>5. Turns(a, Free) /\ account' = [account EXCEPT ![n] = p]
    BY <1>1, <1>2, <1>4, <2>1 DEF SaveWrite, Return, Turns
  <2>6. /\ db' \in [Name -> Seq(Password)] /\ account' \in [Name -> Password \cup {NoUser}]
        /\ UNCHANGED <<object, users, pairs, mixed, stops>>
    <3>1. UNCHANGED <<object, users, pairs, mixed, stops>>
      BY <1>4 DEF SaveWrite
    <3>2. db' \in [Name -> Seq(Password)]
      BY <1>3, <2>3, <2>4
    <3>3. account' \in [Name -> Password \cup {NoUser}]
      BY <1>3, <2>5
    <3> QED BY <3>1, <3>2, <3>3
  <2> QED BY <2>5, <2>6, BaseEnds
<1>5. ASSUME DeletePop(a) PROVE Base'
  <2>1. CASE users[n] = 0
    <3>1. Turns(a, Free) /\ users' = [users EXCEPT ![call[a].name] = 0]
      BY <1>1, <1>5, <2>1 DEF DeletePop, Turns
    <3> QED BY <1>3, <1>5, <3>1, BaseEnds DEF DeletePop
  <2>2. CASE users[n] # 0
    <3>1. PICK d : Turns(a, d) /\ Goes(call[a], d) /\ d.at = "erase"
      <4>1. Goto(a, "erase")
        BY <1>1, <1>5, <2>2 DEF DeletePop
      <4> QED BY <1>3, <4>1, GotoTurns
    <3>2. Shape(d)
      BY <1>2, <1>3, <1>5, <3>1 DEF DeletePop, Shape, Goes, Logins
    <3> QED BY <1>5, <3>1, <3>2, BaseGoes, SameObjects DEF DeletePop
  <2> QED BY <2>1, <2>2
<1>6. ASSUME DeleteErase(a) PROVE Base'
  <2>1. PICK new : new = IF db[n] = <<>> THEN db[n] ELSE Tail(db[n])
    OBVIOUS
  <2>2. new \in Seq(Password)
    BY <1>3, <2>1
  <2>3. db' = [db EXCEPT ![n] = new]
    BY <1>1, <1>6, <2>1 DEF DeleteErase
  <2>4. Turns(a, Free) /\ account' = [account EXCEPT ![n] = NoUser]
    BY <1>1, <1>6 DEF DeleteErase, Return, Turns
  <2>5. /\ db' \in [Name -> Seq(Password)] /\ account' \in [Name -> Password \cup {NoUser}]
        /\ UNCHANGED <<object, users, pairs, mixed, stops>>
    <3>1. UNCHANGED <<object, users, pairs, mixed, stops>>
      BY <1>6 DEF DeleteErase
    <3>2. db' \in [Name -> Seq(Password)]
      BY <1>3, <2>2, <2>3
    <3>3. account' \in [Name -> Password \cup {NoUser}]
      BY <1>3, <2>4
    <3> QED BY <3>1, <3>2, <3>3
  <2> QED BY <2>4, <2>5, BaseEnds
<1>7. ASSUME UpdateCheck(a) PROVE Base'
  <2>1. CASE users[n] = 0
    <3>1. Turns(a, Free)
      BY <1>1, <1>7, <2>1 DEF UpdateCheck, Turns
    <3> QED BY <1>3, <1>7, <3>1, BaseEnds DEF UpdateCheck
  <2>2. CASE users[n] # 0
    <3>1. PICK d : Turns(a, d) /\ Goes(call[a], d) /\ d.at = "put"
      <4>1. Goto(a, "put")
        BY <1>1, <1>7, <2>2 DEF UpdateCheck
      <4> QED BY <1>3, <4>1, GotoTurns
    <3>2. Shape(d)
      BY <1>2, <1>3, <1>7, <3>1 DEF UpdateCheck, Shape, Goes, Logins
    <3> QED BY <1>7, <3>1, <3>2, BaseGoes, SameObjects DEF UpdateCheck
  <2> QED BY <2>1, <2>2
<1> QED BY <1>4, <1>5, <1>6, <1>7

\* A new call, of an existing user or of one that is to be added.
LEMMA BaseBeginning ==
    ASSUME Bounded, Base, NEW a \in Actor, NEW n \in Name,
           \/ DeleteCheck(a, n)
           \/ \E p \in Password : AddCheck(a, n, p) \/ Login(a, n, p)
           \/ \E k \in 1..MaxPairs : Refresh(a, n, k) \/ Logout(a, n, k)
    PROVE  Base'
<1>1. /\ call \in [Actor -> Call] /\ MaxPairs \in Nat /\ pairs \in 0..MaxPairs
      /\ users[n] \in 0..MaxObjects /\ Len(object) \in Nat /\ MaxObjects \in Nat
      /\ object \in Seq(Object) /\ mixed \subseteq Name
  BY EntryFacts DEF Base, TypeOK, Object, Bounded
<1>2. ASSUME NEW kind, NEW at, NEW o, NEW k, Begin(a, n, kind, at, o, k) PROVE mixed' \subseteq Name
  BY <1>1, <1>2 DEF Begin
<1>3. CASE DeleteCheck(a, n)
  <2>1. PICK d : /\ Turns(a, d) /\ Begun(d, n, "delete", "pop", users[n], 0)
                 /\ call[a].at = "free"
    BY <1>1, <1>3, BeginTurns DEF DeleteCheck
  <2>2. mixed' \subseteq Name /\ pairs' \in 0..MaxPairs
    BY <1>1, <1>2, <1>3 DEF DeleteCheck
  <2> QED BY <1>3, <2>1, <2>2, BaseBegins DEF DeleteCheck
<1>4. ASSUME NEW p \in Password, Login(a, n, p) PROVE Base'
  <2>1. PICK k \in 0..MaxPairs : k = pairs + 1 /\ pairs' = k
    BY <1>1, <1>4 DEF Login
  <2>2. PICK d : /\ Turns(a, d) /\ Begun(d, n, "login", "access", users[n], k)
                 /\ call[a].at = "free"
    BY <1>1, <1>4, <2>1, BeginTurns DEF Login
  <2>3. mixed' \subseteq Name
    BY <1>2, <1>4 DEF Login
  <2> QED BY <1>4, <2>1, <2>2, <2>3, BaseBegins DEF Login
<1>5. ASSUME NEW j \in 1..MaxPairs, Refresh(a, n, j) PROVE Base'
  <2>1. PICK k \in 0..MaxPairs : k = pairs + 1 /\ pairs' = k
    BY <1>1, <1>5 DEF Refresh
  <2>2. PICK d : /\ Turns(a, d) /\ Begun(d, n, "login", "access", users[n], k)
                 /\ call[a].at = "free"
    BY <1>1, <1>5, <2>1, BeginTurns DEF Refresh
  <2>3. mixed' \subseteq Name
    BY <1>2, <1>5 DEF Refresh
  <2> QED BY <1>5, <2>1, <2>2, <2>3, BaseBegins DEF Refresh
<1>6. ASSUME NEW j \in 1..MaxPairs, Logout(a, n, j) PROVE Base'
  <2>1. PICK d : /\ Turns(a, d) /\ Begun(d, n, "logout", "access", users[n], 0)
                 /\ call[a].at = "free"
    BY <1>1, <1>6, BeginTurns DEF Logout
  <2>2. mixed' \subseteq Name /\ pairs' \in 0..MaxPairs
    BY <1>1, <1>2, <1>6 DEF Logout
  <2> QED BY <1>6, <2>1, <2>2, BaseBegins DEF Logout, Valid
<1>7. ASSUME NEW p \in Password, AddCheck(a, n, p) PROVE Base'
  <2>1. PICK i \in 1..MaxObjects : i = Len(object) + 1
    BY <1>1, <1>7 DEF AddCheck
  <2>2. PICK d : Turns(a, d) /\ Begun(d, n, "add", "set", i, 0) /\ call[a].at = "free"
    BY <1>1, <1>7, <2>1, BeginTurns DEF AddCheck
  <2>3. PICK x : x = [password |-> p, access |-> 0, refresh |-> 0]
    OBVIOUS
  <2> x \in Object
    BY <1>1, <2>3 DEF Object
  <2>4. /\ object' = Append(object, x) /\ UNCHANGED <<users, db, pairs, account, stops>>
        /\ mixed' \subseteq Name
    BY <1>2, <1>7, <2>3 DEF AddCheck
  <2>5. /\ object' \in Seq(Object) /\ Len(object') = i /\ object'[i] = x
        /\ \A j \in DOMAIN object : j \in DOMAIN object' /\ object'[j] = object[j]
        /\ i \in DOMAIN object' \ DOMAIN object /\ Len(object') <= MaxObjects
    BY <1>1, <2>1, <2>4
  <2>6. Extended(object, object') /\ object'[i].password \in Password
    BY <2>3, <2>5 DEF Extended
  <2>7. Works(a, n, d) /\ Shape(d)
    BY <2>2, <2>4, BeginsWorks
  <2>8. PICK new : new = {i}
    OBVIOUS
  <2>9. /\ \A j \in new : j \in DOMAIN object' \ DOMAIN object /\ object'[j].password \in Password
        /\ users'[n] \in Objects(n) \cup new \cup {0}
        /\ d.at # "free" => d.obj \in Objects(n) \cup new
    BY <2>2, <2>4, <2>5, <2>6, <2>8, EntryFacts DEF Begun
  <2>10. /\ db' \in [Name -> Seq(Password)] /\ pairs' \in 0..MaxPairs /\ stops' = stops
         /\ account' \in [Name -> Password \cup {NoUser}]
    BY <2>4 DEF Base, TypeOK
  <2> QED BY <2>4, <2>5, <2>6, <2>7, <2>9, <2>10, BaseStep
<1> QED BY <1>3, <1>4, <1>5, <1>6, <1>7

LEMMA BaseInductive == Bounded /\ Base /\ [Next]_vars => Base'
<1> SUFFICES ASSUME Bounded, Base, [Next]_vars PROVE Base'
  OBVIOUS
<1>1. ASSUME NEW a \in Actor, Step(a) PROVE Base'
  <2>1. call[a].at # "free"
    BY <1>1 DEF Step, Put, SaveFind, SaveWrite, DeletePop, DeleteErase, SetAccess, SetRefresh,
                UpdateCheck
  <2> QED BY <1>1, <2>1, BaseGoesOn, BaseOver DEF Step
<1>2. CASE UNCHANGED vars
  <2>1. \A n \in Name : Objects(n)' = Objects(n)
    BY <1>2 DEF vars, Objects, Busy
  <2> QED BY <1>2, <2>1 DEF vars, Base, TypeOK, Owned
<1> QED BY <1>1, <1>2, BaseBeginning, BaseRestart DEF Next

LEMMA BaseAgrees == Base => TypeOK
BY DEF Base

\* What the user manager keeps is well-typed: a call that is in progress names a user and
\* an object, also after any number of restarts.
THEOREM UsersTypes == Bounded => (Spec => []TypeOK)
<1> SUFFICES ASSUME Bounded PROVE Spec => []TypeOK
  OBVIOUS
<1>1. Base => TypeOK
  BY BaseAgrees
<1> QED BY <1>1, BaseInit, BaseInductive, PTL DEF Spec
-----------------------------------------------------------------------------
\* Accounts.

Last(docs) == IF docs = <<>> THEN NoUser ELSE docs[Len(docs)]

\* What call c, of an object with password p, has left so far in the dictionary (u) and in
\* the documents, and the account it is about to settle.
Follows(u, acc, docs, p, c) ==
    /\ c.kind \in Logins => /\ u = c.obj /\ acc = p /\ Last(docs) = acc
                            /\ c.at = "write" => c.found
    /\ c.kind = "add" => acc = NoUser /\ docs = <<>> /\ u = (IF c.at = "set" THEN 0 ELSE c.obj)
    /\ c.kind = "add" /\ c.at = "write" => ~c.found
    /\ c.kind = "delete" => Last(docs) = acc
    /\ c.at = "pop" => u = c.obj /\ acc = p
    /\ c.at = "erase" => u = 0

Settled(n) == Remembered(n) = account[n] /\ Doc(n) = account[n]

AccountOf(n) ==
    /\ \A a, b \in Busy(n) : a # b => call[a].kind \in Logins
    /\ Busy(n) = {} => Settled(n)
    /\ Len(db[n]) <= 1
    /\ \A a \in Busy(n) :
          Follows(users[n], account[n], db[n], object[call[a].obj].password, call[a])

Accounts == \A n \in Name : AccountOf(n)

\* A step of a call on n that changes no other document or account.
Writes(n) ==
    /\ db' = [db EXCEPT ![n] = db'[n]]
    /\ account' = [account EXCEPT ![n] = account'[n]]

Keeps(n) == users'[n] = users[n] /\ account'[n] = account[n] /\ db'[n] = db[n]

\* The other calls on n, if there are any, go on as before.
AccountsApart(a, n, d) ==
    \A b \in Busy(n) \ {a} :
        call[b].kind \in Logins /\ Keeps(n) /\ (d.at # "free" => d.kind \in Logins)

\* What a step of a call has to show for Accounts.
LEMMA AccountStep ==
    ASSUME Base, Accounts, NEW a \in Actor, NEW n \in Name, NEW d, Works(a, n, d),
           Extended(object, object'), Writes(n), AccountsApart(a, n, d), Len(db'[n]) <= 1,
           d.at = "free" /\ Busy(n) \ {a} = {} => Settled(n)',
           d.at # "free" =>
              Follows(users'[n], account'[n], db'[n], object'[d.obj].password, d)
    PROVE  Accounts'
<1>1. call \in [Actor -> Call] /\ DOMAIN users = Name /\ DOMAIN db = Name /\ DOMAIN account = Name
  BY DEF Base, TypeOK
<1>2. /\ call'[a] = d /\ \A b \in Actor \ {a} : call'[b] = call[b]
      /\ \A m \in Name \ {n} : Busy(m)' = Busy(m)
      /\ Busy(n)' = IF d.at = "free" THEN Busy(n) \ {a} ELSE Busy(n) \cup {a}
  BY <1>1, WorksCalls
<1>3. ASSUME NEW m \in Name, NEW b \in Busy(m)
      PROVE  b \in Actor /\ object'[call[b].obj].password = object[call[b].obj].password
  <2>1. b \in Actor /\ call[b].at # "free" /\ call[b].obj \in DOMAIN object
    BY <1>3, BusyFacts DEF Busy
  <2> QED BY <2>1 DEF Extended
<1>4. ASSUME NEW m \in Name \ {n} PROVE AccountOf(m)'
  <2>1. users'[m] = users[m] /\ account'[m] = account[m] /\ db'[m] = db[m]
    BY <1>1 DEF Works, Writes
  <2>2. \A b \in Busy(m) : b # a
    BY DEF Busy, Works
  <2>3. \A b \in Busy(m) : b \in Actor /\ call'[b] = call[b]
    BY <1>2, <1>3, <2>2
  <2>4. users[m] # 0 => object'[users[m]].password = object[users[m]].password
    BY DEF Base, Owned, Objects, Extended
  <2>5. Settled(m) => Settled(m)'
    BY <2>1, <2>4 DEF Settled, Remembered, Doc
  <2>6. AccountOf(m) /\ Busy(m)' = Busy(m)
    BY <1>2 DEF Accounts
  <2> QED BY <1>3, <2>1, <2>3, <2>5, <2>6 DEF AccountOf
<1>5. AccountOf(n)'
  <2>1. AccountOf(n)
    BY DEF Accounts
  <2>2. ASSUME NEW b \in Busy(n)', b # a
        PROVE  /\ b \in Busy(n) \ {a} /\ call'[b] = call[b] /\ call'[b].kind \in Logins
               /\ Keeps(n) /\ (d.at # "free" => d.kind \in Logins)
    <3>1. b \in Busy(n) \ {a}
      BY <1>2, <2>2
    <3>2. call'[b] = call[b]
      BY <1>2, <1>3, <3>1
    <3> QED BY <3>1, <3>2 DEF AccountsApart
  <2>3. a \in Busy(n)' => d.at # "free"
    BY <1>2
  <2>4. ASSUME NEW b \in Busy(n)'
        PROVE  Follows(users'[n], account'[n], db'[n], object'[call'[b].obj].password, call'[b])
    <3>1. CASE b = a
      BY <1>2, <2>3, <2>4, <3>1
    <3>2. CASE b # a
      <4>1. Follows(users[n], account[n], db[n], object[call[b].obj].password, call[b])
        BY <2>1, <2>2, <3>2 DEF AccountOf
      <4> QED BY <1>3, <2>2, <3>2, <4>1 DEF Keeps
    <3> QED BY <3>1, <3>2
  <2>5. \A b, c \in Busy(n)' : b # c => call'[b].kind \in Logins
    <3> SUFFICES ASSUME NEW b \in Busy(n)', NEW c \in Busy(n)', b # c
                 PROVE  call'[b].kind \in Logins
      OBVIOUS
    <3>1. CASE b # a
      BY <2>2, <3>1
    <3>2. CASE b = a
      BY <1>2, <2>2, <2>3, <3>2
    <3> QED BY <3>1, <3>2
  <2>6. Busy(n)' = {} => Settled(n)'
    BY <1>2
  <2> QED BY <2>4, <2>5, <2>6 DEF AccountOf
<1> QED BY <1>4, <1>5 DEF Accounts

\* Calls that add or delete are alone on their user.
LEMMA Single ==
    ASSUME Base, Accounts, NEW a \in Actor, call[a].at # "free"
    PROVE  /\ AccountOf(call[a].name)
           /\ Follows(users[call[a].name], account[call[a].name], db[call[a].name],
                      object[call[a].obj].password, call[a])
           /\ call[a].kind \notin Logins => Busy(call[a].name) \ {a} = {}
           /\ \A b \in Busy(call[a].name) \ {a} : call[b].kind \in Logins /\ call[a].kind \in Logins
<1>1. a \in Busy(call[a].name) /\ AccountOf(call[a].name)
  BY BusyFacts DEF Accounts
<1> QED BY <1>1 DEF AccountOf

\* The step of a login, refresh or logout that changes nothing but its tokens, or of any call
\* that finds what it is to write.
LEMMA AccountGoes ==
    ASSUME Base, Accounts, NEW a \in Actor, NEW d, Turns(a, d), Goes(call[a], d),
           call[a].at # "free", d.at # "free", Extended(object, object'),
           UNCHANGED <<users, db, account>>,
           LET n == call[a].name
           IN  Follows(users[n], account[n], db[n], object[d.obj].password, d)
    PROVE  Accounts'
<1>1. PICK n \in Name : n = call[a].name
  BY BusyFacts
<1>2. Works(a, n, d)
  BY <1>1, GoesWorks
<1>3. Writes(n) /\ Keeps(n)
  BY DEF Writes, Keeps, Base, TypeOK
<1>4. AccountOf(n) /\ \A b \in Busy(n) \ {a} : call[b].kind \in Logins /\ call[a].kind \in Logins
  BY <1>1, Single
<1>5. AccountsApart(a, n, d)
  BY <1>3, <1>4 DEF AccountsApart, Goes
<1>6. Len(db'[n]) <= 1
  BY <1>4 DEF AccountOf
<1>7. d.obj \in DOMAIN object
  BY BusyFacts DEF Goes
<1>8. Follows(users'[n], account'[n], db'[n], object'[d.obj].password, d)
  BY <1>1, <1>7 DEF Extended
<1> QED BY <1>2, <1>3, <1>5, <1>6, <1>8, AccountStep

LEMMA AccountPut ==
    ASSUME Bounded, Base, Accounts, NEW a \in Actor, call[a].at # "free", Put(a)
    PROVE  Accounts'
<1>1. PICK n \in Name, c \in Call : n = call[a].name /\ c = call[a] /\ Shape(c)
  BY BusyFacts
<1>2. /\ AccountOf(n) /\ Follows(users[n], account[n], db[n], object[c.obj].password, c)
      /\ c.kind \notin Logins => Busy(n) \ {a} = {}
      /\ \A b \in Busy(n) \ {a} : call[b].kind \in Logins /\ c.kind \in Logins
  BY <1>1, Single
<1>3. call \in [Actor -> Call]
  BY DEF Base, TypeOK
<1>4. PICK d : Turns(a, d) /\ Goes(c, d) /\ d.at = "find"
  BY <1>1, <1>3, GotoTurns DEF Put
<1>5. users' = [users EXCEPT ![n] = c.obj] /\ UNCHANGED <<object, db, account>>
  BY <1>1 DEF Put
<1>6. Works(a, n, d)
  BY <1>1, <1>4, <1>5, GoesWorks
<1>7. users'[n] = c.obj /\ Writes(n)
  BY <1>5 DEF Writes, Base, TypeOK
<1>8. c.kind \in {"add", "login", "logout"} /\ c.at \in {"set", "put"}
  BY <1>1 DEF Put, Shape, Logins, Call
<1>9. AccountsApart(a, n, d)
  <2>1. c.kind \in Logins => users[n] = c.obj
    BY <1>2 DEF Follows
  <2> QED BY <1>2, <1>4, <1>5, <1>7, <2>1 DEF AccountsApart, Keeps, Goes
<1>10. Follows(users'[n], account'[n], db'[n], object'[d.obj].password, d)
  BY <1>2, <1>4, <1>5, <1>7, <1>8 DEF Follows, Goes, Logins
<1>11. Extended(object, object') /\ Len(db'[n]) <= 1
  BY <1>2, <1>5 DEF Extended, AccountOf
<1> QED BY <1>4, <1>6, <1>7, <1>9, <1>10, <1>11, AccountStep

LEMMA AccountFind ==
    ASSUME Bounded, Base, Accounts, NEW a \in Actor, call[a].at # "free", SaveFind(a)
    PROVE  Accounts'
<1>1. PICK n \in Name, c \in Call : n = call[a].name /\ c = call[a] /\ Shape(c)
                                    /\ object[c.obj].password \in Password
  BY BusyFacts
<1>2. Follows(users[n], account[n], db[n], object[c.obj].password, c)
  BY <1>1, Single
<1>3. call \in [Actor -> Call]
  BY DEF Base, TypeOK
<1>4. PICK d : Turns(a, d) /\ Goes(c, d) /\ d.at = "write" /\ d.found = (db[n] # <<>>)
  BY <1>1, <1>3, FindTurns
<1>5. c.at = "find" /\ UNCHANGED <<object, users, db, account>>
  BY <1>1 DEF SaveFind
<1>6. c.kind \in {"add", "login", "logout"}
  BY <1>1, <1>5 DEF Shape, Logins, Call
<1>7. c.kind \in Logins => db[n] # <<>>
  BY <1>1, <1>2 DEF Follows, Last, Bounded
<1>8. Follows(users[n], account[n], db[n], object[d.obj].password, d)
  BY <1>2, <1>4, <1>5, <1>6, <1>7 DEF Follows, Goes, Logins
<1>9. Extended(object, object')
  BY <1>5 DEF Extended
<1> QED BY <1>1, <1>4, <1>5, <1>8, <1>9, AccountGoes

LEMMA AccountTokens ==
    ASSUME Bounded, Base, Accounts, NEW a \in Actor, call[a].at # "free",
           SetAccess(a) \/ SetRefresh(a)
    PROVE  Accounts'
<1>1. PICK n \in Name, c \in Call : n = call[a].name /\ c = call[a] /\ Shape(c)
  BY BusyFacts
<1>2. Follows(users[n], account[n], db[n], object[c.obj].password, c)
  BY <1>1, Single
<1>3. call \in [Actor -> Call] /\ object \in Seq(Object)
  BY DEF Base, TypeOK, Object
<1>4. PICK d : Turns(a, d) /\ Goes(c, d) /\ d.at \in {"refresh", "update"}
  BY <1>1, <1>3, GotoTurns DEF SetAccess, SetRefresh
<1>5. c.at \in {"access", "refresh"} /\ UNCHANGED <<users, db, account>>
  BY <1>1 DEF SetAccess, SetRefresh
<1>6. PICK i \in DOMAIN object, k \in 0..MaxPairs : i = c.obj /\ k = c.pair
  BY <1>1, BusyFacts DEF Call
<1>7. PICK new : new = object'
  OBVIOUS
<1>8. Hashed(object, i, k, new)
  BY <1>1, <1>6, <1>7 DEF SetAccess, SetRefresh, Hashed
<1>9. Extended(object, object')
  BY <1>3, <1>8, <1>7, TokenFacts
<1>10. Follows(users[n], account[n], db[n], object[d.obj].password, d)
  BY <1>1, <1>2, <1>4, <1>5 DEF Follows, Goes, Shape, Logins
<1> QED BY <1>1, <1>4, <1>5, <1>9, <1>10, AccountGoes

LEMMA AccountUpdate ==
    ASSUME Bounded, Base, Accounts, NEW a \in Actor, call[a].at # "free", UpdateCheck(a)
    PROVE  Accounts'
<1>1. PICK n \in Name, c \in Call : n = call[a].name /\ c = call[a] /\ Shape(c)
                                    /\ c.obj # 0
  BY BusyFacts
<1>2. Follows(users[n], account[n], db[n], object[c.obj].password, c)
  BY <1>1, Single
<1>3. call \in [Actor -> Call] /\ c.at = "update" /\ UNCHANGED <<object, users, db, account>>
  BY <1>1 DEF Base, TypeOK, UpdateCheck
<1>4. c.kind \in Logins
  BY <1>1, <1>3 DEF Shape, Logins, Call
<1>5. users[n] # 0
  BY <1>1, <1>2, <1>4 DEF Follows
<1>6. Goto(a, "put")
  BY <1>1, <1>5 DEF UpdateCheck
<1>7. PICK d : Turns(a, d) /\ Goes(c, d) /\ d.at = "put"
  BY <1>1, <1>3, <1>6, GotoTurns
<1>8. Follows(users[n], account[n], db[n], object[d.obj].password, d)
  BY <1>2, <1>3, <1>4, <1>7 DEF Follows, Goes, Logins
<1>9. Extended(object, object')
  BY <1>3 DEF Extended
<1> QED BY <1>1, <1>3, <1>7, <1>8, <1>9, AccountGoes

LEMMA AccountWrite ==
    ASSUME Bounded, Base, Accounts, NEW a \in Actor, call[a].at # "free", SaveWrite(a)
    PROVE  Accounts'
<1>1. PICK n \in Name, c \in Call : n = call[a].name /\ c = call[a] /\ Shape(c)
  BY BusyFacts
<1>2. PICK p \in Password : p = object[c.obj].password
  BY <1>1, BusyFacts
<1>3. /\ AccountOf(n) /\ Follows(users[n], account[n], db[n], p, c)
      /\ c.kind \notin Logins => Busy(n) \ {a} = {}
      /\ \A b \in Busy(n) \ {a} : call[b].kind \in Logins /\ c.kind \in Logins
  BY <1>1, <1>2, Single
<1>4. PICK docs \in Seq(Password) : docs = db[n] /\ Len(docs) <= 1
  BY <1>3 DEF Base, TypeOK, AccountOf
<1>5. PICK new : new = IF ~c.found THEN Append(docs, p)
                       ELSE IF docs = <<>> THEN docs ELSE [docs EXCEPT ![1] = p]
  OBVIOUS
<1>6. /\ db' = [db EXCEPT ![n] = new] /\ account' = [account EXCEPT ![n] = p]
      /\ UNCHANGED <<object, users>>
  BY <1>1, <1>2, <1>4, <1>5 DEF SaveWrite, Return
<1>7. c.at = "write" /\ c.kind \in {"add", "login", "logout"} /\ c.found \in BOOLEAN
  BY <1>1 DEF SaveWrite, Shape, Logins, Call
<1>8. /\ users[n] = c.obj
      /\ c.kind \in Logins => account[n] = p /\ c.found /\ Len(docs) = 1 /\ docs[1] = p
      /\ c.kind \notin Logins => docs = <<>> /\ ~c.found
  <2>1. c.kind \in Logins => account[n] = p /\ c.found /\ Last(docs) = p /\ users[n] = c.obj
    BY <1>3, <1>4, <1>7 DEF Follows
  <2>2. p # NoUser
    BY <1>2 DEF Bounded
  <2>3. Last(docs) = p => Len(docs) = 1 /\ docs[1] = p
    <3>1. CASE docs = <<>>
      BY <2>2, <3>1 DEF Last
    <3>2. CASE docs # <<>>
      <4>1. PICK k \in Nat : k = Len(docs)
        OBVIOUS
      <4>2. k # 0 /\ k <= 1
        BY <1>4, <3>2, <4>1
      <4>3. Len(docs) = 1
        BY <4>1, <4>2
      <4> QED BY <3>2, <4>3 DEF Last
    <3> QED BY <3>1, <3>2
  <2>4. c.kind = "add" => docs = <<>> /\ ~c.found /\ users[n] = c.obj
    BY <1>3, <1>4, <1>7 DEF Follows
  <2> QED BY <1>7, <2>1, <2>3, <2>4 DEF Logins
<1>9. new # <<>> /\ Len(new) = 1 /\ new[1] = p /\ (c.kind \in Logins => new = docs)
  <2>1. Len(new) = 1 /\ new[1] = p
    BY <1>4, <1>5, <1>7, <1>8, WriteFacts
  <2>2. c.kind \in Logins => new = docs
    BY <1>4, <1>5, <1>8
  <2>3. new # <<>>
    BY <2>1
  <2> QED BY <2>1, <2>2, <2>3
<1>10. PICK u \in 0..Len(object) : u = users[n] /\ u = users'[n]
  BY <1>6 DEF Base, TypeOK
<1>11. Turns(a, Free) /\ Works(a, n, Free)
  <2>1. Turns(a, Free)
    BY DEF SaveWrite, Return, Turns
  <2> QED BY <1>1, <1>6, <2>1, EndsWorks
<1>12. db'[n] = new /\ account'[n] = p /\ Writes(n)
  BY <1>6 DEF Writes, Base, TypeOK
<1>13. AccountsApart(a, n, Free)
  BY <1>3, <1>4, <1>6, <1>8, <1>9, <1>12, FreeFacts DEF AccountsApart, Keeps
<1>14. Settled(n)'
  <2>1. c.obj # 0 /\ users'[n] = c.obj /\ object' = object
    BY <1>1, <1>6, <1>8, BusyFacts
  <2>2. Remembered(n)' = p
    BY <1>2, <2>1 DEF Remembered
  <2>3. Doc(n)' = p
    BY <1>9, <1>12 DEF Doc
  <2> QED BY <1>12, <2>2, <2>3 DEF Settled
<1>15. Extended(object, object')
  BY <1>6 DEF Extended
<1>16. Free.at = "free" /\ Len(db'[n]) <= 1
  <2>1. Len(new) <= 1
    BY <1>9
  <2> QED BY <1>12, <2>1, FreeFacts
<1> QED BY <1>11, <1>12, <1>13, <1>14, <1>15, <1>16, AccountStep

LEMMA AccountPop ==
    ASSUME Bounded, Base, Accounts, NEW a \in Actor, call[a].at # "free", DeletePop(a)
    PROVE  Accounts'
<1>1. PICK n \in Name, c \in Call : n = call[a].name /\ c = call[a] /\ Shape(c) /\ c.obj # 0
  BY BusyFacts
<1>2. call \in [Actor -> Call] /\ c.at = "pop" /\ c.kind = "delete"
  BY <1>1 DEF DeletePop, Shape, Logins, Base, TypeOK, Call
<1>3. /\ AccountOf(n) /\ Follows(users[n], account[n], db[n], object[c.obj].password, c)
      /\ Busy(n) \ {a} = {}
  BY <1>1, <1>2, Single DEF Logins
<1>4. users[n] # 0
  BY <1>1, <1>2, <1>3 DEF Follows
<1>5. Goto(a, "erase") /\ users' = [users EXCEPT ![n] = 0] /\ UNCHANGED <<object, db, account>>
  BY <1>1, <1>4 DEF DeletePop
<1>6. PICK d : Turns(a, d) /\ Goes(c, d) /\ d.at = "erase"
  BY <1>1, <1>2, <1>5, GotoTurns
<1>7. Works(a, n, d)
  BY <1>1, <1>5, <1>6, GoesWorks
<1>8. users'[n] = 0 /\ Writes(n)
  BY <1>5 DEF Writes, Base, TypeOK
<1>9. AccountsApart(a, n, d)
  BY <1>3 DEF AccountsApart
<1>10. Follows(users'[n], account'[n], db'[n], object'[d.obj].password, d)
  BY <1>2, <1>3, <1>5, <1>6, <1>8 DEF Follows, Goes, Logins
<1>11. Extended(object, object') /\ Len(db'[n]) <= 1
  BY <1>3, <1>5 DEF Extended, AccountOf
<1> QED BY <1>6, <1>7, <1>8, <1>9, <1>10, <1>11, AccountStep

LEMMA AccountErase ==
    ASSUME Bounded, Base, Accounts, NEW a \in Actor, call[a].at # "free", DeleteErase(a)
    PROVE  Accounts'
<1>1. PICK n \in Name, c \in Call : n = call[a].name /\ c = call[a] /\ Shape(c)
  BY BusyFacts
<1>2. c.at = "erase" /\ c.kind = "delete"
  BY <1>1 DEF DeleteErase, Shape, Logins, Call
<1>3. /\ AccountOf(n) /\ Follows(users[n], account[n], db[n], object[c.obj].password, c)
      /\ Busy(n) \ {a} = {}
  BY <1>1, <1>2, Single DEF Logins
<1>4. PICK docs \in Seq(Password) : docs = db[n] /\ Len(docs) <= 1
  BY <1>3 DEF Base, TypeOK, AccountOf
<1>5. (IF docs = <<>> THEN docs ELSE Tail(docs)) = <<>>
  BY <1>4
<1>6. /\ db' = [db EXCEPT ![n] = <<>>] /\ account' = [account EXCEPT ![n] = NoUser]
      /\ UNCHANGED <<object, users>>
  BY <1>1, <1>4, <1>5 DEF DeleteErase, Return
<1>7. Turns(a, Free) /\ Works(a, n, Free)
  <2>1. Turns(a, Free)
    BY DEF DeleteErase, Return, Turns
  <2> QED BY <1>1, <1>6, <2>1, EndsWorks
<1>8. db'[n] = <<>> /\ account'[n] = NoUser /\ Writes(n) /\ users'[n] = 0
  BY <1>2, <1>3, <1>6 DEF Writes, Base, TypeOK, Follows
<1>9. AccountsApart(a, n, Free)
  BY <1>3 DEF AccountsApart
<1>10. Settled(n)'
  BY <1>8 DEF Settled, Remembered, Doc
<1>11. Extended(object, object') /\ Free.at = "free" /\ Len(db'[n]) <= 1
  BY <1>6, <1>8, FreeFacts DEF Extended
<1> QED BY <1>7, <1>8, <1>9, <1>10, <1>11, AccountStep

\* A new call of an existing user.
LEMMA AccountBegins ==
    ASSUME Bounded, ~Together, Base, Accounts, NEW a \in Actor, NEW n \in Name, NEW d, NEW k,
           NEW kind \in {"delete", "login", "logout"}, NEW at \in {"pop", "access"},
           Turns(a, d), Begun(d, n, kind, at, users[n], k), Begin(a, n, kind, at, users[n], k),
           users[n] # 0, UNCHANGED <<object, users, db, account>>
    PROVE  Accounts'
<1>1. /\ call[a].at = "free" /\ AccountOf(n)
      /\ \A b \in Busy(n) : kind \in Logins /\ call[b].kind \in Logins
  BY DEF Begin, Accounts, Logins
<1>2. PICK p : p = object[users[n]].password
  OBVIOUS
<1>3. p = account[n] /\ Last(db[n]) = account[n]
  <2>1. CASE Busy(n) = {}
    BY <1>1, <1>2, <2>1 DEF AccountOf, Settled, Remembered, Doc, Last
  <2>2. CASE Busy(n) # {}
    <3>1. PICK b \in Busy(n) : TRUE
      BY <2>2
    <3>2. Follows(users[n], account[n], db[n], object[call[b].obj].password, call[b])
      BY <1>1 DEF AccountOf
    <3> QED BY <1>1, <1>2, <3>2 DEF Follows
  <2> QED BY <2>1, <2>2
<1>4. Works(a, n, d) /\ Shape(d)
  BY <1>1, BeginsWorks
<1>5. Writes(n) /\ Keeps(n)
  BY DEF Writes, Keeps, Base, TypeOK
<1>6. d.kind = kind /\ d.at = at /\ d.obj = users[n] /\ d.at # "free"
  BY DEF Begun
<1>7. AccountsApart(a, n, d)
  BY <1>1, <1>5, <1>6 DEF AccountsApart
<1>8. Follows(users'[n], account'[n], db'[n], object'[d.obj].password, d)
  BY <1>2, <1>3, <1>4, <1>6 DEF Follows, Shape, Logins
<1>9. Extended(object, object') /\ Len(db'[n]) <= 1
  BY <1>1 DEF Extended, AccountOf
<1> QED BY <1>4, <1>5, <1>6, <1>7, <1>8, <1>9, AccountStep

\* A new call of a user that is to be added.
LEMMA AccountAdds ==
    ASSUME Bounded, ~Together, Base, Accounts, NEW a \in Actor, NEW n \in Name, NEW p \in Password,
           AddCheck(a, n, p)
    PROVE  Accounts'
<1>1. /\ call \in [Actor -> Call] /\ object \in Seq(Object) /\ MaxPairs \in Nat
      /\ MaxObjects \in Nat /\ Len(object) \in Nat
  BY DEF Base, TypeOK, Object, Bounded
<1>2. PICK i \in 1..MaxObjects : i = Len(object) + 1
  BY <1>1 DEF AddCheck
<1>3. PICK d : Turns(a, d) /\ Begun(d, n, "add", "set", i, 0) /\ call[a].at = "free"
  BY <1>1, <1>2, BeginTurns DEF AddCheck
<1>4. Busy(n) = {} /\ users[n] = 0 /\ UNCHANGED <<users, db, account>>
  BY DEF AddCheck, Begin
<1>5. PICK x : x = [password |-> p, access |-> 0, refresh |-> 0]
  OBVIOUS
<1>6. object' = Append(object, x)
  BY <1>5 DEF AddCheck
<1>7. Extended(object, object')
  BY <1>1, <1>6 DEF Extended
<1>8. AccountOf(n) /\ Settled(n) /\ db[n] \in Seq(Password)
  BY <1>4 DEF Accounts, AccountOf, Base, TypeOK
<1>9. account[n] = NoUser /\ db[n] = <<>>
  <2>1. account[n] = NoUser /\ Doc(n) = NoUser
    BY <1>4, <1>8 DEF Settled, Remembered
  <2>2. CASE db[n] = <<>>
    BY <2>1, <2>2
  <2>3. CASE db[n] # <<>>
    <3>1. Doc(n) \in Password
      BY <1>8, <2>3 DEF Doc
    <3> QED BY <2>1, <3>1 DEF Bounded
  <2> QED BY <2>2, <2>3
<1>10. Works(a, n, d)
  BY <1>3, <1>4, BeginsWorks
<1>11. Writes(n)
  BY <1>4 DEF Writes, Base, TypeOK
<1>12. AccountsApart(a, n, d)
  BY <1>4 DEF AccountsApart
<1>13. d.kind = "add" /\ d.at = "set"
  BY <1>3 DEF Begun
<1>14. Follows(users'[n], account'[n], db'[n], object'[d.obj].password, d)
  BY <1>4, <1>9, <1>13 DEF Follows, Logins
<1>15. Len(db'[n]) <= 1
  BY <1>4, <1>9
<1> QED BY <1>7, <1>10, <1>11, <1>12, <1>13, <1>14, <1>15, AccountStep

LEMMA AccountBeginning ==
    ASSUME Bounded, ~Together, Base, Accounts, NEW a \in Actor, NEW n \in Name,
           \/ DeleteCheck(a, n)
           \/ \E p \in Password : AddCheck(a, n, p) \/ Login(a, n, p)
           \/ \E k \in 1..MaxPairs : Refresh(a, n, k) \/ Logout(a, n, k)
    PROVE  Accounts'
<1>1. /\ call \in [Actor -> Call] /\ MaxPairs \in Nat /\ pairs \in 0..MaxPairs
      /\ users[n] \in 0..MaxObjects
  BY EntryFacts DEF Base, TypeOK, Bounded
<1>2. CASE DeleteCheck(a, n)
  <2>1. Begin(a, n, "delete", "pop", users[n], 0) /\ users[n] # 0
    BY <1>2 DEF DeleteCheck
  <2>2. PICK d : Turns(a, d) /\ Begun(d, n, "delete", "pop", users[n], 0)
    BY <1>1, <2>1, BeginTurns
  <2>3. UNCHANGED <<object, users, db, account>>
    BY <1>2 DEF DeleteCheck
  <2> QED BY <2>1, <2>2, <2>3, AccountBegins
<1>3. ASSUME (\E p \in Password : Login(a, n, p)) \/ \E j \in 1..MaxPairs : Refresh(a, n, j)
      PROVE  Accounts'
  <2>1. PICK k \in 0..MaxPairs : k = pairs + 1 /\ Begin(a, n, "login", "access", users[n], k)
    BY <1>1, <1>3 DEF Login, Refresh
  <2>2. PICK d : Turns(a, d) /\ Begun(d, n, "login", "access", users[n], k)
    BY <1>1, <2>1, BeginTurns
  <2>3. UNCHANGED <<object, users, db, account>> /\ users[n] # 0
    BY <1>3 DEF Login, Refresh
  <2> QED BY <2>1, <2>2, <2>3, AccountBegins
<1>4. ASSUME NEW j \in 1..MaxPairs, Logout(a, n, j) PROVE Accounts'
  <2>1. Begin(a, n, "logout", "access", users[n], 0) /\ users[n] # 0
    BY <1>4 DEF Logout, Valid
  <2>2. PICK d : Turns(a, d) /\ Begun(d, n, "logout", "access", users[n], 0)
    BY <1>1, <2>1, BeginTurns
  <2>3. UNCHANGED <<object, users, db, account>>
    BY <1>4 DEF Logout
  <2> QED BY <2>1, <2>2, <2>3, AccountBegins
<1> QED BY <1>2, <1>3, <1>4, AccountAdds

\* A start from the documents that are there.
LEMMA AccountStart ==
    ASSUME Bounded, NEW docs \in [Name -> Password \cup {NoUser}], NEW n \in Name,
           object = LoadedObjects(docs), users = LoadedUsers(docs)
    PROVE  Remembered(n) = docs[n]
<1>1. /\ users[n] = 0 <=> docs[n] = NoUser
      /\ users[n] # 0 => object[users[n]] = [password |-> docs[n], access |-> 0, refresh |-> 0]
  BY LoadFacts
<1>2. users[n] # 0 => object[users[n]].password = docs[n]
  BY <1>1
<1> QED BY <1>1, <1>2 DEF Remembered

LEMMA AccountInit == Bounded /\ Init => Accounts
<1> SUFFICES ASSUME Bounded, Init PROVE Accounts
  OBVIOUS
<1>1. PICK docs \in [Name -> Password \cup {NoUser}] : docs = account
  BY DEF Init
<1>2. call = [a \in Actor |-> Free] /\ \A n \in Name : Busy(n) = {}
  BY FreeFacts DEF Init, Busy
<1>3. ASSUME NEW n \in Name PROVE AccountOf(n)
  <2>1. Remembered(n) = account[n]
    BY <1>1, AccountStart DEF Init
  <2>2. db[n] = (IF n = Admin THEN <<account[n]>> ELSE <<>>)
    BY DEF Init
  <2>3. Len(db[n]) <= 1 /\ Doc(n) = account[n]
    <3>1. CASE n = Admin
      BY <2>2, <3>1 DEF Doc
    <3>2. CASE n # Admin
      BY <2>2, <3>2 DEF Doc, Init
    <3> QED BY <3>1, <3>2
  <2> QED BY <1>2, <2>1, <2>3 DEF AccountOf, Settled
<1> QED BY <1>3 DEF Accounts

LEMMA AccountRestart == Bounded /\ Base /\ Accounts /\ Restart => Accounts'
<1> SUFFICES ASSUME Bounded, Base, Accounts, Restart PROVE Accounts'
  OBVIOUS
<1>1. PICK docs : docs = [n \in Name |-> Doc(n)]
  OBVIOUS
<1>2. docs \in [Name -> Password \cup {NoUser}]
  <2>1. \A n \in Name : Doc(n) \in Password \cup {NoUser}
    BY DEF Base, TypeOK, Doc
  <2> QED BY <1>1, <2>1
<1>3. /\ object' = LoadedObjects(docs) /\ users' = LoadedUsers(docs) /\ db' = db
      /\ account' = [n \in Name |-> IF Busy(n) = {} THEN account[n] ELSE docs[n]]
  BY <1>1 DEF Restart
<1>4. call' = [a \in Actor |-> Free] /\ \A n \in Name : Busy(n)' = {}
  BY FreeFacts DEF Restart, Busy
<1>5. ASSUME NEW n \in Name PROVE AccountOf(n)'
  <2>1. Remembered(n)' = docs[n]
    <3>1. /\ users'[n] = 0 <=> docs[n] = NoUser
          /\ users'[n] # 0 =>
                object'[users'[n]] = [password |-> docs[n], access |-> 0, refresh |-> 0]
      BY <1>2, <1>3, LoadFacts
    <3>2. users'[n] # 0 => object'[users'[n]].password = docs[n]
      BY <3>1
    <3> QED BY <3>1, <3>2 DEF Remembered
  <2>2. AccountOf(n) /\ docs[n] = Doc(n) /\ Doc(n)' = Doc(n)
    BY <1>1, <1>3 DEF Accounts, Doc
  <2>3. account'[n] = docs[n]
    BY <1>3, <2>2 DEF AccountOf, Settled
  <2> QED BY <1>3, <1>4, <2>1, <2>2, <2>3 DEF AccountOf, Settled
<1> QED BY <1>5 DEF Accounts

LEMMA AccountInductive == Bounded /\ ~Together /\ Base /\ Accounts /\ [Next]_vars => Accounts'
<1> SUFFICES ASSUME Bounded, ~Together, Base, Accounts, [Next]_vars PROVE Accounts'
  OBVIOUS
<1>1. ASSUME NEW a \in Actor, Step(a) PROVE Accounts'
  <2>1. call[a].at # "free"
    BY <1>1 DEF Step, Put, SaveFind, SaveWrite, DeletePop, DeleteErase, SetAccess, SetRefresh,
                UpdateCheck
  <2> QED BY <1>1, <2>1, AccountPut, AccountFind, AccountTokens, AccountUpdate, AccountWrite,
             AccountPop, AccountErase DEF Step
<1>2. CASE UNCHANGED vars
  BY <1>2 DEF vars, Accounts, AccountOf, Settled, Remembered, Doc, Busy
<1> QED BY <1>1, <1>2, AccountBeginning, AccountRestart DEF Next

LEMMA AccountsKept == Bounded /\ ~Together => (Spec => []Accounts)
<1> SUFFICES ASSUME Bounded, ~Together PROVE Spec => []Accounts
  OBVIOUS
<1> QED BY BaseInit, BaseInductive, AccountInit, AccountInductive, PTL DEF Spec

LEMMA AccountsAgree == Accounts => AccountsDurable /\ OneDocument
BY DEF Accounts, AccountOf, Settled, AccountsDurable, OneDocument

\* A user that is deleted stays deleted, and one that is added has its password, in memory and
\* in the database, after any number of logins and restarts (user_manager.py:149), when the
\* calls that add or delete a user are alone on it.
THEOREM UsersDurable == Bounded /\ ~Together => (Spec => []AccountsDurable)
<1> SUFFICES ASSUME Bounded, ~Together PROVE Spec => []AccountsDurable
  OBVIOUS
<1>1. Accounts => AccountsDurable
  BY AccountsAgree
<1> QED BY <1>1, AccountsKept, PTL

\* Under the same hypothesis a user never has two documents, of which delete_user would
\* leave one.
THEOREM UsersSingle == Bounded /\ ~Together => (Spec => []OneDocument)
<1> SUFFICES ASSUME Bounded, ~Together PROVE Spec => []OneDocument
  OBVIOUS
<1>1. Accounts => OneDocument
  BY AccountsAgree
<1> QED BY <1>1, AccountsKept, PTL
-----------------------------------------------------------------------------
\* Pairs of tokens.

Same(x) == x.access = x.refresh

\* What call c, of object x and alone on its user, has left so far.
Lone(u, x, c) ==
    /\ c.kind \in Logins => u = c.obj
    /\ c.kind = "add" /\ c.at # "set" => u = c.obj
    /\ c.at = "erase" => u = 0
    /\ c.at = "refresh" => x.access = c.pair
    /\ c.at \in {"set", "update", "put", "find", "write"} => Same(x)

PairOf(n) ==
    n \notin mixed =>
       /\ \A a, b \in Busy(n) : a = b
       /\ Busy(n) = {} /\ users[n] # 0 => Same(object[users[n]])
       /\ \A a \in Busy(n) : Lone(users[n], object[call[a].obj], call[a])

Pairs == \A n \in Name : PairOf(n)

\* The objects of the other users are as they were, and so is what is known of overlaps.
ElsewhereSame(n) ==
    /\ \A m \in Name \ {n} : \A i \in Objects(m) : object'[i] = object[i]
    /\ \A m \in Name \ {n} : m \in mixed' <=> m \in mixed

\* What a step of a call has to show for Pairs.
LEMMA PairStep ==
    ASSUME Base, Pairs, NEW a \in Actor, NEW n \in Name, NEW d, Works(a, n, d), ElsewhereSame(n),
           n \notin mixed' =>
              /\ Busy(n) \subseteq {a}
              /\ d.at = "free" /\ users'[n] # 0 => Same(object'[users'[n]])
              /\ d.at # "free" => Lone(users'[n], object'[d.obj], d)
    PROVE  Pairs'
<1>1. call \in [Actor -> Call] /\ DOMAIN users = Name
  BY DEF Base, TypeOK
<1>2. /\ call'[a] = d /\ \A b \in Actor \ {a} : call'[b] = call[b]
      /\ \A m \in Name \ {n} : Busy(m)' = Busy(m)
      /\ Busy(n)' = IF d.at = "free" THEN Busy(n) \ {a} ELSE Busy(n) \cup {a}
  BY <1>1, WorksCalls
<1>3. ASSUME NEW m \in Name \ {n} PROVE PairOf(m)'
  <2>1. users'[m] = users[m] /\ (m \in mixed' <=> m \in mixed)
    BY <1>1 DEF Works, ElsewhereSame
  <2>2. ASSUME NEW b \in Busy(m)
        PROVE  call'[b] = call[b] /\ object'[call[b].obj] = object[call[b].obj]
    <3>1. b # a /\ b \in Actor /\ call[b].obj \in Objects(m)
      BY DEF Busy, Works, Objects
    <3> QED BY <1>2, <3>1 DEF ElsewhereSame
  <2>3. users[m] # 0 => object'[users[m]] = object[users[m]]
    BY DEF Objects, ElsewhereSame
  <2>4. PairOf(m) /\ Busy(m)' = Busy(m)
    BY <1>2 DEF Pairs
  <2> QED BY <2>1, <2>2, <2>3, <2>4 DEF PairOf
<1>4. PairOf(n)'
  <2> SUFFICES ASSUME n \notin mixed'
               PROVE  /\ \A b, c \in Busy(n)' : b = c
                      /\ Busy(n)' = {} /\ users'[n] # 0 => Same(object'[users'[n]])
                      /\ \A b \in Busy(n)' : Lone(users'[n], object'[call'[b].obj], call'[b])
    BY DEF PairOf
  <2>1. CASE d.at = "free"
    <3>1. Busy(n)' = {}
      BY <1>2, <2>1
    <3> QED BY <2>1, <3>1
  <2>2. CASE d.at # "free"
    <3>1. Busy(n)' = {a}
      BY <1>2, <2>2
    <3> QED BY <1>2, <2>2, <3>1
  <2> QED BY <2>1, <2>2
<1> QED BY <1>3, <1>4 DEF Pairs

\* A call in progress that has met no other one is alone.
LEMMA LoneCall ==
    ASSUME Base, Pairs, NEW a \in Actor, call[a].at # "free", call[a].name \notin mixed
    PROVE  /\ Busy(call[a].name) \subseteq {a}
           /\ Lone(users[call[a].name], object[call[a].obj], call[a])
<1>1. a \in Busy(call[a].name) /\ PairOf(call[a].name)
  BY BusyFacts DEF Pairs
<1> QED BY <1>1 DEF PairOf

\* A call goes on and changes at most its entry of the dictionary.
LEMMA PairGoes ==
    ASSUME Base, Pairs, NEW a \in Actor, NEW d, Turns(a, d), Goes(call[a], d),
           call[a].at # "free", UNCHANGED <<object, mixed>>,
           UNCHANGED users \/ \E u : users' = [users EXCEPT ![call[a].name] = u],
           Lone(users[call[a].name], object[call[a].obj], call[a]) =>
              Lone(users'[call[a].name], object[call[a].obj], d),
           d.at # "free"
    PROVE  Pairs'
<1>1. PICK n \in Name : n = call[a].name
  BY BusyFacts
<1>2. Works(a, n, d) /\ d.obj = call[a].obj
  BY <1>1, GoesWorks DEF Goes
<1>3. ElsewhereSame(n)
  BY DEF ElsewhereSame
<1>4. n \notin mixed' => Busy(n) \subseteq {a} /\ Lone(users'[n], object'[d.obj], d)
  BY <1>1, <1>2, LoneCall
<1> QED BY <1>2, <1>3, <1>4, PairStep

\* A call ends.
LEMMA PairEnds ==
    ASSUME Bounded, Base, Pairs, NEW a \in Actor, Turns(a, Free), call[a].at # "free",
           UNCHANGED <<object, mixed>>,
           UNCHANGED users \/ \E u : users' = [users EXCEPT ![call[a].name] = u],
           Lone(users[call[a].name], object[call[a].obj], call[a]) =>
              LET n == call[a].name
              IN  users'[n] # 0 => Same(object[users'[n]])
    PROVE  Pairs'
<1>1. PICK n \in Name : n = call[a].name
  BY BusyFacts
<1>2. Works(a, n, Free) /\ Free.at = "free"
  BY <1>1, EndsWorks, FreeFacts
<1>3. ElsewhereSame(n)
  BY DEF ElsewhereSame
<1>4. n \notin mixed' =>
         Busy(n) \subseteq {a} /\ (users'[n] # 0 => Same(object'[users'[n]]))
  BY <1>1, LoneCall
<1> QED BY <1>2, <1>3, <1>4, PairStep

LEMMA PairPut ==
    ASSUME Bounded, Base, Pairs, NEW a \in Actor, call[a].at # "free", Put(a)
    PROVE  Pairs'
<1>1. PICK n \in Name, c \in Call : n = call[a].name /\ c = call[a] /\ Shape(c)
  BY BusyFacts
<1>2. call \in [Actor -> Call]
  BY DEF Base, TypeOK
<1>3. PICK d : Turns(a, d) /\ Goes(c, d) /\ d.at = "find"
  BY <1>1, <1>2, GotoTurns DEF Put
<1>4. users' = [users EXCEPT ![n] = c.obj] /\ UNCHANGED <<object, mixed>> /\ c.at \in {"set", "put"}
  BY <1>1 DEF Put
<1>5. users'[n] = c.obj
  BY <1>4 DEF Base, TypeOK
<1>6. Lone(users[n], object[c.obj], c) => Lone(users'[n], object[c.obj], d)
  BY <1>3, <1>4, <1>5 DEF Lone, Goes
<1> QED BY <1>1, <1>3, <1>4, <1>6, PairGoes

LEMMA PairFind ==
    ASSUME Bounded, Base, Pairs, NEW a \in Actor, call[a].at # "free", SaveFind(a)
    PROVE  Pairs'
<1>1. PICK n \in Name, c \in Call : n = call[a].name /\ c = call[a] /\ Shape(c)
  BY BusyFacts
<1>2. call \in [Actor -> Call]
  BY DEF Base, TypeOK
<1>3. PICK d : Turns(a, d) /\ Goes(c, d) /\ d.at = "write"
  BY <1>1, <1>2, FindTurns
<1>4. UNCHANGED <<object, users, mixed>> /\ c.at = "find"
  BY <1>1 DEF SaveFind
<1>5. Lone(users[n], object[c.obj], c) => Lone(users'[n], object[c.obj], d)
  BY <1>3, <1>4 DEF Lone, Goes
<1> QED BY <1>1, <1>3, <1>4, <1>5, PairGoes

LEMMA PairUpdate ==
    ASSUME Bounded, Base, Pairs, NEW a \in Actor, call[a].at # "free", UpdateCheck(a)
    PROVE  Pairs'
<1>1. PICK n \in Name, c \in Call : n = call[a].name /\ c = call[a] /\ Shape(c)
  BY BusyFacts
<1>2. call \in [Actor -> Call] /\ UNCHANGED <<object, users, mixed>> /\ c.at = "update"
  BY <1>1 DEF Base, TypeOK, UpdateCheck
<1>3. CASE users[n] = 0
  <2>1. Turns(a, Free) /\ users'[n] = 0
    BY <1>1, <1>2, <1>3 DEF UpdateCheck, Turns
  <2> QED BY <1>1, <1>2, <2>1, PairEnds
<1>4. CASE users[n] # 0
  <2>1. Goto(a, "put")
    BY <1>1, <1>4 DEF UpdateCheck
  <2>2. PICK d : Turns(a, d) /\ Goes(c, d) /\ d.at = "put"
    BY <1>1, <1>2, <2>1, GotoTurns
  <2>3. Lone(users[n], object[c.obj], c) => Lone(users'[n], object[c.obj], d)
    BY <1>2, <2>2 DEF Lone, Goes
  <2> QED BY <1>1, <1>2, <2>2, <2>3, PairGoes
<1> QED BY <1>3, <1>4

LEMMA PairOver ==
    ASSUME Bounded, Base, Pairs, NEW a \in Actor, call[a].at # "free",
           SaveWrite(a) \/ DeleteErase(a)
    PROVE  Pairs'
<1>1. PICK n \in Name, c \in Call : n = call[a].name /\ c = call[a] /\ Shape(c)
  BY BusyFacts
<1>2. UNCHANGED <<object, users, mixed>> /\ Turns(a, Free) /\ c.at \in {"write", "erase"}
  BY <1>1 DEF SaveWrite, DeleteErase, Return, Turns
<1>3. c.at = "write" => c.kind \in Logins \cup {"add"}
  BY <1>1 DEF Shape, Call, Logins
<1>4. Lone(users[n], object[c.obj], c) => (users'[n] # 0 => Same(object[users'[n]]))
  BY <1>2, <1>3 DEF Lone
<1> QED BY <1>1, <1>2, <1>4, PairEnds

LEMMA PairPop ==
    ASSUME Bounded, Base, Pairs, NEW a \in Actor, call[a].at # "free", DeletePop(a)
    PROVE  Pairs'
<1>1. PICK n \in Name, c \in Call : n = call[a].name /\ c = call[a] /\ Shape(c)
  BY BusyFacts
<1>2. /\ call \in [Actor -> Call] /\ users' = [users EXCEPT ![n] = 0] /\ UNCHANGED <<object, mixed>>
      /\ c.at = "pop"
  BY <1>1 DEF Base, TypeOK, DeletePop
<1>3. users'[n] = 0 /\ c.kind = "delete"
  BY <1>1, <1>2 DEF Base, TypeOK, Shape, Call, Logins
<1>4. CASE users[n] = 0
  <2>1. Turns(a, Free)
    BY <1>1, <1>4 DEF DeletePop, Turns
  <2> QED BY <1>1, <1>2, <1>3, <2>1, PairEnds
<1>5. CASE users[n] # 0
  <2>1. Goto(a, "erase")
    BY <1>1, <1>5 DEF DeletePop
  <2>2. PICK d : Turns(a, d) /\ Goes(c, d) /\ d.at = "erase"
    BY <1>1, <1>2, <2>1, GotoTurns
  <2>3. Lone(users'[n], object[c.obj], d)
    BY <1>3, <2>2 DEF Lone, Goes, Logins
  <2> QED BY <1>1, <1>2, <2>2, <2>3, PairGoes
<1> QED BY <1>4, <1>5

\* The two steps that replace the hashes.
LEMMA PairTokens ==
    ASSUME Bounded, Base, Pairs, NEW a \in Actor, call[a].at # "free",
           SetAccess(a) \/ SetRefresh(a)
    PROVE  Pairs'
<1>1. PICK n \in Name, c \in Call : n = call[a].name /\ c = call[a] /\ Shape(c)
  BY BusyFacts
<1>2. call \in [Actor -> Call] /\ object \in Seq(Object)
  BY DEF Base, TypeOK, Object
<1>3. PICK i \in DOMAIN object, k \in 0..MaxPairs : i = c.obj /\ k = c.pair /\ i \in Objects(n)
  BY <1>1, BusyFacts DEF Call
<1>4. PICK new : new = object'
  OBVIOUS
<1>5. /\ Hashed(object, i, k, new)
      /\ c.at = "access" => new = [object EXCEPT ![i].access = k]
      /\ c.at = "refresh" => new = [object EXCEPT ![i].refresh = k]
      /\ c.at \in {"access", "refresh"}
  BY <1>1, <1>3, <1>4 DEF SetAccess, SetRefresh, Hashed
<1>6. /\ \A j \in DOMAIN object \ {i} : new[j] = object[j]
      /\ new[i].refresh = k \/ new[i].access = k
  BY <1>2, <1>5, TokenFacts
<1>7. /\ c.at = "access" => new[i].access = k
      /\ c.at = "refresh" => new[i].refresh = k /\ new[i].access = object[i].access
  <2>1. PICK x \in Object : x = object[i]
    BY <1>2
  <2>2. ASSUME c.at = "access" PROVE new[i].access = k
    <3>1. new = [object EXCEPT ![i] = [x EXCEPT !.access = k]]
      BY <1>5, <2>1, <2>2
    <3>2. new[i] = [x EXCEPT !.access = k]
      BY <1>2, <3>1
    <3> QED BY <3>2 DEF Object
  <2>3. ASSUME c.at = "refresh" PROVE new[i].refresh = k /\ new[i].access = object[i].access
    <3>1. new = [object EXCEPT ![i] = [x EXCEPT !.refresh = k]]
      BY <1>5, <2>1, <2>3
    <3>2. new[i] = [x EXCEPT !.refresh = k]
      BY <1>2, <3>1
    <3> QED BY <2>1, <3>2 DEF Object
  <2> QED BY <2>2, <2>3
<1>8. PICK d : /\ Turns(a, d) /\ Goes(c, d)
               /\ c.at = "access" => d.at = "refresh"
               /\ c.at = "refresh" => d.at = "update"
  <2>1. CASE SetAccess(a)
    <3>1. \E d : Turns(a, d) /\ Goes(c, d) /\ d.at = "refresh"
      BY <1>1, <1>2, <2>1, GotoTurns DEF SetAccess
    <3> QED BY <1>1, <2>1, <3>1 DEF SetAccess
  <2>2. CASE SetRefresh(a)
    <3>1. \E d : Turns(a, d) /\ Goes(c, d) /\ d.at = "update"
      BY <1>1, <1>2, <2>2, GotoTurns DEF SetRefresh
    <3> QED BY <1>1, <2>2, <3>1 DEF SetRefresh
  <2> QED BY <2>1, <2>2
<1>9. UNCHANGED <<users, mixed>>
  BY DEF SetAccess, SetRefresh
<1>10. Works(a, n, d)
  BY <1>1, <1>8, <1>9, GoesWorks
<1>11. ElsewhereSame(n)
  <2>1. ASSUME NEW m \in Name \ {n}, NEW j \in Objects(m) PROVE object'[j] = object[j]
    <3>1. j \in DOMAIN object /\ j # i
      BY <1>3 DEF Base, Owned
    <3> QED BY <1>4, <1>6, <3>1
  <2> QED BY <1>9, <2>1 DEF ElsewhereSame
<1>12. n \notin mixed' => Busy(n) \subseteq {a} /\ Lone(users'[n], object'[d.obj], d)
  <2> SUFFICES ASSUME n \notin mixed' PROVE Busy(n) \subseteq {a} /\ Lone(users'[n], new[i], d)
    BY <1>3, <1>4, <1>8 DEF Goes
  <2>1. Busy(n) \subseteq {a} /\ Lone(users[n], object[i], c)
    BY <1>1, <1>3, <1>9, LoneCall
  <2>2. c.kind \in Logins /\ d.kind = c.kind /\ d.obj = c.obj /\ d.pair = k /\ users'[n] = users[n]
    BY <1>1, <1>3, <1>5, <1>8, <1>9 DEF Shape, Call, Logins, Goes
  <2>3. CASE c.at = "access"
    BY <1>7, <1>8, <2>1, <2>2, <2>3 DEF Lone, Logins
  <2>4. CASE c.at = "refresh"
    <3>1. object[i].access = k
      BY <1>3, <2>1, <2>4 DEF Lone
    <3>2. new[i].access = k /\ new[i].refresh = k /\ d.at = "update"
      BY <1>7, <1>8, <2>4, <3>1
    <3> QED BY <2>1, <2>2, <3>2 DEF Lone, Same, Logins
  <2> QED BY <1>5, <2>3, <2>4
<1>13. d.at # "free"
  BY <1>5, <1>8
<1> QED BY <1>10, <1>11, <1>12, <1>13, PairStep

\* What the beginning of a call does to what is known of overlaps.
LEMMA MixedFacts ==
    ASSUME Base, NEW a, NEW n \in Name, NEW kind, NEW at, NEW o, NEW k,
           Begin(a, n, kind, at, o, k)
    PROVE  /\ n \notin mixed' => Busy(n) = {}
           /\ \A m \in Name \ {n} : m \in mixed' <=> m \in mixed
<1>1. mixed' = IF Busy(n) = {} THEN mixed \ {n} ELSE mixed \cup {n}
  BY DEF Begin
<1> QED BY <1>1

\* A new call of an existing user.
LEMMA PairBegins ==
    ASSUME Bounded, Base, Pairs, NEW a \in Actor, NEW n \in Name, NEW d, NEW k,
           NEW kind \in {"delete", "login", "logout"}, NEW at \in {"pop", "access"},
           Turns(a, d), Begun(d, n, kind, at, users[n], k), Begin(a, n, kind, at, users[n], k),
           UNCHANGED <<object, users>>
    PROVE  Pairs'
<1>1. call[a].at = "free"
  BY DEF Begin
<1>2. Works(a, n, d) /\ Shape(d)
  BY <1>1, BeginsWorks
<1>3. d.kind = kind /\ d.at = at /\ d.obj = users[n] /\ d.at # "free"
  BY DEF Begun
<1>4. Lone(users'[n], object'[d.obj], d)
  BY <1>3 DEF Lone
<1>5. n \notin mixed' => Busy(n) = {}
  BY MixedFacts
<1>6. ElsewhereSame(n)
  BY MixedFacts DEF ElsewhereSame
<1> QED BY <1>2, <1>3, <1>4, <1>5, <1>6, PairStep

\* A new call of a user that is to be added.
LEMMA PairAdds ==
    ASSUME Bounded, Base, Pairs, NEW a \in Actor, NEW n \in Name, NEW p \in Password,
           AddCheck(a, n, p)
    PROVE  Pairs'
<1>1. /\ call \in [Actor -> Call] /\ object \in Seq(Object) /\ MaxPairs \in Nat
      /\ MaxObjects \in Nat /\ Len(object) \in Nat
  BY DEF Base, TypeOK, Object, Bounded
<1>2. PICK i \in 1..MaxObjects : i = Len(object) + 1
  BY <1>1 DEF AddCheck
<1>3. Begin(a, n, "add", "set", i, 0)
  BY <1>2 DEF AddCheck
<1>4. PICK d : Turns(a, d) /\ Begun(d, n, "add", "set", i, 0) /\ call[a].at = "free"
  BY <1>1, <1>2, <1>3, BeginTurns
<1>5. UNCHANGED users
  BY DEF AddCheck
<1>6. PICK x : x = [password |-> p, access |-> 0, refresh |-> 0]
  OBVIOUS
<1>7. object' = Append(object, x)
  BY <1>6 DEF AddCheck
<1>8. object'[i] = x /\ \A j \in DOMAIN object : object'[j] = object[j]
  BY <1>1, <1>2, <1>7
<1>9. Works(a, n, d)
  BY <1>4, <1>5, BeginsWorks
<1>10. d.kind = "add" /\ d.at = "set" /\ d.obj = i
  BY <1>4 DEF Begun
<1>11. Same(x)
  BY <1>6 DEF Same
<1>12. Lone(users'[n], object'[d.obj], d)
  BY <1>8, <1>10, <1>11 DEF Lone, Logins
<1>13. n \notin mixed' => Busy(n) = {}
  BY <1>3, MixedFacts
<1>14. ElsewhereSame(n)
  <2>1. \A m \in Name \ {n} : m \in mixed' <=> m \in mixed
    BY <1>3, MixedFacts
  <2> QED BY <1>8, <2>1 DEF ElsewhereSame, Base, Owned
<1> QED BY <1>9, <1>10, <1>12, <1>13, <1>14, PairStep

LEMMA PairBeginning ==
    ASSUME Bounded, Base, Pairs, NEW a \in Actor, NEW n \in Name,
           \/ DeleteCheck(a, n)
           \/ \E p \in Password : AddCheck(a, n, p) \/ Login(a, n, p)
           \/ \E k \in 1..MaxPairs : Refresh(a, n, k) \/ Logout(a, n, k)
    PROVE  Pairs'
<1>1. /\ call \in [Actor -> Call] /\ MaxPairs \in Nat /\ pairs \in 0..MaxPairs
      /\ users[n] \in 0..MaxObjects
  BY EntryFacts DEF Base, TypeOK, Bounded
<1>2. CASE DeleteCheck(a, n)
  <2>1. Begin(a, n, "delete", "pop", users[n], 0) /\ UNCHANGED <<object, users>>
    BY <1>2 DEF DeleteCheck
  <2>2. PICK d : Turns(a, d) /\ Begun(d, n, "delete", "pop", users[n], 0)
    BY <1>1, <2>1, BeginTurns
  <2> QED BY <2>1, <2>2, PairBegins
<1>3. ASSUME (\E p \in Password : Login(a, n, p)) \/ \E j \in 1..MaxPairs : Refresh(a, n, j)
      PROVE  Pairs'
  <2>1. PICK k \in 0..MaxPairs : k = pairs + 1 /\ Begin(a, n, "login", "access", users[n], k)
    BY <1>1, <1>3 DEF Login, Refresh
  <2>2. PICK d : Turns(a, d) /\ Begun(d, n, "login", "access", users[n], k)
    BY <1>1, <2>1, BeginTurns
  <2>3. UNCHANGED <<object, users>>
    BY <1>3 DEF Login, Refresh
  <2> QED BY <2>1, <2>2, <2>3, PairBegins
<1>4. ASSUME NEW j \in 1..MaxPairs, Logout(a, n, j) PROVE Pairs'
  <2>1. Begin(a, n, "logout", "access", users[n], 0) /\ UNCHANGED <<object, users>>
    BY <1>4 DEF Logout
  <2>2. PICK d : Turns(a, d) /\ Begun(d, n, "logout", "access", users[n], 0)
    BY <1>1, <2>1, BeginTurns
  <2> QED BY <2>1, <2>2, PairBegins
<1> QED BY <1>2, <1>3, <1>4, PairAdds

LEMMA PairInit == Bounded /\ Init => Pairs
<1> SUFFICES ASSUME Bounded, Init PROVE Pairs
  OBVIOUS
<1>1. PICK docs \in [Name -> Password \cup {NoUser}] : docs = account
  BY DEF Init
<1>2. \A n \in Name : Busy(n) = {}
  BY FreeFacts DEF Init, Busy
<1>3. ASSUME NEW n \in Name, users[n] # 0 PROVE Same(object[users[n]])
  <2>1. object[users[n]] = [password |-> docs[n], access |-> 0, refresh |-> 0]
    BY <1>1, <1>3, LoadFacts DEF Init
  <2> QED BY <2>1 DEF Same
<1> QED BY <1>2, <1>3 DEF Pairs, PairOf

LEMMA PairRestart == Bounded /\ Base /\ Restart => Pairs'
<1> SUFFICES ASSUME Bounded, Base, Restart PROVE Pairs'
  OBVIOUS
<1>1. PICK docs : docs = [n \in Name |-> Doc(n)]
  OBVIOUS
<1>2. docs \in [Name -> Password \cup {NoUser}]
  <2>1. \A n \in Name : Doc(n) \in Password \cup {NoUser}
    BY DEF Base, TypeOK, Doc
  <2> QED BY <1>1, <2>1
<1>3. object' = LoadedObjects(docs) /\ users' = LoadedUsers(docs)
  BY <1>1 DEF Restart
<1>4. \A n \in Name : Busy(n)' = {}
  BY FreeFacts DEF Restart, Busy
<1>5. ASSUME NEW n \in Name, users'[n] # 0 PROVE Same(object'[users'[n]])
  <2>1. object'[users'[n]] = [password |-> docs[n], access |-> 0, refresh |-> 0]
    BY <1>2, <1>3, <1>5, LoadFacts
  <2> QED BY <2>1 DEF Same
<1> QED BY <1>4, <1>5 DEF Pairs, PairOf

LEMMA PairInductive == Bounded /\ Base /\ Pairs /\ [Next]_vars => Pairs'
<1> SUFFICES ASSUME Bounded, Base, Pairs, [Next]_vars PROVE Pairs'
  OBVIOUS
<1>1. ASSUME NEW a \in Actor, Step(a) PROVE Pairs'
  <2>1. call[a].at # "free"
    BY <1>1 DEF Step, Put, SaveFind, SaveWrite, DeletePop, DeleteErase, SetAccess, SetRefresh,
                UpdateCheck
  <2> QED BY <1>1, <2>1, PairPut, PairFind, PairTokens, PairUpdate, PairOver, PairPop DEF Step
<1>2. CASE UNCHANGED vars
  BY <1>2 DEF vars, Pairs, PairOf, Busy
<1> QED BY <1>1, <1>2, PairBeginning, PairRestart DEF Next

LEMMA PairsAgree == Pairs => PairTogether
BY DEF Pairs, PairOf, Same, PairTogether

\* The two tokens of a user are those of one pair, or both are cleared, once the calls on the
\* user are over, if no two of them overlapped; calls may overlap on the other users.
THEOREM UsersPaired == Bounded => (Spec => []PairTogether)
<1> SUFFICES ASSUME Bounded PROVE Spec => []PairTogether
  OBVIOUS
<1>1. Pairs => PairTogether
  BY PairsAgree
<1> QED BY <1>1, BaseInit, BaseInductive, PairInit, PairInductive, PTL DEF Spec
=============================================================================
