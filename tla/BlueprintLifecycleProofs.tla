---------------------- MODULE BlueprintLifecycleProofs ----------------------
(***************************************************************************)
(* TypeOK, LockDiscipline, MemoryIsDurable and Settled hold for any number *)
(* of blueprints and worker threads, any depth of nested operations and    *)
(* any restarts.  The inductive invariant IInv of the locks adds that one  *)
(* operation at most holds the lock of a blueprint and that operations run *)
(* on generated ids; Local, below, is that of the registry.                *)
(***************************************************************************)
EXTENDS BlueprintLifecycle, TLAPS

Stacks == stack \in [Thread -> Seq(FrameType)]

\* What the last frame of a non-empty stack is.
LEMMA TopType ==
    ASSUME NEW t \in Thread, Stacks, stack[t] # <<>>
    PROVE  /\ Len(stack[t]) \in Nat \ {0}
           /\ Len(stack[t]) \in 1..Len(stack[t])
           /\ Top(t) \in FrameType
           /\ \A i \in 1..Len(stack[t]) : stack[t][i] \in FrameType
BY DEF Top, Stacks

\* What the frames of a stack are after its last one moved on.
LEMMA GotoType ==
    ASSUME NEW t \in Thread, NEW f \in FrameType, Stacks, stack[t] # <<>>, Goto(t, f)
    PROVE  /\ Stacks'
           /\ Len(stack'[t]) = Len(stack[t])
           /\ stack'[t][Len(stack[t])] = f
           /\ \A i \in 1..Len(stack[t]) - 1 : stack'[t][i] = stack[t][i]
           /\ \A u \in Thread \ {t} : stack'[u] = stack[u]
BY DEF Goto, Stacks

\* What they are after a nested call.
LEMMA PushType ==
    ASSUME NEW t \in Thread, NEW f \in FrameType, NEW g \in FrameType,
           Stacks, stack[t] # <<>>, Push(t, f, g)
    PROVE  /\ Stacks'
           /\ Len(stack'[t]) = Len(stack[t]) + 1
           /\ stack'[t][Len(stack[t])] = f
           /\ stack'[t][Len(stack[t]) + 1] = g
           /\ \A i \in 1..Len(stack[t]) - 1 : stack'[t][i] = stack[t][i]
           /\ \A u \in Thread \ {t} : stack'[u] = stack[u]
BY DEF Push, Stacks

\* What they are after a return: only the caller learns how the call ended.
LEMMA ReturnType ==
    ASSUME NEW t \in Thread, NEW ret \in Returns, Stacks, stack[t] # <<>>, Return(t, ret)
    PROVE  /\ Stacks'
           /\ Len(stack'[t]) = Len(stack[t]) - 1
           /\ \A i \in 1..Len(stack[t]) - 1 :
                /\ stack'[t][i].op = stack[t][i].op
                /\ stack'[t][i].blue = stack[t][i].blue
                /\ stack'[t][i].pc = stack[t][i].pc
           /\ \A u \in Thread \ {t} : stack'[u] = stack[u]
<1> DEFINE n == Len(stack[t])
           Told(i) == IF i = n - 1 THEN [stack[t][i] EXCEPT !.ret = ret] ELSE stack[t][i]
           s == [i \in 1..n - 1 |-> Told(i)]
<1>1. n \in Nat \ {0} /\ \A i \in 1..n - 1 : stack[t][i] \in FrameType
  BY TopType
<1>2. stack' = [stack EXCEPT ![t] = s]
  BY DEF Return
<1>3. \A i \in 1..n - 1 : /\ Told(i) \in FrameType
                          /\ Told(i).op = stack[t][i].op
                          /\ Told(i).blue = stack[t][i].blue
                          /\ Told(i).pc = stack[t][i].pc
  BY <1>1 DEF FrameType
<1> HIDE DEF Told
<1>4. s \in Seq(FrameType) /\ Len(s) = n - 1 /\ \A i \in 1..n - 1 : s[i] = Told(i)
  BY <1>1, <1>3
<1>5. stack'[t] = s /\ \A u \in Thread \ {t} : stack'[u] = stack[u]
  BY <1>2 DEF Stacks
<1>6. Stacks'
  BY <1>2, <1>4 DEF Stacks
<1> HIDE DEF s, n
<1>7. Len(stack'[t]) = n - 1
  BY <1>4, <1>5
<1>8. \A i \in 1..n - 1 : stack'[t][i] = Told(i)
  BY <1>4, <1>5
<1> QED
  BY <1>3, <1>5, <1>6, <1>7, <1>8 DEF n
-----------------------------------------------------------------------------
(* What LockDiscipline needs to be inductive: a thread has one operation   *)
(* that holds the lock of a blueprint, and frames and the registry speak   *)
(* of generated ids only, so the lock of a new blueprint is free.          *)
OneHolder ==
    \A t \in Thread : \A i, j \in 1..Len(stack[t]) :
        Holds(stack[t][i]) /\ Holds(stack[t][j]) /\ stack[t][i].blue = stack[t][j].blue
            => i = j
FramesUsed ==
    \A t \in Thread : \A i \in 1..Len(stack[t]) :
        stack[t][i].op = "deleteAll" \/ stack[t][i].blue \in used
Data ==
    /\ blueprint_dict \subseteq used /\ docs \subseteq used
    /\ blue \in [Blueprint -> BlueType] /\ saved \in [Blueprint -> BlueType]
    /\ used \subseteq Blueprint /\ deleted \subseteq Blueprint

Locks == lock \in [Blueprint -> Thread \cup {NoThread}] /\ used \subseteq Blueprint
Discipline == HoldersOwn /\ OwnersHold /\ OneHolder /\ FramesUsed
IInv == Data /\ Stacks /\ Locks /\ Discipline

Same(f, g) == f.op = g.op /\ f.blue = g.blue /\ (Holds(f) <=> Holds(g))

\* A step within an operation.
LEMMA GotoKeeps ==
    ASSUME NEW t \in Thread, NEW f \in FrameType, Stacks, Locks, stack[t] # <<>>,
           Goto(t, f), Same(f, Top(t)), lock' = lock, used \subseteq used', Discipline
    PROVE  Discipline'
<1> DEFINE n == Len(stack[t])
<1>1. /\ n \in 1..n
      /\ Len(stack'[t]) = n
      /\ stack'[t][n] = f
      /\ \A i \in 1..n - 1 : stack'[t][i] = stack[t][i]
      /\ \A u \in Thread \ {t} : stack'[u] = stack[u]
  BY GotoType, TopType
<1>2. \A u \in Thread : /\ Len(stack'[u]) = Len(stack[u])
                        /\ \A i \in 1..Len(stack[u]) : Same(stack'[u][i], stack[u][i])
  <2> TAKE u \in Thread
  <2>1. CASE u # t
    BY <1>1, <2>1 DEF Same
  <2>2. CASE u = t
    <3>1. \A i \in 1..n : i = n \/ i \in 1..n - 1
      BY <1>1
    <3> QED BY <1>1, <2>2, <3>1 DEF Same, Top
  <2> QED BY <2>1, <2>2
<1>3. HoldersOwn'
  BY <1>2 DEF Discipline, HoldersOwn, Same
<1>4. OwnersHold'
  <2> SUFFICES ASSUME NEW b \in Blueprint, lock[b] # NoThread
               PROVE  \E i \in 1..Len(stack'[lock[b]]) :
                         Holds(stack'[lock[b]][i]) /\ stack'[lock[b]][i].blue = b
    BY DEF OwnersHold
  <2>1. PICK u \in Thread : u = lock[b]
    BY DEF Locks
  <2>2. PICK i \in 1..Len(stack[u]) : Holds(stack[u][i]) /\ stack[u][i].blue = b
    BY <2>1 DEF Discipline, OwnersHold
  <2>3. i \in 1..Len(stack'[u]) /\ Same(stack'[u][i], stack[u][i])
    BY <1>2, <2>2
  <2> QED BY <2>1, <2>2, <2>3 DEF Same
<1>5. OneHolder'
  BY <1>2 DEF Discipline, OneHolder, Same
<1>6. FramesUsed'
  BY <1>2 DEF Discipline, FramesUsed, Same
<1> QED
  BY <1>3, <1>4, <1>5, <1>6 DEF Discipline

\* A thread gets a free lock.
LEMMA EnterKeeps ==
    ASSUME NEW t \in Thread, NEW f \in FrameType, Stacks, Locks, stack[t] # <<>>,
           Goto(t, f), f.op = Top(t).op, f.blue = Top(t).blue, f.blue \in Blueprint,
           lock[f.blue] = NoThread, lock' = [lock EXCEPT ![f.blue] = t], Holds(f),
           used' = used, Discipline
    PROVE  Discipline'
<1> DEFINE n == Len(stack[t])
           b == f.blue
<1>1. /\ n \in 1..n
      /\ Len(stack'[t]) = n
      /\ stack'[t][n] = f
      /\ \A i \in 1..n - 1 : stack'[t][i] = stack[t][i]
      /\ \A u \in Thread \ {t} : stack'[u] = stack[u]
      /\ \A i \in 1..n : i = n \/ i \in 1..n - 1
      /\ n \in Nat
  BY GotoType, TopType
<1>2. /\ lock'[b] = t
      /\ \A c \in Blueprint \ {b} : lock'[c] = lock[c]
  BY DEF Locks
<1>3. \A u \in Thread : \A i \in 1..Len(stack[u]) : Holds(stack[u][i]) => stack[u][i].blue # b
  BY LifecycleAssumption DEF Discipline, HoldersOwn
<1>4. \A u \in Thread : \A i \in 1..Len(stack[u]) :
         Holds(stack[u][i]) => stack[u][i].blue \in Blueprint
  BY DEF Discipline, FramesUsed, Locks, Holds, Codes
<1>5. HoldersOwn'
  BY <1>1, <1>2, <1>3, <1>4 DEF Discipline, HoldersOwn
<1>6. OwnersHold'
  <2> SUFFICES ASSUME NEW c \in Blueprint, lock'[c] # NoThread
               PROVE  \E i \in 1..Len(stack'[lock'[c]]) :
                         Holds(stack'[lock'[c]][i]) /\ stack'[lock'[c]][i].blue = c
    BY DEF OwnersHold
  <2>1. CASE c = b
    BY <1>1, <1>2, <2>1
  <2>2. CASE c # b
    <3>1. PICK i \in 1..Len(stack[lock[c]]) :
             Holds(stack[lock[c]][i]) /\ stack[lock[c]][i].blue = c
      BY <1>2, <2>2 DEF Discipline, OwnersHold
    <3>2. lock[c] \in Thread /\ lock'[c] = lock[c]
      BY <1>2, <2>2 DEF Locks
    <3>3. CASE lock[c] # t
      BY <1>1, <3>1, <3>2, <3>3
    <3>4. CASE lock[c] = t
      <4>1. i # n
        BY <2>2, <3>1, <3>4 DEF Top
      <4>2. i \in 1..n - 1 /\ stack'[t][i] = stack[t][i]
        BY <1>1, <3>1, <3>4, <4>1
      <4> QED BY <1>1, <3>1, <3>2, <3>4, <4>2
    <3> QED BY <3>3, <3>4
  <2> QED BY <2>1, <2>2
<1>7. OneHolder'
  <2> SUFFICES ASSUME NEW u \in Thread, NEW i \in 1..Len(stack'[u]),
                      NEW j \in 1..Len(stack'[u]),
                      Holds(stack'[u][i]), Holds(stack'[u][j]),
                      stack'[u][i].blue = stack'[u][j].blue
               PROVE  i = j
    BY DEF OneHolder
  <2>1. CASE u # t
    BY <1>1, <2>1 DEF Discipline, OneHolder
  <2>2. CASE u = t /\ stack'[t][i].blue = b
    <3>1. \A k \in 1..n - 1 : Holds(stack'[t][k]) => stack'[t][k].blue # b
      BY <1>1, <1>3
    <3> QED BY <1>1, <2>2, <3>1
  <2>3. CASE u = t /\ stack'[t][i].blue # b
    <3>1. i \in 1..n - 1 /\ j \in 1..n - 1
      BY <1>1, <2>3
    <3> QED BY <1>1, <2>3, <3>1 DEF Discipline, OneHolder
  <2> QED BY <2>1, <2>2, <2>3
<1>8. FramesUsed'
  <2> SUFFICES ASSUME NEW u \in Thread, NEW i \in 1..Len(stack'[u])
               PROVE  stack'[u][i].op = "deleteAll" \/ stack'[u][i].blue \in used
    BY DEF FramesUsed
  <2>1. CASE u # t
    BY <1>1, <2>1 DEF Discipline, FramesUsed
  <2>2. CASE u = t
    BY <1>1, <2>2 DEF Discipline, FramesUsed, Top
  <2> QED BY <2>1, <2>2
<1> QED
  BY <1>5, <1>6, <1>7, <1>8 DEF Discipline

\* The frames of t stay and g comes on top of them.
Extends(t, g) ==
    /\ \A u \in Thread \ {t} : stack'[u] = stack[u]
    /\ Len(stack'[t]) = Len(stack[t]) + 1
    /\ stack'[t][Len(stack[t]) + 1] = g
    /\ \A i \in 1..Len(stack[t]) : Same(stack'[t][i], stack[t][i])

\* A nested call adds its frame and keeps the others.
LEMMA PushExtends ==
    ASSUME NEW t \in Thread, NEW f \in FrameType, NEW g \in FrameType,
           Stacks, stack[t] # <<>>, Push(t, f, g), Same(f, Top(t))
    PROVE  Stacks' /\ Extends(t, g)
<1>1. Len(stack[t]) \in Nat
  BY TopType
<1>2. \A i \in 1..Len(stack[t]) : i = Len(stack[t]) \/ i \in 1..Len(stack[t]) - 1
  BY <1>1
<1> QED
  BY <1>2, PushType DEF Extends, Same, Top

\* The first frame of an idle thread.
LEMMA StartExtends ==
    ASSUME NEW t \in Thread, NEW g \in FrameType, Stacks, stack[t] = <<>>,
           stack' = [stack EXCEPT ![t] = <<g>>]
    PROVE  Stacks' /\ Extends(t, g)
<1>1. stack'[t] = <<g>> /\ \A u \in Thread \ {t} : stack'[u] = stack[u]
  BY DEF Stacks
<1>2. Stacks'
  BY DEF Stacks
<1> QED
  BY <1>1, <1>2 DEF Extends

\* A method is called and has not got its lock yet, or takes none.
LEMMA CallKeeps ==
    ASSUME NEW t \in Thread, NEW g \in FrameType, Stacks, Locks, Extends(t, g),
           ~Holds(g), g.op = "deleteAll" \/ g.blue \in used,
           lock' = lock, used' = used, Discipline
    PROVE  Discipline'
<1> DEFINE n == Len(stack[t])
<1>1. n \in Nat /\ \A i \in 1..n + 1 : i = n + 1 \/ i \in 1..n
  BY DEF Stacks
<1>2. HoldersOwn'
  <2> SUFFICES ASSUME NEW u \in Thread, NEW i \in 1..Len(stack'[u]), Holds(stack'[u][i])
               PROVE  lock[stack'[u][i].blue] = u
    BY DEF HoldersOwn
  <2>1. CASE u # t
    BY <2>1 DEF Discipline, HoldersOwn, Extends
  <2>2. CASE u = t
    <3>1. i \in 1..n /\ Same(stack'[t][i], stack[t][i])
      BY <1>1, <2>2 DEF Extends
    <3> QED BY <2>2, <3>1 DEF Discipline, HoldersOwn, Same
  <2> QED BY <2>1, <2>2
<1>3. OwnersHold'
  <2> SUFFICES ASSUME NEW b \in Blueprint, lock[b] # NoThread
               PROVE  \E i \in 1..Len(stack'[lock[b]]) :
                         Holds(stack'[lock[b]][i]) /\ stack'[lock[b]][i].blue = b
    BY DEF OwnersHold
  <2>1. PICK i \in 1..Len(stack[lock[b]]) :
           Holds(stack[lock[b]][i]) /\ stack[lock[b]][i].blue = b
    BY DEF Discipline, OwnersHold
  <2>2. CASE lock[b] # t
    BY <2>1, <2>2 DEF Extends, Locks
  <2>3. CASE lock[b] = t
    <3>1. i \in 1..n + 1 /\ Same(stack'[t][i], stack[t][i])
      BY <1>1, <2>1, <2>3 DEF Extends
    <3> QED BY <2>1, <2>3, <3>1 DEF Same, Extends
  <2> QED BY <2>2, <2>3
<1>4. OneHolder'
  <2> SUFFICES ASSUME NEW u \in Thread, NEW i \in 1..Len(stack'[u]),
                      NEW j \in 1..Len(stack'[u]),
                      Holds(stack'[u][i]), Holds(stack'[u][j]),
                      stack'[u][i].blue = stack'[u][j].blue
               PROVE  i = j
    BY DEF OneHolder
  <2>1. CASE u # t
    BY <2>1 DEF Discipline, OneHolder, Extends
  <2>2. CASE u = t
    <3>1. i \in 1..n /\ j \in 1..n
      BY <1>1, <2>2 DEF Extends
    <3>2. Same(stack'[t][i], stack[t][i]) /\ Same(stack'[t][j], stack[t][j])
      BY <3>1 DEF Extends
    <3> QED BY <2>2, <3>1, <3>2 DEF Discipline, OneHolder, Same
  <2> QED BY <2>1, <2>2
<1>5. FramesUsed'
  <2> SUFFICES ASSUME NEW u \in Thread, NEW i \in 1..Len(stack'[u])
               PROVE  stack'[u][i].op = "deleteAll" \/ stack'[u][i].blue \in used
    BY DEF FramesUsed
  <2>1. CASE u # t
    BY <2>1 DEF Discipline, FramesUsed, Extends
  <2>2. CASE u = t
    BY <1>1, <2>2 DEF Discipline, FramesUsed, Extends, Same
  <2> QED BY <2>1, <2>2
<1> QED
  BY <1>2, <1>3, <1>4, <1>5 DEF Discipline

\* A blueprint is created: its lock is new.
LEMMA CreateKeeps ==
    ASSUME NEW t \in Thread, NEW g \in FrameType, Stacks, Locks, Extends(t, g),
           g.blue \in Blueprint, lock[g.blue] = NoThread, Holds(g),
           lock' = [lock EXCEPT ![g.blue] = t], used' = used \cup {g.blue}, Discipline
    PROVE  Discipline'
<1> DEFINE n == Len(stack[t])
           b == g.blue
<1>1. n \in Nat /\ \A i \in 1..n + 1 : i = n + 1 \/ i \in 1..n
  BY DEF Stacks
<1>2. /\ lock'[b] = t
      /\ \A c \in Blueprint \ {b} : lock'[c] = lock[c]
  BY DEF Locks
<1>3. \A u \in Thread : \A i \in 1..Len(stack[u]) :
         Holds(stack[u][i]) => stack[u][i].blue \in Blueprint \ {b}
  <2>1. \A u \in Thread : \A i \in 1..Len(stack[u]) :
           Holds(stack[u][i]) => stack[u][i].blue # b
    BY LifecycleAssumption DEF Discipline, HoldersOwn
  <2> QED BY <2>1 DEF Discipline, FramesUsed, Locks, Holds, Codes
<1>4. HoldersOwn'
  <2> SUFFICES ASSUME NEW u \in Thread, NEW i \in 1..Len(stack'[u]), Holds(stack'[u][i])
               PROVE  lock'[stack'[u][i].blue] = u
    BY DEF HoldersOwn
  <2>1. CASE u # t
    <3>1. i \in 1..Len(stack[u]) /\ stack'[u][i] = stack[u][i]
      BY <2>1 DEF Extends
    <3> QED BY <1>2, <1>3, <3>1 DEF Discipline, HoldersOwn
  <2>2. CASE u = t /\ i = n + 1
    BY <1>2, <2>2 DEF Extends
  <2>3. CASE u = t /\ i \in 1..n
    <3>1. Same(stack'[t][i], stack[t][i])
      BY <2>3 DEF Extends
    <3> QED BY <1>2, <1>3, <2>3, <3>1 DEF Discipline, HoldersOwn, Same
  <2> QED BY <1>1, <2>1, <2>2, <2>3 DEF Extends
<1>5. OwnersHold'
  <2> SUFFICES ASSUME NEW c \in Blueprint, lock'[c] # NoThread
               PROVE  \E i \in 1..Len(stack'[lock'[c]]) :
                         Holds(stack'[lock'[c]][i]) /\ stack'[lock'[c]][i].blue = c
    BY DEF OwnersHold
  <2>1. CASE c = b
    <3>1. n + 1 \in 1..Len(stack'[t]) /\ stack'[t][n + 1] = g
      BY <1>1 DEF Extends
    <3> QED BY <1>2, <2>1, <3>1
  <2>2. CASE c # b
    <3>1. lock[c] \in Thread /\ lock'[c] = lock[c]
      BY <1>2, <2>2 DEF Locks
    <3>2. PICK i \in 1..Len(stack[lock[c]]) :
             Holds(stack[lock[c]][i]) /\ stack[lock[c]][i].blue = c
      BY <1>2, <2>2 DEF Discipline, OwnersHold
    <3>3. CASE lock[c] # t
      BY <3>1, <3>2, <3>3 DEF Extends
    <3>4. CASE lock[c] = t
      <4>1. i \in 1..n + 1 /\ Same(stack'[t][i], stack[t][i])
        BY <1>1, <3>2, <3>4 DEF Extends
      <4> QED BY <3>1, <3>2, <3>4, <4>1 DEF Same, Extends
    <3> QED BY <3>3, <3>4
  <2> QED BY <2>1, <2>2
<1>6. OneHolder'
  <2> SUFFICES ASSUME NEW u \in Thread, NEW i \in 1..Len(stack'[u]),
                      NEW j \in 1..Len(stack'[u]),
                      Holds(stack'[u][i]), Holds(stack'[u][j]),
                      stack'[u][i].blue = stack'[u][j].blue
               PROVE  i = j
    BY DEF OneHolder
  <2>1. CASE u # t
    BY <2>1 DEF Discipline, OneHolder, Extends
  <2>2. CASE u = t
    <3>1. \A k \in 1..n : Same(stack'[t][k], stack[t][k])
      BY DEF Extends
    <3>2. \A k \in 1..n : Holds(stack'[t][k]) => stack'[t][k].blue # b
      BY <1>3, <3>1 DEF Same
    <3>3. CASE stack'[t][i].blue = b
      <4>1. i = n + 1 /\ j = n + 1
        BY <1>1, <2>2, <3>2, <3>3 DEF Extends
      <4> QED BY <4>1
    <3>4. CASE stack'[t][i].blue # b
      <4>1. i \in 1..n /\ j \in 1..n
        BY <1>1, <2>2, <3>4 DEF Extends
      <4> QED BY <2>2, <3>1, <4>1 DEF Discipline, OneHolder, Same
    <3> QED BY <3>3, <3>4
  <2> QED BY <2>1, <2>2
<1>7. FramesUsed'
  <2> SUFFICES ASSUME NEW u \in Thread, NEW i \in 1..Len(stack'[u])
               PROVE  stack'[u][i].op = "deleteAll" \/ stack'[u][i].blue \in used'
    BY DEF FramesUsed
  <2>1. CASE u # t
    BY <2>1 DEF Discipline, FramesUsed, Extends
  <2>2. CASE u = t
    BY <1>1, <2>2 DEF Discipline, FramesUsed, Extends, Same
  <2> QED BY <2>1, <2>2
<1> QED
  BY <1>4, <1>5, <1>6, <1>7 DEF Discipline

\* The top frame of t is gone.
Shrinks(t) ==
    /\ \A u \in Thread \ {t} : stack'[u] = stack[u]
    /\ Len(stack'[t]) = Len(stack[t]) - 1
    /\ \A i \in 1..Len(stack[t]) - 1 : Same(stack'[t][i], stack[t][i])

\* A return drops the last frame and keeps the others.
LEMMA ReturnShrinks ==
    ASSUME NEW t \in Thread, NEW ret \in Returns, Stacks, stack[t] # <<>>, Return(t, ret)
    PROVE  Stacks' /\ Shrinks(t)
BY ReturnType DEF Shrinks, Same, Holds

\* A method that holds no lock returns.
LEMMA ReturnKeeps ==
    ASSUME NEW t \in Thread, Stacks, Locks, stack[t] # <<>>, Shrinks(t), ~Holds(Top(t)),
           lock' = lock, used' = used, Discipline
    PROVE  Discipline'
<1> DEFINE n == Len(stack[t])
<1>1. n \in Nat /\ \A i \in 1..n : i = n \/ i \in 1..n - 1
  BY TopType
<1>2. \A u \in Thread : \A i \in 1..Len(stack'[u]) :
         i \in 1..Len(stack[u]) /\ Same(stack'[u][i], stack[u][i])
  <2> TAKE u \in Thread
  <2> TAKE i \in 1..Len(stack'[u])
  <2>1. CASE u # t
    BY <2>1 DEF Shrinks, Same
  <2>2. CASE u = t
    BY <1>1, <2>2 DEF Shrinks
  <2> QED BY <2>1, <2>2
<1>3. HoldersOwn'
  BY <1>2 DEF Discipline, HoldersOwn, Same
<1>4. OwnersHold'
  <2> SUFFICES ASSUME NEW b \in Blueprint, lock[b] # NoThread
               PROVE  \E i \in 1..Len(stack'[lock[b]]) :
                         Holds(stack'[lock[b]][i]) /\ stack'[lock[b]][i].blue = b
    BY DEF OwnersHold
  <2>1. PICK i \in 1..Len(stack[lock[b]]) :
           Holds(stack[lock[b]][i]) /\ stack[lock[b]][i].blue = b
    BY DEF Discipline, OwnersHold
  <2>2. CASE lock[b] # t
    BY <2>1, <2>2 DEF Shrinks, Locks
  <2>3. CASE lock[b] = t
    <3>1. i \in 1..n - 1
      BY <1>1, <2>1, <2>3 DEF Top
    <3>2. i \in 1..Len(stack'[t]) /\ Same(stack'[t][i], stack[t][i])
      BY <3>1 DEF Shrinks
    <3> QED BY <2>1, <2>3, <3>2 DEF Same
  <2> QED BY <2>2, <2>3
<1>5. OneHolder'
  BY <1>2 DEF Discipline, OneHolder, Same
<1>6. FramesUsed'
  BY <1>2 DEF Discipline, FramesUsed, Same
<1> QED
  BY <1>3, <1>4, <1>5, <1>6 DEF Discipline

\* A method releases its lock and returns.
LEMMA ReleaseKeeps ==
    ASSUME NEW t \in Thread, Stacks, Locks, stack[t] # <<>>, Shrinks(t), Holds(Top(t)),
           Release(Top(t).blue), used' = used, Discipline
    PROVE  Discipline'
<1> DEFINE n == Len(stack[t])
           b == Top(t).blue
<1>1. n \in Nat /\ n \in 1..n /\ \A i \in 1..n : i = n \/ i \in 1..n - 1
  BY TopType
<1>2. \A u \in Thread : \A i \in 1..Len(stack'[u]) :
         /\ i \in 1..Len(stack[u])
         /\ Same(stack'[u][i], stack[u][i])
         /\ u = t => i \in 1..n - 1
  <2> TAKE u \in Thread
  <2> TAKE i \in 1..Len(stack'[u])
  <2>1. CASE u # t
    BY <2>1 DEF Shrinks, Same
  <2>2. CASE u = t
    BY <1>1, <2>2 DEF Shrinks
  <2> QED BY <2>1, <2>2
<1>3. b \in Blueprint /\ lock[b] = t
  BY <1>1 DEF Discipline, HoldersOwn, FramesUsed, Locks, Holds, Codes, Top
<1>4. /\ lock'[b] = NoThread
      /\ \A c \in Blueprint \ {b} : lock'[c] = lock[c]
  BY <1>3 DEF Locks, Release
<1>5. HoldersOwn'
  <2> SUFFICES ASSUME NEW u \in Thread, NEW i \in 1..Len(stack'[u]), Holds(stack'[u][i])
               PROVE  lock'[stack'[u][i].blue] = u
    BY DEF HoldersOwn
  <2>1. Holds(stack[u][i]) /\ stack'[u][i].blue = stack[u][i].blue /\ i \in 1..Len(stack[u])
    BY <1>2 DEF Same
  <2>2. lock[stack[u][i].blue] = u /\ stack[u][i].blue \in Blueprint
    BY <2>1 DEF Discipline, HoldersOwn, FramesUsed, Locks, Holds, Codes
  <2>3. stack[u][i].blue # b
    <3> SUFFICES ASSUME stack[u][i].blue = b PROVE FALSE
      OBVIOUS
    <3>1. u = t
      BY <1>3, <2>2
    <3>2. i = n
      BY <1>1, <2>1, <3>1 DEF Discipline, OneHolder, Top
    <3> QED BY <1>1, <1>2, <3>1, <3>2
  <2> QED BY <1>4, <2>1, <2>2, <2>3
<1>6. OwnersHold'
  <2> SUFFICES ASSUME NEW c \in Blueprint, lock'[c] # NoThread
               PROVE  \E i \in 1..Len(stack'[lock'[c]]) :
                         Holds(stack'[lock'[c]][i]) /\ stack'[lock'[c]][i].blue = c
    BY DEF OwnersHold
  <2>1. c # b /\ lock'[c] = lock[c] /\ lock[c] \in Thread
    BY <1>4 DEF Locks
  <2>2. PICK i \in 1..Len(stack[lock[c]]) :
           Holds(stack[lock[c]][i]) /\ stack[lock[c]][i].blue = c
    BY <2>1 DEF Discipline, OwnersHold
  <2>3. CASE lock[c] # t
    BY <2>1, <2>2, <2>3 DEF Shrinks
  <2>4. CASE lock[c] = t
    <3>1. i \in 1..n - 1
      BY <1>1, <2>1, <2>2, <2>4 DEF Top
    <3>2. i \in 1..Len(stack'[t]) /\ Same(stack'[t][i], stack[t][i])
      BY <3>1 DEF Shrinks
    <3> QED BY <2>1, <2>2, <2>4, <3>2 DEF Same
  <2> QED BY <2>3, <2>4
<1>7. OneHolder'
  BY <1>2 DEF Discipline, OneHolder, Same
<1>8. FramesUsed'
  BY <1>2 DEF Discipline, FramesUsed, Same
<1> QED
  BY <1>5, <1>6, <1>7, <1>8 DEF Discipline
-----------------------------------------------------------------------------
(* The ways the actions change the frames and the registry.                *)
LEMMA RunningFrame ==
    ASSUME NEW t \in Thread, IInv, stack[t] # <<>>
    PROVE  /\ Top(t) \in FrameType
           /\ Top(t).op # "deleteAll" => Top(t).blue \in used /\ Top(t).blue \in Blueprint
<1>1. Top(t) \in FrameType /\ Len(stack[t]) \in 1..Len(stack[t])
  BY TopType DEF IInv
<1> QED
  BY <1>1 DEF IInv, Data, Discipline, FramesUsed, Top

\* A step within an operation that neither acquires nor releases its lock.
LEMMA MoveKeeps ==
    ASSUME NEW t \in Thread, NEW f \in FrameType, IInv, stack[t] # <<>>, Goto(t, f),
           f.op = Top(t).op, f.blue = Top(t).blue, Top(t).pc # "acquire", f.pc # "acquire",
           lock' = lock, used' = used
    PROVE  Stacks' /\ Discipline'
<1>1. Same(f, Top(t))
  BY DEF Same, Holds
<1>2. Stacks'
  BY GotoType DEF IInv
<1>3. Discipline'
  BY <1>1, GotoKeeps DEF IInv
<1> QED
  BY <1>2, <1>3

\* The same for an operation that resumes after a nested call.
LEMMA ResumeKeeps ==
    ASSUME NEW t \in Thread, NEW pc \in PCs \ ({"acquire"} \cup Waiting), IInv,
           stack[t] # <<>>, Resume(t, pc), Top(t).pc # "acquire", lock' = lock, used' = used
    PROVE  Stacks' /\ Discipline'
<1> DEFINE f == [Top(t) EXCEPT !.pc = pc, !.child = NoBlue, !.ret = "none"]
<1>1. f \in FrameType /\ f.op = Top(t).op /\ f.blue = Top(t).blue /\ f.pc # "acquire"
  BY RunningFrame DEF FrameType, Returns
<1>2. Goto(t, f)
  BY DEF Resume
<1> HIDE DEF f
<1> QED
  BY <1>1, <1>2, MoveKeeps

\* The same for an operation that goes to its except branch.
LEMMA RaiseKeeps ==
    ASSUME NEW t \in Thread, NEW ret \in Returns, IInv, stack[t] # <<>>,
           Raise(t, ret), Top(t).pc # "acquire", lock' = lock, used' = used
    PROVE  Stacks' /\ Discipline'
<1> DEFINE f == [Top(t) EXCEPT !.pc = "failed", !.child = NoBlue, !.todo = {}, !.ret = ret]
<1>1. f \in FrameType /\ f.op = Top(t).op /\ f.blue = Top(t).blue /\ f.pc # "acquire"
  BY RunningFrame DEF FrameType, PCs, Waiting
<1>2. Goto(t, f)
  BY DEF Raise
<1> HIDE DEF f
<1> QED
  BY <1>1, <1>2, MoveKeeps

\* A nested call takes no lock by itself.
LEMMA NestKeeps ==
    ASSUME NEW t \in Thread, NEW f \in FrameType, NEW pc \in PCs \ {"acquire"},
           NEW c \in Blueprint, NEW op \in Ops, IInv, stack[t] # <<>>,
           Nest(t, f, pc, c, op), f.op = Top(t).op, f.blue = Top(t).blue,
           Top(t).pc # "acquire", lock' = lock, used' = used
    PROVE  Stacks' /\ Discipline'
<1> DEFINE w == [f EXCEPT !.pc = pc, !.child = c]
           e == [w EXCEPT !.ret = "error"]
           g == Frame(op, c, "acquire", FALSE)
<1>1. /\ w \in FrameType /\ w.op = Top(t).op /\ w.blue = Top(t).blue /\ w.pc # "acquire"
      /\ e \in FrameType /\ e.op = Top(t).op /\ e.blue = Top(t).blue /\ e.pc # "acquire"
  BY DEF FrameType, Returns
<1>2. g \in FrameType /\ ~Holds(g) /\ g.blue = c
  <2>1. "acquire" \in PCs /\ FALSE \in BOOLEAN /\ c \in Blueprint \cup {NoBlue}
    BY DEF PCs
  <2>2. g \in FrameType /\ g.blue = c /\ g.pc = "acquire"
    BY <2>1 DEF Frame, FrameType, Returns, Waiting
  <2> QED BY <2>2 DEF Holds
<1>3. IF c \in blueprint_dict THEN Push(t, w, g) ELSE Goto(t, e)
  BY DEF Nest
<1> HIDE DEF w, e, g
<1>4. CASE c \in blueprint_dict
  <2>1. Stacks' /\ Extends(t, g)
    BY <1>1, <1>2, <1>3, <1>4, PushExtends DEF Same, Holds, IInv
  <2>2. g.blue \in used
    BY <1>2, <1>4 DEF IInv, Data
  <2> QED BY <1>2, <2>1, <2>2, CallKeeps DEF IInv
<1>5. CASE c \notin blueprint_dict
  BY <1>1, <1>3, <1>5, MoveKeeps
<1> QED
  BY <1>4, <1>5

\* A user request that starts without a lock.
LEMMA StartKeeps ==
    ASSUME NEW t \in Thread, NEW g \in FrameType, IInv, stack[t] = <<>>, ~Holds(g),
           g.op = "deleteAll" \/ g.blue \in used, stack' = [stack EXCEPT ![t] = <<g>>],
           lock' = lock, used' = used
    PROVE  Stacks' /\ Discipline'
<1>1. Stacks' /\ Extends(t, g)
  BY StartExtends DEF IInv
<1> QED
  BY <1>1, CallKeeps DEF IInv

\* Saving a well-typed blueprint that was created keeps the registry well-typed.
LEMMA SaveData ==
    ASSUME Data, NEW b \in used', NEW w \in BlueType, NEW r \in BlueType,
           SaveThen(b, w, r), used \subseteq used', used' \subseteq Blueprint,
           deleted' = deleted
    PROVE  Data'
<1>1. blueprint_dict' \subseteq used' /\ docs' \subseteq used' /\ deleted' \subseteq Blueprint
  BY DEF Data, SaveThen
<1>2. blue' \in [Blueprint -> BlueType] /\ saved' \in [Blueprint -> BlueType]
  BY DEF Data, SaveThen
<1> QED
  BY <1>1, <1>2 DEF Data

\* So does setting its status.
LEMMA SetStatusData ==
    ASSUME IInv, NEW b \in used, NEW s \in StatusType, SetStatus(b, s),
           used' = used, deleted' = deleted
    PROVE  Data'
<1> DEFINE r == [blue[b] EXCEPT !.status = s]
<1>1. blue[b] \in BlueType
  BY DEF IInv, Data
<1>2. r \in BlueType
  BY <1>1 DEF BlueType
<1>3. SaveThen(b, r, r)
  BY DEF SetStatus, Save
<1>4. Data /\ used' \subseteq Blueprint /\ b \in used'
  BY DEF IInv, Data
<1> HIDE DEF r
<1> QED
  BY <1>2, <1>3, <1>4, SaveData

\* The registry does not change when its variables do not.
LEMMA SameRegistry ==
    ASSUME IInv, UNCHANGED <<registry, used, deleted>>
    PROVE  Data'
BY DEF IInv, Data, registry

\* Nor do the locks.
LEMMA SameLocks ==
    ASSUME IInv, UNCHANGED <<lock, used>>
    PROVE  Locks'
BY DEF IInv, Locks

\* The statuses the manager sets are statuses.
LEMMA StatusTypes ==
    /\ Deploying \in StatusType /\ RunningDay2 \in StatusType /\ Idle \in StatusType
    /\ ErrorState \in StatusType /\ Destroying \in StatusType
BY DEF Status, Deploying, RunningDay2, Idle, ErrorState, Destroying, StatusType
-----------------------------------------------------------------------------
(* Each step of a thread keeps the inductive invariant.                    *)
LEMMA StartCreateFacts ==
    ASSUME IInv, NEW t \in Thread, NEW c \in Blueprint, NEW p \in Blueprint \cup {NoBlue},
           StartCreate(c, p, t)
    PROVE  /\ Data' /\ Locks'
           /\ lock[c] = NoThread
           /\ lock' = [lock EXCEPT ![c] = t]
           /\ used' = used \cup {c}
<1>1. NewBlue(p) \in BlueType
  BY StatusTypes DEF NewBlue, BlueType
<1>2. Data'
  BY <1>1, SaveData DEF StartCreate, Save, IInv, Data
<1>3. Locks'
  BY DEF StartCreate, IInv, Locks, Data
<1>4. lock[c] = NoThread
  <2> SUFFICES ASSUME lock[c] # NoThread PROVE FALSE
    OBVIOUS
  <2>1. PICK i \in 1..Len(stack[lock[c]]) :
           Holds(stack[lock[c]][i]) /\ stack[lock[c]][i].blue = c
    BY DEF IInv, Discipline, OwnersHold
  <2>2. lock[c] \in Thread /\ stack[lock[c]][i].op # "deleteAll"
    BY <2>1 DEF IInv, Locks, Holds, Codes
  <2>3. c \in used
    BY <2>1, <2>2 DEF IInv, Discipline, FramesUsed
  <2> QED BY <2>3 DEF StartCreate
<1> QED
  BY <1>2, <1>3, <1>4 DEF StartCreate

\* The frame of a method that is called.
LEMMA FrameOf ==
    ASSUME NEW op \in Ops, NEW b \in Blueprint, NEW pc \in PCs \ Waiting, NEW flag \in BOOLEAN
    PROVE  /\ Frame(op, b, pc, flag) \in FrameType
           /\ Frame(op, b, pc, flag).op = op
           /\ Frame(op, b, pc, flag).blue = b
           /\ Frame(op, b, pc, flag).pc = pc
<1>1. "none" \in Returns
  BY DEF Returns
<1> QED BY <1>1 DEF Frame, FrameType

\* A frame that runs the code of a blueprint holds its lock and waits for nothing.
LEMMA BodyFrame ==
    ASSUME NEW c \in Blueprint
    PROVE  /\ Frame("create", c, "body", FALSE) \in FrameType
           /\ Frame("create", c, "body", FALSE).blue = c
           /\ Holds(Frame("create", c, "body", FALSE))
BY DEF Frame, FrameType, Returns, Ops, PCs, Holds, Codes, Waiting

\* Requests of the users.
LEMMA UserStepKeeps ==
    ASSUME IInv, NEW t \in Thread, UserStep(t)
    PROVE  IInv'
<1>1. CASE UserCreate(t)
  <2>1. PICK c \in Blueprint :
           /\ StartCreate(c, NoBlue, t)
           /\ stack' = [stack EXCEPT ![t] = <<Frame("create", c, "body", FALSE)>>]
    BY <1>1 DEF UserCreate
  <2>2. Stacks' /\ Extends(t, Frame("create", c, "body", FALSE))
    BY <1>1, <2>1, BodyFrame, StartExtends DEF UserCreate, IInv
  <2> QED BY <2>1, <2>2, BodyFrame, StartCreateFacts, CreateKeeps DEF IInv
<1>2. ASSUME NEW g \in FrameType, stack[t] = <<>>, ~Holds(g),
             g.op = "deleteAll" \/ g.blue \in used, stack' = [stack EXCEPT ![t] = <<g>>],
             UNCHANGED <<registry, lock, used, deleted>>
      PROVE  IInv'
  BY <1>2, StartKeeps, SameRegistry, SameLocks DEF IInv
<1>3. ASSUME NEW b \in blueprint_dict, NEW flag \in BOOLEAN
      PROVE  /\ b \in used
             /\ \A op \in {"update", "get", "delete"} :
                  LET g == Frame(op, b, "acquire", flag)
                  IN  g \in FrameType /\ ~Holds(g) /\ g.blue = b
             /\ LET g == Frame("protect", b, "apply", flag)
                IN  g \in FrameType /\ ~Holds(g) /\ g.blue = b
  <2>1. b \in used /\ b \in Blueprint
    BY DEF IInv, Data
  <2>2. ASSUME NEW op \in {"update", "get", "delete"}
        PROVE  Frame(op, b, "acquire", flag) \in FrameType
               /\ ~Holds(Frame(op, b, "acquire", flag))
               /\ Frame(op, b, "acquire", flag).blue = b
    <3>1. op \in Ops
      BY DEF Ops
    <3>2. "acquire" \in PCs \ Waiting
      BY DEF PCs, Waiting
    <3> QED BY <2>1, <3>1, <3>2, FrameOf DEF Holds
  <2>3. Frame("protect", b, "apply", flag) \in FrameType
        /\ ~Holds(Frame("protect", b, "apply", flag))
        /\ Frame("protect", b, "apply", flag).blue = b
    <3>1. "protect" \in Ops /\ "apply" \in PCs \ Waiting
      BY DEF Ops, PCs, Waiting
    <3>2. "protect" \notin Codes \cup {"delete"}
      BY DEF Codes
    <3> QED BY <2>1, <3>1, <3>2, FrameOf DEF Holds
  <2> QED BY <2>1, <2>2, <2>3
<1>4. CASE UserUpdate(t)
  <2>1. PICK b \in blueprint_dict :
           stack' = [stack EXCEPT ![t] = <<Frame("update", b, "acquire", FALSE)>>]
    BY <1>4 DEF UserUpdate
  <2> DEFINE g == Frame("update", b, "acquire", FALSE)
  <2>2. g \in FrameType /\ ~Holds(g) /\ g.blue \in used
    BY <1>3
  <2>3. stack' = [stack EXCEPT ![t] = <<g>>]
    BY <2>1
  <2> HIDE DEF g
  <2> QED BY <1>2, <1>4, <2>2, <2>3 DEF UserUpdate
<1>5. CASE UserGet(t)
  <2>1. PICK b \in blueprint_dict :
           stack' = [stack EXCEPT ![t] = <<Frame("get", b, "acquire", FALSE)>>]
    BY <1>5 DEF UserGet
  <2> DEFINE g == Frame("get", b, "acquire", FALSE)
  <2>2. g \in FrameType /\ ~Holds(g) /\ g.blue \in used
    BY <1>3
  <2>3. stack' = [stack EXCEPT ![t] = <<g>>]
    BY <2>1
  <2> HIDE DEF g
  <2> QED BY <1>2, <1>5, <2>2, <2>3 DEF UserGet
<1>6. CASE UserDelete(t)
  <2>1. PICK b \in blueprint_dict, force \in BOOLEAN :
           stack' = [stack EXCEPT ![t] = <<Frame("delete", b, "acquire", force)>>]
    BY <1>6 DEF UserDelete
  <2> DEFINE g == Frame("delete", b, "acquire", force)
  <2>2. g \in FrameType /\ ~Holds(g) /\ g.blue \in used
    BY <1>3
  <2>3. stack' = [stack EXCEPT ![t] = <<g>>]
    BY <2>1
  <2> HIDE DEF g
  <2> QED BY <1>2, <1>6, <2>2, <2>3 DEF UserDelete
<1>7. CASE UserProtect(t)
  <2>1. PICK b \in blueprint_dict, protect \in BOOLEAN :
           stack' = [stack EXCEPT ![t] = <<Frame("protect", b, "apply", protect)>>]
    BY <1>7 DEF UserProtect
  <2> DEFINE g == Frame("protect", b, "apply", protect)
  <2>2. g \in FrameType /\ ~Holds(g) /\ g.blue \in used
    BY <1>3
  <2>3. stack' = [stack EXCEPT ![t] = <<g>>]
    BY <2>1
  <2> HIDE DEF g
  <2> QED BY <1>2, <1>7, <2>2, <2>3 DEF UserProtect
<1>8. CASE UserDeleteAll(t)
  <2> DEFINE g == [Frame("deleteAll", NoBlue, "loop", FALSE) EXCEPT !.todo = blueprint_dict]
  <2>1. g \in FrameType /\ g.op = "deleteAll" /\ ~Holds(g)
    BY DEF Frame, FrameType, Returns, Ops, PCs, Holds, Codes, IInv, Data, Waiting
  <2>2. stack' = [stack EXCEPT ![t] = <<g>>]
    BY <1>8 DEF UserDeleteAll
  <2> HIDE DEF g
  <2> QED BY <1>2, <1>8, <2>1, <2>2 DEF UserDeleteAll
<1> QED
  BY <1>1, <1>4, <1>5, <1>6, <1>7, <1>8 DEF UserStep

\* Lock acquisitions.
LEMMA EnterStepKeeps ==
    ASSUME IInv, NEW t \in Thread, EnterStep(t)
    PROVE  IInv'
<1> DEFINE b == Top(t).blue
<1>1. /\ stack[t] # <<>> /\ Top(t).pc = "acquire" /\ lock[b] = NoThread
      /\ Top(t).op \in Codes \cup {"delete"}
  BY DEF EnterStep, EnterUpdate, EnterCode, EnterDelete, CanAcquire, Running, Codes
<1>2. Top(t) \in FrameType /\ b \in used /\ b \in Blueprint
  BY <1>1, RunningFrame DEF Codes
<1>3. ASSUME NEW f \in FrameType, Goto(t, f), f.op = Top(t).op, f.blue = b,
             f.pc # "acquire", lock' = [lock EXCEPT ![b] = t], used' = used, Data'
      PROVE  IInv'
  <2>1. Stacks'
    BY <1>1, <1>3, GotoType DEF IInv
  <2>2. Locks'
    BY <1>2, <1>3 DEF IInv, Locks
  <2>3. Holds(f)
    BY <1>1, <1>3 DEF Holds
  <2>4. Discipline'
    BY <1>1, <1>2, <1>3, <2>3, EnterKeeps DEF IInv
  <2> QED BY <1>3, <2>1, <2>2, <2>4 DEF IInv
<1>4. ASSUME NEW pc \in PCs \ ({"acquire"} \cup Waiting), Goto(t, [Top(t) EXCEPT !.pc = pc]),
             lock' = [lock EXCEPT ![b] = t], used' = used, Data'
      PROVE  IInv'
  <2> DEFINE f == [Top(t) EXCEPT !.pc = pc]
  <2>1. f \in FrameType /\ f.op = Top(t).op /\ f.blue = b /\ f.pc # "acquire"
    BY <1>2 DEF FrameType
  <2> HIDE DEF f
  <2>2. Goto(t, f)
    BY <1>4 DEF f
  <2> QED BY <1>3, <1>4, <2>1, <2>2
<1>5. ASSUME NEW ret \in Returns, Raise(t, ret),
             lock' = [lock EXCEPT ![b] = t], used' = used, Data'
      PROVE  IInv'
  <2> DEFINE f == [Top(t) EXCEPT !.pc = "failed", !.child = NoBlue, !.todo = {}, !.ret = ret]
  <2>1. f \in FrameType /\ f.op = Top(t).op /\ f.blue = b /\ f.pc # "acquire"
    BY <1>2 DEF FrameType, PCs, Waiting
  <2>2. Goto(t, f)
    BY <1>5 DEF Raise
  <2> HIDE DEF f
  <2> QED BY <1>3, <1>5, <2>1, <2>2
<1>6. CASE EnterUpdate(t)
  <2>1. CASE b \in blueprint_dict
    <3>1. Data'
      BY <1>2, <1>6, <2>1, StatusTypes, SetStatusData DEF EnterUpdate
    <3> QED BY <1>4, <1>6, <2>1, <3>1 DEF EnterUpdate, PCs, Waiting
  <2>2. CASE b \notin blueprint_dict
    <3>1. Return(t, "error") /\ UNCHANGED <<registry, lock, used, deleted>>
      BY <1>6, <2>2 DEF EnterUpdate
    <3>2. Stacks' /\ Shrinks(t)
      BY <1>1, <3>1, ReturnShrinks DEF IInv, Returns
    <3>3. ~Holds(Top(t))
      BY <1>1 DEF Holds
    <3> QED BY <1>1, <3>1, <3>2, <3>3, ReturnKeeps, SameRegistry, SameLocks DEF IInv
  <2> QED BY <2>1, <2>2
<1>7. CASE EnterCode(t)
  BY <1>4, <1>7, SameRegistry DEF EnterCode, PCs, Waiting
<1>8. CASE EnterDelete(t)
  <2>1. lock' = [lock EXCEPT ![b] = t] /\ used' = used /\ deleted' = deleted
    BY <1>8 DEF EnterDelete
  <2>2. CASE Raise(t, "protected") /\ UNCHANGED registry
    BY <1>5, <2>1, <2>2, SameRegistry DEF Returns
  <2>3. CASE Raise(t, "error") /\ UNCHANGED registry
    BY <1>5, <2>1, <2>3, SameRegistry DEF Returns
  <2>4. CASE Goto(t, [Top(t) EXCEPT !.pc = "children"]) /\ SetStatus(b, Destroying)
    <3>1. Data'
      BY <1>2, <2>1, <2>4, StatusTypes, SetStatusData
    <3> QED BY <1>4, <2>1, <2>4, <3>1 DEF PCs, Waiting
  <2> QED BY <1>8, <2>2, <2>3, <2>4 DEF EnterDelete
<1> QED
  BY <1>6, <1>7, <1>8 DEF EnterStep

\* What a step that leaves the registry and the locks alone has left to show.
LEMMA FrameStep ==
    ASSUME IInv, Stacks', Discipline', UNCHANGED <<registry, lock, used, deleted>>
    PROVE  IInv'
BY SameRegistry, SameLocks DEF IInv

\* Registered children are blueprints.
LEMMA ChildrenType ==
    ASSUME IInv, NEW b \in Blueprint
    PROVE  /\ blue[b] \in BlueType
           /\ blue[b].children \subseteq Blueprint
           /\ blue[b].deployed \subseteq Blueprint
BY DEF IInv, Data, BlueType

\* Steps of the code of a blueprint.
LEMMA CodeStepKeeps ==
    ASSUME IInv, NEW t \in Thread, CodeStep(t)
    PROVE  IInv'
<1> DEFINE b == Top(t).blue
<1>1. /\ stack[t] # <<>> /\ Top(t).pc = "body" /\ Top(t).op \in Codes
  BY DEF CodeStep, CodeCreateChild, CodeCallChild, CodeDeleteChild, CodeSave, CodeFails,
         CodeMay, Running, Codes
<1>2. Top(t) \in FrameType /\ b \in used /\ b \in Blueprint
  BY <1>1, RunningFrame DEF Codes
<1>3. ASSUME NEW c \in Blueprint, NEW pc \in PCs \ {"acquire"}, NEW op \in Ops,
             Nest(t, Top(t), pc, c, op), UNCHANGED <<registry, lock, used, deleted>>
      PROVE  IInv'
  BY <1>1, <1>2, <1>3, NestKeeps, FrameStep
<1>4. CASE CodeCreateChild(t)
  <2>1. PICK c \in Blueprint :
           /\ StartCreate(c, b, t)
           /\ Push(t, [Top(t) EXCEPT !.pc = "creating", !.child = c],
                   Frame("create", c, "body", FALSE))
    BY <1>4 DEF CodeCreateChild
  <2> DEFINE f == [Top(t) EXCEPT !.pc = "creating", !.child = c]
             g == Frame("create", c, "body", FALSE)
  <2>2. f \in FrameType /\ Same(f, Top(t))
    BY <1>1, <1>2 DEF FrameType, Same, Holds, PCs
  <2>3. g \in FrameType /\ g.blue = c /\ Holds(g)
    BY BodyFrame
  <2>4. Push(t, f, g)
    BY <2>1
  <2> HIDE DEF f, g
  <2>5. Stacks' /\ Extends(t, g)
    BY <1>1, <2>2, <2>3, <2>4, PushExtends DEF IInv
  <2>6. /\ Data' /\ Locks' /\ lock[c] = NoThread
        /\ lock' = [lock EXCEPT ![c] = t] /\ used' = used \cup {c}
    BY <1>2, <2>1, StartCreateFacts
  <2> QED BY <2>3, <2>5, <2>6, CreateKeeps DEF IInv
<1>5. CASE CodeCallChild(t)
  BY <1>2, <1>3, <1>5, ChildrenType DEF CodeCallChild, PCs, Ops
<1>6. CASE CodeDeleteChild(t)
  BY <1>2, <1>3, <1>6, ChildrenType DEF CodeDeleteChild, PCs, Ops
<1>7. CASE CodeSave(t)
  <2>1. Data'
    BY <1>2, <1>7, ChildrenType, SaveData DEF CodeSave, Save, IInv, Data
  <2>2. Stacks' /\ Locks' /\ Discipline'
    BY <1>7 DEF CodeSave, IInv, Stacks, Locks, Discipline, HoldersOwn, OwnersHold,
                OneHolder, FramesUsed
  <2> QED BY <2>1, <2>2 DEF IInv
<1>8. CASE CodeFails(t)
  BY <1>1, <1>8, RaiseKeeps, FrameStep DEF CodeFails, Returns
<1> QED
  BY <1>4, <1>5, <1>6, <1>7, <1>8 DEF CodeStep

\* A method that holds the lock of its blueprint releases it and returns.
LEMMA LeaveKeeps ==
    ASSUME IInv, NEW t \in Thread, stack[t] # <<>>, Holds(Top(t)),
           NEW ret \in Returns, Return(t, ret), Release(Top(t).blue), Data', used' = used
    PROVE  IInv'
<1>1. Stacks' /\ Shrinks(t)
  BY ReturnShrinks DEF IInv
<1>2. Discipline'
  BY <1>1, ReleaseKeeps DEF IInv
<1>3. Locks'
  BY DEF IInv, Locks, Release
<1> QED
  BY <1>1, <1>2, <1>3 DEF IInv

\* The code of a blueprint ends or raises, and its lock is released.
LEMMA CodeExitKeeps ==
    ASSUME IInv, NEW t \in Thread, CodeExit(t)
    PROVE  IInv'
<1> DEFINE b == Top(t).blue
<1>1. /\ stack[t] # <<>> /\ Top(t).pc # "acquire" /\ Top(t).op \in Codes
      /\ Release(b) /\ used' = used /\ deleted' = deleted
  BY DEF CodeExit, CodeEnds, CodeRaises, Running, Codes
<1>2. Top(t) \in FrameType /\ b \in used /\ b \in Blueprint /\ Top(t).ret \in Returns
  BY <1>1, RunningFrame DEF Codes, FrameType
<1>3. Holds(Top(t))
  BY <1>1 DEF Holds
<1>4. UNCHANGED registry \/ \E s \in {Idle, ErrorState} : SetStatus(b, s)
  BY DEF CodeExit, CodeEnds, CodeRaises
<1>5. Data'
  BY <1>1, <1>2, <1>4, StatusTypes, SetStatusData, SameRegistry
<1>6. \E ret \in Returns : Return(t, ret)
  BY <1>2 DEF CodeExit, CodeEnds, CodeRaises, Returns
<1> QED
  BY <1>1, <1>3, <1>5, <1>6, LeaveKeeps

\* Recording and forgetting a child keeps the registry well-typed.
LEMMA RecordData ==
    ASSUME IInv, NEW b \in used, NEW c \in Blueprint, RecordChild(b, c) \/ ForgetChild(b, c),
           used' = used, deleted' = deleted
    PROVE  Data'
<1>1. Data /\ used' \subseteq Blueprint /\ b \in used' /\ blue[b] \in BlueType
  BY ChildrenType DEF IInv, Data
<1>2. CASE RecordChild(b, c)
  <2> DEFINE r == [blue[b] EXCEPT !.deployed = @ \cup {c}]
             m == [r EXCEPT !.children = @ \cup {c}]
  <2>1. r \in BlueType /\ m \in BlueType
    BY <1>1 DEF BlueType
  <2>2. SaveThen(b, r, m)
    BY <1>2 DEF RecordChild
  <2> HIDE DEF r, m
  <2> QED BY <1>1, <2>1, <2>2, SaveData
<1>3. CASE ForgetChild(b, c)
  <2> DEFINE r == [blue[b] EXCEPT !.deployed = @ \ {c}]
             m == [r EXCEPT !.children = @ \ {c}]
  <2>1. r \in BlueType /\ m \in BlueType
    BY <1>1 DEF BlueType
  <2>2. SaveThen(b, r, m)
    BY <1>3 DEF ForgetChild
  <2> HIDE DEF r, m
  <2> QED BY <1>1, <2>1, <2>2, SaveData
<1> QED
  BY <1>2, <1>3

\* A method resumes after a nested call.
LEMMA ReturnStepKeeps ==
    ASSUME IInv, NEW t \in Thread, ReturnStep(t)
    PROVE  IInv'
<1> DEFINE b == Top(t).blue
           c == Top(t).child
<1>1. /\ stack[t] # <<>> /\ Top(t).pc \in Waiting
      /\ Top(t).op \in Codes \cup {"delete", "deleteAll"}
  BY DEF ReturnStep, CodeResumes, ChildDestroyed, OrphanDestroyed, LeftoverDestroyed,
         DeleteAllResumes, DeleteStep, Running, Waiting
<1>2. /\ Top(t) \in FrameType /\ c \in Blueprint /\ Top(t).pc # "acquire"
      /\ Top(t).ret \in Returns
      /\ Top(t).op # "deleteAll" => b \in used /\ b \in Blueprint
  BY <1>1, RunningFrame DEF FrameType, Waiting
<1>3. lock' = lock /\ used' = used /\ deleted' = deleted
  BY DEF ReturnStep, CodeResumes, ChildDestroyed, OrphanDestroyed, LeftoverDestroyed,
         DeleteAllResumes
<1>4. ASSUME Data', \/ \E pc \in PCs \ ({"acquire"} \cup Waiting) : Resume(t, pc)
                    \/ \E ret \in Returns : Raise(t, ret)
      PROVE  IInv'
  <2>1. Stacks' /\ Discipline'
    BY <1>1, <1>2, <1>3, <1>4, ResumeKeeps, RaiseKeeps
  <2>2. Locks'
    BY <1>3, SameLocks
  <2> QED BY <1>4, <2>1, <2>2 DEF IInv
<1>5. CASE CodeResumes(t)
  <2>1. Top(t).op # "deleteAll"
    BY <1>5 DEF CodeResumes, Running, Codes
  <2>2. UNCHANGED registry \/ RecordChild(b, c) \/ ForgetChild(b, c)
    BY <1>5 DEF CodeResumes
  <2>3. Data'
    BY <1>2, <1>3, <2>1, <2>2, RecordData, SameRegistry
  <2>4. Resume(t, "body") \/ Raise(t, Top(t).ret)
    BY <1>5 DEF CodeResumes
  <2> QED BY <1>2, <1>4, <2>3, <2>4 DEF PCs, Waiting
<1>6. CASE ChildDestroyed(t)
  <2>1. Top(t).op # "deleteAll"
    BY <1>6 DEF ChildDestroyed, DeleteStep, Running
  <2>2. UNCHANGED registry \/ ForgetChild(b, c)
    BY <1>6 DEF ChildDestroyed
  <2>3. Data'
    BY <1>2, <1>3, <2>1, <2>2, RecordData, SameRegistry
  <2>4. Resume(t, "children") \/ Raise(t, Top(t).ret)
    BY <1>6 DEF ChildDestroyed
  <2> QED BY <1>2, <1>4, <2>3, <2>4 DEF PCs, Waiting
<1>7. CASE OrphanDestroyed(t)
  <2>1. UNCHANGED registry /\ (Resume(t, "orphans") \/ Raise(t, Top(t).ret))
    BY <1>7 DEF OrphanDestroyed
  <2> QED BY <1>2, <1>3, <1>4, <2>1, SameRegistry DEF PCs, Waiting
<1>8. CASE LeftoverDestroyed(t)
  <2>1. UNCHANGED registry /\ Resume(t, "cleanup")
    BY <1>8 DEF LeftoverDestroyed
  <2> QED BY <1>3, <1>4, <2>1, SameRegistry DEF PCs, Waiting
<1>9. CASE DeleteAllResumes(t)
  <2>1. UNCHANGED registry
    BY <1>9 DEF DeleteAllResumes
  <2>2. CASE Resume(t, "loop")
    BY <1>3, <1>4, <2>1, <2>2, SameRegistry DEF PCs, Waiting
  <2>3. CASE Return(t, "error")
    <3>1. Stacks' /\ Shrinks(t)
      BY <1>1, <2>3, ReturnShrinks DEF IInv, Returns
    <3>2. ~Holds(Top(t))
      BY <1>9 DEF DeleteAllResumes, Running, Holds, Codes
    <3> QED BY <1>1, <1>3, <2>1, <3>1, <3>2, ReturnKeeps, FrameStep DEF IInv
  <2> QED BY <1>9, <2>2, <2>3 DEF DeleteAllResumes
<1> QED
  BY <1>5, <1>6, <1>7, <1>8, <1>9 DEF ReturnStep

\* Steps of delete_blueprint, delete_all_blueprints and protect_blueprint.
LEMMA DestroyStepKeeps ==
    ASSUME IInv, NEW t \in Thread, DestroyStep(t)
    PROVE  IInv'
<1> DEFINE b == Top(t).blue
<1>1. /\ stack[t] # <<>> /\ Top(t).op \in {"delete", "protect", "deleteAll"}
      /\ Top(t).pc # "acquire" /\ used' = used
  BY DEF DestroyStep, DestroyChildren, DestroyOrphans, DestroyResources, FinalCleanup,
         PopBlueprint, EraseBlueprint, DeleteRaises, ApplyProtect, DeleteNext, DeleteStep,
         Running
<1>2. /\ Top(t) \in FrameType /\ Top(t).ret \in Returns
      /\ Top(t).op # "deleteAll" => b \in used /\ b \in Blueprint
  BY <1>1, RunningFrame DEF FrameType
<1>3. ASSUME NEW pc \in PCs \ ({"acquire"} \cup Waiting), lock' = lock, Data',
             \/ Goto(t, [Top(t) EXCEPT !.pc = pc])
             \/ \E todo \in SUBSET Blueprint : Goto(t, [Top(t) EXCEPT !.pc = pc, !.todo = todo])
             \/ Goto(t, [Top(t) EXCEPT !.pc = pc, !.ret = "none"])
      PROVE  IInv'
  <2>1. PICK f : Goto(t, f) /\ (\/ f = [Top(t) EXCEPT !.pc = pc]
                                \/ \E todo \in SUBSET Blueprint :
                                      f = [Top(t) EXCEPT !.pc = pc, !.todo = todo]
                                \/ f = [Top(t) EXCEPT !.pc = pc, !.ret = "none"])
    BY <1>3
  <2>2. f \in FrameType /\ f.op = Top(t).op /\ f.blue = b /\ f.pc # "acquire"
    <3>1. [Top(t) EXCEPT !.pc = pc] = f =>
             f \in FrameType /\ f.op = Top(t).op /\ f.blue = b /\ f.pc # "acquire"
      BY <1>2 DEF FrameType
    <3>2. ASSUME NEW todo \in SUBSET Blueprint
          PROVE  [Top(t) EXCEPT !.pc = pc, !.todo = todo] = f =>
                    f \in FrameType /\ f.op = Top(t).op /\ f.blue = b /\ f.pc # "acquire"
      BY <1>2 DEF FrameType
    <3>3. [Top(t) EXCEPT !.pc = pc, !.ret = "none"] = f =>
             f \in FrameType /\ f.op = Top(t).op /\ f.blue = b /\ f.pc # "acquire"
      BY <1>2 DEF FrameType, Returns
    <3> QED BY <2>1, <3>1, <3>2, <3>3
  <2>3. Stacks' /\ Discipline'
    BY <1>1, <1>3, <2>1, <2>2, MoveKeeps
  <2> QED BY <1>1, <1>3, <2>3, SameLocks DEF IInv
<1>4. ASSUME NEW c \in Blueprint, NEW todo \in SUBSET Blueprint,
             NEW pc \in PCs \ {"acquire"}, NEW op \in Ops,
             Nest(t, [Top(t) EXCEPT !.todo = todo], pc, c, op),
             UNCHANGED <<registry, lock, used, deleted>>
      PROVE  IInv'
  <2> DEFINE f == [Top(t) EXCEPT !.todo = todo]
  <2>1. f \in FrameType /\ f.op = Top(t).op /\ f.blue = b
    BY <1>2 DEF FrameType
  <2>2. Nest(t, f, pc, c, op)
    BY <1>4
  <2> HIDE DEF f
  <2> QED BY <1>1, <1>4, <2>1, <2>2, NestKeeps, FrameStep
<1>5. CASE DestroyChildren(t)
  <2>1. b \in Blueprint /\ UNCHANGED <<registry, lock, used, deleted>>
    BY <1>2, <1>5 DEF DestroyChildren, DeleteStep, Running
  <2>2. CASE \E c \in blue[b].children : Nest(t, Top(t), "childDeleting", c, "delete")
    <3>1. PICK c \in blue[b].children : Nest(t, Top(t), "childDeleting", c, "delete")
      BY <2>2
    <3>2. c \in Blueprint
      BY <2>1, ChildrenType
    <3> QED BY <1>1, <1>2, <2>1, <3>1, <3>2, NestKeeps, FrameStep DEF PCs, Ops
  <2>3. CASE \E todo \in SUBSET Blueprint :
                Goto(t, [Top(t) EXCEPT !.pc = "orphans", !.todo = todo])
    BY <1>3, <2>1, <2>3, SameRegistry DEF PCs, Waiting
  <2>4. {c \in blueprint_dict : blue[c].parent = b} \in SUBSET Blueprint
    BY DEF IInv, Data
  <2> QED BY <1>5, <2>2, <2>3, <2>4 DEF DestroyChildren
<1>6. CASE DestroyOrphans(t)
  <2>1. UNCHANGED <<registry, lock, used, deleted>>
    BY <1>6 DEF DestroyOrphans
  <2>2. CASE \E c \in Top(t).todo :
                Nest(t, [Top(t) EXCEPT !.todo = @ \ {c}], "orphanDeleting", c, "delete")
    <3>1. PICK c \in Top(t).todo :
             Nest(t, [Top(t) EXCEPT !.todo = Top(t).todo \ {c}], "orphanDeleting", c, "delete")
      BY <1>2, <2>2 DEF FrameType
    <3>2. c \in Blueprint /\ Top(t).todo \ {c} \in SUBSET Blueprint
      BY <1>2 DEF FrameType
    <3> QED BY <1>4, <2>1, <3>1, <3>2 DEF PCs, Ops
  <2>3. CASE Goto(t, [Top(t) EXCEPT !.pc = "resources"])
    BY <1>3, <2>1, <2>3, SameRegistry DEF PCs, Waiting
  <2> QED BY <1>6, <2>2, <2>3 DEF DestroyOrphans
<1>7. CASE DestroyResources(t)
  <2>1. b \in Blueprint /\ UNCHANGED <<registry, lock, used, deleted>>
    BY <1>2, <1>7 DEF DestroyResources, DeleteStep, Running
  <2>2. CASE Goto(t, [Top(t) EXCEPT !.pc = "cleanup", !.todo = blue[b].deployed])
    <3>1. blue[b].deployed \in SUBSET Blueprint
      BY <2>1, ChildrenType
    <3> QED BY <1>3, <2>1, <2>2, <3>1, SameRegistry DEF PCs, Waiting
  <2>3. CASE \E err \in {"error", "unauthorized"} : Raise(t, err)
    BY <1>1, <2>1, <2>3, RaiseKeeps, FrameStep DEF Returns
  <2> QED BY <1>7, <2>2, <2>3 DEF DestroyResources
<1>8. CASE FinalCleanup(t)
  <2>1. b \in Blueprint /\ b \in used /\ UNCHANGED <<lock, used, deleted>>
    BY <1>2, <1>8 DEF FinalCleanup, DeleteStep, Running
  <2>2. CASE /\ \E c \in Top(t).todo :
                   Nest(t, [Top(t) EXCEPT !.todo = @ \ {c}], "leftoverDeleting", c, "delete")
             /\ UNCHANGED registry
    <3>1. PICK c \in Top(t).todo :
             Nest(t, [Top(t) EXCEPT !.todo = Top(t).todo \ {c}], "leftoverDeleting", c, "delete")
      BY <1>2, <2>2 DEF FrameType
    <3>2. c \in Blueprint /\ Top(t).todo \ {c} \in SUBSET Blueprint
      BY <1>2 DEF FrameType
    <3> QED BY <1>4, <2>1, <2>2, <3>1, <3>2 DEF PCs, Ops
  <2>3. CASE /\ Goto(t, [Top(t) EXCEPT !.pc = "pop"])
             /\ Save(b, [blue[b] EXCEPT !.deployed = {}])
    <3> DEFINE r == [blue[b] EXCEPT !.deployed = {}]
    <3>1. r \in BlueType
      BY <2>1, ChildrenType DEF BlueType
    <3>2. SaveThen(b, r, r)
      BY <2>3 DEF Save
    <3>3. Data /\ b \in used' /\ used' \subseteq Blueprint
      BY <2>1 DEF IInv, Data
    <3> HIDE DEF r
    <3>4. Data'
      BY <2>1, <3>1, <3>2, <3>3, SaveData
    <3> QED BY <1>3, <2>1, <2>3, <3>4 DEF PCs, Waiting
  <2> QED BY <1>8, <2>2, <2>3 DEF FinalCleanup
<1>9. CASE PopBlueprint(t)
  <2>1. Data' /\ lock' = lock /\ Goto(t, [Top(t) EXCEPT !.pc = "erase"])
    BY <1>9 DEF PopBlueprint, IInv, Data
  <2> QED BY <1>3, <2>1 DEF PCs, Waiting
<1>10. CASE EraseBlueprint(t)
  <2>1. b \in Blueprint /\ Return(t, "ok") /\ Release(b) /\ Holds(Top(t))
    BY <1>1, <1>2, <1>10 DEF EraseBlueprint, DeleteStep, Running, Holds
  <2>2. NewBlue(NoBlue) \in BlueType
    BY StatusTypes DEF NewBlue, BlueType
  <2>3. Data'
    BY <1>10, <2>1, <2>2 DEF EraseBlueprint, IInv, Data
  <2> QED BY <1>1, <2>1, <2>3, LeaveKeeps DEF Returns
<1>11. CASE DeleteRaises(t)
  <2>1. b \in Blueprint /\ b \in used /\ deleted' = deleted /\ Holds(Top(t))
    BY <1>1, <1>2, <1>11 DEF DeleteRaises, DeleteStep, Running, Holds
  <2>2. CASE Goto(t, [Top(t) EXCEPT !.pc = "pop", !.ret = "none"]) /\ UNCHANGED <<registry, lock>>
    BY <1>1, <1>3, <2>1, <2>2, SameRegistry DEF PCs, Waiting
  <2>3. CASE /\ SetStatus(b, ErrorState) \/ UNCHANGED registry
             /\ Release(b)
             /\ \E ret \in Returns : Return(t, ret)
    <3>1. Data'
      BY <1>1, <2>1, <2>3, StatusTypes, SetStatusData, SameRegistry
    <3> QED BY <1>1, <2>1, <2>3, <3>1, LeaveKeeps
  <2> QED BY <1>2, <1>11, <2>2, <2>3 DEF DeleteRaises, Returns
<1>12. ASSUME ~Holds(Top(t)), NEW ret \in Returns, Return(t, ret), lock' = lock, Data'
       PROVE  IInv'
  <2>1. Stacks' /\ Shrinks(t)
    BY <1>1, <1>12, ReturnShrinks DEF IInv
  <2> QED BY <1>1, <1>12, <2>1, ReturnKeeps, SameLocks DEF IInv
<1>13. CASE ApplyProtect(t)
  <2>1. /\ b \in Blueprint /\ b \in used /\ Top(t).flag \in BOOLEAN /\ ~Holds(Top(t))
        /\ UNCHANGED <<lock, used, deleted>> /\ Return(t, "ok")
        /\ Save(b, [blue[b] EXCEPT !.protected = Top(t).flag])
    BY <1>2, <1>13 DEF ApplyProtect, Running, Holds, Codes, FrameType
  <2> DEFINE r == [blue[b] EXCEPT !.protected = Top(t).flag]
  <2>2. r \in BlueType
    BY <2>1, ChildrenType DEF BlueType
  <2>3. SaveThen(b, r, r)
    BY <2>1 DEF Save
  <2>4. Data /\ b \in used' /\ used' \subseteq Blueprint
    BY <2>1 DEF IInv, Data
  <2> HIDE DEF r
  <2>5. Data'
    BY <2>1, <2>2, <2>3, <2>4, SaveData
  <2> QED BY <1>12, <2>1, <2>5 DEF Returns
<1>14. CASE DeleteNext(t)
  <2>1. UNCHANGED <<registry, lock, used, deleted>> /\ ~Holds(Top(t))
    BY <1>14 DEF DeleteNext, Running, Holds, Codes
  <2>2. CASE \E c \in Top(t).todo :
                Nest(t, [Top(t) EXCEPT !.todo = @ \ {c}], "next", c, "delete")
    <3>1. PICK c \in Top(t).todo :
             Nest(t, [Top(t) EXCEPT !.todo = Top(t).todo \ {c}], "next", c, "delete")
      BY <1>2, <2>2 DEF FrameType
    <3>2. c \in Blueprint /\ Top(t).todo \ {c} \in SUBSET Blueprint
      BY <1>2 DEF FrameType
    <3> QED BY <1>4, <2>1, <3>1, <3>2 DEF PCs, Ops
  <2>3. CASE Return(t, "ok")
    BY <1>12, <2>1, <2>3, SameRegistry DEF Returns
  <2> QED BY <1>14, <2>2, <2>3 DEF DeleteNext
<1> QED
  BY <1>5, <1>6, <1>7, <1>8, <1>9, <1>10, <1>11, <1>13, <1>14 DEF DestroyStep

\* After a restart no lock is held and nothing runs.
LEMMA RestartKeeps ==
    ASSUME IInv, Restart
    PROVE  IInv'
<1>1. Data' /\ Locks'
  BY DEF Restart, IInv, Data, Locks
<1>2. \A t \in Thread : stack'[t] = <<>>
  BY DEF Restart
<1>3. Stacks'
  BY DEF Restart, Stacks
<1>4. HoldersOwn' /\ OneHolder' /\ FramesUsed'
  BY <1>2 DEF HoldersOwn, OneHolder, FramesUsed
<1>5. OwnersHold'
  BY DEF Restart, OwnersHold
<1> QED
  BY <1>1, <1>3, <1>4, <1>5 DEF IInv, Discipline

\* The invariant holds initially.
LEMMA Initially == Init => IInv
<1> SUFFICES ASSUME Init PROVE IInv
  OBVIOUS
<1>1. NewBlue(NoBlue) \in BlueType
  BY StatusTypes DEF NewBlue, BlueType
<1>2. Data /\ Locks /\ Stacks
  BY <1>1 DEF Init, Data, Locks, Stacks
<1>3. Discipline
  BY DEF Init, Discipline, HoldersOwn, OwnersHold, OneHolder, FramesUsed
<1> QED
  BY <1>2, <1>3 DEF IInv

\* Every step keeps the invariant.
LEMMA Inductive == IInv /\ [Next]_vars => IInv'
<1> SUFFICES ASSUME IInv, [Next]_vars PROVE IInv'
  OBVIOUS
<1>1. ASSUME NEW t \in Thread, ThreadStep(t) PROVE IInv'
  BY <1>1, UserStepKeeps, EnterStepKeeps, CodeStepKeeps, CodeExitKeeps, ReturnStepKeeps,
     DestroyStepKeeps DEF ThreadStep
<1>2. CASE Restart
  BY <1>2, RestartKeeps
<1>3. CASE UNCHANGED vars
  <2>1. Data' /\ Locks' /\ Stacks'
    BY <1>3 DEF vars, IInv, Data, Locks, Stacks
  <2>2. Discipline'
    BY <1>3 DEF vars, IInv, Discipline, HoldersOwn, OwnersHold, OneHolder, FramesUsed
  <2> QED BY <2>1, <2>2 DEF IInv
<1> QED
  BY <1>1, <1>2, <1>3 DEF Next
-----------------------------------------------------------------------------
\* Type correctness: in particular every waiting frame names its callee, the
\* children of a blueprint are blueprints, and every thread has a well-formed stack.
THEOREM TypeCorrect == Spec => []TypeOK
<1>1. IInv => TypeOK
  BY DEF IInv, Data, Locks, Stacks, TypeOK
<1> QED
  BY <1>1, Initially, Inductive, PTL DEF Spec

\* With any number of threads and blueprints, whatever they nest, whatever fails and
\* whenever the process restarts: blueprint code runs only under the lock of its
\* blueprint, and a lock is held only by an operation in progress.
THEOREM LocksCorrect == Spec => []LockDiscipline
<1>1. IInv => LockDiscipline
  BY DEF IInv, Discipline, LockDiscipline
<1> QED
  BY <1>1, Initially, Inductive, PTL DEF Spec
----------------------------------------------------------------------------
(***************************************************************************)
(* The registry: MemoryIsDurable and Settled speak of the blueprints whose *)
(* lock is free, while other blueprints are in the middle of anything; so  *)
(* the inductive invariant Local says of each blueprint on its own what    *)
(* its free lock promises (Resting) and what the operation that holds it   *)
(* has left so far (Held), and the lemmas show that no operation touches   *)
(* what others hold.                                                       *)
(***************************************************************************)

\* The document of b is there when b is in memory, and says what memory says.
Durable(b) ==
    /\ b \in docs => b \in blueprint_dict
    /\ b \in blueprint_dict \ deleted => b \in docs /\ saved[b] = blue[b]
\* What the lock of b guarantees to whoever takes it.
Resting(b) ==
    /\ Durable(b)
    /\ CanRestart \/ b \in deleted \/ blue[b].status.op = "idle"

\* Where a deletion stands once it has destroyed every recorded child.
Emptied == {"orphans", "orphanDeleting", "resources", "cleanup", "leftoverDeleting"}
\* What the operation of frame f keeps true of its blueprint while it holds the lock.
Held(f) ==
    /\ f.op \in {"call", "get"} => f.pc \in {"body", "calling", "failed"} /\ Resting(f.blue)
    /\ f.pc # "erase" /\ f.blue \in docs => f.blue \in blueprint_dict
    /\ f.op = "delete" /\ f.pc \in Emptied => blue[f.blue].children = {}
\* A free blueprint rests; a locked one is as the operation that holds it left it.
At(b) ==
    /\ b \in used /\ lock[b] = NoThread => Resting(b)
    /\ \A t \in Thread : \A i \in 1..Len(stack[t]) :
          Holds(stack[t][i]) /\ stack[t][i].blue = b => Held(stack[t][i])
\* A created blueprint has a document until its deletion is completed.
Recorded == used \ deleted \subseteq docs
\* Every child a blueprint knows is also in the list of what it deployed.
Listed == CanRestart \/ \A b \in Blueprint : blue[b].children \subseteq blue[b].deployed
\* The inductive invariant: what is said of one blueprint, whatever the others do.
Local == Recorded /\ Listed /\ \A b \in Blueprint : At(b)

\* The frame f is the frame g as far as Held goes.
Kept(f, g) == f.op = g.op /\ f.blue = g.blue /\ f.pc = g.pc
\* The step changes no blueprint outside B, and no lock of one.
Elsewhere(B) ==
    \A a \in Blueprint \ B :
        /\ blue'[a] = blue[a] /\ saved'[a] = saved[a] /\ lock'[a] = lock[a]
        /\ a \in blueprint_dict' <=> a \in blueprint_dict
        /\ a \in docs' <=> a \in docs
        /\ a \in used' <=> a \in used
        /\ a \in deleted' <=> a \in deleted
\* The step moves no frame that holds the lock of a blueprint outside B.
HoldersKept(B) ==
    \A t \in Thread : \A i \in 1..Len(stack'[t]) :
        Holds(stack'[t][i]) /\ stack'[t][i].blue \notin B =>
            i \in 1..Len(stack[t]) /\ Kept(stack'[t][i], stack[t][i])

\* At(a) survives the steps on other blueprints: a lock makes its holder the only writer.
LEMMA KeepsElsewhere ==
    ASSUME NEW B, NEW a \in Blueprint \ B, At(a), Elsewhere(B), HoldersKept(B)
    PROVE  At(a)'
<1>1. Resting(a) => Resting(a)'
  BY DEF Resting, Durable, Elsewhere
<1>2. a \in used' /\ lock'[a] = NoThread => Resting(a)'
  BY <1>1 DEF At, Elsewhere
<1>3. ASSUME NEW t \in Thread, NEW i \in 1..Len(stack'[t]),
             Holds(stack'[t][i]), stack'[t][i].blue = a
      PROVE  Held(stack[t][i])'
  <2>1. /\ i \in 1..Len(stack[t]) /\ Kept(stack'[t][i], stack[t][i])
        /\ Holds(stack[t][i])
    BY <1>3 DEF HoldersKept, Kept, Holds
  <2>2. Held(stack[t][i])
    BY <1>3, <2>1 DEF At, Kept
  <2> QED BY <1>1, <1>3, <2>1, <2>2 DEF Held, Kept, Elsewhere
<1> QED
  BY <1>2, <1>3 DEF At

\* Local holds after a step that leaves everything outside B alone.
LEMMA LocalOf ==
    ASSUME NEW B, Local, Elsewhere(B), HoldersKept(B), Recorded', Listed',
           \A b \in Blueprint \cap B : At(b)'
    PROVE  Local'
<1>1. ASSUME NEW a \in Blueprint \ B PROVE At(a)'
  BY KeepsElsewhere DEF Local
<1>2. \A a \in Blueprint : At(a)'
  BY <1>1
<1> QED
  BY <1>2 DEF Local

\* A blueprint with a free lock has no holder, one with a lock has one.
LEMMA AtFree ==
    ASSUME IInv', NEW b \in Blueprint, lock'[b] = NoThread, Resting(b)'
    PROVE  At(b)'
BY LifecycleAssumption DEF IInv, Discipline, HoldersOwn, At

\* At(b) holds when the one frame that holds the lock of b satisfies Held.
LEMMA AtHeld ==
    ASSUME IInv', NEW t \in Thread, NEW i \in 1..Len(stack'[t]), NEW f,
           stack'[t][i] = f, Holds(f), Held(f)'
    PROVE  At(f.blue)'
<1>1. lock'[f.blue] = t /\ t # NoThread
  BY LifecycleAssumption DEF IInv, Discipline, HoldersOwn
<1>2. ASSUME NEW u \in Thread, NEW j \in 1..Len(stack'[u]),
             Holds(stack'[u][j]), stack'[u][j].blue = f.blue
      PROVE  stack'[u][j] = f
  <2>1. u = t
    BY <1>1, <1>2 DEF IInv, Discipline, HoldersOwn
  <2> QED BY <1>2, <2>1 DEF IInv, Discipline, OneHolder
<1>3. \A u \in Thread : \A j \in 1..Len(stack'[u]) :
         Holds(stack'[u][j]) /\ stack'[u][j].blue = f.blue => Held(stack[u][j])'
  BY <1>2
<1> QED
  BY <1>1, <1>3 DEF At

\* What a thread that holds the lock of the blueprint of its running frame knows.
LEMMA TopHeld ==
    ASSUME IInv, Local, NEW t \in Thread, stack[t] # <<>>, Holds(Top(t))
    PROVE  /\ Top(t) \in FrameType /\ Held(Top(t))
           /\ Top(t).blue \in Blueprint /\ Top(t).blue \in used
           /\ lock[Top(t).blue] = t
<1>1. Len(stack[t]) \in 1..Len(stack[t])
  BY TopType DEF IInv
<1>2. Top(t) \in FrameType /\ Top(t).blue \in Blueprint /\ Top(t).blue \in used
  BY RunningFrame DEF Holds, Codes
<1> QED
  BY <1>1, <1>2 DEF Local, At, Top, IInv, Discipline, HoldersOwn

\* The running frame of t moved on to f, and may have called the method of g.
Moves(t, f) ==
    /\ f \in FrameType /\ f.op = Top(t).op /\ f.blue = Top(t).blue /\ f.flag = Top(t).flag
    /\ \/ Goto(t, f)
       \/ \E g \in FrameType : g.pc = "acquire" /\ Push(t, f, g)

\* Only the running frame of t changes; a method it calls holds no lock yet.
LEMMA MovesTop ==
    ASSUME IInv, NEW t \in Thread, NEW f, Moves(t, f), stack[t] # <<>>
    PROVE  /\ Len(stack[t]) \in 1..Len(stack'[t])
           /\ stack'[t][Len(stack[t])] = f
           /\ HoldersKept({f.blue})
           /\ ~Holds(f) => HoldersKept({})
<1> DEFINE n == Len(stack[t])
<1>1. n \in Nat \ {0}
  BY TopType DEF IInv
<1>2. CASE Goto(t, f)
  <2>1. /\ Len(stack'[t]) = n /\ stack'[t][n] = f
        /\ \A i \in 1..n - 1 : stack'[t][i] = stack[t][i]
        /\ \A u \in Thread \ {t} : stack'[u] = stack[u]
    BY <1>2, GotoType DEF Moves, IInv
  <2>2. \A i \in 1..n : i = n \/ i \in 1..n - 1
    BY <1>1
  <2>3. HoldersKept({f.blue})
    BY <1>1, <2>1, <2>2 DEF HoldersKept, Kept
  <2>4. ~Holds(f) => HoldersKept({})
    BY <1>1, <2>1, <2>2 DEF HoldersKept, Kept
  <2> QED BY <1>1, <2>1, <2>3, <2>4
<1>3. CASE \E g \in FrameType : g.pc = "acquire" /\ Push(t, f, g)
  <2>1. PICK g \in FrameType : g.pc = "acquire" /\ Push(t, f, g)
    BY <1>3
  <2>2. /\ Len(stack'[t]) = n + 1 /\ stack'[t][n] = f /\ stack'[t][n + 1] = g
        /\ \A i \in 1..n - 1 : stack'[t][i] = stack[t][i]
        /\ \A u \in Thread \ {t} : stack'[u] = stack[u]
    BY <2>1, PushType DEF Moves, IInv
  <2>3. \A i \in 1..n + 1 : i = n + 1 \/ i = n \/ i \in 1..n - 1
    BY <1>1
  <2>4. ~Holds(g)
    BY <2>1 DEF Holds
  <2>5. ASSUME NEW u \in Thread, NEW i \in 1..Len(stack'[u]), Holds(stack'[u][i]),
               ~(Holds(f) /\ stack'[u][i].blue = f.blue)
        PROVE  i \in 1..Len(stack[u]) /\ Kept(stack'[u][i], stack[u][i])
    <3>1. CASE u # t
      BY <2>2, <2>5, <3>1 DEF Kept
    <3>2. CASE u = t
      <4>1. i \in 1..n - 1
        BY <2>2, <2>3, <2>4, <2>5, <3>2
      <4>2. i \in 1..n
        BY <1>1, <4>1
      <4> QED BY <2>2, <3>2, <4>1, <4>2 DEF Kept
    <3> QED BY <3>1, <3>2
  <2>6. HoldersKept({f.blue})
    BY <2>5 DEF HoldersKept
  <2>7. ~Holds(f) => HoldersKept({})
    BY <2>5 DEF HoldersKept
  <2> QED BY <1>1, <2>2, <2>6, <2>7
<1> QED
  BY <1>2, <1>3 DEF Moves

\* A method that returns changes no other frame as far as Held goes.
LEMMA ReturnHolders ==
    ASSUME IInv, NEW t \in Thread, NEW ret \in Returns, stack[t] # <<>>, Return(t, ret)
    PROVE  HoldersKept({})
<1>1. Len(stack[t]) \in Nat \ {0}
  BY TopType DEF IInv
<1>2. /\ Len(stack'[t]) = Len(stack[t]) - 1
      /\ \A i \in 1..Len(stack[t]) - 1 : Kept(stack'[t][i], stack[t][i])
      /\ \A u \in Thread \ {t} : stack'[u] = stack[u]
  BY ReturnType DEF IInv, Kept
<1>3. \A i \in 1..Len(stack[t]) - 1 : i \in 1..Len(stack[t])
  BY <1>1
<1> QED
  BY <1>2, <1>3 DEF HoldersKept, Kept

\* The first frame of an idle thread.
LEMMA StartHolders ==
    ASSUME IInv, NEW t \in Thread, NEW g \in FrameType, stack[t] = <<>>,
           stack' = [stack EXCEPT ![t] = <<g>>]
    PROVE  /\ HoldersKept({g.blue})
           /\ ~Holds(g) => HoldersKept({})
           /\ 1 \in 1..Len(stack'[t]) /\ stack'[t][1] = g
<1>1. stack'[t] = <<g>> /\ \A u \in Thread \ {t} : stack'[u] = stack[u]
  BY DEF IInv, Stacks
<1>2. Len(stack'[t]) = 1 /\ stack'[t][1] = g /\ \A i \in 1..1 : i = 1
  BY <1>1
<1> QED
  BY <1>1, <1>2 DEF HoldersKept, Kept

\* The running frame of t moves to f, which holds the lock of its blueprint.
LEMMA LocalMove ==
    ASSUME IInv, IInv', Local, NEW t \in Thread, NEW f, Moves(t, f), stack[t] # <<>>,
           Holds(f), Held(f)', Elsewhere({f.blue}), Recorded', Listed'
    PROVE  Local'
<1>1. HoldersKept({f.blue})
  BY MovesTop
<1>2. Len(stack[t]) \in 1..Len(stack'[t]) /\ stack'[t][Len(stack[t])] = f
  BY MovesTop
<1>3. PICK i : i \in 1..Len(stack'[t]) /\ stack'[t][i] = f
  BY <1>2, Zenon
<1>5. At(f.blue)'
  BY <1>3, AtHeld
<1>4. \A b \in Blueprint \cap {f.blue} : At(b)'
  BY <1>5
<1> QED
  BY <1>1, <1>4, LocalOf

\* The operation of the running frame of t releases its lock and returns.
LEMMA LocalLeave ==
    ASSUME IInv, IInv', Local, NEW t \in Thread, stack[t] # <<>>, NEW b \in Blueprint,
           b = Top(t).blue, NEW ret \in Returns, Return(t, ret), Release(b),
           Resting(b)', Elsewhere({b}), Recorded', Listed'
    PROVE  Local'
<1>1. HoldersKept({b})
  BY ReturnHolders DEF HoldersKept
<1>2. lock'[b] = NoThread
  BY DEF Release, IInv, Locks
<1>3. At(b)'
  BY <1>2, AtFree
<1>4. \A c \in Blueprint \cap {b} : At(c)'
  BY <1>3
<1> QED
  BY <1>1, <1>4, LocalOf

\* What a save does to the rest of the registry.
LEMMA SaveElsewhere ==
    ASSUME IInv, Local, NEW b \in Blueprint, NEW w, NEW r, SaveThen(b, w, r),
           CanRestart \/ r.children \subseteq r.deployed,
           used' \subseteq used \cup {b}, used \subseteq used', deleted' = deleted,
           \A a \in Blueprint \ {b} : lock'[a] = lock[a]
    PROVE  /\ Elsewhere({b}) /\ Recorded' /\ Listed'
           /\ blue'[b] = r /\ saved'[b] = w /\ b \in blueprint_dict' /\ b \in docs'
<1>1. /\ blue'[b] = r /\ saved'[b] = w
      /\ \A a \in Blueprint \ {b} : blue'[a] = blue[a] /\ saved'[a] = saved[a]
  BY DEF SaveThen, IInv, Data
<1>2. Elsewhere({b})
  BY <1>1 DEF SaveThen, Elsewhere
<1>3. Recorded'
  BY DEF SaveThen, Recorded, Local
<1>4. Listed'
  BY <1>1 DEF Listed, Local
<1> QED
  BY <1>1, <1>2, <1>3, <1>4 DEF SaveThen

\* A step that changes no data at all.
LEMMA SameElsewhere ==
    ASSUME Local, UNCHANGED <<registry, used, deleted>>
    PROVE  /\ Recorded' /\ Listed'
           /\ \A B : (\A a \in Blueprint \ B : lock'[a] = lock[a]) => Elsewhere(B)
BY DEF Local, Recorded, Listed, registry, Elsewhere

\* The frame f with another list, at pc with another list, and at pc to try again.
Listing(f, todo) == [f EXCEPT !.todo = todo]
\* The running frame with a new program counter and list; and retried after a failure.
Going(f, pc, todo) == [f EXCEPT !.pc = pc, !.todo = todo]
Retrying(f, pc) == [f EXCEPT !.pc = pc, !.ret = "none"]

\* How the running frame moves when it goes on, fails or calls.
LEMMA GoesOn ==
    ASSUME IInv, NEW t \in Thread, stack[t] # <<>>, NEW pc \in PCs \ Waiting
    PROVE  /\ Goto(t, [Top(t) EXCEPT !.pc = pc]) =>
                \E f : /\ Moves(t, f) /\ Goto(t, f) /\ f.pc = pc /\ f.child = Top(t).child
                       /\ f.todo = Top(t).todo /\ f.ret = Top(t).ret
           /\ Goto(t, Retrying(Top(t), pc)) =>
                \E f : /\ Moves(t, f) /\ Goto(t, f) /\ f.pc = pc /\ f.child = Top(t).child
                       /\ f.todo = Top(t).todo /\ f.ret = "none"
           /\ Resume(t, pc) =>
                \E f : /\ Moves(t, f) /\ Goto(t, f) /\ f.pc = pc /\ f.child = NoBlue
                       /\ f.todo = Top(t).todo /\ f.ret = "none"
           /\ \A todo \in SUBSET Blueprint :
                Goto(t, Going(Top(t), pc, todo)) =>
                \E f : /\ Moves(t, f) /\ Goto(t, f) /\ f.pc = pc /\ f.child = Top(t).child
                       /\ f.todo = todo /\ f.ret = Top(t).ret
<1>1. Top(t) \in FrameType
  BY RunningFrame
<1> DEFINE f1 == [Top(t) EXCEPT !.pc = pc]
           f2 == Retrying(Top(t), pc)
           f3 == [Top(t) EXCEPT !.pc = pc, !.child = NoBlue, !.ret = "none"]
           f4(todo) == Going(Top(t), pc, todo)
           Ok(f) == f \in FrameType /\ f.op = Top(t).op /\ f.blue = Top(t).blue
                    /\ f.flag = Top(t).flag /\ f.pc = pc
<1>2. Ok(f1) /\ f1.child = Top(t).child /\ f1.todo = Top(t).todo /\ f1.ret = Top(t).ret
  BY <1>1 DEF FrameType
<1>3. Ok(f2) /\ f2.child = Top(t).child /\ f2.todo = Top(t).todo /\ f2.ret = "none"
  BY <1>1 DEF FrameType, Returns, Retrying
<1>4. Ok(f3) /\ f3.child = NoBlue /\ f3.todo = Top(t).todo /\ f3.ret = "none"
  BY <1>1 DEF FrameType, Returns
<1>5. ASSUME NEW todo \in SUBSET Blueprint
      PROVE  Ok(f4(todo)) /\ f4(todo).child = Top(t).child /\ f4(todo).todo = todo
             /\ f4(todo).ret = Top(t).ret
  BY <1>1 DEF FrameType, Going
<1>6. Resume(t, pc) => Goto(t, f3)
  BY DEF Resume
<1> HIDE DEF f1, f2, f3, f4
<1>7. \A f : Ok(f) /\ Goto(t, f) => Moves(t, f)
  BY DEF Moves
<1>8. Goto(t, f1) => \E f : /\ Moves(t, f) /\ Goto(t, f) /\ f.pc = pc
                            /\ f.child = Top(t).child
                            /\ f.todo = Top(t).todo /\ f.ret = Top(t).ret
  BY <1>2, <1>7
<1>9. Goto(t, f2) => \E f : /\ Moves(t, f) /\ Goto(t, f) /\ f.pc = pc
                            /\ f.child = Top(t).child
                            /\ f.todo = Top(t).todo /\ f.ret = "none"
  BY <1>3, <1>7
<1>10. Resume(t, pc) => \E f : /\ Moves(t, f) /\ Goto(t, f) /\ f.pc = pc
                               /\ f.child = NoBlue
                               /\ f.todo = Top(t).todo /\ f.ret = "none"
  BY <1>4, <1>6, <1>7
<1>11. ASSUME NEW todo \in SUBSET Blueprint, Goto(t, f4(todo))
       PROVE  \E f : /\ Moves(t, f) /\ Goto(t, f) /\ f.pc = pc
                     /\ f.child = Top(t).child /\ f.todo = todo /\ f.ret = Top(t).ret
  BY <1>5, <1>7, <1>11
<1> QED
  BY <1>8, <1>9, <1>10, <1>11 DEF f1, f2, f4

\* The ways the running frame goes on by itself.
LEMMA GotoMoves ==
    ASSUME IInv, NEW t \in Thread, stack[t] # <<>>, NEW pc \in PCs \ Waiting,
           Goto(t, [Top(t) EXCEPT !.pc = pc])
    PROVE  \E f : /\ Moves(t, f) /\ Goto(t, f) /\ f.pc = pc /\ f.child = Top(t).child
                  /\ f.todo = Top(t).todo /\ f.ret = Top(t).ret
BY GoesOn

\* It retries after a failure.
LEMMA RetryMoves ==
    ASSUME IInv, NEW t \in Thread, stack[t] # <<>>, NEW pc \in PCs \ Waiting,
           Goto(t, Retrying(Top(t), pc))
    PROVE  \E f : /\ Moves(t, f) /\ Goto(t, f) /\ f.pc = pc /\ f.child = Top(t).child
                  /\ f.todo = Top(t).todo /\ f.ret = "none"
BY GoesOn

\* It takes up where the method it called returned.
LEMMA ResumeMoves ==
    ASSUME IInv, NEW t \in Thread, stack[t] # <<>>, NEW pc \in PCs \ Waiting, Resume(t, pc)
    PROVE  \E f : /\ Moves(t, f) /\ Goto(t, f) /\ f.pc = pc /\ f.child = NoBlue
                  /\ f.todo = Top(t).todo /\ f.ret = "none"
BY GoesOn

\* It goes on with a list of blueprints to destroy.
LEMMA ListMoves ==
    ASSUME IInv, NEW t \in Thread, stack[t] # <<>>, NEW pc \in PCs \ Waiting,
           NEW todo \in SUBSET Blueprint, Goto(t, Going(Top(t), pc, todo))
    PROVE  \E f : /\ Moves(t, f) /\ Goto(t, f) /\ f.pc = pc /\ f.child = Top(t).child
                  /\ f.todo = todo /\ f.ret = Top(t).ret
BY GoesOn

\* An exception leaves the body of the method.
LEMMA RaiseMoves ==
    ASSUME IInv, NEW t \in Thread, stack[t] # <<>>, NEW ret \in Returns, Raise(t, ret)
    PROVE  \E f : /\ Moves(t, f) /\ Goto(t, f) /\ f.pc = "failed" /\ f.child = NoBlue
                  /\ f.todo = {} /\ f.ret = ret
<1> DEFINE f == [Top(t) EXCEPT !.pc = "failed", !.child = NoBlue, !.todo = {}, !.ret = ret]
<1>1. /\ f \in FrameType /\ f.op = Top(t).op /\ f.blue = Top(t).blue
      /\ f.flag = Top(t).flag /\ f.pc = "failed" /\ f.child = NoBlue /\ f.todo = {}
      /\ f.ret = ret
  BY RunningFrame DEF FrameType, PCs, Waiting
<1>2. Goto(t, f)
  BY DEF Raise
<1> HIDE DEF f
<1> QED
  BY <1>1, <1>2 DEF Moves

\* The frame of a nested call.
Called(op, c) == Frame(op, c, "acquire", FALSE)

\* It calls the method of another blueprint, or that one is not in memory.
LEMMA NestFrom ==
    ASSUME IInv, NEW t \in Thread, stack[t] # <<>>, NEW pc \in PCs, NEW c \in Blueprint,
           NEW op \in Ops, NEW v \in FrameType, v.op = Top(t).op, v.blue = Top(t).blue,
           v.flag = Top(t).flag, Nest(t, v, pc, c, op)
    PROVE  \E f : /\ Moves(t, f) /\ f.pc = pc /\ f.child = c /\ f.todo = v.todo
                  /\ \/ /\ c \in blueprint_dict /\ f.ret = v.ret
                        /\ Push(t, f, Called(op, c))
                     \/ c \notin blueprint_dict /\ f.ret = "error" /\ Goto(t, f)
<1> DEFINE w == [v EXCEPT !.pc = pc, !.child = c]
           e == [w EXCEPT !.ret = "error"]
           g == Frame(op, c, "acquire", FALSE)
<1>1. /\ w \in FrameType /\ w.op = v.op /\ w.blue = v.blue /\ w.pc = pc
      /\ w.flag = v.flag /\ w.todo = v.todo /\ w.child = c /\ w.ret = v.ret
      /\ e \in FrameType /\ e.op = v.op /\ e.blue = v.blue /\ e.pc = pc
      /\ e.flag = v.flag /\ e.todo = v.todo /\ e.child = c /\ e.ret = "error"
  BY DEF FrameType, Returns
<1>2. g \in FrameType /\ g.pc = "acquire"
  <2>1. "acquire" \in PCs /\ FALSE \in BOOLEAN /\ c \in Blueprint \cup {NoBlue}
    BY DEF PCs
  <2> QED BY <2>1 DEF Frame, FrameType, Returns, Waiting
<1>3. IF c \in blueprint_dict THEN Push(t, w, g) ELSE Goto(t, e)
  BY DEF Nest
<1> HIDE DEF w, e
<1>4. CASE c \in blueprint_dict
  <2>1. Push(t, w, g)
    BY <1>3, <1>4
  <2>2. Moves(t, w)
    <3> HIDE DEF g
    <3> QED BY <1>1, <1>2, <2>1 DEF Moves
  <2> QED BY <1>1, <1>4, <2>1, <2>2 DEF Called
<1>5. CASE c \notin blueprint_dict
  <2>1. Goto(t, e)
    BY <1>3, <1>5
  <2>2. Moves(t, e)
    BY <1>1, <2>1 DEF Moves
  <2> QED BY <1>1, <1>5, <2>1, <2>2
<1> QED
  BY <1>4, <1>5

\* The whole list of the method stays, or it is cut to todo.
LEMMA NestMoves ==
    ASSUME IInv, NEW t \in Thread, stack[t] # <<>>, NEW pc \in PCs, NEW c \in Blueprint,
           NEW op \in Ops, NEW todo \in SUBSET Blueprint,
           Nest(t, Listing(Top(t), todo), pc, c, op)
    PROVE  \E f : /\ Moves(t, f) /\ f.pc = pc /\ f.child = c /\ f.todo = todo
                  /\ \/ /\ c \in blueprint_dict /\ f.ret = Top(t).ret
                        /\ Push(t, f, Called(op, c))
                     \/ c \notin blueprint_dict /\ f.ret = "error" /\ Goto(t, f)
<1> DEFINE v == [Top(t) EXCEPT !.todo = todo]
<1>1. /\ v \in FrameType /\ v.op = Top(t).op /\ v.blue = Top(t).blue
      /\ v.flag = Top(t).flag /\ v.todo = todo /\ v.ret = Top(t).ret
  BY RunningFrame DEF FrameType
<1>2. Nest(t, v, pc, c, op)
  BY DEF Listing
<1> HIDE DEF v
<1> QED
  BY <1>1, <1>2, NestFrom

\* The list of the method stays as it was.
LEMMA NestTopMoves ==
    ASSUME IInv, NEW t \in Thread, stack[t] # <<>>, NEW pc \in PCs, NEW c \in Blueprint,
           NEW op \in Ops, Nest(t, Top(t), pc, c, op)
    PROVE  \E f : /\ Moves(t, f) /\ f.pc = pc /\ f.child = c /\ f.todo = Top(t).todo
                  /\ \/ /\ c \in blueprint_dict /\ f.ret = Top(t).ret
                        /\ Push(t, f, Called(op, c))
                     \/ c \notin blueprint_dict /\ f.ret = "error" /\ Goto(t, f)
<1>1. Top(t) \in FrameType
  BY RunningFrame
<1> QED
  BY <1>1, NestFrom

\* What a user request that creates nothing starts with.
LEMMA UserStarts ==
    ASSUME IInv, NEW t \in Thread, UserStep(t), ~UserCreate(t)
    PROVE  /\ stack[t] = <<>> /\ UNCHANGED <<registry, lock, used, deleted>>
           /\ \E g \in FrameType :
                /\ stack' = [stack EXCEPT ![t] = <<g>>]
                /\ g.pc \in {"acquire", "apply", "loop"} /\ g.child = NoBlue /\ g.ret = "none"
                /\ \/ g.op = "deleteAll" /\ g.pc = "loop" /\ g.blue = NoBlue
                   \/ /\ g.op \in {"update", "get", "delete"} /\ g.pc = "acquire"
                      /\ g.todo = {} /\ g.blue \in blueprint_dict
                      /\ g.op = "delete" /\ g.flag => "force" \in UserOps
                   \/ /\ g.op = "protect" /\ g.pc = "apply" /\ "protect" \in UserOps
                      /\ g.todo = {} /\ g.blue \in blueprint_dict
<1>1. ASSUME NEW b \in blueprint_dict, NEW flag \in BOOLEAN,
             NEW op \in {"update", "get", "delete", "protect"}, NEW pc \in {"acquire", "apply"}
      PROVE  LET g == Frame(op, b, pc, flag)
             IN  g \in FrameType /\ g.op = op /\ g.blue = b /\ g.pc = pc /\ g.flag = flag
                 /\ g.child = NoBlue /\ g.ret = "none" /\ g.todo = {}
  BY DEF Frame, FrameType, Returns, Ops, PCs, IInv, Data, Waiting
<1>2. CASE UserUpdate(t) \/ UserGet(t)
  <2>1. PICK b \in blueprint_dict, op \in {"update", "get"} :
           stack' = [stack EXCEPT ![t] = <<Frame(op, b, "acquire", FALSE)>>]
    BY <1>2 DEF UserUpdate, UserGet
  <2> DEFINE g == Frame(op, b, "acquire", FALSE)
  <2>2. /\ g \in FrameType /\ g.op = op /\ g.blue = b /\ g.pc = "acquire"
        /\ g.child = NoBlue /\ g.ret = "none" /\ g.todo = {}
    BY DEF Frame, FrameType, Returns, Ops, PCs, IInv, Data, Waiting
  <2>3. stack' = [stack EXCEPT ![t] = <<g>>]
    BY <2>1
  <2> HIDE DEF g
  <2> QED BY <1>2, <2>1, <2>2, <2>3 DEF UserUpdate, UserGet
<1>3. CASE UserDelete(t)
  <2>1. PICK b \in blueprint_dict, force \in BOOLEAN :
           /\ force => "force" \in UserOps
           /\ stack' = [stack EXCEPT ![t] = <<Frame("delete", b, "acquire", force)>>]
    BY <1>3 DEF UserDelete
  <2> DEFINE g == Frame("delete", b, "acquire", force)
  <2>2. /\ g \in FrameType /\ g.op = "delete" /\ g.blue = b /\ g.pc = "acquire"
        /\ g.flag = force /\ g.child = NoBlue /\ g.ret = "none" /\ g.todo = {}
    BY <1>1
  <2>3. stack' = [stack EXCEPT ![t] = <<g>>]
    BY <2>1
  <2> HIDE DEF g
  <2> QED BY <1>3, <2>1, <2>2, <2>3 DEF UserDelete
<1>4. CASE UserProtect(t)
  <2>1. PICK b \in blueprint_dict, protect \in BOOLEAN :
           stack' = [stack EXCEPT ![t] = <<Frame("protect", b, "apply", protect)>>]
    BY <1>4 DEF UserProtect
  <2> DEFINE g == Frame("protect", b, "apply", protect)
  <2>2. /\ g \in FrameType /\ g.op = "protect" /\ g.blue = b /\ g.pc = "apply"
        /\ g.child = NoBlue /\ g.ret = "none" /\ g.todo = {}
    BY <1>1
  <2>3. stack' = [stack EXCEPT ![t] = <<g>>]
    BY <2>1
  <2> HIDE DEF g
  <2> QED BY <1>4, <2>1, <2>2, <2>3 DEF UserProtect
<1>5. CASE UserDeleteAll(t)
  <2> DEFINE g == [Frame("deleteAll", NoBlue, "loop", FALSE) EXCEPT !.todo = blueprint_dict]
  <2>1. /\ g \in FrameType /\ g.op = "deleteAll" /\ g.pc = "loop" /\ g.blue = NoBlue
        /\ g.child = NoBlue /\ g.ret = "none"
    BY DEF Frame, FrameType, Returns, Ops, PCs, IInv, Data, Waiting
  <2>2. stack' = [stack EXCEPT ![t] = <<g>>]
    BY <1>5 DEF UserDeleteAll
  <2> HIDE DEF g
  <2> QED BY <1>5, <2>1, <2>2 DEF UserDeleteAll
<1> QED
  BY <1>2, <1>3, <1>4, <1>5 DEF UserStep

\* A new blueprint has no children.
LEMMA NewBlueFields ==
    ASSUME NEW p
    PROVE  /\ NewBlue(p).children = {} /\ NewBlue(p).deployed = {}
           /\ NewBlue(p).parent = p
BY DEF NewBlue

\* The steps of Next, one lemma each: a request of the user starts a thread.
LEMMA LocalUserStep ==
    ASSUME IInv, IInv', Local, NEW t \in Thread, UserStep(t)
    PROVE  Local'
<1>1. CASE UserCreate(t)
  <2>1. PICK c \in Blueprint :
           /\ StartCreate(c, NoBlue, t)
           /\ stack' = [stack EXCEPT ![t] = <<Frame("create", c, "body", FALSE)>>]
    BY <1>1 DEF UserCreate
  <2>2. PICK g : g = Frame("create", c, "body", FALSE)
    OBVIOUS
  <2>3. g \in FrameType /\ g.op = "create" /\ g.blue = c /\ Holds(g) /\ g.pc = "body"
    BY <2>2, BodyFrame DEF Frame
  <2>4. HoldersKept({c}) /\ 1 \in 1..Len(stack'[t]) /\ stack'[t][1] = g
    BY <1>1, <2>1, <2>2, <2>3, StartHolders DEF UserCreate
  <2>5. /\ Elsewhere({c}) /\ Recorded' /\ Listed'
        /\ c \in blueprint_dict' /\ c \in docs'
    <3>1. \A a \in Blueprint \ {c} : lock'[a] = lock[a]
      BY <2>1 DEF StartCreate, IInv, Locks
    <3> QED BY <2>1, <3>1, SaveElsewhere, NewBlueFields DEF StartCreate, Save
  <2>6. Held(g)'
    BY <2>3, <2>5 DEF Held
  <2>7. At(c)'
    BY <2>3, <2>4, <2>6, AtHeld
  <2> QED BY <2>4, <2>5, <2>7, LocalOf
<1>2. CASE ~UserCreate(t)
  <2>1. PICK g \in FrameType : stack' = [stack EXCEPT ![t] = <<g>>] /\ ~Holds(g)
    BY <1>2, UserStarts DEF Holds, Codes
  <2>2. stack[t] = <<>> /\ UNCHANGED <<registry, lock, used, deleted>>
    BY <1>2, UserStarts
  <2>3. HoldersKept({}) /\ Elsewhere({}) /\ Recorded' /\ Listed'
    BY <2>1, <2>2, StartHolders, SameElsewhere
  <2> QED BY <2>3, LocalOf
<1> QED
  BY <1>1, <1>2

\* What a thread that may get the lock of its blueprint knows.
LEMMA LocalEnterStep ==
    ASSUME IInv, IInv', Local, NEW t \in Thread, EnterStep(t)
    PROVE  Local'
<1>1. /\ stack[t] # <<>> /\ Top(t).pc = "acquire" /\ lock[Top(t).blue] = NoThread
      /\ Top(t).op \in Codes \cup {"delete"}
  BY DEF EnterStep, EnterUpdate, EnterCode, EnterDelete, CanAcquire, Running, Codes
<1>2. PICK b \in Blueprint : b = Top(t).blue /\ b \in used
  BY <1>1, RunningFrame DEF Codes
<1>3. Resting(b)
  BY <1>1, <1>2 DEF Local, At
<1>4. lock' = [lock EXCEPT ![b] = t] => \A a \in Blueprint \ {b} : lock'[a] = lock[a]
  BY DEF IInv, Locks
<1>5. ASSUME NEW f, Moves(t, f), f.pc # "acquire", Held(f)',
             Elsewhere({b}), Recorded', Listed'
      PROVE  Local'
  <2>1. Holds(f) /\ f.blue = b
    BY <1>1, <1>2, <1>5 DEF Moves, Holds
  <2> QED BY <1>1, <1>5, <2>1, LocalMove
<1>6. CASE EnterUpdate(t)
  <2>1. CASE b \in blueprint_dict
    <3>1. Goto(t, [Top(t) EXCEPT !.pc = "body"])
      BY <1>2, <1>6, <2>1 DEF EnterUpdate
    <3>2. PICK f : Moves(t, f) /\ f.pc = "body"
      BY <1>1, <3>1, GotoMoves DEF PCs, Waiting
    <3>3. Elsewhere({b}) /\ Recorded' /\ Listed' /\ b \in blueprint_dict'
      <4> DEFINE r == [blue[b] EXCEPT !.status = RunningDay2]
      <4>1. CanRestart \/ r.children \subseteq r.deployed
        BY ChildrenType DEF Local, Listed, BlueType
      <4>2. SaveThen(b, r, r) /\ used' = used /\ deleted' = deleted
        BY <1>2, <1>6, <2>1 DEF EnterUpdate, SetStatus, Save
      <4> HIDE DEF r
      <4> QED BY <1>2, <1>4, <1>6, <2>1, <4>1, <4>2, SaveElsewhere DEF EnterUpdate
    <3>4. f.op = "update" /\ f.blue = b
      BY <1>2, <1>6, <3>2 DEF Moves, EnterUpdate, CanAcquire, Running
    <3>5. Held(f)'
      BY <3>2, <3>3, <3>4 DEF Held
    <3> QED BY <1>5, <3>2, <3>3, <3>5
  <2>2. CASE b \notin blueprint_dict
    <3>1. Return(t, "error") /\ UNCHANGED <<registry, lock, used, deleted>>
      BY <1>2, <1>6, <2>2 DEF EnterUpdate
    <3> QED BY <1>1, <3>1, ReturnHolders, SameElsewhere, LocalOf DEF Returns
  <2> QED BY <2>1, <2>2
<1>7. CASE EnterCode(t)
  <2>1. PICK f : Moves(t, f) /\ f.pc = "body"
    <3>1. Goto(t, [Top(t) EXCEPT !.pc = "body"])
      BY <1>7 DEF EnterCode
    <3> QED BY <1>1, <3>1, GotoMoves DEF PCs, Waiting
  <2>2. f.op \in {"call", "get"} /\ f.blue = b
    BY <1>2, <1>7, <2>1 DEF Moves, EnterCode, CanAcquire, Running
  <2>3. UNCHANGED <<registry, used, deleted>> /\ lock' = [lock EXCEPT ![b] = t]
    BY <1>2, <1>7 DEF EnterCode
  <2>4. Held(f)'
    BY <1>3, <2>1, <2>2, <2>3 DEF Held, Resting, Durable, registry
  <2> QED BY <1>4, <1>5, <2>1, <2>3, <2>4, SameElsewhere
<1>8. CASE EnterDelete(t)
  <2>1. Top(t).op = "delete" /\ lock' = [lock EXCEPT ![b] = t] /\ UNCHANGED <<used, deleted>>
    BY <1>2, <1>8 DEF EnterDelete, CanAcquire, Running
  <2>2. CASE UNCHANGED registry /\ (Raise(t, "protected") \/ Raise(t, "error"))
    <3>1. PICK f : Moves(t, f) /\ f.pc = "failed"
      BY <1>1, <2>2, RaiseMoves DEF Returns
    <3>2. Held(f)'
      BY <1>2, <1>3, <2>1, <2>2, <3>1 DEF Moves, Held, Resting, Durable, registry, Emptied
    <3> QED BY <1>4, <1>5, <2>1, <2>2, <3>1, <3>2, SameElsewhere
  <2>3. CASE Goto(t, [Top(t) EXCEPT !.pc = "children"]) /\ SetStatus(b, Destroying)
    <3>1. PICK f : Moves(t, f) /\ f.pc = "children"
      <4>1. "children" \in PCs \ Waiting
        BY DEF PCs, Waiting
      <4>2. Goto(t, [Top(t) EXCEPT !.pc = "children"])
        BY <2>3
      <4> QED BY <1>1, <4>1, <4>2, GotoMoves
    <3>2. /\ Elsewhere({b}) /\ Recorded' /\ Listed' /\ b \in blueprint_dict'
      <4> DEFINE r == [blue[b] EXCEPT !.status = Destroying]
      <4>1. CanRestart \/ r.children \subseteq r.deployed
        BY ChildrenType DEF Local, Listed, BlueType
      <4>2. SaveThen(b, r, r)
        BY <2>3 DEF SetStatus, Save
      <4> HIDE DEF r
      <4> QED BY <1>2, <1>4, <2>1, <4>1, <4>2, SaveElsewhere
    <3>3. Held(f)'
      BY <1>2, <2>1, <3>1, <3>2 DEF Moves, Held, Emptied
    <3> QED BY <1>5, <3>1, <3>2, <3>3
  <2> QED BY <1>2, <1>8, <2>2, <2>3 DEF EnterDelete
<1> QED
  BY <1>6, <1>7, <1>8 DEF EnterStep

\* A step of a lock holder that changes nothing but its own frame.
LEMMA LocalStill ==
    ASSUME IInv, IInv', Local, NEW t \in Thread, stack[t] # <<>>, NEW f, Moves(t, f),
           f.op \in Codes \cup {"delete"}, f.pc # "acquire", Held(f),
           UNCHANGED <<registry, lock, used, deleted>>
    PROVE  Local'
<1>1. Holds(f)
  BY DEF Holds
<1>2. Held(f)'
  BY DEF Held, Resting, Durable, registry
<1>3. Elsewhere({f.blue}) /\ Recorded' /\ Listed'
  BY SameElsewhere
<1> QED
  BY <1>1, <1>2, <1>3, LocalMove

\* A step of a method that holds no lock and changes no blueprint.
LEMMA LocalOther ==
    ASSUME IInv, Local, UNCHANGED <<registry, lock, used, deleted>>, HoldersKept({})
    PROVE  Local'
BY SameElsewhere, LocalOf

\* A method that is called with its lock already taken, as the creation of a child.
LEMMA PushHolders ==
    ASSUME IInv, NEW t \in Thread, NEW f \in FrameType, NEW g \in FrameType,
           stack[t] # <<>>, Push(t, f, g)
    PROVE  /\ Len(stack[t]) \in 1..Len(stack'[t]) /\ stack'[t][Len(stack[t])] = f
           /\ Len(stack[t]) + 1 \in 1..Len(stack'[t]) /\ stack'[t][Len(stack[t]) + 1] = g
           /\ HoldersKept({f.blue, g.blue})
<1> DEFINE n == Len(stack[t])
<1>1. n \in Nat \ {0}
  BY TopType DEF IInv
<1>2. /\ Len(stack'[t]) = n + 1 /\ stack'[t][n] = f /\ stack'[t][n + 1] = g
      /\ \A i \in 1..n - 1 : stack'[t][i] = stack[t][i]
      /\ \A u \in Thread \ {t} : stack'[u] = stack[u]
  BY PushType DEF IInv
<1>3. \A i \in 1..n + 1 : i = n + 1 \/ i = n \/ i \in 1..n - 1
  BY <1>1
<1>4. HoldersKept({f.blue, g.blue})
  <2> SUFFICES ASSUME NEW u \in Thread, NEW i \in 1..Len(stack'[u]), Holds(stack'[u][i]),
                      stack'[u][i].blue \notin {f.blue, g.blue}
               PROVE  i \in 1..Len(stack[u]) /\ stack'[u][i] = stack[u][i]
    BY DEF HoldersKept, Kept
  <2>1. CASE u # t
    BY <1>2, <2>1
  <2>2. CASE u = t
    <3>1. i \in 1..n - 1
      BY <1>2, <1>3, <2>2
    <3>2. i \in 1..n
      BY <1>1, <3>1
    <3> QED BY <1>2, <2>2, <3>1, <3>2
  <2> QED BY <2>1, <2>2
<1>5. n \in 1..Len(stack'[t]) /\ n + 1 \in 1..Len(stack'[t])
  BY <1>1, <1>2
<1> QED BY <1>2, <1>4, <1>5

\* The code of a blueprint creates, calls or deletes a child, saves, or fails.
LEMMA LocalCodeStep ==
    ASSUME IInv, IInv', Local, NEW t \in Thread, CodeStep(t)
    PROVE  Local'
<1>1. /\ stack[t] # <<>> /\ Top(t).pc = "body" /\ Top(t).op \in Codes
  BY DEF CodeStep, CodeCreateChild, CodeCallChild, CodeDeleteChild, CodeSave, CodeFails,
         CodeMay, Running, Codes
<1>2. Holds(Top(t))
  BY <1>1 DEF Holds
<1>3. PICK b : b = Top(t).blue
  OBVIOUS
<1>4. /\ Top(t) \in FrameType /\ Held(Top(t)) /\ b \in Blueprint /\ b \in used /\ lock[b] = t
  BY <1>1, <1>2, <1>3, TopHeld
<1>5. CASE CodeCreateChild(t)
  <2>1. PICK c \in Blueprint :
           /\ StartCreate(c, b, t)
           /\ Push(t, [Top(t) EXCEPT !.pc = "creating", !.child = c],
                   Frame("create", c, "body", FALSE))
    BY <1>3, <1>5 DEF CodeCreateChild
  <2>2. PICK f : f = [Top(t) EXCEPT !.pc = "creating", !.child = c]
    OBVIOUS
  <2>3. PICK g : g = Frame("create", c, "body", FALSE)
    OBVIOUS
  <2>4. /\ f \in FrameType /\ f.op = Top(t).op /\ f.blue = b /\ f.pc = "creating"
        /\ f.op \in {"create", "update"}
    BY <1>3, <1>4, <1>5, <2>2 DEF FrameType, PCs, CodeCreateChild, CodeMay, Running
  <2>5. g \in FrameType /\ g.op = "create" /\ g.blue = c /\ Holds(g) /\ g.pc = "body"
    BY <2>3, BodyFrame DEF Frame
  <2>6. /\ HoldersKept({b, c})
        /\ Len(stack[t]) \in 1..Len(stack'[t]) /\ stack'[t][Len(stack[t])] = f
        /\ Len(stack[t]) + 1 \in 1..Len(stack'[t]) /\ stack'[t][Len(stack[t]) + 1] = g
    BY <1>1, <2>1, <2>2, <2>3, <2>4, <2>5, PushHolders
  <2>7. Elsewhere({c}) /\ Recorded' /\ Listed' /\ c \in blueprint_dict'
    <3>1. \A a \in Blueprint \ {c} : lock'[a] = lock[a]
      BY <2>1 DEF StartCreate, IInv, Locks
    <3> QED BY <2>1, <3>1, SaveElsewhere, NewBlueFields DEF StartCreate, Save
  <2>8. Held(g)'
    BY <2>5, <2>7 DEF Held
  <2>9. At(c)'
    <3>1. PICK i : i \in 1..Len(stack'[t]) /\ stack'[t][i] = g
      BY <2>6, Zenon
    <3> QED BY <2>5, <2>8, <3>1, AtHeld
  <2>10. b # c
    BY <1>4, <2>1 DEF StartCreate
  <2>11. Held(f)'
    BY <1>1, <1>3, <1>4, <2>4, <2>7, <2>10 DEF Held, Elsewhere
  <2>12. At(b)'
    <3>1. PICK i : i \in 1..Len(stack'[t]) /\ stack'[t][i] = f
      BY <2>6, Zenon
    <3>2. Holds(f)
      BY <2>4 DEF Holds, Codes
    <3> QED BY <2>4, <2>11, <3>1, <3>2, AtHeld
  <2>13. Elsewhere({b, c})
    BY <2>7 DEF Elsewhere
  <2> QED BY <2>6, <2>7, <2>9, <2>12, <2>13, LocalOf
<1>6. ASSUME NEW c \in Blueprint, NEW pc \in {"calling", "deleting"}, NEW op \in Ops,
             Nest(t, Top(t), pc, c, op), UNCHANGED <<registry, lock, used, deleted>>,
             pc = "deleting" => Top(t).op \in {"create", "update"}
      PROVE  Local'
  <2>1. pc \in PCs
    BY DEF PCs
  <2>2. PICK f : Moves(t, f) /\ f.pc = pc
    BY <1>1, <1>6, <2>1, NestTopMoves
  <2>3. Held(f)
    BY <1>1, <1>4, <1>6, <2>2 DEF Held, Moves, Codes
  <2> QED BY <1>1, <1>6, <2>2, <2>3, LocalStill DEF Moves
<1>7. CASE CodeCallChild(t)
  <2>1. PICK c \in blue[b].children : Nest(t, Top(t), "calling", c, "call")
    BY <1>3, <1>7 DEF CodeCallChild
  <2>2. c \in Blueprint
    BY <1>4, <2>1, ChildrenType
  <2> QED BY <1>6, <1>7, <2>1, <2>2 DEF CodeCallChild, Ops
<1>8. CASE CodeDeleteChild(t)
  <2>1. PICK c \in blue[b].children : Nest(t, Top(t), "deleting", c, "delete")
    BY <1>3, <1>8 DEF CodeDeleteChild
  <2>2. c \in Blueprint /\ Top(t).op \in {"create", "update"}
    BY <1>4, <1>8, <2>1, ChildrenType DEF CodeDeleteChild, CodeMay, Running
  <2> QED BY <1>6, <1>8, <2>1, <2>2 DEF CodeDeleteChild, Ops
<1>9. CASE CodeSave(t)
  <2>1. SaveThen(b, blue[b], blue[b]) /\ UNCHANGED <<lock, stack, used, deleted>>
    BY <1>3, <1>9 DEF CodeSave, Save
  <2>2. /\ Elsewhere({b}) /\ Recorded' /\ Listed'
        /\ blue'[b] = blue[b] /\ saved'[b] = blue[b] /\ b \in blueprint_dict' /\ b \in docs'
    BY <1>4, <2>1, SaveElsewhere DEF Local, Listed
  <2>3. PICK f : f = Top(t)
    OBVIOUS
  <2>4. Held(f)'
    BY <1>1, <1>3, <1>4, <2>1, <2>2, <2>3 DEF Held, Resting, Durable, Codes
  <2>5. At(b)'
    <3>1. PICK i \in 1..Len(stack[t]) : stack[t][i] = f
      BY <1>1, <2>3, TopType DEF Top, IInv
    <3> QED BY <1>2, <1>3, <2>1, <2>3, <2>4, <3>1, AtHeld
  <2>6. HoldersKept({b})
    BY <2>1 DEF HoldersKept, Kept
  <2> QED BY <2>2, <2>5, <2>6, LocalOf
<1>10. CASE CodeFails(t)
  <2>1. PICK f : Moves(t, f) /\ f.pc = "failed"
    BY <1>1, <1>10, RaiseMoves DEF CodeFails, Returns
  <2>2. Held(f)
    BY <1>1, <1>4, <2>1 DEF Held, Moves, Codes
  <2> QED BY <1>1, <1>10, <2>1, <2>2, LocalStill DEF CodeFails, Moves
<1> QED
  BY <1>5, <1>7, <1>8, <1>9, <1>10 DEF CodeStep

\* Setting a final status leaves the blueprint at rest.
LEMMA SetIdle ==
    ASSUME IInv, Local, NEW b \in Blueprint, NEW s \in {Idle, ErrorState}, SetStatus(b, s),
           UNCHANGED <<used, deleted>>, \A a \in Blueprint \ {b} : lock'[a] = lock[a]
    PROVE  Resting(b)' /\ Elsewhere({b}) /\ Recorded' /\ Listed'
<1> DEFINE r == [blue[b] EXCEPT !.status = s]
<1>1. r.status.op = "idle" /\ r.children = blue[b].children /\ r.deployed = blue[b].deployed
  BY ChildrenType DEF Idle, ErrorState, Status, BlueType
<1>2. SaveThen(b, r, r)
  BY DEF SetStatus, Save
<1> HIDE DEF r
<1>3. /\ Elsewhere({b}) /\ Recorded' /\ Listed' /\ blue'[b] = r /\ saved'[b] = r
      /\ b \in blueprint_dict' /\ b \in docs'
  BY <1>1, <1>2, SaveElsewhere DEF Local, Listed
<1> QED
  BY <1>1, <1>3 DEF Resting, Durable

\* The code of a blueprint ends or raises: the decorator sets the status and saves.
LEMMA LocalCodeExit ==
    ASSUME IInv, IInv', Local, NEW t \in Thread, CodeExit(t)
    PROVE  Local'
<1>1. /\ stack[t] # <<>> /\ Top(t).pc \in {"body", "failed"} /\ Top(t).op \in Codes
      /\ UNCHANGED <<used, deleted>>
  BY DEF CodeExit, CodeEnds, CodeRaises, Running, Codes
<1>2. Holds(Top(t))
  BY <1>1 DEF Holds
<1>3. PICK b : b = Top(t).blue
  OBVIOUS
<1>4. /\ Top(t) \in FrameType /\ Held(Top(t)) /\ b \in Blueprint /\ b \in used
  BY <1>1, <1>2, <1>3, TopHeld
<1>5. Release(b) /\ \E ret \in Returns : Return(t, ret)
  BY <1>3, <1>4 DEF CodeExit, CodeEnds, CodeRaises, Returns, FrameType
<1>6. \A a \in Blueprint \ {b} : lock'[a] = lock[a]
  BY <1>5 DEF Release, IInv, Locks
<1>7. CASE \E s \in {Idle, ErrorState} : SetStatus(b, s)
  BY <1>1, <1>3, <1>4, <1>5, <1>6, <1>7, SetIdle, LocalLeave
<1>8. CASE UNCHANGED registry /\ Resting(b)
  <2>1. Resting(b)'
    BY <1>1, <1>8 DEF Resting, Durable, registry
  <2>2. Elsewhere({b}) /\ Recorded' /\ Listed'
    BY <1>1, <1>6, <1>8, SameElsewhere
  <2> QED BY <1>1, <1>3, <1>4, <1>5, <2>1, <2>2, LocalLeave
<1>9. Top(t).op \in {"call", "get"} => Resting(b)
  BY <1>3, <1>4 DEF Held
<1>10. CASE CodeEnds(t)
  BY <1>1, <1>3, <1>7, <1>8, <1>9, <1>10 DEF CodeEnds, Codes
<1>11. CASE CodeRaises(t)
  <2>1. Top(t).pc = "failed"
    BY <1>11 DEF CodeRaises, Running
  <2>2. b \notin blueprint_dict => Resting(b)
    BY <1>3, <1>4, <2>1 DEF Held, Resting, Durable, Local, Recorded
  <2> QED BY <1>1, <1>3, <1>7, <1>8, <1>9, <1>11, <2>2 DEF CodeRaises, Codes
<1> QED
  BY <1>10, <1>11 DEF CodeExit

\* Recording and forgetting a child touch the blueprint of the list only.
LEMMA RecordLocal ==
    ASSUME IInv, Local, NEW b \in Blueprint, NEW c, RecordChild(b, c) \/ ForgetChild(b, c),
           UNCHANGED <<lock, used, deleted>>
    PROVE  Elsewhere({b}) /\ Recorded' /\ Listed' /\ b \in blueprint_dict'
<1>1. CanRestart \/ blue[b].children \subseteq blue[b].deployed
  BY DEF Local, Listed
<1>2. CASE RecordChild(b, c)
  <2> DEFINE r == [blue[b] EXCEPT !.deployed = @ \cup {c}]
             m == [r EXCEPT !.children = @ \cup {c}]
  <2>1. CanRestart \/ m.children \subseteq m.deployed
    BY <1>1, ChildrenType DEF BlueType
  <2>2. SaveThen(b, r, m)
    BY <1>2 DEF RecordChild
  <2> HIDE DEF r, m
  <2> QED BY <2>1, <2>2, SaveElsewhere
<1>3. CASE ForgetChild(b, c)
  <2> DEFINE r == [blue[b] EXCEPT !.deployed = @ \ {c}]
             m == [r EXCEPT !.children = @ \ {c}]
  <2>1. CanRestart \/ m.children \subseteq m.deployed
    BY <1>1, ChildrenType DEF BlueType
  <2>2. SaveThen(b, r, m)
    BY <1>3 DEF ForgetChild
  <2> HIDE DEF r, m
  <2> QED BY <2>1, <2>2, SaveElsewhere
<1> QED
  BY <1>2, <1>3

\* A method goes on after the method it called.
LEMMA LocalReturnStep ==
    ASSUME IInv, IInv', Local, NEW t \in Thread, ReturnStep(t)
    PROVE  Local'
<1>1. /\ stack[t] # <<>> /\ Top(t).pc \in Waiting
      /\ Top(t).op \in Codes \cup {"delete", "deleteAll"}
      /\ UNCHANGED <<lock, used, deleted>>
  BY DEF ReturnStep, CodeResumes, ChildDestroyed, OrphanDestroyed, LeftoverDestroyed,
         DeleteAllResumes, DeleteStep, Running, Waiting
<1>2. PICK b : b = Top(t).blue
  OBVIOUS
<1>3. Top(t) \in FrameType /\ Top(t).ret \in Returns
  BY <1>1, RunningFrame DEF FrameType
<1>4. Top(t).op # "deleteAll" => Held(Top(t)) /\ b \in Blueprint
  <2>1. Top(t).op # "deleteAll" => Holds(Top(t))
    BY <1>1 DEF Holds, Waiting
  <2> QED BY <1>1, <1>2, <2>1, TopHeld
<1>5. ASSUME Top(t).op # "deleteAll", NEW ret \in Returns, Raise(t, ret), UNCHANGED registry,
             Top(t).pc \in {"creating", "calling", "deleting"} <=> Top(t).op \in Codes
      PROVE  Local'
  <2>1. PICK f : Moves(t, f) /\ f.pc = "failed"
    BY <1>1, <1>5, RaiseMoves
  <2>2. f.op \in Codes \cup {"delete"} /\ f.pc # "acquire"
    BY <1>1, <1>5, <2>1 DEF Moves
  <2>3. Held(f)
    BY <1>1, <1>2, <1>4, <1>5, <2>1 DEF Held, Moves, Waiting, Emptied
  <2> QED BY <1>1, <1>5, <2>1, <2>2, <2>3, LocalStill
<1>6. ASSUME Top(t).op \in {"create", "update", "delete"},
             NEW pc \in {"body", "children"}, Resume(t, pc), NEW c,
             RecordChild(b, c) \/ ForgetChild(b, c)
      PROVE  Local'
  <2>1. PICK f : Moves(t, f) /\ f.pc = pc
    <3>1. pc \in PCs \ Waiting
      BY DEF PCs, Waiting
    <3> QED BY <1>1, <1>6, <3>1, ResumeMoves
  <2>2. Elsewhere({b}) /\ Recorded' /\ Listed' /\ b \in blueprint_dict'
    BY <1>1, <1>4, <1>6, RecordLocal
  <2>3. Held(f)' /\ Holds(f) /\ f.blue = b
    BY <1>2, <1>6, <2>1, <2>2 DEF Held, Holds, Codes, Moves, Emptied
  <2> QED BY <1>1, <2>1, <2>2, <2>3, LocalMove
<1>7. CASE CodeResumes(t)
  <2>1. Top(t).op \in Codes /\ Top(t).pc \in {"creating", "calling", "deleting"}
    BY <1>7 DEF CodeResumes, Running
  <2>2. Top(t).op # "deleteAll"
    BY <2>1 DEF Codes
  <2>3. CASE Raise(t, Top(t).ret) /\ UNCHANGED registry
    BY <1>3, <1>5, <2>1, <2>2, <2>3
  <2>4. CASE /\ Resume(t, "body") /\ Top(t).pc # "calling"
             /\ RecordChild(b, Top(t).child) \/ ForgetChild(b, Top(t).child)
    <3>1. Top(t).op \in {"create", "update"}
      BY <1>2, <1>4, <2>1, <2>2, <2>4 DEF Held, Codes
    <3> QED BY <1>6, <2>4, <3>1
  <2>5. CASE Resume(t, "body") /\ UNCHANGED registry
    <3>1. PICK f : Moves(t, f) /\ f.pc = "body"
      BY <1>1, <2>5, ResumeMoves DEF PCs, Waiting
    <3>2. Held(f)
      BY <1>4, <2>1, <2>2, <3>1 DEF Held, Moves, Codes
    <3> QED BY <1>1, <2>1, <2>5, <3>1, <3>2, LocalStill DEF Moves
  <2> QED BY <1>2, <1>7, <2>3, <2>4, <2>5 DEF CodeResumes
<1>8. CASE ChildDestroyed(t)
  <2>1. Top(t).op = "delete" /\ Top(t).pc = "childDeleting"
    BY <1>8 DEF ChildDestroyed, DeleteStep, Running
  <2> QED BY <1>2, <1>3, <1>5, <1>6, <1>8, <2>1 DEF ChildDestroyed, Codes
<1>9. ASSUME Top(t).op = "delete", Top(t).pc \in Emptied, NEW pc \in {"orphans", "cleanup"},
             Resume(t, pc), UNCHANGED registry
      PROVE  Local'
  <2>1. PICK f : Moves(t, f) /\ f.pc = pc
    <3>1. pc \in PCs \ Waiting
      BY DEF PCs, Waiting
    <3> QED BY <1>1, <1>9, <3>1, ResumeMoves
  <2>2. Held(f)
    BY <1>4, <1>9, <2>1 DEF Held, Moves, Emptied
  <2> QED BY <1>1, <1>9, <2>1, <2>2, LocalStill DEF Moves
<1>10. CASE OrphanDestroyed(t)
  <2>1. Top(t).op = "delete" /\ Top(t).pc = "orphanDeleting" /\ UNCHANGED registry
    BY <1>10 DEF OrphanDestroyed, DeleteStep, Running
  <2> QED BY <1>3, <1>5, <1>9, <1>10, <2>1 DEF OrphanDestroyed, Codes, Emptied
<1>11. CASE LeftoverDestroyed(t)
  <2>1. Top(t).op = "delete" /\ Top(t).pc = "leftoverDeleting" /\ UNCHANGED registry
    BY <1>11 DEF LeftoverDestroyed, DeleteStep, Running
  <2> QED BY <1>9, <1>11, <2>1 DEF LeftoverDestroyed, Emptied
<1>12. CASE DeleteAllResumes(t)
  <2>1. Top(t).op = "deleteAll" /\ UNCHANGED registry
    BY <1>12 DEF DeleteAllResumes, Running
  <2>2. CASE Return(t, "error")
    BY <1>1, <2>1, <2>2, ReturnHolders, LocalOther DEF Returns
  <2>3. CASE Resume(t, "loop")
    <3>1. PICK f : Moves(t, f)
      BY <1>1, <2>3, ResumeMoves DEF PCs, Waiting
    <3>2. ~Holds(f)
      BY <2>1, <3>1 DEF Moves, Holds, Codes
    <3> QED BY <1>1, <2>1, <3>1, <3>2, MovesTop, LocalOther
  <2> QED BY <1>12, <2>2, <2>3 DEF DeleteAllResumes
<1> QED
  BY <1>7, <1>8, <1>10, <1>11, <1>12 DEF ReturnStep

\* The deletion of the resources, the providers' part and the end of a deletion.
LEMMA LocalDestroyStep ==
    ASSUME IInv, IInv', Local, NEW t \in Thread, DestroyStep(t)
    PROVE  Local'
<1>1. /\ stack[t] # <<>> /\ Top(t).op \in {"delete", "protect", "deleteAll"}
      /\ Top(t).pc # "acquire" /\ used' = used
  BY DEF DestroyStep, DestroyChildren, DestroyOrphans, DestroyResources, FinalCleanup,
         PopBlueprint, EraseBlueprint, DeleteRaises, ApplyProtect, DeleteNext, DeleteStep,
         Running
<1>2. PICK b : b = Top(t).blue
  OBVIOUS
<1>3. /\ Top(t) \in FrameType /\ Top(t).ret \in Returns /\ Top(t).todo \in SUBSET Blueprint
      /\ Top(t).op # "deleteAll" => b \in used /\ b \in Blueprint
  BY <1>1, <1>2, RunningFrame DEF FrameType
<1>4. Top(t).op = "delete" => Held(Top(t)) /\ Holds(Top(t)) /\ lock[b] = t
  <2>1. Top(t).op = "delete" => Holds(Top(t))
    BY <1>1 DEF Holds
  <2> QED BY <1>1, <1>2, <2>1, TopHeld
<1>5. ASSUME Top(t).op = "delete", NEW f, Moves(t, f), f.pc # "acquire",
             Top(t).pc # "erase", f.pc \in Emptied => blue[b].children = {},
             UNCHANGED <<registry, lock, used, deleted>>
      PROVE  Local'
  <2>1. Held(f)
    BY <1>2, <1>4, <1>5 DEF Held, Moves
  <2> QED BY <1>1, <1>5, <2>1, LocalStill DEF Moves
<1>6. Top(t).op = "delete" /\ Top(t).pc \in Emptied => blue[b].children = {}
  BY <1>2, <1>4 DEF Held
<1>7. CASE DestroyChildren(t)
  <2>1. /\ Top(t).op = "delete" /\ Top(t).pc = "children"
        /\ UNCHANGED <<registry, lock, used, deleted>>
    BY <1>7 DEF DestroyChildren, DeleteStep, Running
  <2>2. CASE \E c \in blue[b].children : Nest(t, Top(t), "childDeleting", c, "delete")
    <3>1. PICK c \in blue[b].children : Nest(t, Top(t), "childDeleting", c, "delete")
      BY <2>2
    <3>2. c \in Blueprint
      BY <1>3, <2>1, ChildrenType
    <3>3. PICK f : Moves(t, f) /\ f.pc = "childDeleting"
      BY <1>1, <3>1, <3>2, NestTopMoves DEF PCs, Ops
    <3> QED BY <1>5, <2>1, <3>3 DEF Emptied
  <2>3. CASE /\ blue[b].children = {}
             /\ \E todo \in SUBSET Blueprint :
                   Goto(t, Going(Top(t), "orphans", todo))
    <3>1. PICK f : Moves(t, f) /\ f.pc = "orphans"
      BY <1>1, <2>3, ListMoves DEF PCs, Waiting
    <3> QED BY <1>5, <2>1, <2>3, <3>1
  <2>4. {c \in blueprint_dict : blue[c].parent = b} \in SUBSET Blueprint
    BY DEF IInv, Data
  <2> QED BY <1>2, <1>7, <2>2, <2>3, <2>4 DEF DestroyChildren, Going
<1>8. CASE DestroyOrphans(t)
  <2>1. /\ Top(t).op = "delete" /\ Top(t).pc = "orphans"
        /\ UNCHANGED <<registry, lock, used, deleted>>
    BY <1>8 DEF DestroyOrphans, DeleteStep, Running
  <2>2. blue[b].children = {}
    BY <1>6, <2>1 DEF Emptied
  <2>3. CASE \E c \in Top(t).todo :
                Nest(t, [Top(t) EXCEPT !.todo = @ \ {c}], "orphanDeleting", c, "delete")
    <3>1. PICK c \in Top(t).todo :
             Nest(t, Listing(Top(t), Top(t).todo \ {c}), "orphanDeleting", c, "delete")
      BY <1>3, <2>3 DEF FrameType, Listing
    <3>2. c \in Blueprint /\ Top(t).todo \ {c} \in SUBSET Blueprint
      BY <1>3
    <3>3. PICK f : Moves(t, f) /\ f.pc = "orphanDeleting"
      BY <1>1, <3>1, <3>2, NestMoves DEF PCs, Ops
    <3> QED BY <1>5, <2>1, <2>2, <3>3
  <2>4. CASE Goto(t, [Top(t) EXCEPT !.pc = "resources"])
    <3>1. PICK f : Moves(t, f) /\ f.pc = "resources"
      BY <1>1, <2>4, GotoMoves DEF PCs, Waiting
    <3> QED BY <1>5, <2>1, <2>2, <3>1
  <2> QED BY <1>8, <2>3, <2>4 DEF DestroyOrphans
<1>9. CASE DestroyResources(t)
  <2>1. /\ Top(t).op = "delete" /\ Top(t).pc = "resources"
        /\ UNCHANGED <<registry, lock, used, deleted>>
    BY <1>9 DEF DestroyResources, DeleteStep, Running
  <2>2. CASE Goto(t, Going(Top(t), "cleanup", blue[b].deployed))
    <3>1. blue[b].deployed \in SUBSET Blueprint
      BY <1>3, <2>1, ChildrenType
    <3>2. PICK f : Moves(t, f) /\ f.pc = "cleanup"
      BY <1>1, <2>2, <3>1, ListMoves DEF PCs, Waiting
    <3> QED BY <1>5, <1>6, <2>1, <3>2 DEF Emptied
  <2>3. CASE \E err \in {"error", "unauthorized"} : Raise(t, err)
    <3>1. PICK f : Moves(t, f) /\ f.pc = "failed"
      BY <1>1, <2>3, RaiseMoves DEF Returns
    <3> QED BY <1>5, <2>1, <3>1 DEF Emptied
  <2> QED BY <1>2, <1>9, <2>2, <2>3 DEF DestroyResources, Going
<1>10. CASE FinalCleanup(t)
  <2>1. /\ Top(t).op = "delete" /\ Top(t).pc = "cleanup"
        /\ UNCHANGED <<lock, used, deleted>>
    BY <1>10 DEF FinalCleanup, DeleteStep, Running
  <2>2. CASE /\ \E c \in Top(t).todo :
                   Nest(t, [Top(t) EXCEPT !.todo = @ \ {c}], "leftoverDeleting", c, "delete")
             /\ UNCHANGED registry
    <3>1. PICK c \in Top(t).todo :
             Nest(t, Listing(Top(t), Top(t).todo \ {c}), "leftoverDeleting", c, "delete")
      BY <1>3, <2>2 DEF FrameType, Listing
    <3>2. c \in Blueprint /\ Top(t).todo \ {c} \in SUBSET Blueprint
      BY <1>3
    <3>3. PICK f : Moves(t, f) /\ f.pc = "leftoverDeleting"
      BY <1>1, <3>1, <3>2, NestMoves DEF PCs, Ops
    <3> QED BY <1>5, <1>6, <2>1, <2>2, <3>3 DEF Emptied
  <2>3. CASE /\ Goto(t, [Top(t) EXCEPT !.pc = "pop"])
             /\ Save(b, [blue[b] EXCEPT !.deployed = {}])
    <3>1. PICK f : Moves(t, f) /\ f.pc = "pop"
      BY <1>1, <2>3, GotoMoves DEF PCs, Waiting
    <3> DEFINE r == [blue[b] EXCEPT !.deployed = {}]
    <3>2. r.children \subseteq r.deployed
      BY <1>3, <1>6, <2>1, ChildrenType DEF BlueType, Emptied
    <3>3. SaveThen(b, r, r)
      BY <2>3 DEF Save
    <3> HIDE DEF r
    <3>4. Elsewhere({b}) /\ Recorded' /\ Listed' /\ b \in blueprint_dict'
      BY <1>3, <2>1, <3>2, <3>3, SaveElsewhere
    <3>5. Held(f)' /\ Holds(f) /\ f.blue = b
      BY <1>2, <2>1, <3>1, <3>4 DEF Held, Holds, Moves, Emptied
    <3> QED BY <1>1, <3>1, <3>4, <3>5, LocalMove
  <2> QED BY <1>2, <1>10, <2>2, <2>3 DEF FinalCleanup
<1>11. CASE PopBlueprint(t)
  <2>1. /\ Top(t).op = "delete" /\ Goto(t, [Top(t) EXCEPT !.pc = "erase"])
        /\ blueprint_dict' = blueprint_dict \ {b}
        /\ UNCHANGED <<blue, docs, saved, lock, used, deleted>>
    BY <1>2, <1>11 DEF PopBlueprint, DeleteStep, Running
  <2>2. PICK f : Moves(t, f) /\ f.pc = "erase"
    BY <1>1, <2>1, GotoMoves DEF PCs, Waiting
  <2>3. Elsewhere({b}) /\ Recorded' /\ Listed'
    BY <2>1 DEF Elsewhere, Local, Recorded, Listed
  <2>4. Held(f)' /\ Holds(f) /\ f.blue = b
    BY <1>2, <2>1, <2>2 DEF Held, Holds, Moves, Emptied
  <2> QED BY <1>1, <2>2, <2>3, <2>4, LocalMove
<1>12. CASE EraseBlueprint(t)
  <2>1. /\ Top(t).op = "delete" /\ Return(t, "ok") /\ Release(b)
        /\ docs' = docs \ {b} /\ saved' = [saved EXCEPT ![b] = NewBlue(NoBlue)]
        /\ deleted' = deleted \cup {b} /\ UNCHANGED <<blueprint_dict, blue, used>>
    BY <1>2, <1>12 DEF EraseBlueprint, DeleteStep, Running
  <2>2. \A a \in Blueprint \ {b} : lock'[a] = lock[a]
    BY <2>1 DEF Release, IInv, Locks
  <2>3. Elsewhere({b}) /\ Recorded' /\ Listed'
    BY <2>1, <2>2 DEF Elsewhere, Local, Recorded, Listed, IInv, Data
  <2>4. Resting(b)'
    BY <2>1 DEF Resting, Durable
  <2> QED BY <1>1, <1>2, <1>3, <2>1, <2>3, <2>4, LocalLeave DEF Returns
<1>13. CASE DeleteRaises(t)
  <2>1. /\ Top(t).op = "delete" /\ Top(t).pc = "failed" /\ UNCHANGED <<used, deleted>>
    BY <1>13 DEF DeleteRaises, DeleteStep, Running
  <2>2. CASE Goto(t, Retrying(Top(t), "pop")) /\ UNCHANGED <<registry, lock>>
    <3>1. PICK f : Moves(t, f) /\ f.pc = "pop"
      BY <1>1, <2>2, RetryMoves DEF PCs, Waiting
    <3> QED BY <1>5, <2>1, <2>2, <3>1 DEF Emptied
  <2>3. CASE Release(b)
    <3>1. \A a \in Blueprint \ {b} : lock'[a] = lock[a]
      BY <2>3 DEF Release, IInv, Locks
    <3>2. CASE SetStatus(b, ErrorState) /\ Return(t, Top(t).ret)
      BY <1>1, <1>2, <1>3, <2>1, <2>3, <3>1, <3>2, SetIdle, LocalLeave
    <3>3. CASE b \notin blueprint_dict /\ Return(t, "error") /\ UNCHANGED registry
      <4>1. Resting(b)
        BY <1>2, <1>3, <1>4, <2>1, <3>3 DEF Held, Resting, Durable, Local, Recorded
      <4>2. Resting(b)'
        BY <2>1, <3>3, <4>1 DEF Resting, Durable, registry
      <4>3. Elsewhere({b}) /\ Recorded' /\ Listed'
        BY <2>1, <3>1, <3>3, SameElsewhere
      <4> QED BY <1>1, <1>2, <1>3, <2>1, <2>3, <3>3, <4>2, <4>3, LocalLeave DEF Returns
    <3> QED BY <1>2, <1>13, <2>2, <2>3, <3>2, <3>3 DEF DeleteRaises, Retrying
  <2> QED BY <1>2, <1>13, <2>2, <2>3 DEF DeleteRaises, Retrying
<1>14. CASE ApplyProtect(t)
  <2>1. /\ Top(t).op = "protect" /\ Return(t, "ok") /\ UNCHANGED <<lock, used, deleted>>
        /\ Save(b, [blue[b] EXCEPT !.protected = Top(t).flag])
    BY <1>2, <1>14 DEF ApplyProtect, Running
  <2> DEFINE r == [blue[b] EXCEPT !.protected = Top(t).flag]
  <2>2. /\ r.children = blue[b].children /\ r.deployed = blue[b].deployed
        /\ r.status = blue[b].status
    BY <1>3, <2>1, ChildrenType DEF BlueType
  <2>3. SaveThen(b, r, r)
    BY <2>1 DEF Save
  <2> HIDE DEF r
  <2>4. /\ Elsewhere({b}) /\ Recorded' /\ Listed' /\ blue'[b] = r /\ saved'[b] = r
        /\ b \in blueprint_dict' /\ b \in docs'
    BY <1>3, <2>1, <2>2, <2>3, SaveElsewhere DEF Local, Listed
  <2>5. HoldersKept({})
    BY <1>1, <2>1, ReturnHolders DEF Returns
  <2>6. Resting(b) => Resting(b)'
    BY <2>1, <2>2, <2>4 DEF Resting, Durable
  <2>7. ASSUME NEW u \in Thread, NEW i \in 1..Len(stack'[u]),
               Holds(stack'[u][i]), stack'[u][i].blue = b
        PROVE  Held(stack[u][i])'
    <3>1. i \in 1..Len(stack[u]) /\ Kept(stack'[u][i], stack[u][i]) /\ Holds(stack[u][i])
      BY <2>5, <2>7 DEF HoldersKept, Kept, Holds
    <3>2. Held(stack[u][i])
      BY <1>3, <2>1, <2>7, <3>1 DEF Local, At, Kept
    <3> QED BY <2>2, <2>4, <2>6, <2>7, <3>1, <3>2 DEF Held, Kept
  <2>8. At(b)'
    BY <1>3, <2>1, <2>6, <2>7 DEF At, Local
  <2> QED BY <2>4, <2>5, <2>8, LocalOf DEF HoldersKept
<1>15. CASE DeleteNext(t)
  <2>1. Top(t).op = "deleteAll" /\ UNCHANGED <<registry, lock, used, deleted>>
    BY <1>15 DEF DeleteNext, Running
  <2>2. CASE \E c \in Top(t).todo :
                Nest(t, [Top(t) EXCEPT !.todo = @ \ {c}], "next", c, "delete")
    <3>1. PICK c \in Top(t).todo :
             Nest(t, Listing(Top(t), Top(t).todo \ {c}), "next", c, "delete")
      BY <1>3, <2>2 DEF FrameType, Listing
    <3>2. c \in Blueprint /\ Top(t).todo \ {c} \in SUBSET Blueprint
      BY <1>3
    <3>3. PICK f : Moves(t, f)
      BY <1>1, <3>1, <3>2, NestMoves DEF PCs, Ops
    <3>4. ~Holds(f)
      BY <2>1, <3>3 DEF Moves, Holds, Codes
    <3> QED BY <1>1, <2>1, <3>3, <3>4, MovesTop, LocalOther
  <2>3. CASE Return(t, "ok")
    BY <1>1, <2>1, <2>3, ReturnHolders, LocalOther DEF Returns
  <2> QED BY <1>15, <2>2, <2>3 DEF DeleteNext
<1> QED
  BY <1>7, <1>8, <1>9, <1>10, <1>11, <1>12, <1>13, <1>14, <1>15 DEF DestroyStep

\* A restart reloads what the documents say: Durable is all that survives.
LEMMA LocalRestart ==
    ASSUME IInv, IInv', Local, Restart
    PROVE  Local'
<1>1. \A t \in Thread : stack'[t] = <<>>
  BY DEF Restart
<1>2. Recorded' /\ Listed'
  BY DEF Restart, Recorded, Listed, Local
<1>3. ASSUME NEW b \in Blueprint PROVE At(b)'
  <2>1. Resting(b)'
    BY DEF Restart, Resting, Durable
  <2> QED BY <1>1, <2>1 DEF At
<1> QED
  BY <1>2, <1>3 DEF Local

\* What a step does to one blueprint keeps the account of every blueprint.
LEMMA LocalInductive == IInv /\ Local /\ [Next]_vars => Local'
<1> SUFFICES ASSUME IInv, Local, [Next]_vars PROVE Local'
  OBVIOUS
<1>1. IInv'
  BY Inductive
<1>2. ASSUME NEW t \in Thread, ThreadStep(t) PROVE Local'
  BY <1>1, <1>2, LocalUserStep, LocalEnterStep, LocalCodeStep, LocalCodeExit,
     LocalReturnStep, LocalDestroyStep DEF ThreadStep
<1>3. CASE Restart
  BY <1>1, <1>3, LocalRestart
<1>4. CASE UNCHANGED vars
  BY <1>4 DEF vars, Local, Recorded, Listed, At, Held, Resting, Durable
<1> QED
  BY <1>2, <1>3, <1>4 DEF Next

\* Nothing is created at first.
LEMMA LocalInit == Init => Local
BY DEF Init, Local, Recorded, Listed, At, NewBlue
-----------------------------------------------------------------------------
\* Whatever is in progress elsewhere, when no operation runs on a blueprint a restart
\* loads it exactly when it is in memory, and as it is in memory.
THEOREM DurableMemory == Spec => []MemoryIsDurable
<1>1. IInv /\ Local => MemoryIsDurable
  BY DEF IInv, Data, Local, At, Resting, Durable, MemoryIsDurable
<1> QED
  BY <1>1, Initially, Inductive, LocalInit, LocalInductive, PTL DEF Spec

\* Without restarts no blueprint keeps a transient status when no operation runs on
\* it, whatever failed.
THEOREM AllSettle ==
    ASSUME ~CanRestart
    PROVE  Spec => []Settled
<1>1. IInv /\ Local => Settled
  BY DEF IInv, Data, Local, At, Resting, Settled
<1> QED
  BY <1>1, Initially, Inductive, LocalInit, LocalInductive, PTL DEF Spec
-----------------------------------------------------------------------------
(***************************************************************************)
(* What blueprints have to do with each other.  Kin, below, is that the    *)
(* lists of a blueprint name its children only; with Tree (an operation    *)
(* calls operations on children of its blueprint only) locks are taken     *)
(* downwards, LockOrder, and ChildrenRecorded holds.  With Grove (a        *)
(* deletion past its children has none left) NoOrphans and                 *)
(* DeletedStaysDeleted hold, and the dictionary implements BlueprintForest.*)
(* The theorems about Grove have hypotheses on the operations in use       *)
(* (Guarded, Orderly): without them the code does not keep the property.   *)
(***************************************************************************)
\* A blueprint that a thread can still reach; a restart forgets the others.
Alive(c) ==
    \/ c \in blueprint_dict \cup docs
    \/ \E t \in Thread : \E i \in 1..Len(stack[t]) : stack[t][i].blue = c
\* c was created by b; of one that a restart forgot nothing is known any more.
ChildOf(c, b) == c \in used /\ (blue[c].parent = b \/ (CanRestart /\ ~Alive(c)))

\* The lists of the data of a blueprint.
ListsOf(r) == r.children \cup r.deployed
\* The lists of a blueprint, in memory and in its document, name its children only.
Kin ==
    \A b \in Blueprint : \A c \in ListsOf(blue[b]) \cup ListsOf(saved[b]) : ChildOf(c, b)
\* Document and memory agree on the parent.
DocParents == \A c \in docs : saved[c].parent = blue[c].parent
\* What frame f still has to destroy, and waits for, are children of its blueprint.
KinFrame(f) ==
    /\ f.pc \in Waiting \cup {"failed"} \/ f.ret = "none"
    /\ f.op = "deleteAll" \/ \A c \in f.todo \cup ({f.child} \ {NoBlue}) : ChildOf(c, f.blue)
\* The operation that a frame waits for.
Callee(pc) == IF pc = "creating" THEN "create" ELSE IF pc = "calling" THEN "call" ELSE "delete"
\* g runs a method that f called: on a child, unless f is delete_all_blueprints.
Linked(f, g) ==
    /\ f.pc \in Waiting /\ f.ret = "none" /\ f.child = g.blue
    /\ g.op = Callee(f.pc)
    /\ f.op = "deleteAll" \/ blue[g.blue].parent = f.blue
\* Every frame is so.
FrameKin == \A t \in Thread : \A i \in 1..Len(stack[t]) : KinFrame(stack[t][i])
\* And every frame but the first of a thread was called by the one below it.
Links == \A t \in Thread : \A i \in 2..Len(stack[t]) : Linked(stack[t][i-1], stack[t][i])
\* The inductive invariant of the nesting: calls go from parents to children.
Tree == Kin /\ DocParents /\ FrameKin /\ Links

\* No blueprint changes parent, and none that is forgotten comes back.
Steady ==
    /\ used \subseteq used'
    /\ \A c \in used : blue'[c].parent = blue[c].parent /\ (Alive(c)' => Alive(c))
\* What a step may do to the data so that Tree holds after it.
KinStep ==
    /\ used' = used
    /\ \A c \in Blueprint : blue'[c].parent = blue[c].parent
    /\ \A c \in blueprint_dict' \cup docs' : Alive(c)
    /\ \A b \in Blueprint : \A c \in ListsOf(blue'[b]) \cup ListsOf(saved'[b]) : ChildOf(c, b)
    /\ \A c \in docs' : saved'[c].parent = blue[c].parent
\* What the frames are after such a step, in terms of the data before it.
StackStep ==
    \A t \in Thread : \A i \in 1..Len(stack'[t]) :
        /\ stack'[t][i].blue = NoBlue \/ Alive(stack'[t][i].blue)
        /\ KinFrame(stack'[t][i])
        /\ i > 1 => Linked(stack'[t][i-1], stack'[t][i])

\* A steady step keeps children children.
LEMMA SteadyChild ==
    ASSUME Steady, NEW c, NEW b, ChildOf(c, b)
    PROVE  ChildOf(c, b)'
BY DEF Steady, ChildOf

\* And so what is said of a frame.
LEMMA SteadyFrame ==
    ASSUME Steady, NEW f, KinFrame(f)
    PROVE  KinFrame(f)'
<1>1. \A c \in f.todo \cup ({f.child} \ {NoBlue}) : ChildOf(c, f.blue) => ChildOf(c, f.blue)'
  BY SteadyChild
<1> QED
  BY <1>1 DEF KinFrame

\* And of a call.
LEMMA SteadyLink ==
    ASSUME Steady, NEW f, NEW g, Linked(f, g), g.blue \in used
    PROVE  Linked(f, g)'
BY DEF Steady, Linked

\* The callee of a link is not delete_all_blueprints, and runs on a used identifier.
LEMMA LinkedUsed ==
    ASSUME IInv, NEW t \in Thread, NEW i \in 1..Len(stack[t]), NEW f, Linked(f, stack[t][i])
    PROVE  stack[t][i].blue \in used
<1>1. stack[t][i].op # "deleteAll"
  BY DEF Linked, Callee
<1> QED
  BY <1>1 DEF IInv, Discipline, FramesUsed

\* Tree holds after a steady step whose lists and documents are right.
LEMMA TreeSteady ==
    ASSUME IInv, Tree, Steady, FrameKin', Links',
           \A b \in Blueprint : \A c \in ListsOf(blue'[b]) \cup ListsOf(saved'[b]) : ChildOf(c, b),
           \A c \in docs' : saved'[c].parent = blue'[c].parent
    PROVE  Tree'
<1>1. Kin'
  <2> SUFFICES ASSUME NEW b \in Blueprint, NEW c \in ListsOf(blue'[b]) \cup ListsOf(saved'[b])
               PROVE  ChildOf(c, b)'
    BY DEF Kin, ListsOf
  <2>1. ChildOf(c, b)
    OBVIOUS
  <2> QED BY <2>1, SteadyChild
<1>2. DocParents'
  BY DEF DocParents
<1> QED
  BY <1>1, <1>2 DEF Tree

\* A step that is right for the data and for the frames keeps Tree.
LEMMA TreeOf ==
    ASSUME IInv, IInv', Tree, KinStep, StackStep
    PROVE  Tree'
<1>1. Steady
  <2>1. ASSUME NEW c \in used, Alive(c)' PROVE Alive(c)
    <3>1. c # NoBlue
      BY LifecycleAssumption DEF IInv, Data
    <3> QED BY <2>1, <3>1 DEF Alive, KinStep, StackStep
  <2> QED BY <2>1 DEF Steady, KinStep, IInv, Data
<1>2. FrameKin'
  <2> SUFFICES ASSUME NEW t \in Thread, NEW i \in 1..Len(stack'[t])
               PROVE  KinFrame(stack[t][i])'
    BY DEF FrameKin
  <2>1. PICK f : f = stack'[t][i]
    OBVIOUS
  <2>2. KinFrame(f)'
    BY <1>1, <2>1, SteadyFrame DEF StackStep
  <2> QED BY <2>1, <2>2 DEF KinFrame
<1>3. Links'
  <2> SUFFICES ASSUME NEW t \in Thread, NEW i \in 2..Len(stack'[t])
               PROVE  Linked(stack[t][i-1], stack[t][i])'
    BY DEF Links
  <2>1. i \in 1..Len(stack'[t]) /\ i > 1
    BY DEF IInv, Stacks
  <2>2. PICK f, g : f = stack'[t][i-1] /\ g = stack'[t][i]
    OBVIOUS
  <2>3. Linked(f, g)
    BY <2>1, <2>2 DEF StackStep
  <2>4. g.blue \in used'
    <3>1. g.op # "deleteAll"
      BY <2>3 DEF Linked, Callee
    <3> QED BY <2>1, <2>2, <3>1 DEF IInv, Discipline, FramesUsed
  <2>5. Linked(f, g)'
    BY <1>1, <2>3, <2>4, SteadyLink DEF KinStep
  <2> QED BY <2>2, <2>5 DEF Linked
<1>4. \A c \in docs' : saved'[c].parent = blue'[c].parent
  BY DEF KinStep, IInv, Data
<1> QED
  BY <1>1, <1>2, <1>3, <1>4, TreeSteady DEF KinStep
-----------------------------------------------------------------------------
\* The effect on the registry of a step that changes nothing in it, saves one
\* blueprint, or removes one.
LEMMA SameKin ==
    ASSUME IInv, Tree, UNCHANGED <<registry, used>>
    PROVE  KinStep
BY DEF Tree, Kin, DocParents, KinStep, registry, Alive

\* One blueprint is saved: the new lists name its children.
LEMMA SaveKin ==
    ASSUME IInv, Tree, NEW b \in Blueprint, NEW w, NEW r, SaveThen(b, w, r), used' = used,
           Alive(b), w.parent = blue[b].parent, r.parent = blue[b].parent,
           \A c \in ListsOf(w) \cup ListsOf(r) : ChildOf(c, b)
    PROVE  KinStep
<1>1. /\ blue'[b] = r /\ saved'[b] = w
      /\ \A a \in Blueprint \ {b} : blue'[a] = blue[a] /\ saved'[a] = saved[a]
      /\ blueprint_dict' = blueprint_dict \cup {b} /\ docs' = docs \cup {b}
  BY DEF SaveThen, IInv, Data
<1>2. \A c \in blueprint_dict' \cup docs' : Alive(c)
  BY <1>1 DEF Alive
<1>3. \A a \in Blueprint : \A c \in ListsOf(blue'[a]) \cup ListsOf(saved'[a]) : ChildOf(c, a)
  BY <1>1 DEF Tree, Kin
<1>4. \A c \in docs' : c \in Blueprint /\ saved'[c].parent = blue[c].parent
  BY <1>1 DEF Tree, DocParents, IInv, Data
<1> QED
  BY <1>1, <1>2, <1>3, <1>4 DEF KinStep

\* Its status only is changed.
LEMMA StatusKin ==
    ASSUME IInv, Tree, NEW b \in Blueprint, NEW s, SetStatus(b, s), used' = used, Alive(b)
    PROVE  KinStep
<1> DEFINE r == [blue[b] EXCEPT !.status = s]
<1>1. r.parent = blue[b].parent /\ ListsOf(r) = ListsOf(blue[b])
  BY ChildrenType DEF BlueType, ListsOf
<1>2. SaveThen(b, r, r)
  BY DEF SetStatus, Save
<1> HIDE DEF r
<1> QED
  BY <1>1, <1>2, SaveKin DEF Tree, Kin

\* The frames of a stack whose running frame moved on, or whose method returned.
LEMMA OldFrames ==
    ASSUME IInv, Tree, NEW t \in Thread, NEW i \in 1..Len(stack[t])
    PROVE  /\ Alive(stack[t][i].blue) /\ KinFrame(stack[t][i])
           /\ i > 1 => Linked(stack[t][i-1], stack[t][i])
<1>1. i > 1 => i \in 2..Len(stack[t])
  BY DEF IInv, Stacks
<1> QED
  BY <1>1 DEF Tree, Alive, FrameKin, Links

\* The frames a step leaves on the stacks: no frame moves.
LEMMA StackSame ==
    ASSUME IInv, Tree, stack' = stack
    PROVE  StackStep
BY OldFrames DEF StackStep

\* The running frame moves to f.
LEMMA StackGoto ==
    ASSUME IInv, Tree, NEW t \in Thread, stack[t] # <<>>, NEW f, Moves(t, f), Goto(t, f),
           KinFrame(f)
    PROVE  StackStep
<1> DEFINE n == Len(stack[t])
<1>1. /\ n \in Nat \ {0} /\ Len(stack'[t]) = n /\ stack'[t][n] = f
      /\ \A i \in 1..n - 1 : stack'[t][i] = stack[t][i]
      /\ \A u \in Thread \ {t} : stack'[u] = stack[u]
  BY TopType, GotoType DEF Moves, IInv
<1>2. SUFFICES ASSUME NEW u \in Thread, NEW i \in 1..Len(stack'[u])
               PROVE  /\ stack'[u][i].blue = NoBlue \/ Alive(stack'[u][i].blue)
                      /\ KinFrame(stack'[u][i])
                      /\ i > 1 => Linked(stack'[u][i-1], stack'[u][i])
  BY DEF StackStep
<1>3. CASE u # t
  BY <1>1, <1>3, OldFrames
<1>4. CASE u = t
  <2>1. i \in 1..n /\ (i = n \/ i \in 1..n - 1) /\ (i > 1 => i - 1 \in 1..n - 1)
    BY <1>1, <1>4
  <2>2. /\ Alive(stack[t][i].blue) /\ KinFrame(stack[t][i])
        /\ i > 1 => Linked(stack[t][i-1], stack[t][i])
    BY <2>1, OldFrames
  <2>3. CASE i \in 1..n - 1
    BY <1>1, <1>4, <2>1, <2>2, <2>3
  <2>4. CASE i = n
    <3>1. f.blue = stack[t][n].blue /\ f.op = stack[t][n].op
      BY DEF Moves, Top
    <3>2. i > 1 => Linked(stack[t][i-1], f)
      BY <2>2, <2>4, <3>1 DEF Linked
    <3> QED BY <1>1, <1>4, <2>1, <2>2, <2>4, <3>1, <3>2
  <2> QED BY <2>1, <2>3, <2>4
<1> QED
  BY <1>3, <1>4

\* It moves to f and calls g.
LEMMA StackPush ==
    ASSUME IInv, Tree, NEW t \in Thread, stack[t] # <<>>, NEW f, NEW g \in FrameType,
           Moves(t, f), Push(t, f, g), KinFrame(f), KinFrame(g), Linked(f, g), Alive(g.blue)
    PROVE  StackStep
<1> DEFINE n == Len(stack[t])
<1>1. /\ n \in Nat \ {0} /\ Len(stack'[t]) = n + 1 /\ stack'[t][n] = f /\ stack'[t][n + 1] = g
      /\ \A i \in 1..n - 1 : stack'[t][i] = stack[t][i]
      /\ \A u \in Thread \ {t} : stack'[u] = stack[u]
  BY TopType, PushType DEF Moves, IInv
<1>2. SUFFICES ASSUME NEW u \in Thread, NEW i \in 1..Len(stack'[u])
               PROVE  /\ stack'[u][i].blue = NoBlue \/ Alive(stack'[u][i].blue)
                      /\ KinFrame(stack'[u][i])
                      /\ i > 1 => Linked(stack'[u][i-1], stack'[u][i])
  BY DEF StackStep
<1>3. CASE u # t
  BY <1>1, <1>3, OldFrames
<1>4. CASE u = t /\ i = n + 1
  BY <1>1, <1>4
<1>5. CASE u = t /\ i # n + 1
  <2>1. i \in 1..n /\ (i = n \/ i \in 1..n - 1) /\ (i > 1 => i - 1 \in 1..n - 1)
    BY <1>1, <1>5
  <2>2. /\ Alive(stack[t][i].blue) /\ KinFrame(stack[t][i])
        /\ i > 1 => Linked(stack[t][i-1], stack[t][i])
    BY <2>1, OldFrames
  <2>3. CASE i \in 1..n - 1
    BY <1>1, <1>5, <2>1, <2>2, <2>3
  <2>4. CASE i = n
    <3>1. f.blue = stack[t][n].blue /\ f.op = stack[t][n].op
      BY DEF Moves, Top
    <3>2. i > 1 => Linked(stack[t][i-1], f)
      BY <2>2, <2>4, <3>1 DEF Linked
    <3> QED BY <1>1, <1>5, <2>1, <2>2, <2>4, <3>1, <3>2
  <2> QED BY <2>1, <2>3, <2>4
<1> QED
  BY <1>3, <1>4, <1>5

\* What the frames that stay know after a return: the caller learns how it ended.
LEMMA ReturnFrames ==
    ASSUME IInv, NEW t \in Thread, NEW ret \in Returns, stack[t] # <<>>, Return(t, ret)
    PROVE  /\ Len(stack'[t]) = Len(stack[t]) - 1
           /\ \A i \in 1..Len(stack[t]) - 2 : stack'[t][i] = stack[t][i]
           /\ Len(stack[t]) > 1 =>
                LET f == stack[t][Len(stack[t]) - 1]
                    g == stack'[t][Len(stack[t]) - 1]
                IN  /\ g.op = f.op /\ g.blue = f.blue /\ g.pc = f.pc /\ g.child = f.child
                    /\ g.todo = f.todo /\ g.flag = f.flag /\ g.ret = ret
           /\ \A u \in Thread \ {t} : stack'[u] = stack[u]
<1> DEFINE n == Len(stack[t])
           Told(i) == IF i = n - 1 THEN [stack[t][i] EXCEPT !.ret = ret] ELSE stack[t][i]
           s == [i \in 1..n - 1 |-> Told(i)]
<1>1. n \in Nat \ {0} /\ \A i \in 1..n - 1 : stack[t][i] \in FrameType
  BY TopType DEF IInv
<1>2. stack' = [stack EXCEPT ![t] = s]
  BY DEF Return
<1>3. \A i \in 1..n - 1 : Told(i) \in FrameType
  BY <1>1 DEF FrameType
<1>4. n > 1 => LET f == stack[t][n - 1]
                   g == Told(n - 1)
               IN  /\ g.op = f.op /\ g.blue = f.blue /\ g.pc = f.pc /\ g.child = f.child
                   /\ g.todo = f.todo /\ g.flag = f.flag /\ g.ret = ret
  <2>1. n > 1 => n - 1 \in 1..n - 1
    BY <1>1
  <2>2. n > 1 => stack[t][n - 1] \in FrameType
    BY <1>1, <2>1
  <2> QED BY <2>2 DEF FrameType
<1>5. \A i \in 1..n - 2 : Told(i) = stack[t][i]
  BY <1>1
<1> HIDE DEF Told
<1>6. s \in Seq(FrameType) /\ Len(s) = n - 1 /\ \A i \in 1..n - 1 : s[i] = Told(i)
  BY <1>1, <1>3
<1>7. stack'[t] = s /\ \A u \in Thread \ {t} : stack'[u] = stack[u]
  BY <1>2 DEF IInv, Stacks
<1> HIDE DEF s, n
<1>8. Len(stack'[t]) = n - 1 /\ \A i \in 1..n - 1 : stack'[t][i] = Told(i)
  BY <1>6, <1>7
<1>9. (n > 1 => n - 1 \in 1..n - 1) /\ \A i \in 1..n - 2 : i \in 1..n - 1
  BY <1>1
<1> QED
  BY <1>4, <1>5, <1>7, <1>8, <1>9 DEF n

\* The running frame returns.
LEMMA StackReturn ==
    ASSUME IInv, Tree, NEW t \in Thread, stack[t] # <<>>, NEW ret \in Returns, Return(t, ret)
    PROVE  StackStep
<1> DEFINE n == Len(stack[t])
<1>1. n \in Nat \ {0}
  BY TopType DEF IInv
<1>2. SUFFICES ASSUME NEW u \in Thread, NEW i \in 1..Len(stack'[u])
               PROVE  /\ stack'[u][i].blue = NoBlue \/ Alive(stack'[u][i].blue)
                      /\ KinFrame(stack'[u][i])
                      /\ i > 1 => Linked(stack'[u][i-1], stack'[u][i])
  BY DEF StackStep
<1>3. CASE u # t
  BY <1>3, OldFrames, ReturnFrames
<1>4. CASE u = t
  <2>1. i \in 1..n - 1 /\ i \in 1..n /\ (i = n - 1 \/ i \in 1..n - 2)
        /\ (i > 1 => i - 1 \in 1..n - 2)
    BY <1>1, <1>4, ReturnFrames
  <2>2. /\ Alive(stack[t][i].blue) /\ KinFrame(stack[t][i])
        /\ i > 1 => Linked(stack[t][i-1], stack[t][i])
    BY <2>1, OldFrames
  <2>3. CASE i \in 1..n - 2
    BY <1>4, <2>1, <2>2, <2>3, ReturnFrames
  <2>4. CASE i = n - 1
    <3>1. n \in 1..n /\ n > 1
      BY <1>1, <2>1, <2>4
    <3>2. Linked(stack[t][n-1], stack[t][n])
      BY <3>1, OldFrames
    <3>3. PICK f, g : f = stack[t][i] /\ g = stack'[t][i]
      OBVIOUS
    <3>4. /\ g.op = f.op /\ g.blue = f.blue /\ g.pc = f.pc /\ g.child = f.child
          /\ g.todo = f.todo
      BY <2>4, <3>1, <3>3, ReturnFrames
    <3>5. KinFrame(g)
      BY <2>2, <2>4, <3>2, <3>3, <3>4 DEF KinFrame, Linked
    <3>6. i > 1 => Linked(stack[t][i-1], g)
      BY <2>2, <3>3, <3>4 DEF Linked
    <3>7. i > 1 => stack'[t][i-1] = stack[t][i-1]
      BY <2>1, ReturnFrames
    <3> QED BY <1>4, <2>2, <3>3, <3>4, <3>5, <3>6, <3>7
  <2> QED BY <2>1, <2>3, <2>4
<1> QED
  BY <1>3, <1>4

\* An idle thread starts g.
LEMMA StackStart ==
    ASSUME IInv, Tree, NEW t \in Thread, NEW g \in FrameType, stack[t] = <<>>,
           stack' = [stack EXCEPT ![t] = <<g>>], KinFrame(g), g.blue = NoBlue \/ Alive(g.blue)
    PROVE  StackStep
<1>1. stack'[t] = <<g>> /\ \A u \in Thread \ {t} : stack'[u] = stack[u]
  BY DEF IInv, Stacks
<1>2. Len(stack'[t]) = 1 /\ stack'[t][1] = g /\ \A i \in 1..1 : i = 1
  BY <1>1
<1>3. \A u \in Thread \ {t} : \A i \in 1..Len(stack'[u]) :
        /\ Alive(stack'[u][i].blue) /\ KinFrame(stack'[u][i])
        /\ i > 1 => Linked(stack'[u][i-1], stack'[u][i])
  BY <1>1, OldFrames
<1> QED
  BY <1>2, <1>3 DEF StackStep
-----------------------------------------------------------------------------
\* The creation of a blueprint: its identifier was never used.
LEMMA CreateSteady ==
    ASSUME IInv, Tree, NEW t \in Thread, NEW c \in Blueprint, NEW p \in Blueprint \cup {NoBlue},
           StartCreate(c, p, t),
           \A u \in Thread : \A i \in 1..Len(stack'[u]) :
              stack'[u][i].blue = c \/ Alive(stack'[u][i].blue)
    PROVE  /\ Steady /\ c \in used' /\ c \notin used /\ blue'[c].parent = p
           /\ \A b \in Blueprint : \A a \in ListsOf(blue'[b]) \cup ListsOf(saved'[b]) :
                 ChildOf(a, b)
           /\ \A a \in docs' : saved'[a].parent = blue'[a].parent
<1>1. /\ blue'[c] = NewBlue(p) /\ saved'[c] = NewBlue(p)
      /\ \A a \in Blueprint \ {c} : blue'[a] = blue[a] /\ saved'[a] = saved[a]
      /\ blueprint_dict' = blueprint_dict \cup {c} /\ docs' = docs \cup {c}
      /\ used' = used \cup {c} /\ c \notin used
  BY DEF StartCreate, Save, SaveThen, IInv, Data
<1>2. ASSUME NEW a \in used, Alive(a)' PROVE Alive(a)
  <2>1. CASE a \in blueprint_dict' \cup docs'
    BY <1>1, <2>1 DEF Alive
  <2>2. ASSUME NEW u \in Thread, NEW i \in 1..Len(stack'[u]), stack'[u][i].blue = a
        PROVE  Alive(a)
    BY <1>1, <2>2
  <2> QED BY <1>2, <2>1, <2>2 DEF Alive
<1>3. Steady
  BY <1>1, <1>2 DEF Steady, IInv, Data
<1>4. ListsOf(NewBlue(p)) = {} /\ NewBlue(p).parent = p
  BY NewBlueFields DEF ListsOf
<1>5. \A a \in docs' : a \in Blueprint /\ saved'[a].parent = blue'[a].parent
  BY <1>1 DEF Tree, DocParents, IInv, Data
<1>6. \A b \in Blueprint : \A a \in ListsOf(blue'[b]) \cup ListsOf(saved'[b]) : ChildOf(a, b)
  BY <1>1, <1>4 DEF Tree, Kin
<1> QED
  BY <1>1, <1>3, <1>4, <1>5, <1>6

\* The frame of a creation, whose lock is taken with the new identifier.
LEMMA NewFrame ==
    ASSUME NEW c \in Blueprint
    PROVE  \E g \in FrameType :
              /\ g = Frame("create", c, "body", FALSE) /\ g.op = "create" /\ g.blue = c
              /\ g.pc = "body" /\ g.child = NoBlue /\ g.todo = {} /\ g.ret = "none"
BY BodyFrame DEF Frame

\* The frames of the other threads and those below the running one, one step later.
LEMMA SteadyFrames ==
    ASSUME IInv, Tree, Steady, NEW t \in Thread, NEW i \in 1..Len(stack[t]),
           stack'[t][i] = stack[t][i]
    PROVE  /\ KinFrame(stack[t][i])'
           /\ i > 1 /\ stack'[t][i-1] = stack[t][i-1] => Linked(stack[t][i-1], stack[t][i])'
<1>1. PICK f, g : f = stack[t][i-1] /\ g = stack[t][i]
  OBVIOUS
<1>2. KinFrame(g) /\ (i > 1 => Linked(f, g))
  BY <1>1, OldFrames
<1>3. KinFrame(g)'
  BY <1>2, SteadyFrame
<1>4. i > 1 => Linked(f, g)'
  BY <1>1, <1>2, SteadyLink, LinkedUsed
<1> QED
  BY <1>1, <1>3, <1>4 DEF KinFrame, Linked

\* The steps of Next, one lemma each: a request of the user starts a thread.
LEMMA TreeUserStep ==
    ASSUME IInv, IInv', Tree, NEW t \in Thread, UserStep(t)
    PROVE  Tree'
<1>1. CASE UserCreate(t)
  <2>1. PICK c \in Blueprint :
           /\ StartCreate(c, NoBlue, t) /\ stack[t] = <<>>
           /\ stack' = [stack EXCEPT ![t] = <<Frame("create", c, "body", FALSE)>>]
    BY <1>1 DEF UserCreate
  <2>2. PICK g \in FrameType :
           /\ g = Frame("create", c, "body", FALSE) /\ g.op = "create" /\ g.blue = c
           /\ g.pc = "body" /\ g.child = NoBlue /\ g.todo = {} /\ g.ret = "none"
    BY NewFrame
  <2>3. stack'[t] = <<g>> /\ \A u \in Thread \ {t} : stack'[u] = stack[u]
    BY <2>1, <2>2 DEF IInv, Stacks
  <2>4. Len(stack'[t]) = 1 /\ stack'[t][1] = g /\ (\A i \in 1..1 : i = 1) /\ 2..1 = {}
    BY <2>3
  <2>5. Steady
        /\ (\A b \in Blueprint : \A a \in ListsOf(blue'[b]) \cup ListsOf(saved'[b]) :
               ChildOf(a, b))
        /\ (\A a \in docs' : saved'[a].parent = blue'[a].parent)
    <3>1. \A u \in Thread : \A i \in 1..Len(stack'[u]) :
             stack'[u][i].blue = c \/ Alive(stack'[u][i].blue)
      BY <2>2, <2>3, <2>4, OldFrames
    <3>2. NoBlue \in Blueprint \cup {NoBlue}
      OBVIOUS
    <3> QED BY <2>1, <3>1, <3>2, CreateSteady
  <2>6. KinFrame(g)'
    BY <2>2 DEF KinFrame
  <2>7. \A u \in Thread \ {t} : \A i \in 1..Len(stack[u]) :
           /\ KinFrame(stack[u][i])'
           /\ i > 1 => Linked(stack[u][i-1], stack[u][i])'
    <3> SUFFICES ASSUME NEW u \in Thread \ {t}, NEW i \in 1..Len(stack[u])
                 PROVE  /\ KinFrame(stack[u][i])'
                        /\ i > 1 => Linked(stack[u][i-1], stack[u][i])'
      OBVIOUS
    <3> QED BY <2>3, <2>5, SteadyFrames
  <2>8. FrameKin'
    BY <2>3, <2>4, <2>6, <2>7 DEF FrameKin, KinFrame
  <2>9. Links'
    <3>1. \A u \in Thread : \A i \in 2..Len(stack[u]) : i \in 1..Len(stack[u]) /\ i > 1
      BY DEF IInv, Stacks
    <3> QED BY <2>3, <2>4, <2>7, <3>1 DEF Links
  <2> QED BY <2>5, <2>8, <2>9, TreeSteady
<1>2. CASE ~UserCreate(t)
  <2>1. PICK g \in FrameType :
           /\ stack' = [stack EXCEPT ![t] = <<g>>] /\ g.child = NoBlue /\ g.ret = "none"
           /\ \/ g.op = "deleteAll" /\ g.blue = NoBlue
              \/ g.todo = {} /\ g.blue \in blueprint_dict
    BY <1>2, UserStarts
  <2>2. stack[t] = <<>> /\ UNCHANGED <<registry, lock, used, deleted>>
    BY <1>2, UserStarts
  <2>3. KinFrame(g) /\ (g.blue = NoBlue \/ Alive(g.blue))
    BY <2>1 DEF KinFrame, Alive
  <2> QED BY <2>1, <2>2, <2>3, StackStart, SameKin, TreeOf
<1> QED
  BY <1>1, <1>2

\* What a thread knows of its running frame.
LEMMA TopKin ==
    ASSUME IInv, Tree, NEW t \in Thread, stack[t] # <<>>
    PROVE  KinFrame(Top(t)) /\ Alive(Top(t).blue)
<1>1. Len(stack[t]) \in 1..Len(stack[t])
  BY TopType DEF IInv
<1> QED
  BY <1>1, OldFrames DEF Top

\* An operation gets the lock it waited for.
LEMMA TreeEnterStep ==
    ASSUME IInv, IInv', Tree, NEW t \in Thread, EnterStep(t)
    PROVE  Tree'
<1>1. /\ stack[t] # <<>> /\ Top(t).pc = "acquire" /\ Top(t).op \in Codes \cup {"delete"}
      /\ used' = used
  BY DEF EnterStep, EnterUpdate, EnterCode, EnterDelete, CanAcquire, Running, Codes
<1>2. /\ Top(t).blue \in Blueprint /\ KinFrame(Top(t)) /\ Alive(Top(t).blue)
      /\ Top(t).ret = "none"
  BY <1>1, RunningFrame, TopKin DEF Codes, KinFrame, Waiting
<1>3. UNCHANGED registry \/ \E s : SetStatus(Top(t).blue, s)
  BY DEF EnterStep, EnterUpdate, EnterCode, EnterDelete
<1>4. KinStep
  BY <1>1, <1>2, <1>3, SameKin, StatusKin
<1>5. \/ Return(t, "error")
      \/ \E pc \in {"body", "children"} : Goto(t, [Top(t) EXCEPT !.pc = pc])
      \/ \E ret \in Returns : Raise(t, ret)
  BY DEF EnterStep, EnterUpdate, EnterCode, EnterDelete, Returns
<1>6. StackStep
  <2>1. CASE Return(t, "error")
    BY <1>1, <2>1, StackReturn DEF Returns
  <2>2. CASE \E pc \in {"body", "children"} : Goto(t, [Top(t) EXCEPT !.pc = pc])
    <3>1. PICK pc \in {"body", "children"} : Goto(t, [Top(t) EXCEPT !.pc = pc])
      BY <2>2
    <3>2. pc \in PCs \ Waiting
      BY DEF PCs, Waiting
    <3>3. PICK f : /\ Moves(t, f) /\ Goto(t, f) /\ f.child = Top(t).child
                   /\ f.todo = Top(t).todo /\ f.ret = Top(t).ret
      BY <1>1, <3>1, <3>2, GotoMoves
    <3>4. KinFrame(f)
      BY <1>2, <3>3 DEF KinFrame, Moves
    <3> QED BY <1>1, <3>3, <3>4, StackGoto
  <2>3. CASE \E ret \in Returns : Raise(t, ret)
    <3>1. PICK f : Moves(t, f) /\ Goto(t, f) /\ f.pc = "failed" /\ f.child = NoBlue /\ f.todo = {}
      BY <1>1, <2>3, RaiseMoves
    <3>2. KinFrame(f)
      BY <3>1 DEF KinFrame
    <3> QED BY <1>1, <3>1, <3>2, StackGoto
  <2> QED BY <1>5, <2>1, <2>2, <2>3
<1> QED
  BY <1>4, <1>6, TreeOf
\* A called method starts by waiting for its lock.
LEMMA CalledFrame ==
    ASSUME NEW c \in Blueprint, NEW op \in Ops
    PROVE  /\ Called(op, c) \in FrameType /\ Called(op, c).op = op /\ Called(op, c).blue = c
           /\ Called(op, c).pc = "acquire" /\ Called(op, c).child = NoBlue
           /\ Called(op, c).todo = {} /\ Called(op, c).ret = "none" /\ ~Called(op, c).flag
BY DEF Called, Frame, FrameType, PCs, Returns, Waiting

\* A nested call on a child of the blueprint, or by delete_all_blueprints.
LEMMA StackNest ==
    ASSUME IInv, Tree, NEW t \in Thread, stack[t] # <<>>, NEW pc \in Waiting,
           NEW c \in Blueprint, NEW op \in Ops, op = Callee(pc), NEW todo \in SUBSET Blueprint,
           Nest(t, Listing(Top(t), todo), pc, c, op), Top(t).pc \notin Waiting \cup {"failed"},
           Top(t).op = "deleteAll" \/ \A x \in todo \cup {c} : ChildOf(x, Top(t).blue)
    PROVE  StackStep
<1>1. pc \in PCs
  BY DEF PCs, Waiting
<1>2. PICK f : /\ Moves(t, f) /\ f.pc = pc /\ f.child = c /\ f.todo = todo
               /\ \/ /\ c \in blueprint_dict /\ f.ret = Top(t).ret
                     /\ Push(t, f, Called(op, c))
                  \/ c \notin blueprint_dict /\ f.ret = "error" /\ Goto(t, f)
  BY <1>1, NestMoves
<1>3. f.op = Top(t).op /\ f.blue = Top(t).blue /\ Top(t).ret = "none"
  BY <1>2, TopKin DEF Moves, KinFrame
<1>4. KinFrame(f)
  BY <1>2, <1>3 DEF KinFrame
<1>5. CASE c \in blueprint_dict /\ f.ret = Top(t).ret /\ Push(t, f, Called(op, c))
  <2>1. PICK g : g = Called(op, c)
    OBVIOUS
  <2>2. /\ g \in FrameType /\ g.op = op /\ g.blue = c /\ g.pc = "acquire"
        /\ g.child = NoBlue /\ g.todo = {} /\ g.ret = "none"
    BY <2>1, CalledFrame
  <2>3. KinFrame(g) /\ Alive(g.blue)
    BY <1>5, <2>2 DEF KinFrame, Alive
  <2>4. Linked(f, g)
    BY <1>2, <1>3, <1>5, <2>2, <2>3 DEF Linked, ChildOf
  <2> QED BY <1>2, <1>4, <1>5, <2>1, <2>2, <2>3, <2>4, StackPush
<1>6. CASE c \notin blueprint_dict /\ f.ret = "error" /\ Goto(t, f)
  BY <1>2, <1>4, <1>6, StackGoto
<1> QED
  BY <1>2, <1>5, <1>6

\* The lists of a blueprint name its children.
LEMMA Lists ==
    ASSUME IInv, Tree, NEW b \in Blueprint
    PROVE  \A c \in blue[b].children \cup blue[b].deployed : c \in Blueprint /\ ChildOf(c, b)
BY ChildrenType DEF Tree, Kin, ListsOf

\* The list the frame has is one it may have.
LEMMA TopListing ==
    ASSUME IInv, NEW t \in Thread, stack[t] # <<>>
    PROVE  Listing(Top(t), Top(t).todo) = Top(t) /\ Top(t).todo \in SUBSET Blueprint
BY RunningFrame DEF Listing, FrameType

\* An exception leaves the body of the method.
LEMMA StackRaise ==
    ASSUME IInv, Tree, NEW t \in Thread, stack[t] # <<>>, NEW ret \in Returns, Raise(t, ret)
    PROVE  StackStep
<1>1. PICK f : Moves(t, f) /\ Goto(t, f) /\ f.pc = "failed" /\ f.child = NoBlue /\ f.todo = {}
  BY RaiseMoves
<1>2. KinFrame(f)
  BY <1>1 DEF KinFrame
<1> QED
  BY <1>1, <1>2, StackGoto

\* A blueprint deploys a child: it is on neither list yet.
LEMMA TreeCreateChild ==
    ASSUME IInv, IInv', Tree, NEW t \in Thread, CodeCreateChild(t)
    PROVE  Tree'
<1>0. PICK n : n = Len(stack[t])
  OBVIOUS
<1>1. /\ stack[t] # <<>> /\ Top(t).pc = "body" /\ Top(t).op \in Codes
  BY DEF CodeCreateChild, CodeMay, Running, Codes
<1>2. PICK b : b = Top(t).blue
  OBVIOUS
<1>3. /\ Top(t) \in FrameType /\ b \in used /\ b \in Blueprint /\ KinFrame(Top(t)) /\ Alive(b)
  BY <1>1, <1>2, RunningFrame, TopKin DEF Codes
<1>4. PICK c \in Blueprint :
         /\ StartCreate(c, b, t)
         /\ Push(t, [Top(t) EXCEPT !.pc = "creating", !.child = c],
                 Frame("create", c, "body", FALSE))
  BY <1>2 DEF CodeCreateChild
<1>5. PICK f : f = [Top(t) EXCEPT !.pc = "creating", !.child = c]
  OBVIOUS
<1>6. /\ f \in FrameType /\ f.op = Top(t).op /\ f.blue = b /\ f.pc = "creating"
      /\ f.child = c /\ f.todo = Top(t).todo /\ f.ret = Top(t).ret
  <2>1. "creating" \in PCs
    BY DEF PCs
  <2> QED BY <1>2, <1>3, <1>5, <2>1 DEF FrameType
<1>7. PICK g \in FrameType :
         /\ g = Frame("create", c, "body", FALSE) /\ g.op = "create" /\ g.blue = c
         /\ g.pc = "body" /\ g.child = NoBlue /\ g.todo = {} /\ g.ret = "none"
  BY NewFrame
<1>8. /\ n \in Nat \ {0} /\ Len(stack'[t]) = n + 1 /\ stack'[t][n] = f /\ stack'[t][n + 1] = g
      /\ \A i \in 1..n - 1 : stack'[t][i] = stack[t][i]
      /\ \A u \in Thread \ {t} : stack'[u] = stack[u]
  <2>1. Stacks /\ Push(t, f, g) /\ stack[t] # <<>>
    BY <1>1, <1>4, <1>5, <1>7 DEF IInv
  <2>2. f \in FrameType /\ g \in FrameType
    BY <1>6, <1>7
  <2>3. n \in Nat \ {0}
    BY <1>0, <2>1, TopType
  <2> QED BY <1>0, <2>1, <2>2, <2>3, PushType
<1>9. \A i \in 1..n + 1 : \/ i = n + 1 \/ i = n
                          \/ i \in 1..n - 1 /\ i \in 1..n
  BY <1>8
<1>10. /\ Steady /\ c \in used' /\ blue'[c].parent = b
       /\ \A a \in Blueprint : \A d \in ListsOf(blue'[a]) \cup ListsOf(saved'[a]) : ChildOf(d, a)
       /\ \A a \in docs' : saved'[a].parent = blue'[a].parent
  <2>1. \A u \in Thread : \A i \in 1..Len(stack'[u]) :
           stack'[u][i].blue = c \/ Alive(stack'[u][i].blue)
    <3>1. \A u \in Thread : \A i \in 1..Len(stack[u]) : Alive(stack[u][i].blue)
      BY OldFrames
    <3>2. \A u \in Thread \ {t} : \A i \in 1..Len(stack'[u]) : Alive(stack'[u][i].blue)
      BY <1>8, <3>1
    <3>3. \A i \in 1..n - 1 : Alive(stack'[t][i].blue)
      <4>1. \A i \in 1..n - 1 : i \in 1..Len(stack[t])
        BY <1>0, <1>8
      <4>2. \A i \in 1..n - 1 : Alive(stack[t][i].blue)
        BY <3>1, <4>1
      <4> QED BY <1>8, <4>2
    <3>4. Alive(stack'[t][n].blue) /\ stack'[t][n + 1].blue = c
      BY <1>3, <1>6, <1>7, <1>8
    <3> QED BY <1>8, <1>9, <3>2, <3>3, <3>4
  <2>2. b \in Blueprint \cup {NoBlue}
    BY <1>3
  <2> QED BY <1>4, <2>1, <2>2, CreateSteady
<1>11. KinFrame(f)'
  <2>1. Top(t).op # "deleteAll" /\ Top(t).ret = "none"
    BY <1>1, <1>3 DEF KinFrame, Waiting, Codes
  <2>2. \A d \in f.todo : ChildOf(d, b)
    BY <1>2, <1>3, <1>6, <2>1 DEF KinFrame
  <2>3. ASSUME NEW d \in f.todo PROVE ChildOf(d, b)'
    BY <1>10, <2>2, SteadyChild
  <2>4. ChildOf(c, b)'
    BY <1>10 DEF ChildOf
  <2> QED BY <1>6, <2>3, <2>4 DEF KinFrame, Waiting
<1>12. KinFrame(g)'
  BY <1>7 DEF KinFrame
<1>13. Linked(f, g)'
  <2>1. Top(t).ret = "none"
    BY <1>1, <1>3 DEF KinFrame, Waiting
  <2> QED BY <1>6, <1>7, <1>10, <2>1 DEF Linked, Callee, Waiting
<1>14. \A u \in Thread \ {t} : \A i \in 1..Len(stack[u]) :
          /\ KinFrame(stack[u][i])'
          /\ i > 1 => Linked(stack[u][i-1], stack[u][i])'
  <2> SUFFICES ASSUME NEW u \in Thread \ {t}, NEW i \in 1..Len(stack[u])
               PROVE  /\ KinFrame(stack[u][i])'
                      /\ i > 1 => Linked(stack[u][i-1], stack[u][i])'
    OBVIOUS
  <2> QED BY <1>8, <1>10, SteadyFrames
<1>15. \A i \in 1..n - 1 : /\ KinFrame(stack[t][i])'
                           /\ i > 1 => Linked(stack[t][i-1], stack[t][i])'
  <2> SUFFICES ASSUME NEW i \in 1..n - 1
               PROVE  /\ KinFrame(stack[t][i])'
                      /\ i > 1 => Linked(stack[t][i-1], stack[t][i])'
    OBVIOUS
  <2>1. i \in 1..Len(stack[t]) /\ (i > 1 => i - 1 \in 1..n - 1)
    BY <1>0, <1>8
  <2> QED BY <1>8, <1>10, <2>1, SteadyFrames
<1>16. FrameKin'
  <2> SUFFICES ASSUME NEW u \in Thread, NEW i \in 1..Len(stack'[u])
               PROVE  KinFrame(stack[u][i])'
    BY DEF FrameKin
  <2>1. CASE u # t
    BY <1>8, <1>14, <2>1
  <2>2. CASE u = t /\ i \in 1..n - 1
    BY <1>15, <2>2
  <2>3. CASE u = t /\ i \in {n, n + 1}
    BY <1>8, <1>11, <1>12, <2>3 DEF KinFrame
  <2> QED BY <1>8, <1>9, <2>1, <2>2, <2>3
<1>17. n > 1 => Linked(stack[t][n-1], f)'
  <2>1. PICK h, k : h = stack[t][n-1] /\ k = stack[t][n]
    OBVIOUS
  <2>2. n \in 1..Len(stack[t]) /\ k.blue \in used
    BY <1>0, <1>2, <1>3, <1>8, <2>1 DEF Top
  <2>3. n > 1 => Linked(h, k)
    BY <2>1, <2>2, OldFrames
  <2>4. n > 1 => Linked(h, k)'
    BY <1>10, <2>2, <2>3, SteadyLink
  <2>5. f.blue = k.blue /\ f.op = k.op
    BY <1>0, <1>2, <1>6, <2>1 DEF Top
  <2>6. n > 1 => stack'[t][n-1] = h
    BY <1>8, <2>1
  <2> QED BY <2>4, <2>5, <2>6 DEF Linked
<1>18. Links'
  <2> SUFFICES ASSUME NEW u \in Thread, NEW i \in 2..Len(stack'[u])
               PROVE  Linked(stack[u][i-1], stack[u][i])'
    BY DEF Links
  <2>1. CASE u # t
    <3>1. i \in 1..Len(stack[u]) /\ i > 1
      BY <1>8, <2>1 DEF IInv, Stacks
    <3> QED BY <1>8, <1>14, <2>1, <3>1
  <2>2. CASE u = t /\ i \in 1..n - 1
    BY <1>8, <1>15, <2>2
  <2>3. CASE u = t /\ i = n
    BY <1>8, <1>17, <2>3 DEF Linked
  <2>4. CASE u = t /\ i = n + 1
    <3>1. i - 1 = n
      BY <1>8, <2>4
    <3> QED BY <1>8, <1>13, <2>4, <3>1 DEF Linked
  <2> QED BY <1>8, <1>9, <2>1, <2>2, <2>3, <2>4
<1> QED
  BY <1>10, <1>16, <1>18, TreeSteady
-----------------------------------------------------------------------------
\* The code of a blueprint calls or deletes a child, saves, or fails.
LEMMA TreeCodeStep ==
    ASSUME IInv, IInv', Tree, NEW t \in Thread, CodeStep(t)
    PROVE  Tree'
<1>1. CASE CodeCreateChild(t)
  BY <1>1, TreeCreateChild
<1>2. /\ stack[t] # <<>> /\ Top(t).pc = "body" /\ Top(t).op \in Codes
  BY DEF CodeStep, CodeCreateChild, CodeCallChild, CodeDeleteChild, CodeSave, CodeFails,
         CodeMay, Running, Codes
<1>3. PICK b : b = Top(t).blue
  OBVIOUS
<1>4. /\ b \in Blueprint /\ KinFrame(Top(t)) /\ Alive(b) /\ Top(t).op # "deleteAll"
      /\ Top(t).todo \in SUBSET Blueprint
  BY <1>2, <1>3, RunningFrame, TopKin, TopListing DEF Codes
<1>5. ASSUME NEW c \in blue[b].children, NEW pc \in {"calling", "deleting"}, NEW op \in Ops,
             op = Callee(pc), Nest(t, Top(t), pc, c, op), UNCHANGED <<registry, used>>
      PROVE  Tree'
  <2>1. c \in Blueprint /\ ChildOf(c, b)
    BY <1>4, Lists
  <2>2. \A x \in Top(t).todo \cup {c} : ChildOf(x, Top(t).blue)
    BY <1>3, <1>4, <2>1 DEF KinFrame
  <2>3. pc \in Waiting /\ Top(t).pc \notin Waiting \cup {"failed"}
    BY <1>2 DEF Waiting
  <2>4. Nest(t, Listing(Top(t), Top(t).todo), pc, c, op)
    BY <1>2, <1>5, TopListing
  <2> QED BY <1>2, <1>4, <1>5, <2>1, <2>2, <2>3, <2>4, StackNest, SameKin, TreeOf
<1>6. CASE CodeCallChild(t)
  BY <1>3, <1>5, <1>6 DEF CodeCallChild, Ops, Callee
<1>7. CASE CodeDeleteChild(t)
  BY <1>3, <1>5, <1>7 DEF CodeDeleteChild, Ops, Callee
<1>8. CASE CodeSave(t)
  <2>1. SaveThen(b, blue[b], blue[b]) /\ UNCHANGED <<stack, used>>
    BY <1>3, <1>8 DEF CodeSave, Save
  <2>2. KinStep
    BY <1>4, <2>1, SaveKin DEF Tree, Kin
  <2> QED BY <2>1, <2>2, StackSame, TreeOf
<1>9. CASE CodeFails(t)
  BY <1>2, <1>9, StackRaise, SameKin, TreeOf DEF CodeFails, Returns
<1> QED
  BY <1>1, <1>6, <1>7, <1>8, <1>9 DEF CodeStep

\* The code of a blueprint ends or raises.
LEMMA TreeCodeExit ==
    ASSUME IInv, IInv', Tree, NEW t \in Thread, CodeExit(t)
    PROVE  Tree'
<1>1. /\ stack[t] # <<>> /\ Top(t).op \in Codes /\ used' = used
  BY DEF CodeExit, CodeEnds, CodeRaises, Running, Codes
<1>2. Top(t).blue \in Blueprint /\ Alive(Top(t).blue) /\ Top(t).ret \in Returns
  BY <1>1, RunningFrame, TopKin DEF Codes, FrameType
<1>3. UNCHANGED registry \/ \E s : SetStatus(Top(t).blue, s)
  BY DEF CodeExit, CodeEnds, CodeRaises
<1>4. \E ret \in Returns : Return(t, ret)
  BY <1>2 DEF CodeExit, CodeEnds, CodeRaises, Returns
<1> QED
  BY <1>1, <1>2, <1>3, <1>4, SameKin, StatusKin, StackReturn, TreeOf

\* A record of the child whose creation or deletion ended.
LEMMA RecordKin ==
    ASSUME IInv, Tree, NEW b \in Blueprint, NEW c, ChildOf(c, b), Alive(b), used' = used,
           RecordChild(b, c) \/ ForgetChild(b, c)
    PROVE  KinStep
<1>1. \A d \in ListsOf(blue[b]) : ChildOf(d, b)
  BY DEF Tree, Kin
<1>2. CASE RecordChild(b, c)
  <2> DEFINE r == [blue[b] EXCEPT !.deployed = @ \cup {c}]
             m == [r EXCEPT !.children = @ \cup {c}]
  <2>1. /\ r.parent = blue[b].parent /\ ListsOf(r) \subseteq ListsOf(blue[b]) \cup {c}
        /\ m.parent = blue[b].parent /\ ListsOf(m) \subseteq ListsOf(blue[b]) \cup {c}
    BY ChildrenType DEF BlueType, ListsOf
  <2>2. SaveThen(b, r, m)
    BY <1>2 DEF RecordChild
  <2> HIDE DEF r, m
  <2>3. \A d \in ListsOf(r) \cup ListsOf(m) : ChildOf(d, b)
    BY <1>1, <2>1
  <2> QED BY <2>1, <2>2, <2>3, SaveKin
<1>3. CASE ForgetChild(b, c)
  <2> DEFINE r == [blue[b] EXCEPT !.deployed = @ \ {c}]
             m == [r EXCEPT !.children = @ \ {c}]
  <2>1. /\ r.parent = blue[b].parent /\ ListsOf(r) \subseteq ListsOf(blue[b])
        /\ m.parent = blue[b].parent /\ ListsOf(m) \subseteq ListsOf(blue[b])
    BY ChildrenType DEF BlueType, ListsOf
  <2>2. SaveThen(b, r, m)
    BY <1>3 DEF ForgetChild
  <2> HIDE DEF r, m
  <2>3. \A d \in ListsOf(r) \cup ListsOf(m) : ChildOf(d, b)
    BY <1>1, <2>1
  <2> QED BY <2>1, <2>2, <2>3, SaveKin
<1> QED
  BY <1>2, <1>3

\* A method goes on after the method it called.
LEMMA TreeReturnStep ==
    ASSUME IInv, IInv', Tree, NEW t \in Thread, ReturnStep(t)
    PROVE  Tree'
<1>1. stack[t] # <<>> /\ Top(t).pc \in Waiting /\ used' = used
  BY DEF ReturnStep, CodeResumes, ChildDestroyed, OrphanDestroyed, LeftoverDestroyed,
         DeleteAllResumes, DeleteStep, Running, Waiting
<1>2. /\ Top(t) \in FrameType /\ KinFrame(Top(t)) /\ Alive(Top(t).blue)
      /\ Top(t).op # "deleteAll" =>
            /\ Top(t).blue \in Blueprint
            /\ Top(t).child \in Blueprint /\ ChildOf(Top(t).child, Top(t).blue)
  <2>1. Top(t).child \in Blueprint /\ Top(t).child # NoBlue
    BY <1>1, RunningFrame, LifecycleAssumption DEF FrameType
  <2> QED BY <1>1, <2>1, RunningFrame, TopKin DEF KinFrame
<1>3. ASSUME NEW pc \in PCs \ Waiting, Resume(t, pc)
      PROVE  StackStep
  <2>1. PICK f : /\ Moves(t, f) /\ Goto(t, f) /\ f.pc = pc /\ f.child = NoBlue
                 /\ f.todo = Top(t).todo /\ f.ret = "none"
    BY <1>1, <1>3, ResumeMoves
  <2>2. KinFrame(f)
    BY <1>2, <2>1 DEF KinFrame, Moves
  <2> QED BY <1>1, <2>1, <2>2, StackGoto
<1>4. StackStep
  <2>1. \/ \E ret \in Returns : Raise(t, ret) \/ Return(t, ret)
        \/ \E pc \in {"body", "children", "orphans", "cleanup", "loop"} : Resume(t, pc)
    BY <1>2 DEF ReturnStep, CodeResumes, ChildDestroyed, OrphanDestroyed, LeftoverDestroyed,
                DeleteAllResumes, Returns, FrameType
  <2>2. {"body", "children", "orphans", "cleanup", "loop"} \subseteq PCs \ Waiting
    BY DEF PCs, Waiting
  <2> QED BY <1>1, <1>3, <2>1, <2>2, StackRaise, StackReturn
<1>5. \/ UNCHANGED registry
      \/ /\ Top(t).op # "deleteAll"
         /\ \/ RecordChild(Top(t).blue, Top(t).child)
            \/ ForgetChild(Top(t).blue, Top(t).child)
  BY DEF ReturnStep, CodeResumes, ChildDestroyed, OrphanDestroyed, LeftoverDestroyed,
         DeleteAllResumes, DeleteStep, Running, Codes
<1>6. KinStep
  BY <1>1, <1>2, <1>5, SameKin, RecordKin
<1> QED
  BY <1>4, <1>6, TreeOf
-----------------------------------------------------------------------------
\* The running deletion goes on with a list of children.
LEMMA StackList ==
    ASSUME IInv, Tree, NEW t \in Thread, stack[t] # <<>>, NEW pc \in PCs \ Waiting,
           NEW todo \in SUBSET Blueprint, Goto(t, Going(Top(t), pc, todo)),
           Top(t).op # "deleteAll", Top(t).pc \notin Waiting \cup {"failed"},
           \A c \in todo : ChildOf(c, Top(t).blue)
    PROVE  StackStep
<1>1. PICK f : /\ Moves(t, f) /\ Goto(t, f) /\ f.pc = pc /\ f.child = Top(t).child
               /\ f.todo = todo /\ f.ret = Top(t).ret
  BY ListMoves
<1>2. KinFrame(f)
  BY <1>1, TopKin DEF KinFrame, Moves
<1> QED
  BY <1>1, <1>2, StackGoto

\* The running operation goes on by itself.
LEMMA StackGoOn ==
    ASSUME IInv, Tree, NEW t \in Thread, stack[t] # <<>>, NEW pc \in PCs \ Waiting,
           Goto(t, [Top(t) EXCEPT !.pc = pc]), Top(t).pc \notin Waiting \cup {"failed"}
    PROVE  StackStep
<1>1. PICK f : /\ Moves(t, f) /\ Goto(t, f) /\ f.pc = pc /\ f.child = Top(t).child
               /\ f.todo = Top(t).todo /\ f.ret = Top(t).ret
  BY GotoMoves
<1>2. KinFrame(f)
  BY <1>1, TopKin DEF KinFrame, Moves
<1> QED
  BY <1>1, <1>2, StackGoto

\* A step of destroy_blueprint, of delete_all_blueprints or of the protection.
LEMMA TreeDestroyStep ==
    ASSUME IInv, IInv', Tree, NEW t \in Thread, DestroyStep(t)
    PROVE  Tree'
<1>1. /\ stack[t] # <<>> /\ Top(t).op \in {"delete", "protect", "deleteAll"} /\ used' = used
      /\ Top(t).pc \notin Waiting
  BY DEF DestroyStep, DestroyChildren, DestroyOrphans, DestroyResources, FinalCleanup,
         PopBlueprint, EraseBlueprint, DeleteRaises, ApplyProtect, DeleteNext, DeleteStep,
         Running, Waiting
<1>2. PICK b : b = Top(t).blue
  OBVIOUS
<1>3. /\ Top(t) \in FrameType /\ Top(t).ret \in Returns /\ Top(t).todo \in SUBSET Blueprint
      /\ KinFrame(Top(t)) /\ Alive(b)
      /\ Top(t).op # "deleteAll" => b \in used /\ b \in Blueprint
  BY <1>1, <1>2, RunningFrame, TopKin DEF FrameType
<1>4. Top(t).op # "deleteAll" => \A c \in Top(t).todo : ChildOf(c, b)
  BY <1>2, <1>3 DEF KinFrame
<1>5. {"orphans", "resources", "cleanup", "pop", "erase"} \subseteq PCs \ Waiting
  BY DEF PCs, Waiting
<1>6. ASSUME NEW c \in Top(t).todo, NEW pc \in {"orphanDeleting", "leftoverDeleting", "next"},
             Nest(t, [Top(t) EXCEPT !.todo = @ \ {c}], pc, c, "delete"),
             UNCHANGED <<registry, used>>, Top(t).pc # "failed"
      PROVE  Tree'
  <2>1. /\ c \in Blueprint /\ Top(t).todo \ {c} \in SUBSET Blueprint
        /\ pc \in Waiting /\ "delete" \in Ops /\ "delete" = Callee(pc)
    BY <1>3 DEF Waiting, Ops, Callee
  <2>2. Nest(t, Listing(Top(t), Top(t).todo \ {c}), pc, c, "delete")
    BY <1>3, <1>6 DEF FrameType, Listing
  <2>3. Top(t).op = "deleteAll"
        \/ \A x \in (Top(t).todo \ {c}) \cup {c} : ChildOf(x, Top(t).blue)
    BY <1>2, <1>4
  <2>4. StackStep
    BY <1>1, <1>6, <2>1, <2>2, <2>3, StackNest
  <2> QED BY <1>6, <2>4, SameKin, TreeOf
<1>7. CASE DestroyChildren(t)
  <2>1. /\ Top(t).op = "delete" /\ Top(t).pc = "children" /\ UNCHANGED <<registry, used>>
    BY <1>7 DEF DestroyChildren, DeleteStep, Running
  <2>2. CASE \E c \in blue[b].children : Nest(t, Top(t), "childDeleting", c, "delete")
    <3>1. PICK c \in blue[b].children : Nest(t, Top(t), "childDeleting", c, "delete")
      BY <2>2
    <3>2. c \in Blueprint /\ ChildOf(c, b)
      BY <1>3, <2>1, Lists
    <3>3. /\ "childDeleting" \in Waiting /\ "delete" \in Ops
          /\ "delete" = Callee("childDeleting")
      BY DEF Waiting, Ops, Callee
    <3>4. Nest(t, Listing(Top(t), Top(t).todo), "childDeleting", c, "delete")
      BY <1>1, <3>1, TopListing
    <3>5. \A x \in Top(t).todo \cup {c} : ChildOf(x, Top(t).blue)
      BY <1>2, <1>4, <2>1, <3>2
    <3>6. StackStep
      BY <1>1, <1>3, <2>1, <3>2, <3>3, <3>4, <3>5, StackNest
    <3> QED BY <2>1, <3>6, SameKin, TreeOf
  <2>3. CASE Goto(t, Going(Top(t), "orphans", {c \in blueprint_dict : blue[c].parent = b}))
    <3>1. PICK others : others = {c \in blueprint_dict : blue[c].parent = b}
      OBVIOUS
    <3>2. others \in SUBSET Blueprint /\ \A c \in others : ChildOf(c, Top(t).blue)
      BY <1>2, <3>1 DEF IInv, Data, ChildOf
    <3>3. StackStep
      BY <1>1, <1>5, <2>1, <2>3, <3>1, <3>2, StackList
    <3> QED BY <2>1, <3>3, SameKin, TreeOf
  <2> QED BY <1>2, <1>7, <2>2, <2>3 DEF DestroyChildren, Going
<1>8. CASE DestroyOrphans(t)
  <2>1. /\ Top(t).op = "delete" /\ Top(t).pc = "orphans" /\ UNCHANGED <<registry, used>>
    BY <1>8 DEF DestroyOrphans, DeleteStep, Running
  <2>2. CASE Goto(t, [Top(t) EXCEPT !.pc = "resources"])
    BY <1>1, <1>5, <2>1, <2>2, StackGoOn, SameKin, TreeOf
  <2> QED BY <1>6, <1>8, <2>1, <2>2 DEF DestroyOrphans
<1>9. CASE DestroyResources(t)
  <2>1. /\ Top(t).op = "delete" /\ Top(t).pc = "resources" /\ UNCHANGED <<registry, used>>
    BY <1>9 DEF DestroyResources, DeleteStep, Running
  <2>2. CASE Goto(t, Going(Top(t), "cleanup", blue[b].deployed))
    <3>1. blue[b].deployed \in SUBSET Blueprint
          /\ \A c \in blue[b].deployed : ChildOf(c, Top(t).blue)
      BY <1>2, <1>3, <2>1, Lists
    <3>2. StackStep
      BY <1>1, <1>5, <2>1, <2>2, <3>1, StackList
    <3> QED BY <2>1, <3>2, SameKin, TreeOf
  <2>3. CASE \E err \in {"error", "unauthorized"} : Raise(t, err)
    BY <1>1, <2>1, <2>3, StackRaise, SameKin, TreeOf DEF Returns
  <2> QED BY <1>2, <1>9, <2>2, <2>3 DEF DestroyResources, Going
<1>10. CASE FinalCleanup(t)
  <2>1. /\ Top(t).op = "delete" /\ Top(t).pc = "cleanup"
    BY <1>10 DEF FinalCleanup, DeleteStep, Running
  <2>2. CASE /\ Goto(t, [Top(t) EXCEPT !.pc = "pop"])
             /\ Save(b, [blue[b] EXCEPT !.deployed = {}])
    <3> DEFINE r == [blue[b] EXCEPT !.deployed = {}]
    <3>1. r.parent = blue[b].parent /\ ListsOf(r) \subseteq ListsOf(blue[b])
      BY <1>3, <2>1, ChildrenType DEF BlueType, ListsOf
    <3>2. SaveThen(b, r, r)
      BY <2>2 DEF Save
    <3> HIDE DEF r
    <3>3. \A c \in ListsOf(r) : ChildOf(c, b)
      BY <1>3, <2>1, <3>1 DEF Tree, Kin
    <3>4. KinStep
      BY <1>1, <1>3, <2>1, <3>1, <3>2, <3>3, SaveKin
    <3>5. StackStep
      BY <1>1, <1>5, <2>1, <2>2, StackGoOn
    <3> QED BY <3>4, <3>5, TreeOf
  <2>3. CASE /\ \E c \in Top(t).todo :
                   Nest(t, [Top(t) EXCEPT !.todo = @ \ {c}], "leftoverDeleting", c, "delete")
             /\ UNCHANGED registry
    BY <1>1, <1>6, <2>1, <2>3
  <2> QED BY <1>2, <1>10, <2>2, <2>3 DEF FinalCleanup
<1>11. CASE PopBlueprint(t)
  <2>1. /\ Top(t).pc = "pop" /\ Goto(t, [Top(t) EXCEPT !.pc = "erase"])
        /\ blueprint_dict' = blueprint_dict \ {b} /\ UNCHANGED <<blue, docs, saved>>
    BY <1>2, <1>11 DEF PopBlueprint, DeleteStep, Running
  <2>2. KinStep
    BY <1>1, <2>1 DEF KinStep, Tree, Kin, DocParents, Alive
  <2> QED BY <1>1, <1>5, <2>1, <2>2, StackGoOn, TreeOf
<1>12. CASE EraseBlueprint(t)
  <2>1. /\ Return(t, "ok") /\ docs' = docs \ {b} /\ saved' = [saved EXCEPT ![b] = NewBlue(NoBlue)]
        /\ UNCHANGED <<blueprint_dict, blue>>
    BY <1>2, <1>12 DEF EraseBlueprint
  <2>2. ListsOf(NewBlue(NoBlue)) = {}
    BY NewBlueFields DEF ListsOf
  <2>3. KinStep
    BY <1>1, <2>1, <2>2 DEF KinStep, Tree, Kin, DocParents, Alive, IInv, Data
  <2> QED BY <1>1, <2>1, <2>3, StackReturn, TreeOf DEF Returns
<1>13. CASE DeleteRaises(t)
  <2>1. Top(t).op = "delete"
    BY <1>13 DEF DeleteRaises, DeleteStep, Running
  <2>2. CASE Goto(t, Retrying(Top(t), "pop")) /\ UNCHANGED registry
    <3>1. PICK f : /\ Moves(t, f) /\ Goto(t, f) /\ f.pc = "pop" /\ f.child = Top(t).child
                   /\ f.todo = Top(t).todo /\ f.ret = "none"
      BY <1>1, <1>5, <2>2, RetryMoves
    <3>2. KinFrame(f)
      BY <1>3, <3>1 DEF KinFrame, Moves
    <3> QED BY <1>1, <2>2, <3>1, <3>2, StackGoto, SameKin, TreeOf
  <2>3. CASE /\ Return(t, Top(t).ret) \/ Return(t, "error")
             /\ UNCHANGED registry \/ SetStatus(b, ErrorState)
    <3>1. StackStep
      BY <1>1, <1>3, <2>3, StackReturn DEF Returns
    <3>2. KinStep
      BY <1>1, <1>3, <2>1, <2>3, SameKin, StatusKin
    <3> QED BY <3>1, <3>2, TreeOf
  <2> QED BY <1>2, <1>13, <2>2, <2>3 DEF DeleteRaises, Retrying
<1>14. CASE ApplyProtect(t)
  <2>1. Top(t).op = "protect" /\ Return(t, "ok")
        /\ Save(b, [blue[b] EXCEPT !.protected = Top(t).flag])
    BY <1>2, <1>14 DEF ApplyProtect, Running
  <2> DEFINE r == [blue[b] EXCEPT !.protected = Top(t).flag]
  <2>2. r.parent = blue[b].parent /\ ListsOf(r) = ListsOf(blue[b])
    BY <1>3, <2>1, ChildrenType DEF BlueType, ListsOf
  <2>3. SaveThen(b, r, r)
    BY <2>1 DEF Save
  <2> HIDE DEF r
  <2>4. KinStep
    BY <1>1, <1>3, <2>1, <2>2, <2>3, SaveKin DEF Tree, Kin
  <2> QED BY <1>1, <2>1, <2>4, StackReturn, TreeOf DEF Returns
<1>15. CASE DeleteNext(t)
  <2>1. Top(t).pc = "loop" /\ UNCHANGED <<registry, used>>
    BY <1>15 DEF DeleteNext, Running
  <2>2. CASE Return(t, "ok")
    BY <1>1, <2>1, <2>2, StackReturn, SameKin, TreeOf DEF Returns
  <2> QED BY <1>6, <1>15, <2>1, <2>2 DEF DeleteNext
<1> QED
  BY <1>7, <1>8, <1>9, <1>10, <1>11, <1>12, <1>13, <1>14, <1>15 DEF DestroyStep

\* After a restart only the blueprints with a document are alive.
LEMMA TreeRestart ==
    ASSUME IInv, Tree, Restart
    PROVE  Tree'
<1>1. \A t \in Thread : stack'[t] = <<>>
  BY DEF Restart
<1>2. FrameKin' /\ Links'
  BY <1>1 DEF FrameKin, Links
<1>3. blue' = saved /\ saved' = saved /\ docs' = docs /\ blueprint_dict' = docs /\ used' = used
  BY DEF Restart
<1>4. ASSUME NEW c, NEW b, ChildOf(c, b) PROVE ChildOf(c, b)'
  <2>1. Alive(c)' <=> c \in docs
    BY <1>1, <1>3 DEF Alive
  <2>2. c \in docs => Alive(c) /\ saved[c].parent = blue[c].parent
    BY DEF Alive, Tree, DocParents
  <2> QED BY <1>3, <1>4, <2>1, <2>2 DEF ChildOf, Restart
<1>5. Kin'
  <2> SUFFICES ASSUME NEW b \in Blueprint, NEW c \in ListsOf(blue'[b]) \cup ListsOf(saved'[b])
               PROVE  ChildOf(c, b)'
    BY DEF Kin, ListsOf
  <2>1. ChildOf(c, b)
    BY <1>3 DEF Tree, Kin
  <2> QED BY <1>4, <2>1
<1>6. DocParents'
  BY <1>3 DEF DocParents
<1> QED
  BY <1>2, <1>5, <1>6 DEF Tree

\* Every step keeps Tree, a restart included.
LEMMA TreeInductive == IInv /\ Tree /\ [Next]_vars => Tree'
<1> SUFFICES ASSUME IInv, Tree, [Next]_vars PROVE Tree'
  OBVIOUS
<1>1. IInv'
  BY Inductive
<1>2. ASSUME NEW t \in Thread, ThreadStep(t) PROVE Tree'
  BY <1>1, <1>2, TreeUserStep, TreeEnterStep, TreeCodeStep, TreeCodeExit, TreeReturnStep,
     TreeDestroyStep DEF ThreadStep
<1>3. CASE Restart
  BY <1>3, TreeRestart
<1>4. CASE UNCHANGED vars
  BY <1>1, <1>4, SameKin, StackSame, TreeOf DEF vars, registry
<1> QED
  BY <1>2, <1>3, <1>4 DEF Next

\* No list names anything at first.
LEMMA TreeInit == Init => Tree
<1> SUFFICES ASSUME Init PROVE Tree
  OBVIOUS
<1>1. ListsOf(NewBlue(NoBlue)) = {}
  BY NewBlueFields DEF ListsOf
<1>2. \A t \in Thread : stack[t] = <<>>
  BY DEF Init
<1> QED
  BY <1>1, <1>2 DEF Init, Tree, Kin, DocParents, FrameKin, Links
-----------------------------------------------------------------------------
\* Whatever operations run, with restarts, exceptions and forced deletions, a thread waits for the
\* lock of a child of the blueprint whose lock it holds: no two operations wait for each other.
THEOREM NestedDownwards == Spec => []LockOrder
<1>1. IInv /\ Tree => LockOrder
  BY DEF Tree, Links, Linked, LockOrder
<1> QED
  BY <1>1, Initially, Inductive, TreeInit, TreeInductive, PTL DEF Spec

\* Without restarts a child in memory that its parent lists was created by that parent, and the
\* parent also lists it among what it deployed.
THEOREM ChildrenKnown ==
    ASSUME ~CanRestart
    PROVE  Spec => []ChildrenRecorded
<1>1. Local /\ Tree => ChildrenRecorded
  BY DEF Tree, Kin, ListsOf, ChildOf, Local, Listed, ChildrenRecorded
<1> QED
  BY <1>1, Initially, Inductive, LocalInit, LocalInductive, TreeInit, TreeInductive, PTL
  DEF Spec
-----------------------------------------------------------------------------
\* Only operations that hold the lock of a blueprint they found in the dictionary save it.
Guarded == "protect" \notin UserOps /\ ~({"callChild", "save"} \subseteq CodeOps)
\* Moreover no deletion is forced over a failure, and no restart loses a frame.
Orderly == Guarded /\ ~CanRestart /\ "force" \notin UserOps

\* Where a deletion stands once no child is left in the dictionary.
Childless == {"resources", "cleanup", "leftoverDeleting", "pop", "erase"}
\* All children left in the dictionary are in S.
NoChildIn(f, S) == \A c \in blueprint_dict : blue[c].parent = f.blue => c \in S
\* What frame f keeps true of the dictionary.
Sound(f) ==
    /\ f.op # "protect"
    /\ f.op = "call" => "callChild" \in CodeOps
    /\ f.pc = "failed" => f.ret # "ok"
    /\ f.op \in {"create", "update"} /\ Holds(f) => f.blue \in blueprint_dict
    /\ f.op = "delete" /\ Holds(f) /\ f.pc # "failed" =>
          (f.blue \in blueprint_dict <=> f.pc # "erase")
    /\ Orderly /\ f.op = "delete" =>
          /\ ~f.flag
          /\ f.pc = "orphans" => NoChildIn(f, f.todo)
          /\ f.pc = "orphanDeleting" =>
                /\ NoChildIn(f, f.todo \cup {f.child})
                /\ f.ret = "ok" => f.child \notin blueprint_dict
          /\ f.pc \in Childless => NoChildIn(f, {})
\* Every frame is so.
SoundFrames == \A t \in Thread : \A i \in 1..Len(stack[t]) : Sound(stack[t][i])
\* The inductive invariant of the forest.
Grove ==
    /\ (blueprint_dict \cup docs) \cap deleted = {}
    /\ deleted \subseteq used
    /\ Orderly => NoOrphans
    /\ SoundFrames

\* What Forest calls parentOf.
Parents == [b \in Blueprint |-> blue[b].parent]
\* The step is one of Forest, or leaves it alone.
Grows == [Forest!Next]_<<blueprint_dict, used, Parents>>

\* A step that adds no blueprint to the dictionary and removes none.
Still ==
    /\ blueprint_dict' = blueprint_dict /\ used' = used
    /\ docs' \subseteq docs \cup blueprint_dict
    /\ \A c \in Blueprint : blue'[c].parent = blue[c].parent
\* The frames after the step are sound for the data before it.
NewSound == \A t \in Thread : \A i \in 1..Len(stack'[t]) : Sound(stack'[t][i])

\* And then for the data after it.
LEMMA StillSound ==
    ASSUME IInv, Still, NEW f, Sound(f)
    PROVE  Sound(f)'
BY DEF Still, Sound, NoChildIn, IInv, Data

\* A step that leaves the forest alone may complete the deletion of a popped blueprint.
LEMMA GroveStill ==
    ASSUME IInv, Grove, Still, NewSound,
           deleted' = deleted
             \/ \E b \in used \ (blueprint_dict \cup docs') : deleted' = deleted \cup {b}
    PROVE  Grove' /\ Grows
<1>1. SoundFrames'
  <2> SUFFICES ASSUME NEW t \in Thread, NEW i \in 1..Len(stack'[t])
               PROVE  Sound(stack[t][i])'
    BY DEF SoundFrames
  <2>1. PICK f : f = stack'[t][i]
    OBVIOUS
  <2>2. Sound(f)'
    BY <2>1, StillSound DEF NewSound
  <2> QED BY <2>1, <2>2 DEF Sound, NoChildIn, Holds
<1>2. (Orderly => NoOrphans)'
  BY DEF Still, Grove, NoOrphans, IInv, Data
<1>3. (blueprint_dict' \cup docs') \cap deleted' = {} /\ deleted' \subseteq used'
  BY DEF Grove, Still
<1>4. Grows
  <2>1. Parents' = Parents
    BY DEF Parents, Still
  <2> QED BY <2>1 DEF Grows, Still
<1> QED
  BY <1>1, <1>2, <1>3, <1>4 DEF Grove

\* The steps that leave the dictionary alone: no save, or of one it holds.
LEMMA SameStill ==
    ASSUME UNCHANGED <<registry, used>>
    PROVE  Still
BY DEF Still, registry

\* A blueprint of the dictionary is saved.
LEMMA SaveStill ==
    ASSUME IInv, NEW b \in blueprint_dict, NEW w, NEW r, SaveThen(b, w, r), used' = used,
           r.parent = blue[b].parent
    PROVE  Still
BY DEF Still, SaveThen, IInv, Data

\* Its status only is changed.
LEMMA StatusStill ==
    ASSUME IInv, NEW b \in blueprint_dict, NEW s, SetStatus(b, s), used' = used
    PROVE  Still
<1> DEFINE r == [blue[b] EXCEPT !.status = s]
<1>1. r.parent = blue[b].parent
  BY ChildrenType DEF BlueType, IInv, Data
<1>2. SaveThen(b, r, r)
  BY DEF SetStatus, Save
<1> HIDE DEF r
<1> QED
  BY <1>1, <1>2, SaveStill

\* The new frames are sound when those the step touched are.
LEMMA OldSound ==
    ASSUME Grove, stack' = stack
    PROVE  NewSound
BY DEF Grove, SoundFrames, NewSound

\* The running frame moves to f.
LEMMA GotoSound ==
    ASSUME IInv, Grove, NEW t \in Thread, stack[t] # <<>>, NEW f, Moves(t, f), Goto(t, f),
           Sound(f)
    PROVE  NewSound
<1> DEFINE n == Len(stack[t])
<1>1. /\ n \in Nat \ {0} /\ Len(stack'[t]) = n /\ stack'[t][n] = f
      /\ \A i \in 1..n - 1 : stack'[t][i] = stack[t][i]
      /\ \A u \in Thread \ {t} : stack'[u] = stack[u]
  BY TopType, GotoType DEF Moves, IInv
<1>2. \A i \in 1..n : i = n \/ i \in 1..n - 1
  BY <1>1
<1> QED
  BY <1>1, <1>2 DEF Grove, SoundFrames, NewSound

\* It moves to f and calls g.
LEMMA PushSound ==
    ASSUME IInv, Grove, NEW t \in Thread, stack[t] # <<>>, NEW f, NEW g \in FrameType,
           Moves(t, f), Push(t, f, g), Sound(f), Sound(g)
    PROVE  NewSound
<1> DEFINE n == Len(stack[t])
<1>1. /\ n \in Nat \ {0} /\ Len(stack'[t]) = n + 1 /\ stack'[t][n] = f /\ stack'[t][n + 1] = g
      /\ \A i \in 1..n - 1 : stack'[t][i] = stack[t][i]
      /\ \A u \in Thread \ {t} : stack'[u] = stack[u]
  BY TopType, PushType DEF Moves, IInv
<1>2. \A i \in 1..n + 1 : i = n + 1 \/ i = n \/ (i \in 1..n - 1 /\ i \in 1..n)
  BY <1>1
<1> QED
  BY <1>1, <1>2 DEF Grove, SoundFrames, NewSound

\* Only a deletion that removed its blueprint returns to the deletion of its parent.
LEMMA ReturnSound ==
    ASSUME IInv, Grove, Tree, NEW t \in Thread, stack[t] # <<>>, NEW ret \in Returns,
           Return(t, ret),
           Top(t).op = "delete" /\ ret = "ok" => Top(t).blue \notin blueprint_dict
    PROVE  NewSound
<1> DEFINE n == Len(stack[t])
<1>1. n \in Nat \ {0}
  BY TopType DEF IInv
<1>2. \A i \in 1..n - 1 : i = n - 1 \/ i \in 1..n - 2
  BY <1>1
<1>3. \A i \in 1..n - 2 : i \in 1..n
  BY <1>1
<1>4. n > 1 => Sound(stack'[t][n - 1])
  <2> SUFFICES ASSUME n > 1 PROVE Sound(stack'[t][n - 1])
    OBVIOUS
  <2>1. PICK f, g : f = stack[t][n - 1] /\ g = stack'[t][n - 1]
    OBVIOUS
  <2>2. n - 1 \in 1..n /\ n \in 1..n
    BY <1>1
  <2>3. Sound(f) /\ Linked(f, Top(t))
    BY <2>1, <2>2, OldFrames DEF Grove, SoundFrames, Top
  <2>4. /\ g.op = f.op /\ g.blue = f.blue /\ g.pc = f.pc /\ g.child = f.child
        /\ g.todo = f.todo /\ g.flag = f.flag /\ g.ret = ret
    BY <2>1, ReturnFrames
  <2>5. f.pc # "failed" /\ f.child = Top(t).blue /\ (f.pc = "orphanDeleting" => Top(t).op = "delete")
    BY <2>3 DEF Linked, Waiting, Callee
  <2>6. Sound(g)
    BY <2>3, <2>4, <2>5 DEF Sound, NoChildIn, Holds
  <2> QED BY <2>1, <2>6
<1>5. ASSUME NEW i \in 1..n - 1 PROVE Sound(stack'[t][i])
  <2>1. CASE i \in 1..n - 2
    BY <1>3, <2>1, ReturnFrames DEF Grove, SoundFrames
  <2>2. CASE i = n - 1
    BY <1>1, <1>4, <2>2
  <2> QED BY <1>2, <2>1, <2>2
<1>6. /\ Len(stack'[t]) = n - 1
      /\ \A u \in Thread \ {t} : \A i \in 1..Len(stack'[u]) : Sound(stack'[u][i])
  BY ReturnFrames DEF Grove, SoundFrames
<1> QED
  BY <1>5, <1>6 DEF NewSound

\* An idle thread starts g.
LEMMA StartSound ==
    ASSUME IInv, Grove, NEW t \in Thread, NEW g \in FrameType, stack[t] = <<>>,
           stack' = [stack EXCEPT ![t] = <<g>>], Sound(g)
    PROVE  NewSound
<1>1. stack'[t] = <<g>> /\ \A u \in Thread \ {t} : stack'[u] = stack[u]
  BY DEF IInv, Stacks
<1>2. Len(stack'[t]) = 1 /\ stack'[t][1] = g /\ \A i \in 1..1 : i = 1
  BY <1>1
<1> QED
  BY <1>1, <1>2 DEF Grove, SoundFrames, NewSound

\* An exception leaves the body of the method.
LEMMA RaiseSound ==
    ASSUME IInv, Grove, NEW t \in Thread, stack[t] # <<>>, NEW ret \in Returns \ {"ok"},
           Raise(t, ret), Top(t).op \in Codes \cup {"delete"},
           Top(t).op \in {"create", "update"} => Holds(Top(t))
    PROVE  NewSound
<1>1. PICK f : Moves(t, f) /\ Goto(t, f) /\ f.pc = "failed" /\ f.child = NoBlue /\ f.todo = {}
               /\ f.ret = ret
  BY RaiseMoves
<1>2. Sound(Top(t))
  BY TopType DEF Grove, SoundFrames, IInv, Top
<1>3. Sound(f)
  BY <1>1, <1>2 DEF Sound, Moves, Holds, Codes, Childless
<1> QED
  BY <1>1, <1>3, GotoSound
-----------------------------------------------------------------------------
\* The running frame is sound.
LEMMA TopSound ==
    ASSUME IInv, Grove, NEW t \in Thread, stack[t] # <<>>
    PROVE  Sound(Top(t))
BY TopType DEF Grove, SoundFrames, IInv, Top

\* The running frame calls the method of another blueprint.
LEMMA NestSound ==
    ASSUME IInv, Tree, Grove, NEW t \in Thread, stack[t] # <<>>, NEW pc \in Waiting,
           NEW c \in Blueprint, NEW op \in {"call", "delete"}, NEW todo \in SUBSET Blueprint,
           Nest(t, Listing(Top(t), todo), pc, c, op),
           Top(t).pc \notin Waiting \cup {"failed", "acquire", "erase"},
           op = "call" => "callChild" \in CodeOps,
           pc = "orphanDeleting" => Top(t).pc = "orphans" /\ Top(t).todo \subseteq todo \cup {c},
           pc = "leftoverDeleting" => Top(t).pc = "cleanup"
    PROVE  NewSound
<1>1. pc \in PCs /\ op \in Ops
  BY DEF PCs, Waiting, Ops
<1>2. PICK f : /\ Moves(t, f) /\ f.pc = pc /\ f.child = c /\ f.todo = todo
               /\ \/ /\ c \in blueprint_dict /\ f.ret = Top(t).ret
                     /\ Push(t, f, Called(op, c))
                  \/ c \notin blueprint_dict /\ f.ret = "error" /\ Goto(t, f)
  BY <1>1, NestMoves
<1>3. /\ f.op = Top(t).op /\ f.blue = Top(t).blue /\ f.flag = Top(t).flag
      /\ Top(t).ret = "none" /\ f.ret # "ok"
  BY <1>2, TopKin DEF Moves, KinFrame
<1>4. Sound(f)
  <2>1. /\ pc \notin {"acquire", "failed", "erase", "orphans"}
        /\ pc \in Childless => pc = "leftoverDeleting"
    BY DEF Waiting, Childless
  <2>2. Sound(Top(t)) /\ (Holds(f) => Holds(Top(t)))
    BY <1>3, TopSound DEF Holds
  <2>3. Orderly /\ f.op = "delete" /\ pc = "orphanDeleting" =>
           NoChildIn(f, f.todo \cup {f.child})
    BY <1>2, <1>3, <2>2 DEF Sound, NoChildIn
  <2>4. Orderly /\ f.op = "delete" /\ pc \in Childless => NoChildIn(f, {})
    BY <1>3, <2>1, <2>2 DEF Sound, NoChildIn, Childless
  <2> QED BY <1>2, <1>3, <2>1, <2>2, <2>3, <2>4 DEF Sound
<1>5. CASE Push(t, f, Called(op, c))
  <2>1. PICK g : g = Called(op, c)
    OBVIOUS
  <2>2. g \in FrameType /\ g.op = op /\ g.pc = "acquire" /\ ~g.flag
    BY <1>1, <2>1, CalledFrame
  <2>3. Sound(g)
    BY <2>2 DEF Sound, Holds, Childless
  <2> QED BY <1>2, <1>4, <1>5, <2>1, <2>2, <2>3, PushSound
<1>6. CASE Goto(t, f)
  BY <1>2, <1>4, <1>6, GotoSound
<1> QED
  BY <1>2, <1>5, <1>6

\* Two frames that hold the same lock are one.
LEMMA OnlyHolder ==
    ASSUME IInv', NEW t \in Thread, NEW i \in 1..Len(stack'[t]), NEW u \in Thread,
           NEW j \in 1..Len(stack'[u]), NEW f, NEW g, f = stack'[t][i], g = stack'[u][j],
           Holds(f), Holds(g), f.blue = g.blue
    PROVE  f = g
<1>1. lock'[f.blue] = t /\ lock'[g.blue] = u
  BY DEF IInv, Discipline, HoldersOwn
<1> QED
  BY <1>1 DEF IInv, Discipline, OneHolder

\* A blueprint is created, by a user or by the operation that holds its parent.
SoundBut(g) ==
    \A u \in Thread : \A i \in 1..Len(stack'[u]) :
        Sound(stack'[u][i]) \/ stack'[u][i] = g
\* g runs on thread t, below it the creation or update of the parent p.
CreatedBy(t, g, p) ==
    /\ \E i \in 1..Len(stack'[t]) : stack'[t][i] = g
    /\ p # NoBlue =>
          \E i \in 1..Len(stack'[t]) :
              /\ stack'[t][i].op \in {"create", "update"} /\ Holds(stack'[t][i])
              /\ stack'[t][i].blue = p

\* The new blueprint is a leaf under a parent nobody can be deleting: its lock is held.
LEMMA GroveCreate ==
    ASSUME Guarded, IInv, IInv', Tree', Grove, NEW t \in Thread, NEW c \in Blueprint,
           NEW p \in blueprint_dict \cup {NoBlue}, StartCreate(c, p, t),
           NEW g, g.op = "create", g.pc = "body", g.blue = c, SoundBut(g), CreatedBy(t, g, p)
    PROVE  Grove' /\ Grows
<1>1. /\ blueprint_dict' = blueprint_dict \cup {c} /\ docs' = docs \cup {c}
      /\ used' = used \cup {c} /\ c \notin used
      /\ deleted' = deleted /\ blue'[c].parent = p
      /\ \A a \in Blueprint \ {c} : blue'[a] = blue[a]
  BY NewBlueFields DEF StartCreate, Save, SaveThen, IInv, Data
<1>2. \A a \in blueprint_dict : a \in Blueprint \ {c}
  BY <1>1 DEF IInv, Data
<1>3. ASSUME NEW u \in Thread, NEW i \in 1..Len(stack'[u]), NEW f, f = stack'[u][i],
             f.op = "delete", Holds(f)
      PROVE  f.blue # c /\ f.blue # p
  <2>1. f.blue # NoBlue
    BY <1>3, LifecycleAssumption DEF IInv, Discipline, FramesUsed, Data
  <2>2. Holds(g)
    BY DEF Holds, Codes
  <2>3. f.blue # c
    BY <1>3, <2>2, OnlyHolder DEF CreatedBy
  <2>4. ASSUME p # NoBlue, f.blue = p PROVE FALSE
    <3>1. PICK j \in 1..Len(stack'[t]) :
             /\ stack'[t][j].op \in {"create", "update"} /\ Holds(stack'[t][j])
             /\ stack'[t][j].blue = p
      BY <2>4 DEF CreatedBy
    <3>2. PICK h : h = stack'[t][j]
      OBVIOUS
    <3>3. h = f
      BY <1>3, <2>4, <3>1, <3>2, OnlyHolder
    <3> QED BY <1>3, <3>1, <3>2, <3>3
  <2> QED BY <2>1, <2>3, <2>4
<1>4. ASSUME NEW u \in Thread, NEW i \in 1..Len(stack'[u]), NEW f, f = stack'[u][i]
      PROVE  Sound(f)'
  <2>1. CASE f = g
    BY <1>1, <2>1 DEF Sound, Childless
  <2>2. CASE Sound(f)
    <3>1. f.op = "delete" /\ Holds(f) => f.blue # c /\ f.blue # p
      BY <1>3, <1>4
    <3>2. ASSUME NEW S, f.op = "delete", Holds(f), NoChildIn(f, S) PROVE NoChildIn(f, S)'
      BY <1>1, <1>2, <3>1, <3>2 DEF NoChildIn
    <3>3. Orderly /\ f.op = "delete" /\ f.pc = "orphanDeleting" => f.child # c
      <4> SUFFICES ASSUME Orderly, f.op = "delete", f.pc = "orphanDeleting", f.child = c PROVE FALSE
        OBVIOUS
      <4>1. KinFrame(f)'
        BY <1>4 DEF Tree, FrameKin, KinFrame
      <4>2. c # NoBlue
        BY LifecycleAssumption
      <4>3. blue'[c].parent = f.blue
        BY <4>1, <4>2 DEF KinFrame, ChildOf, Orderly
      <4>4. Holds(f)
        BY DEF Holds
      <4> QED BY <1>1, <3>1, <4>3, <4>4
    <3>4. Orderly /\ f.op = "delete" /\ f.pc = "orphans" => NoChildIn(f, f.todo)'
      BY <2>2, <3>2 DEF Sound, Holds
    <3>5. Orderly /\ f.op = "delete" /\ f.pc = "orphanDeleting" =>
             NoChildIn(f, f.todo \cup {f.child})' /\ (f.ret = "ok" => f.child \notin blueprint_dict')
      BY <1>1, <2>2, <3>2, <3>3 DEF Sound, Holds
    <3>6. Orderly /\ f.op = "delete" /\ f.pc \in Childless => NoChildIn(f, {})'
      BY <2>2, <3>2 DEF Sound, Holds, Childless
    <3>7. Holds(f)' <=> Holds(f)
      BY DEF Holds
    <3> QED BY <1>1, <2>2, <3>1, <3>4, <3>5, <3>6 DEF Sound
  <2> QED BY <1>4, <2>1, <2>2 DEF SoundBut
<1>5. SoundFrames'
  <2> SUFFICES ASSUME NEW u \in Thread, NEW i \in 1..Len(stack'[u])
               PROVE  Sound(stack[u][i])'
    BY DEF SoundFrames
  <2>1. PICK f : f = stack'[u][i]
    OBVIOUS
  <2>2. Sound(f)'
    BY <1>4, <2>1
  <2> QED BY <2>1, <2>2 DEF Sound, NoChildIn, Holds
<1>6. (Orderly => NoOrphans)'
  BY <1>1, <1>2 DEF Grove, NoOrphans
<1>7. (blueprint_dict' \cup docs') \cap deleted' = {} /\ deleted' \subseteq used'
  BY <1>1 DEF Grove
<1>8. Grows
  <2>1. Parents' = [Parents EXCEPT ![c] = p]
    BY <1>1 DEF Parents
  <2>2. Forest!Plant(c, p)
    BY <1>1, <2>1 DEF Forest!Plant, Parents
  <2>3. p \in Blueprint \cup {NoBlue}
    BY DEF IInv, Data
  <2> QED BY <2>2, <2>3 DEF Grows, Forest!Next
<1> QED
  BY <1>5, <1>6, <1>7, <1>8 DEF Grove
-----------------------------------------------------------------------------
\* The steps of Next, one lemma each: a request of the user starts a thread.
LEMMA GroveUserStep ==
    ASSUME Guarded, IInv, IInv', Tree', Grove, NEW t \in Thread, UserStep(t)
    PROVE  Grove' /\ Grows
<1>1. CASE UserCreate(t)
  <2>1. PICK c \in Blueprint :
           /\ StartCreate(c, NoBlue, t) /\ stack[t] = <<>>
           /\ stack' = [stack EXCEPT ![t] = <<Frame("create", c, "body", FALSE)>>]
    BY <1>1 DEF UserCreate
  <2>2. PICK g \in FrameType :
           /\ g = Frame("create", c, "body", FALSE) /\ g.op = "create" /\ g.blue = c
           /\ g.pc = "body"
    BY NewFrame
  <2>3. stack'[t] = <<g>> /\ \A u \in Thread \ {t} : stack'[u] = stack[u]
    BY <2>1, <2>2 DEF IInv, Stacks
  <2>4. Len(stack'[t]) = 1 /\ stack'[t][1] = g /\ (\A i \in 1..1 : i = 1) /\ 1 \in 1..1
    BY <2>3
  <2>5. SoundBut(g)
    BY <2>3, <2>4 DEF Grove, SoundFrames, SoundBut
  <2>6. CreatedBy(t, g, NoBlue)
    BY <2>4 DEF CreatedBy
  <2>7. NoBlue \in blueprint_dict \cup {NoBlue}
    OBVIOUS
  <2> QED BY <2>1, <2>2, <2>5, <2>6, <2>7, GroveCreate
<1>2. CASE ~UserCreate(t)
  <2>1. PICK g \in FrameType :
           /\ stack' = [stack EXCEPT ![t] = <<g>>]
           /\ g.pc \in {"acquire", "apply", "loop"}
           /\ g.op \in {"deleteAll", "update", "get", "delete", "protect"}
           /\ g.op = "protect" => "protect" \in UserOps
           /\ g.op = "delete" /\ g.flag => "force" \in UserOps
           /\ g.op = "delete" \/ g.op = "update" => g.pc = "acquire"
    BY <1>2, UserStarts
  <2>2. stack[t] = <<>> /\ UNCHANGED <<registry, lock, used, deleted>>
    BY <1>2, UserStarts
  <2>3. Sound(g)
    BY <2>1 DEF Sound, Guarded, Orderly, Holds, Childless
  <2> QED BY <2>1, <2>2, <2>3, StartSound, SameStill, GroveStill
<1> QED
  BY <1>1, <1>2

\* An operation gets the lock it waited for.
LEMMA GroveEnterStep ==
    ASSUME Guarded, IInv, Tree, Grove, NEW t \in Thread, EnterStep(t)
    PROVE  Grove' /\ Grows
<1>1. /\ stack[t] # <<>> /\ Top(t).pc = "acquire" /\ Top(t).op \in Codes \cup {"delete"}
      /\ UNCHANGED <<used, deleted>>
  BY DEF EnterStep, EnterUpdate, EnterCode, EnterDelete, CanAcquire, Running, Codes
<1>2. PICK b : b = Top(t).blue
  OBVIOUS
<1>3. Sound(Top(t))
  BY <1>1, TopSound
<1>4. \/ UNCHANGED registry
      \/ b \in blueprint_dict /\ \E s : SetStatus(b, s)
  BY <1>2 DEF EnterStep, EnterUpdate, EnterCode, EnterDelete
<1>5. Still
  BY <1>1, <1>4, SameStill, StatusStill
<1>6. ASSUME NEW pc \in {"body", "children"}, Goto(t, [Top(t) EXCEPT !.pc = pc]),
             Top(t).op \in {"update", "delete"} => b \in blueprint_dict,
             Top(t).op # "create"
      PROVE  NewSound
  <2>1. pc \in PCs \ Waiting
    BY DEF PCs, Waiting
  <2>2. PICK f : Moves(t, f) /\ Goto(t, f) /\ f.pc = pc
    BY <1>1, <1>6, <2>1, GotoMoves
  <2>3. Sound(f)
    BY <1>2, <1>3, <1>6, <2>2 DEF Sound, Moves, Childless
  <2> QED BY <1>1, <2>2, <2>3, GotoSound
<1>7. CASE EnterUpdate(t)
  <2>1. Top(t).op = "update"
    BY <1>7 DEF EnterUpdate, CanAcquire, Running
  <2>2. CASE Return(t, "error")
    BY <1>1, <1>5, <2>1, <2>2, ReturnSound, GroveStill DEF Returns
  <2>3. CASE b \in blueprint_dict /\ Goto(t, [Top(t) EXCEPT !.pc = "body"])
    BY <1>1, <1>5, <1>6, <2>1, <2>3, GroveStill
  <2> QED BY <1>2, <1>7, <2>2, <2>3 DEF EnterUpdate
<1>8. CASE EnterCode(t)
  <2>1. Top(t).op \in {"call", "get"} /\ Goto(t, [Top(t) EXCEPT !.pc = "body"])
    BY <1>8 DEF EnterCode, CanAcquire, Running
  <2> QED BY <1>1, <1>5, <1>6, <2>1, GroveStill
<1>9. CASE EnterDelete(t)
  <2>1. Top(t).op = "delete"
    BY <1>9 DEF EnterDelete, CanAcquire, Running
  <2>2. CASE Raise(t, "protected") \/ Raise(t, "error")
    BY <1>1, <1>5, <2>1, <2>2, RaiseSound, GroveStill DEF Returns
  <2>3. CASE b \in blueprint_dict /\ Goto(t, [Top(t) EXCEPT !.pc = "children"])
    BY <1>1, <1>5, <1>6, <2>1, <2>3, GroveStill
  <2> QED BY <1>2, <1>9, <2>2, <2>3 DEF EnterDelete
<1> QED
  BY <1>7, <1>8, <1>9 DEF EnterStep

\* The code of a blueprint creates a child.
LEMMA GroveCreateChild ==
    ASSUME Guarded, IInv, IInv', Tree', Grove, NEW t \in Thread, CodeCreateChild(t)
    PROVE  Grove' /\ Grows
<1>0. PICK n : n = Len(stack[t])
  OBVIOUS
<1>1. /\ stack[t] # <<>> /\ Top(t).pc = "body" /\ Top(t).op \in {"create", "update"}
  BY DEF CodeCreateChild, CodeMay, Running
<1>2. PICK b : b = Top(t).blue
  OBVIOUS
<1>3. Top(t) \in FrameType /\ Sound(Top(t)) /\ b \in blueprint_dict
  BY <1>1, <1>2, RunningFrame, TopSound DEF Sound, Holds, Codes
<1>4. PICK c \in Blueprint :
         /\ StartCreate(c, b, t)
         /\ Push(t, [Top(t) EXCEPT !.pc = "creating", !.child = c],
                 Frame("create", c, "body", FALSE))
  BY <1>2 DEF CodeCreateChild
<1>5. PICK f : f = [Top(t) EXCEPT !.pc = "creating", !.child = c]
  OBVIOUS
<1>6. f \in FrameType /\ f.op = Top(t).op /\ f.blue = b /\ f.pc = "creating"
  <2>1. "creating" \in PCs
    BY DEF PCs
  <2> QED BY <1>2, <1>3, <1>5, <2>1 DEF FrameType
<1>7. PICK g \in FrameType :
         /\ g = Frame("create", c, "body", FALSE) /\ g.op = "create" /\ g.blue = c
         /\ g.pc = "body"
  BY NewFrame
<1>8. /\ n \in Nat \ {0} /\ Len(stack'[t]) = n + 1 /\ stack'[t][n] = f /\ stack'[t][n + 1] = g
      /\ \A i \in 1..n - 1 : stack'[t][i] = stack[t][i]
      /\ \A u \in Thread \ {t} : stack'[u] = stack[u]
  <2>1. Stacks /\ Push(t, f, g) /\ stack[t] # <<>>
    BY <1>1, <1>4, <1>5, <1>7 DEF IInv
  <2>2. f \in FrameType /\ g \in FrameType
    BY <1>6, <1>7
  <2>3. n \in Nat \ {0}
    BY <1>0, <2>1, TopType
  <2> QED BY <1>0, <2>1, <2>2, <2>3, PushType
<1>9. /\ \A i \in 1..n + 1 : i = n + 1 \/ i = n \/ (i \in 1..n - 1 /\ i \in 1..n)
      /\ n \in 1..n + 1 /\ n + 1 \in 1..n + 1
  BY <1>8
<1>10. Sound(f)
  BY <1>1, <1>3, <1>6 DEF Sound, Childless
<1>11. SoundBut(g)
  BY <1>0, <1>8, <1>9, <1>10 DEF Grove, SoundFrames, SoundBut
<1>12. CreatedBy(t, g, b)
  BY <1>1, <1>6, <1>8, <1>9 DEF CreatedBy, Holds, Codes
<1> QED
  BY <1>3, <1>4, <1>7, <1>11, <1>12, GroveCreate

\* It calls or deletes a child, saves, or fails.
LEMMA GroveCodeStep ==
    ASSUME Guarded, IInv, IInv', Tree, Tree', Grove, NEW t \in Thread, CodeStep(t)
    PROVE  Grove' /\ Grows
<1>1. CASE CodeCreateChild(t)
  BY <1>1, GroveCreateChild
<1>2. /\ stack[t] # <<>> /\ Top(t).pc = "body" /\ Top(t).op \in Codes
  BY DEF CodeStep, CodeCreateChild, CodeCallChild, CodeDeleteChild, CodeSave, CodeFails,
         CodeMay, Running, Codes
<1>3. Top(t).blue \in Blueprint /\ Sound(Top(t))
  BY <1>2, RunningFrame, TopSound DEF Codes
<1>4. ASSUME NEW c \in blue[Top(t).blue].children, NEW pc \in {"calling", "deleting"},
             NEW op \in {"call", "delete"}, op = "call" => "callChild" \in CodeOps,
             Nest(t, Top(t), pc, c, op), UNCHANGED <<registry, lock, used, deleted>>
      PROVE  Grove' /\ Grows
  <2>1. c \in Blueprint /\ pc \in Waiting /\ Top(t).todo \in SUBSET Blueprint
    BY <1>2, <1>3, ChildrenType, TopListing DEF Waiting
  <2>2. Top(t).pc \notin Waiting \cup {"failed", "acquire", "erase"}
    BY <1>2 DEF Waiting
  <2>3. Nest(t, Listing(Top(t), Top(t).todo), pc, c, op)
    BY <1>2, <1>4, TopListing
  <2>4. NewSound
    BY <1>2, <1>4, <2>1, <2>2, <2>3, NestSound
  <2> QED BY <1>4, <2>4, SameStill, GroveStill
<1>5. CASE CodeCallChild(t)
  <2>1. "callChild" \in CodeOps
    BY <1>5 DEF CodeCallChild, CodeMay
  <2> QED BY <1>4, <1>5, <2>1 DEF CodeCallChild
<1>6. CASE CodeDeleteChild(t)
  BY <1>4, <1>6 DEF CodeDeleteChild
<1>7. CASE CodeSave(t)
  <2>1. PICK b : b = Top(t).blue
    OBVIOUS
  <2>2. /\ SaveThen(b, blue[b], blue[b]) /\ UNCHANGED <<stack, used, deleted>>
        /\ "save" \in CodeOps /\ Top(t).op \in {"create", "update", "call"}
    BY <1>7, <2>1 DEF CodeSave, Save, CodeMay, Running
  <2>3. b \in blueprint_dict
    BY <1>2, <1>3, <2>1, <2>2 DEF Sound, Guarded, Holds, Codes
  <2>4. Still
    BY <2>2, <2>3, SaveStill
  <2> QED BY <2>2, <2>4, OldSound, GroveStill
<1>8. CASE CodeFails(t)
  <2>1. Raise(t, "error") /\ UNCHANGED <<registry, lock, used, deleted>>
    BY <1>8 DEF CodeFails
  <2>2. NewSound
    BY <1>2, <2>1, RaiseSound DEF Returns, Holds
  <2> QED BY <2>1, <2>2, SameStill, GroveStill
<1> QED
  BY <1>1, <1>5, <1>6, <1>7, <1>8 DEF CodeStep

\* The code of a blueprint ends or raises.
LEMMA GroveCodeExit ==
    ASSUME Guarded, IInv, Tree, Grove, NEW t \in Thread, CodeExit(t)
    PROVE  Grove' /\ Grows
<1>1. /\ stack[t] # <<>> /\ Top(t).op \in Codes /\ Top(t).pc # "acquire"
      /\ UNCHANGED <<used, deleted>>
  BY DEF CodeExit, CodeEnds, CodeRaises, Running, Codes
<1>2. Top(t).ret \in Returns /\ Sound(Top(t))
  BY <1>1, RunningFrame, TopSound DEF FrameType
<1>3. UNCHANGED registry \/ (Top(t).blue \in blueprint_dict /\ \E s : SetStatus(Top(t).blue, s))
  <2>1. Top(t).op \in {"create", "update"} => Top(t).blue \in blueprint_dict
    BY <1>1, <1>2 DEF Sound, Holds
  <2> QED BY <2>1 DEF CodeExit, CodeEnds, CodeRaises
<1>4. \E ret \in Returns : Return(t, ret)
  BY <1>2 DEF CodeExit, CodeEnds, CodeRaises, Returns
<1>5. NewSound
  BY <1>1, <1>4, ReturnSound DEF Codes
<1>6. Still
  BY <1>1, <1>3, SameStill, StatusStill
<1> QED
  BY <1>1, <1>5, <1>6, GroveStill
-----------------------------------------------------------------------------
\* A child is recorded or forgotten.
LEMMA RecordStill ==
    ASSUME IInv, NEW b \in blueprint_dict, NEW c, used' = used,
           RecordChild(b, c) \/ ForgetChild(b, c)
    PROVE  Still
<1>1. blue[b] \in BlueType
  BY ChildrenType DEF IInv, Data
<1>2. CASE RecordChild(b, c)
  <2> DEFINE r == [blue[b] EXCEPT !.deployed = @ \cup {c}]
             m == [r EXCEPT !.children = @ \cup {c}]
  <2>1. m.parent = blue[b].parent
    BY <1>1 DEF BlueType
  <2>2. SaveThen(b, r, m)
    BY <1>2 DEF RecordChild
  <2> HIDE DEF r, m
  <2> QED BY <2>1, <2>2, SaveStill
<1>3. CASE ForgetChild(b, c)
  <2> DEFINE r == [blue[b] EXCEPT !.deployed = @ \ {c}]
             m == [r EXCEPT !.children = @ \ {c}]
  <2>1. m.parent = blue[b].parent
    BY <1>1 DEF BlueType
  <2>2. SaveThen(b, r, m)
    BY <1>3 DEF ForgetChild
  <2> HIDE DEF r, m
  <2> QED BY <2>1, <2>2, SaveStill
<1> QED
  BY <1>2, <1>3

\* A method takes up where the one it called returned.
LEMMA ResumeSound ==
    ASSUME IInv, Grove, NEW t \in Thread, stack[t] # <<>>, Top(t).pc \in Waiting,
           NEW pc \in {"body", "children", "orphans", "cleanup", "loop"}, Resume(t, pc),
           pc = "cleanup" => Top(t).pc = "leftoverDeleting",
           pc = "orphans" => Top(t).pc = "orphanDeleting" /\ Top(t).ret = "ok"
    PROVE  NewSound
<1>1. pc \in PCs \ Waiting
  BY DEF PCs, Waiting
<1>2. PICK f : /\ Moves(t, f) /\ Goto(t, f) /\ f.pc = pc /\ f.child = NoBlue
               /\ f.todo = Top(t).todo /\ f.ret = "none"
  BY <1>1, ResumeMoves
<1>3. /\ Sound(Top(t)) /\ Top(t).pc \notin {"failed", "erase", "acquire"}
      /\ f.op = Top(t).op /\ f.blue = Top(t).blue /\ f.flag = Top(t).flag
  BY <1>2, TopSound DEF Moves, Waiting
<1>4. Holds(f) => Holds(Top(t))
  BY <1>3 DEF Holds
<1>5. Orderly /\ f.op = "delete" /\ f.pc = "orphans" => NoChildIn(f, f.todo)
  BY <1>2, <1>3 DEF Sound, NoChildIn
<1>6. Orderly /\ f.op = "delete" /\ f.pc \in Childless => NoChildIn(f, {})
  BY <1>2, <1>3 DEF Sound, NoChildIn, Childless
<1>7. Sound(f)
  BY <1>2, <1>3, <1>4, <1>5, <1>6 DEF Sound
<1> QED
  BY <1>2, <1>7, GotoSound

\* A method goes on after the method it called.
LEMMA GroveReturnStep ==
    ASSUME Guarded, IInv, Local, Tree, Grove, NEW t \in Thread, ReturnStep(t)
    PROVE  Grove' /\ Grows
<1>1. stack[t] # <<>> /\ Top(t).pc \in Waiting /\ UNCHANGED <<used, deleted>>
  BY DEF ReturnStep, CodeResumes, ChildDestroyed, OrphanDestroyed, LeftoverDestroyed,
         DeleteAllResumes, DeleteStep, Running, Waiting
<1>2. /\ Top(t) \in FrameType /\ Sound(Top(t)) /\ Top(t).ret \in Returns
      /\ Top(t).pc \notin {"acquire", "failed", "erase"}
      /\ Top(t).op \in Codes \cup {"delete"} => Holds(Top(t)) /\ Held(Top(t))
  <2>1. Top(t).op \in Codes \cup {"delete"} => Holds(Top(t))
    BY <1>1 DEF Holds, Waiting
  <2> QED BY <1>1, <2>1, RunningFrame, TopSound, TopHeld DEF FrameType, Waiting
<1>3. ASSUME Top(t).op \in Codes \cup {"delete"}, Raise(t, Top(t).ret), Top(t).ret # "ok"
      PROVE  NewSound
  BY <1>1, <1>2, <1>3, RaiseSound
<1>4. ASSUME Top(t).op \in {"create", "update", "delete"},
             RecordChild(Top(t).blue, Top(t).child) \/ ForgetChild(Top(t).blue, Top(t).child)
      PROVE  Still
  <2>1. Top(t).blue \in blueprint_dict
    BY <1>2, <1>4 DEF Sound, Codes
  <2> QED BY <1>1, <1>4, <2>1, RecordStill
<1>5. CASE CodeResumes(t)
  <2>1. Top(t).op \in Codes /\ Top(t).pc \in {"creating", "calling", "deleting"}
    BY <1>5 DEF CodeResumes, Running
  <2>2. CASE Raise(t, Top(t).ret) /\ Top(t).ret # "ok" /\ UNCHANGED registry
    BY <1>1, <1>3, <2>1, <2>2, SameStill, GroveStill
  <2>3. CASE /\ Resume(t, "body") /\ Top(t).pc # "calling"
             /\ \/ RecordChild(Top(t).blue, Top(t).child)
                \/ ForgetChild(Top(t).blue, Top(t).child)
    <3>1. Top(t).op \in {"create", "update"}
      BY <1>2, <2>1, <2>3 DEF Held, Codes
    <3> QED BY <1>1, <1>4, <2>3, <3>1, ResumeSound, GroveStill
  <2>4. CASE Resume(t, "body") /\ UNCHANGED registry
    BY <1>1, <2>4, ResumeSound, SameStill, GroveStill
  <2> QED BY <1>5, <2>1, <2>2, <2>3, <2>4 DEF CodeResumes
<1>6. CASE ChildDestroyed(t)
  <2>1. Top(t).op = "delete"
    BY <1>6 DEF ChildDestroyed, DeleteStep, Running
  <2>2. CASE Raise(t, Top(t).ret) /\ Top(t).ret # "ok" /\ UNCHANGED registry
    BY <1>1, <1>3, <2>1, <2>2, SameStill, GroveStill
  <2>3. CASE ForgetChild(Top(t).blue, Top(t).child) /\ Resume(t, "children")
    BY <1>1, <1>4, <2>1, <2>3, ResumeSound, GroveStill
  <2> QED BY <1>6, <2>2, <2>3 DEF ChildDestroyed
<1>7. CASE OrphanDestroyed(t)
  <2>1. /\ Top(t).op = "delete" /\ Top(t).pc = "orphanDeleting"
        /\ UNCHANGED <<registry, lock, used, deleted>>
    BY <1>7 DEF OrphanDestroyed, DeleteStep, Running
  <2>2. NewSound
    BY <1>1, <1>3, <1>7, <2>1, ResumeSound DEF OrphanDestroyed
  <2> QED BY <2>1, <2>2, SameStill, GroveStill
<1>8. CASE LeftoverDestroyed(t)
  <2>1. /\ Top(t).pc = "leftoverDeleting" /\ Resume(t, "cleanup")
        /\ UNCHANGED <<registry, lock, used, deleted>>
    BY <1>8 DEF LeftoverDestroyed, DeleteStep, Running
  <2> QED BY <1>1, <2>1, ResumeSound, SameStill, GroveStill
<1>9. CASE DeleteAllResumes(t)
  <2>1. Top(t).op = "deleteAll" /\ UNCHANGED <<registry, lock, used, deleted>>
    BY <1>9 DEF DeleteAllResumes, Running
  <2>2. CASE Return(t, "error")
    BY <1>1, <2>1, <2>2, ReturnSound, SameStill, GroveStill DEF Returns
  <2>3. CASE Resume(t, "loop")
    BY <1>1, <2>1, <2>3, ResumeSound, SameStill, GroveStill
  <2> QED BY <1>9, <2>2, <2>3 DEF DeleteAllResumes
<1> QED
  BY <1>5, <1>6, <1>7, <1>8, <1>9 DEF ReturnStep

\* The running deletion goes on, with the list it had or another one.
LEMMA GoOnSound ==
    ASSUME IInv, Grove, NEW t \in Thread, stack[t] # <<>>,
           NEW pc \in {"orphans", "resources", "cleanup", "pop"}, NEW todo \in SUBSET Blueprint,
           \/ Goto(t, Going(Top(t), pc, todo))
           \/ Goto(t, [Top(t) EXCEPT !.pc = pc]) /\ todo = Top(t).todo,
           Top(t).op = "delete", Top(t).pc \notin Waiting \cup {"failed", "acquire", "erase"},
           Orderly /\ pc = "orphans" => NoChildIn(Top(t), todo),
           Orderly /\ pc # "orphans" => NoChildIn(Top(t), {})
    PROVE  NewSound
<1>1. pc \in PCs \ Waiting
  BY DEF PCs, Waiting
<1>2. PICK f : Moves(t, f) /\ Goto(t, f) /\ f.pc = pc /\ f.todo = todo
  BY <1>1, GotoMoves, ListMoves
<1>3. Sound(Top(t)) /\ f.op = Top(t).op /\ f.blue = Top(t).blue /\ f.flag = Top(t).flag
  BY <1>2, TopSound DEF Moves
<1>4. Orderly /\ f.pc = "orphans" => NoChildIn(f, f.todo)
  BY <1>2, <1>3 DEF NoChildIn
<1>5. Orderly /\ f.pc # "orphans" => NoChildIn(f, {})
  BY <1>2, <1>3 DEF NoChildIn
<1>6. f.blue \in blueprint_dict
  BY <1>3 DEF Sound, Holds, Waiting
<1>7. f.pc \in {"orphans", "resources", "cleanup", "pop"} /\ f.op = "delete" /\ (Orderly => ~f.flag)
  BY <1>2, <1>3 DEF Sound
<1>8. Sound(f)
  BY <1>4, <1>5, <1>6, <1>7 DEF Sound, Childless
<1> QED
  BY <1>2, <1>8, GotoSound

\* Only a leaf is removed from the dictionary.
LEMMA GrovePop ==
    ASSUME IInv, IInv', Grove, NEW t \in Thread, PopBlueprint(t)
    PROVE  Grove' /\ (Orderly => Grows)
<1>0. PICK n, b : n = Len(stack[t]) /\ b = Top(t).blue
  OBVIOUS
<1>1. /\ stack[t] # <<>> /\ Top(t).op = "delete" /\ Top(t).pc = "pop"
      /\ Goto(t, [Top(t) EXCEPT !.pc = "erase"]) /\ blueprint_dict' = blueprint_dict \ {b}
      /\ UNCHANGED <<blue, docs, saved, lock, used, deleted>>
  BY <1>0 DEF PopBlueprint, DeleteStep, Running
<1>2. Sound(Top(t)) /\ b \in blueprint_dict /\ (Orderly => NoChildIn(Top(t), {}))
  BY <1>0, <1>1, TopSound DEF Sound, Holds, Childless
<1>3. PICK f : Moves(t, f) /\ Goto(t, f) /\ f.pc = "erase"
  BY <1>1, GotoMoves DEF PCs, Waiting
<1>4. f.op = "delete" /\ f.blue = b /\ f.flag = Top(t).flag /\ Holds(f)
  BY <1>0, <1>1, <1>3 DEF Moves, Holds
<1>5. /\ n \in Nat \ {0} /\ Len(stack'[t]) = n /\ stack'[t][n] = f
      /\ \A i \in 1..n - 1 : stack'[t][i] = stack[t][i]
      /\ \A u \in Thread \ {t} : stack'[u] = stack[u]
  BY <1>0, <1>1, <1>3, TopType, GotoType DEF Moves, IInv
<1>6. \A i \in 1..n : i = n \/ i \in 1..n - 1
  BY <1>5
<1>7. Orderly => NoChildIn(f, {})
  BY <1>0, <1>2, <1>4 DEF NoChildIn
<1>8. Sound(f)'
  BY <1>1, <1>2, <1>3, <1>4, <1>7 DEF Sound, NoChildIn, Holds
<1>9. ASSUME NEW h, Sound(h), Holds(h) => h.blue # b
      PROVE  Sound(h)'
  <2>1. \A S : NoChildIn(h, S) => NoChildIn(h, S)'
    BY <1>1 DEF NoChildIn
  <2>2. h.pc = "orphanDeleting" /\ h.ret = "ok" /\ h.child \notin blueprint_dict =>
           h.child \notin blueprint_dict'
    BY <1>1
  <2> QED BY <1>1, <1>9, <2>1, <2>2 DEF Sound, Holds
<1>10. SoundFrames'
  <2> SUFFICES ASSUME NEW u \in Thread, NEW i \in 1..Len(stack'[u])
               PROVE  Sound(stack[u][i])'
    BY DEF SoundFrames
  <2>1. PICK h : h = stack'[u][i]
    OBVIOUS
  <2>2. Sound(h)'
    <3>1. CASE h = f
      BY <1>8, <3>1
    <3>2. CASE h # f
      <4>1. Sound(h)
        BY <1>0, <1>5, <1>6, <2>1, <3>2 DEF Grove, SoundFrames
      <4>2. n \in 1..Len(stack'[t])
        BY <1>5
      <4>3. Holds(h) => h.blue # b
        BY <1>4, <1>5, <2>1, <3>2, <4>2, OnlyHolder
      <4> QED BY <1>9, <4>1, <4>3
    <3> QED BY <3>1, <3>2
  <2> QED BY <2>1, <2>2 DEF Sound, NoChildIn, Holds
<1>11. (Orderly => NoOrphans)'
  BY <1>0, <1>1, <1>2 DEF Grove, NoOrphans, NoChildIn
<1>12. (blueprint_dict' \cup docs') \cap deleted' = {} /\ deleted' \subseteq used'
  BY <1>1 DEF Grove
<1>13. Orderly => Grows
  <2> SUFFICES ASSUME Orderly PROVE Grows
    OBVIOUS
  <2>1. Parents' = Parents
    BY <1>1 DEF Parents
  <2>2. Forest!Remove(b)
    BY <1>0, <1>1, <1>2, <2>1 DEF Forest!Remove, Parents, NoChildIn, IInv, Data
  <2> QED BY <1>2, <2>2 DEF Grows, Forest!Next, IInv, Data
<1> QED
  BY <1>10, <1>11, <1>12, <1>13 DEF Grove
-----------------------------------------------------------------------------
\* A step of destroy_blueprint, of delete_all_blueprints or of the protection.
LEMMA GroveDestroyStep ==
    ASSUME Guarded, IInv, IInv', Tree, Grove, NEW t \in Thread, DestroyStep(t)
    PROVE  Grove' /\ (Orderly => Grows)
<1>1. /\ stack[t] # <<>> /\ Top(t).op \in {"delete", "protect", "deleteAll"} /\ used' = used
      /\ Top(t).pc \notin Waiting \cup {"acquire"}
  BY DEF DestroyStep, DestroyChildren, DestroyOrphans, DestroyResources, FinalCleanup,
         PopBlueprint, EraseBlueprint, DeleteRaises, ApplyProtect, DeleteNext, DeleteStep,
         Running, Waiting
<1>2. PICK b : b = Top(t).blue
  OBVIOUS
<1>3. /\ Top(t) \in FrameType /\ Top(t).ret \in Returns /\ Top(t).todo \in SUBSET Blueprint
      /\ Sound(Top(t))
      /\ Top(t).op # "deleteAll" => b \in used /\ b \in Blueprint
  BY <1>1, <1>2, RunningFrame, TopSound DEF FrameType
<1>4. /\ Top(t).op = "delete" /\ Top(t).pc \notin {"failed", "erase"} => b \in blueprint_dict
      /\ Top(t).op = "delete" /\ Top(t).pc = "erase" => b \notin blueprint_dict
  BY <1>1, <1>2, <1>3 DEF Sound, Holds
<1>5. ASSUME NewSound, UNCHANGED <<registry, lock, used, deleted>>
      PROVE  Grove' /\ (Orderly => Grows)
  BY <1>5, SameStill, GroveStill
<1>6. ASSUME NEW c \in Top(t).todo, NEW pc \in {"orphanDeleting", "leftoverDeleting", "next"},
             Nest(t, [Top(t) EXCEPT !.todo = @ \ {c}], pc, c, "delete"),
             Top(t).pc \notin {"failed", "erase"},
             pc = "orphanDeleting" => Top(t).pc = "orphans",
             pc = "leftoverDeleting" => Top(t).pc = "cleanup"
      PROVE  NewSound
  <2>1. /\ c \in Blueprint /\ Top(t).todo \ {c} \in SUBSET Blueprint /\ pc \in Waiting
        /\ Top(t).todo \subseteq (Top(t).todo \ {c}) \cup {c}
    BY <1>3 DEF Waiting
  <2>2. Nest(t, Listing(Top(t), Top(t).todo \ {c}), pc, c, "delete")
    BY <1>3, <1>6 DEF FrameType, Listing
  <2> QED BY <1>1, <1>6, <2>1, <2>2, NestSound
<1>7. CASE DestroyChildren(t)
  <2>1. /\ Top(t).op = "delete" /\ Top(t).pc = "children"
        /\ UNCHANGED <<registry, lock, used, deleted>>
    BY <1>7 DEF DestroyChildren, DeleteStep, Running
  <2>2. CASE \E c \in blue[b].children : Nest(t, Top(t), "childDeleting", c, "delete")
    <3>1. PICK c \in blue[b].children : Nest(t, Top(t), "childDeleting", c, "delete")
      BY <2>2
    <3>2. c \in Blueprint /\ "childDeleting" \in Waiting
      BY <1>3, <2>1, ChildrenType DEF Waiting
    <3>3. Nest(t, Listing(Top(t), Top(t).todo), "childDeleting", c, "delete")
      BY <1>1, <3>1, TopListing
    <3> QED BY <1>1, <1>3, <1>5, <2>1, <3>2, <3>3, NestSound
  <2>3. CASE Goto(t, Going(Top(t), "orphans", {c \in blueprint_dict : blue[c].parent = b}))
    <3>1. PICK others : others = {c \in blueprint_dict : blue[c].parent = b}
      OBVIOUS
    <3>2. others \in SUBSET Blueprint /\ NoChildIn(Top(t), others)
      BY <1>2, <3>1 DEF IInv, Data, NoChildIn
    <3> QED BY <1>1, <1>5, <2>1, <2>3, <3>1, <3>2, GoOnSound
  <2> QED BY <1>2, <1>7, <2>2, <2>3 DEF DestroyChildren, Going
<1>8. CASE DestroyOrphans(t)
  <2>1. /\ Top(t).op = "delete" /\ Top(t).pc = "orphans"
        /\ UNCHANGED <<registry, lock, used, deleted>>
    BY <1>8 DEF DestroyOrphans, DeleteStep, Running
  <2>2. CASE \E c \in Top(t).todo :
                Nest(t, [Top(t) EXCEPT !.todo = @ \ {c}], "orphanDeleting", c, "delete")
    BY <1>5, <1>6, <2>1, <2>2
  <2>3. CASE Top(t).todo = {} /\ Goto(t, [Top(t) EXCEPT !.pc = "resources"])
    <3>1. Orderly => NoChildIn(Top(t), {})
      BY <1>3, <2>1, <2>3 DEF Sound
    <3> QED BY <1>1, <1>3, <1>5, <2>1, <2>3, <3>1, GoOnSound
  <2> QED BY <1>8, <2>2, <2>3 DEF DestroyOrphans
<1>9. CASE DestroyResources(t)
  <2>1. /\ Top(t).op = "delete" /\ Top(t).pc = "resources"
        /\ UNCHANGED <<registry, lock, used, deleted>>
    BY <1>9 DEF DestroyResources, DeleteStep, Running
  <2>2. CASE Goto(t, Going(Top(t), "cleanup", blue[b].deployed))
    <3>1. blue[b].deployed \in SUBSET Blueprint
      BY <1>3, <2>1, ChildrenType
    <3>2. Orderly => NoChildIn(Top(t), {})
      BY <1>3, <2>1 DEF Sound, Childless
    <3> QED BY <1>1, <1>5, <2>1, <2>2, <3>1, <3>2, GoOnSound
  <2>3. CASE \E err \in {"error", "unauthorized"} : Raise(t, err)
    BY <1>1, <1>5, <2>1, <2>3, RaiseSound DEF Returns
  <2> QED BY <1>2, <1>9, <2>2, <2>3 DEF DestroyResources, Going
<1>10. CASE FinalCleanup(t)
  <2>1. /\ Top(t).op = "delete" /\ Top(t).pc = "cleanup"
        /\ UNCHANGED <<lock, used, deleted>>
    BY <1>10 DEF FinalCleanup, DeleteStep, Running
  <2>2. CASE /\ Goto(t, [Top(t) EXCEPT !.pc = "pop"])
             /\ Save(b, [blue[b] EXCEPT !.deployed = {}])
    <3> DEFINE r == [blue[b] EXCEPT !.deployed = {}]
    <3>1. r.parent = blue[b].parent
      BY <1>3, <2>1, ChildrenType DEF BlueType
    <3>2. SaveThen(b, r, r)
      BY <2>2 DEF Save
    <3> HIDE DEF r
    <3>3. Still
      BY <1>4, <2>1, <3>1, <3>2, SaveStill
    <3>4. Orderly => NoChildIn(Top(t), {})
      BY <1>3, <2>1 DEF Sound, Childless
    <3>5. NewSound
      BY <1>1, <1>3, <2>1, <2>2, <3>4, GoOnSound
    <3> QED BY <2>1, <3>3, <3>5, GroveStill
  <2>3. CASE /\ \E c \in Top(t).todo :
                   Nest(t, [Top(t) EXCEPT !.todo = @ \ {c}], "leftoverDeleting", c, "delete")
             /\ UNCHANGED registry
    BY <1>5, <1>6, <2>1, <2>3
  <2> QED BY <1>2, <1>10, <2>2, <2>3 DEF FinalCleanup
<1>11. CASE PopBlueprint(t)
  BY <1>11, GrovePop
<1>12. CASE EraseBlueprint(t)
  <2>1. /\ Top(t).op = "delete" /\ Top(t).pc = "erase" /\ Return(t, "ok")
        /\ deleted' = deleted \cup {b} /\ UNCHANGED <<blueprint_dict, blue, used>>
    BY <1>2, <1>12 DEF EraseBlueprint, DeleteStep, Running
  <2>2. NewSound
    BY <1>1, <1>2, <1>4, <2>1, ReturnSound DEF Returns
  <2>3. Still /\ b \in used \ (blueprint_dict \cup docs')
    BY <1>2, <1>3, <1>4, <1>12, <2>1 DEF Still, EraseBlueprint
  <2> QED BY <2>1, <2>2, <2>3, GroveStill
<1>13. CASE DeleteRaises(t)
  <2>1. /\ Top(t).op = "delete" /\ Top(t).pc = "failed" /\ Top(t).ret # "ok"
        /\ Orderly => ~Top(t).flag
        /\ UNCHANGED <<used, deleted>>
    BY <1>3, <1>13 DEF DeleteRaises, DeleteStep, Running, Sound
  <2>2. CASE b \in blueprint_dict /\ SetStatus(b, ErrorState) /\ Return(t, Top(t).ret)
    BY <1>1, <1>3, <2>1, <2>2, ReturnSound, StatusStill, GroveStill
  <2>3. CASE Return(t, "error") /\ UNCHANGED registry
    BY <1>1, <2>1, <2>3, ReturnSound, SameStill, GroveStill DEF Returns
  <2>4. CASE /\ b \in blueprint_dict /\ Top(t).flag /\ UNCHANGED registry
             /\ Goto(t, Retrying(Top(t), "pop"))
    <3>0. "pop" \in PCs \ Waiting
      BY DEF PCs, Waiting
    <3>1. PICK f : Moves(t, f) /\ Goto(t, f) /\ f.pc = "pop"
      BY <1>1, <2>4, <3>0, RetryMoves
    <3>2. Sound(f)
      BY <1>2, <1>3, <2>1, <2>4, <3>1 DEF Sound, Moves, Childless
    <3> QED BY <1>1, <2>1, <2>4, <3>1, <3>2, GotoSound, SameStill, GroveStill
  <2> QED BY <1>2, <1>13, <2>1, <2>2, <2>3, <2>4 DEF DeleteRaises, Retrying
<1>14. CASE ApplyProtect(t)
  BY <1>3, <1>14 DEF ApplyProtect, Running, Sound
<1>15. CASE DeleteNext(t)
  <2>1. /\ Top(t).op = "deleteAll" /\ Top(t).pc = "loop"
        /\ UNCHANGED <<registry, lock, used, deleted>>
    BY <1>15 DEF DeleteNext, Running
  <2>2. CASE Return(t, "ok")
    BY <1>1, <1>5, <2>1, <2>2, ReturnSound DEF Returns
  <2> QED BY <1>5, <1>6, <1>15, <2>1, <2>2 DEF DeleteNext
<1> QED
  BY <1>7, <1>8, <1>9, <1>10, <1>11, <1>12, <1>13, <1>14, <1>15 DEF DestroyStep

\* A restart drops every frame and reloads the documents, none of a deleted blueprint.
LEMMA GroveRestart ==
    ASSUME Grove, Restart
    PROVE  Grove'
<1>1. \A t \in Thread : stack'[t] = <<>>
  BY DEF Restart
<1>2. SoundFrames'
  BY <1>1 DEF SoundFrames
<1>3. ~Orderly
  BY DEF Restart, Orderly
<1> QED
  BY <1>2, <1>3 DEF Restart, Grove

\* Every step keeps Grove and, in an orderly system, is a step of the forest.
LEMMA GroveInductive ==
    ASSUME Guarded
    PROVE  IInv /\ Local /\ Tree /\ Grove /\ [Next]_vars =>
              Grove' /\ (Orderly => [Forest!Next]_Forest!forest)
<1> SUFFICES ASSUME IInv, Local, Tree, Grove, [Next]_vars PROVE Grove' /\ (Orderly => Grows)
  BY DEF Grows, Parents, Forest!forest
<1>1. IInv' /\ Tree'
  BY Inductive, TreeInductive
<1>2. ASSUME NEW t \in Thread, ThreadStep(t) PROVE Grove' /\ (Orderly => Grows)
  BY <1>1, <1>2, GroveUserStep, GroveEnterStep, GroveCodeStep, GroveCodeExit,
     GroveReturnStep, GroveDestroyStep DEF ThreadStep
<1>3. CASE UNCHANGED vars
  BY <1>3, OldSound, SameStill, GroveStill DEF vars, registry
<1>4. CASE Restart
  BY <1>4, GroveRestart DEF Restart, Orderly
<1> QED
  BY <1>2, <1>3, <1>4 DEF Next

\* The forest is empty at first.
LEMMA GroveInit == Init => Grove /\ Forest!Init
<1>1. Init => Forest!Init
  BY DEF Init, Forest!Init, NewBlue
<1> QED
  BY <1>1 DEF Init, Grove, NoOrphans, SoundFrames
-----------------------------------------------------------------------------
\* If protect_blueprint, which takes no lock, is not used, and no code that is called by a parent
\* saves, then no step brings a deleted blueprint back, restarts and forced deletions included.
THEOREM DeletedStaysGone ==
    ASSUME Guarded
    PROVE  Spec => []DeletedStaysDeleted
<1>1. Grove => DeletedStaysDeleted
  BY DEF Grove, DeletedStaysDeleted
<1> QED
  BY <1>1, Initially, Inductive, LocalInit, LocalInductive, TreeInit, TreeInductive,
     GroveInit, GroveInductive, PTL DEF Spec

\* In an orderly system the parent of every blueprint in the dictionary is in the dictionary:
\* destroy_blueprint finds the children created while it ran, and no child is created after.
THEOREM ParentsOutlive ==
    ASSUME Orderly
    PROVE  Spec => []NoOrphans
<1>1. Grove => NoOrphans
  BY DEF Grove
<1>2. Guarded
  BY DEF Orderly
<1> QED
  BY <1>1, <1>2, Initially, Inductive, LocalInit, LocalInductive, TreeInit, TreeInductive,
     GroveInit, GroveInductive, PTL DEF Spec

\* In an orderly system every step of the detailed lifecycle is a step of BlueprintForest or leaves
\* it alone: identifiers are planted under live parents, only once, and only leaves are removed.
THEOREM RegistryIsForest ==
    ASSUME Orderly
    PROVE  Spec => ImplementsForest
<1>1. Guarded
  BY DEF Orderly
<1>2. IInv /\ Local /\ Tree /\ Grove /\ [Next]_vars => [Forest!Next]_Forest!forest
  BY <1>1, GroveInductive
<1> QED
  BY <1>1, <1>2, Initially, Inductive, LocalInit, LocalInductive, TreeInit, TreeInductive,
     GroveInit, GroveInductive, PTL DEF Spec, ImplementsForest, Forest!Spec
=============================================================================
