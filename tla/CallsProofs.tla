----------------------------- MODULE CallsProofs ----------------------------
(***************************************************************************)
(* One method of an object at a time, and no message without somebody who  *)
(* will run it, for any objects of the four kinds, any program of calls    *)
(* and waits, both builds and any number of threads.                       *)
(*                                                                         *)
(* A call on a stack plays three roles: it answers for the messages of an  *)
(* object, it holds the mutex of an eager object, it holds the recursive   *)
(* mutex of a synchronous one.  Each role is a function from calls to sets *)
(* of objects, and a step says for each what becomes of the top of one     *)
(* stack (Handover of SharedLemmas).                                       *)
(***************************************************************************)
EXTENDS Calls, SharedLemmas, TLAPS

Queueing == {o \in Objects : Kind[o] \in {"basic", "eager"}}

\* What a call's place says of its object and of the call it makes.
GoodFrame == {f \in Frame :
    /\ f.queued => f.obj \in Queueing
    /\ f.at \in {"loop", "resched"} => f.queued
    /\ ~f.queued /\ f.obj \in Objects => Kind[f.obj] # "basic"
    /\ f.at \in {"signal", "push", "lock"} => f.to \in Objects
    /\ f.at = "push" => Kind[f.to] = "eager"
    /\ f.at = "lock" => Kind[f.to] = "mutexed"
    /\ f.at \in {"poll", "get"} => f.asks \in Promises}

Inner(f) == f.at \notin {"loop", "resched"}

\* The three roles: the objects whose messages a call answers for; whose eager
\* mutex it holds; whose recursive mutex it holds.
Duties == [f \in GoodFrame |->
              (IF f.queued THEN {f.obj} ELSE {})
                 \cup (IF f.at = "signal" THEN {f.to} ELSE {})]
Tried == [f \in GoodFrame |->
              {o \in Objects : Kind[o] = "eager" /\ f.obj = o /\ Inner(f)}]
Locked == [f \in GoodFrame |->
              {o \in Objects : Kind[o] = "mutexed" /\ f.obj = o /\ Inner(f)}]

Depth == [t \in Threads |-> Len(stack[t])]
Roles(role) == [t \in Threads |-> [i \in 1 .. Len(stack[t]) |-> role[stack[t][i]]]]

HeldNow(o) == Held(Threads, Depth, Roles(Duties), Elements(list), o)

Types ==
    /\ build \in {"cxx11", "boost"}
    /\ queue \in [Objects -> Seq(Sinks)]
    /\ \A o \in Objects : queue[o] # <<>> => o \in Queueing
    /\ list \in Seq(Objects)
    /\ promise \in [Promises -> {"unused", "asked", "set"}]
    /\ sent \in 0 .. MaxSends

Stacks == stack \in [Threads -> Seq(GoodFrame)]

\* NoLostActivation without positions.
OneHolder ==
    /\ Once(list)
    /\ Alone(Threads, Depth, Roles(Duties), Elements(list))
    /\ \A t \in Threads : \A i \in 1 .. Len(stack[t]) :
          LET f == stack[t][i] IN f.at = "signal" /\ f.queued => f.to # f.obj

Duty == \A o \in Objects : queue[o] # <<>> <=> HeldNow(o)

\* Exclusive without positions.
OneCaller == Alone(Threads, Depth, Roles(Tried), {})

\* Calls with the same recursive mutex are on one stack.
OneThread == OnOneThread(Threads, Depth, Roles(Locked))

IInv == Types /\ Stacks /\ OneHolder /\ Duty /\ OneCaller /\ OneThread
-----------------------------------------------------------------------------
(* Steps of one stack *)

\* Thread t keeps what its first n calls have in a role; X and Y are what call
\* n + 1 has, before and after.
Moved(role, t, n, X, Y) ==
    /\ t \in Threads /\ n \in Nat
    /\ stack' \in [Threads -> Seq(GoodFrame)]
    /\ \A u \in Threads \ {t} : stack'[u] = stack[u]
    /\ Len(stack[t]) \in {n, n + 1} /\ Len(stack'[t]) \in {n, n + 1}
    /\ \A i \in 1 .. n : role[stack'[t][i]] = role[stack[t][i]]
    /\ X = (IF Len(stack[t]) = n + 1 THEN role[stack[t][n + 1]] ELSE {})
    /\ Y = (IF Len(stack'[t]) = n + 1 THEN role[stack'[t][n + 1]] ELSE {})

LEMMA StepOf ==
    ASSUME Stacks, NEW role, NEW t, NEW n, NEW X, NEW Y, Moved(role, t, n, X, Y)
    PROVE  Step(Threads, Depth, Depth', Roles(role), Roles(role)', t, n, X, Y)
<1> USE DEF Moved
<1> DEFINE N == Depth
           N2 == Depth'
           R == Roles(role)
           R2 == Roles(role)'
<1>1. /\ N \in [Threads -> Nat] /\ N2 \in [Threads -> Nat]
      /\ \A u \in Threads : N[u] = Len(stack[u]) /\ N2[u] = Len(stack'[u])
  BY DEF Depth, Stacks
<1>2. \A u \in Threads :
         /\ \A i \in 1 .. N[u] : R[u][i] = role[stack[u][i]]
         /\ \A i \in 1 .. N2[u] : R2[u][i] = role[stack'[u][i]]
  BY <1>1 DEF Roles
<1> HIDE DEF N, N2, R, R2
<1>3. ASSUME NEW u \in Threads \ {t}
      PROVE  N2[u] = N[u] /\ \A i \in 1 .. N[u] : R2[u][i] = R[u][i]
  <2>1. stack'[u] = stack[u] /\ N2[u] = N[u]
    BY <1>1
  <2>2. ASSUME NEW i \in 1 .. N[u] PROVE R2[u][i] = R[u][i]
    <3>1. R[u][i] = role[stack[u][i]]
      BY <1>2
    <3>2. R2[u][i] = role[stack'[u][i]]
      BY <1>2, <2>1
    <3> QED
      BY <2>1, <3>1, <3>2
  <2> QED
    BY <2>1, <2>2
<1>4. N[t] \in {n, n + 1} /\ N2[t] \in {n, n + 1}
  BY <1>1
<1>5. \A i \in 1 .. n : R2[t][i] = R[t][i]
  <2>1. \A i \in 1 .. n : i \in 1 .. N[t] /\ i \in 1 .. N2[t]
    BY <1>1, <1>4
  <2> QED
    BY <1>2, <2>1
<1>6. /\ X = (IF N[t] = n + 1 THEN R[t][n + 1] ELSE {})
      /\ Y = (IF N2[t] = n + 1 THEN R2[t][n + 1] ELSE {})
  <2>1. /\ N[t] = n + 1 => n + 1 \in 1 .. N[t]
        /\ N2[t] = n + 1 => n + 1 \in 1 .. N2[t]
    OBVIOUS
  <2> QED
    BY <1>1, <1>2, <2>1
<1>7. Step(Threads, N, N2, R, R2, t, n, X, Y)
  BY <1>1, <1>3, <1>4, <1>5, <1>6 DEF Step
<1> QED
  BY <1>7 DEF N, N2, R, R2

\* The four ways in which a step changes a stack.
LEMMA Replacing ==
    ASSUME Stacks, NEW t \in Threads, stack[t] # <<>>, NEW f \in GoodFrame,
           Replace(t, f), NEW role
    PROVE  /\ Moved(role, t, Len(stack[t]) - 1, role[Top(t)], role[f])
           /\ stack'[t] # <<>> /\ Len(stack'[t]) = Len(stack[t])
           /\ \A i \in 1 .. Len(stack[t]) :
                 stack'[t][i] = IF i = Len(stack[t]) THEN f ELSE stack[t][i]
<1> DEFINE n == Len(stack[t]) - 1
<1>1. stack[t] \in Seq(GoodFrame)
  BY DEF Stacks
<1>2. n \in Nat /\ Len(stack[t]) = n + 1 /\ Top(t) = stack[t][n + 1]
  <2>1. Len(stack[t]) \in Nat \ {0} /\ Last(stack[t]) = stack[t][Len(stack[t])]
    BY <1>1, TopAndFront
  <2> QED
    BY <2>1 DEF Top
<1>3. LET r == Append(Front(stack[t]), f) IN
      /\ r \in Seq(GoodFrame) /\ r # <<>> /\ Len(r) = Len(stack[t])
      /\ \A i \in 1 .. Len(stack[t]) :
            r[i] = IF i = Len(stack[t]) THEN f ELSE stack[t][i]
  BY <1>1, TopReplaced
<1>4. /\ stack' \in [Threads -> Seq(GoodFrame)]
      /\ \A u \in Threads \ {t} : stack'[u] = stack[u]
      /\ stack'[t] = Append(Front(stack[t]), f)
  BY <1>3 DEF Replace, Stacks
<1> HIDE DEF n
<1>5. /\ Len(stack'[t]) = n + 1
      /\ \A i \in 1 .. n : stack'[t][i] = stack[t][i]
      /\ stack'[t][n + 1] = f
  BY <1>2, <1>3, <1>4
<1>6. Moved(role, t, n, role[Top(t)], role[f])
  BY <1>2, <1>4, <1>5 DEF Moved
<1> QED
  BY <1>3, <1>4, <1>6 DEF n

LEMMA Pushing ==
    ASSUME Stacks, NEW t \in Threads, stack[t] # <<>>,
           NEW f \in GoodFrame, NEW g \in GoodFrame, Push(t, f, g),
           NEW role, role[f] = role[Top(t)]
    PROVE  /\ Moved(role, t, Len(stack[t]), {}, role[g])
           /\ stack'[t] # <<>> /\ Len(stack'[t]) = Len(stack[t]) + 1
           /\ \A i \in 1 .. Len(stack[t]) :
                 stack'[t][i] = IF i = Len(stack[t]) THEN f ELSE stack[t][i]
           /\ stack'[t][Len(stack[t]) + 1] = g
<1> DEFINE n == Len(stack[t])
<1>1. stack[t] \in Seq(GoodFrame)
  BY DEF Stacks
<1>2. n \in Nat \ {0} /\ Top(t) = stack[t][n]
  BY <1>1, TopAndFront DEF Top
<1>3. LET r == Append(Append(Front(stack[t]), f), g) IN
      /\ r \in Seq(GoodFrame) /\ r # <<>> /\ Len(r) = n + 1
      /\ \A i \in 1 .. n : r[i] = IF i = n THEN f ELSE stack[t][i]
      /\ r[n + 1] = g
  BY <1>1, TopCalls
<1>4. /\ stack' \in [Threads -> Seq(GoodFrame)]
      /\ \A u \in Threads \ {t} : stack'[u] = stack[u]
      /\ stack'[t] = Append(Append(Front(stack[t]), f), g)
  BY <1>3 DEF Push, Stacks
<1>5. Len(stack[t]) = n /\ n # n + 1
  BY <1>2
<1> HIDE DEF n
<1>6. \A i \in 1 .. n : role[stack'[t][i]] = role[stack[t][i]]
  BY <1>2, <1>3, <1>4
<1>7. Moved(role, t, n, {}, role[g])
  BY <1>2, <1>3, <1>4, <1>5, <1>6 DEF Moved
<1> QED
  BY <1>3, <1>4, <1>7 DEF n

LEMMA Leaving ==
    ASSUME Stacks, NEW t \in Threads, stack[t] # <<>>, Leave(t), NEW role
    PROVE  /\ Moved(role, t, Len(stack[t]) - 1, role[Top(t)], {})
           /\ Len(stack'[t]) = Len(stack[t]) - 1
           /\ \A i \in 1 .. Len(stack[t]) - 1 : stack'[t][i] = stack[t][i]
<1> DEFINE n == Len(stack[t]) - 1
<1>1. stack[t] \in Seq(GoodFrame)
  BY DEF Stacks
<1>2. /\ n \in Nat /\ Len(stack[t]) = n + 1 /\ Top(t) = stack[t][n + 1]
      /\ Front(stack[t]) \in Seq(GoodFrame) /\ Len(Front(stack[t])) = n
      /\ \A i \in 1 .. n : Front(stack[t])[i] = stack[t][i]
  <2>1. /\ Len(stack[t]) \in Nat \ {0}
        /\ Last(stack[t]) = stack[t][Len(stack[t])]
        /\ Front(stack[t]) \in Seq(GoodFrame)
        /\ Len(Front(stack[t])) = Len(stack[t]) - 1
        /\ \A i \in 1 .. Len(stack[t]) - 1 : Front(stack[t])[i] = stack[t][i]
    BY <1>1, TopAndFront
  <2> QED
    BY <2>1 DEF Top
<1> HIDE DEF n
<1>3. /\ stack' \in [Threads -> Seq(GoodFrame)]
      /\ \A u \in Threads \ {t} : stack'[u] = stack[u]
      /\ stack'[t] = Front(stack[t])
  BY <1>2 DEF Leave, Stacks
<1>4. Len(stack'[t]) = n /\ \A i \in 1 .. n : stack'[t][i] = stack[t][i]
  BY <1>2, <1>3
<1>5. Moved(role, t, n, role[Top(t)], {})
  BY <1>2, <1>3, <1>4 DEF Moved
<1> QED
  BY <1>4, <1>5 DEF n

LEMMA Starting ==
    ASSUME Stacks, NEW t \in Threads, stack[t] = <<>>, NEW g \in GoodFrame,
           stack' = [stack EXCEPT ![t] = <<g>>], NEW role
    PROVE  /\ Moved(role, t, 0, {}, role[g])
           /\ Len(stack'[t]) = 1 /\ stack'[t][1] = g
<1>1. /\ <<g>> \in Seq(GoodFrame) /\ Len(<<g>>) = 1 /\ <<g>>[1] = g
      /\ Len(stack[t]) = 0
  OBVIOUS
<1>2. /\ stack' \in [Threads -> Seq(GoodFrame)]
      /\ \A u \in Threads \ {t} : stack'[u] = stack[u]
      /\ stack'[t] = <<g>>
  BY <1>1 DEF Stacks
<1>3. Moved(role, t, 0, {}, role[g])
  BY <1>1, <1>2 DEF Moved
<1> QED
  BY <1>1, <1>2, <1>3
-----------------------------------------------------------------------------
(* What a step of one stack does to the three invariants *)

\* Nobody holds o's eager mutex; nobody but t holds o's recursive mutex.
Free(o) == ~Held(Threads, Depth, Roles(Tried), {}, o)
FreeFor(t, o) ==
    \A u \in Threads \ {t} : \A i \in 1 .. Depth[u] : o \notin Roles(Locked)[u][i]

Apart(f) == f.at = "signal" /\ f.queued => f.to # f.obj

\* Duties pass from X and the list to Y and the list.
PassedOn(X, Y) ==
    /\ Once(list')
    /\ Y \cap Elements(list') = {}
    /\ \A o \in Y \cup Elements(list') :
          o \in X \cup Elements(list) \/ ~HeldNow(o)

HeldAfter(X, Y) ==
    \A o : HeldNow(o)' <=>
        \/ HeldNow(o) /\ o \notin X \cup Elements(list)
        \/ o \in Y \cup Elements(list')

Orderly == Stacks /\ OneHolder /\ OneCaller /\ OneThread

LEMMA DutiesMoved ==
    ASSUME Stacks, OneHolder, NEW t, NEW n, NEW X, NEW Y,
           Moved(Duties, t, n, X, Y), PassedOn(X, Y)
    PROVE  /\ Alone(Threads, Depth, Roles(Duties), Elements(list))'
           /\ HeldAfter(X, Y)
<1>1. Step(Threads, Depth, Depth', Roles(Duties), Roles(Duties)', t, n, X, Y)
  BY StepOf
<1>2. Passed(Threads, Depth, Roles(Duties), Elements(list), Elements(list'), X, Y)
  BY DEF PassedOn, Passed, HeldNow
<1>3. Alone(Threads, Depth, Roles(Duties), Elements(list))
  BY DEF OneHolder
<1>4. /\ Alone(Threads, Depth', Roles(Duties)', Elements(list'))
      /\ \A o : Held(Threads, Depth', Roles(Duties)', Elements(list'), o) <=>
            \/ Held(Threads, Depth, Roles(Duties), Elements(list), o)
               /\ o \notin X \cup Elements(list)
            \/ o \in Y \cup Elements(list')
  BY <1>1, <1>2, <1>3, Handover
<1>5. HeldAfter(X, Y)
  BY <1>4 DEF HeldAfter, HeldNow, Elements
<1> QED
  BY <1>4, <1>5 DEF Elements

LEMMA TriedMoved ==
    ASSUME Stacks, OneCaller, NEW t, NEW n, NEW X, NEW Y,
           Moved(Tried, t, n, X, Y), \A o \in Y : o \in X \/ Free(o)
    PROVE  OneCaller'
<1>1. Step(Threads, Depth, Depth', Roles(Tried), Roles(Tried)', t, n, X, Y)
  BY StepOf
<1>2. Passed(Threads, Depth, Roles(Tried), {}, {}, X, Y)
  BY DEF Passed, Free
<1>3. Alone(Threads, Depth, Roles(Tried), {})
  BY DEF OneCaller
<1>4. Alone(Threads, Depth', Roles(Tried)', {})
  BY <1>1, <1>2, <1>3, Handover
<1> QED
  BY <1>4 DEF OneCaller

LEMMA LockedMoved ==
    ASSUME Stacks, OneThread, NEW t, NEW n, NEW X, NEW Y,
           Moved(Locked, t, n, X, Y), \A o \in Y : o \in X \/ FreeFor(t, o)
    PROVE  OneThread'
<1>1. Step(Threads, Depth, Depth', Roles(Locked), Roles(Locked)', t, n, X, Y)
  BY StepOf
<1>2. \A o \in Y : o \in X
         \/ \A u \in Threads \ {t} : \A i \in 1 .. Depth[u] : o \notin Roles(Locked)[u][i]
  BY DEF FreeFor
<1>3. OnOneThread(Threads, Depth, Roles(Locked))
  BY DEF OneThread
<1>4. OnOneThread(Threads, Depth', Roles(Locked)')
  BY <1>1, <1>2, <1>3, HandoverShared
<1> QED
  BY <1>4 DEF OneThread

LEMMA AfterReplace ==
    ASSUME IInv, NEW t \in Threads, stack[t] # <<>>, NEW f \in GoodFrame,
           Replace(t, f), Apart(f),
           PassedOn(Duties[Top(t)], Duties[f]),
           \A o \in Tried[f] : o \in Tried[Top(t)] \/ Free(o),
           \A o \in Locked[f] : o \in Locked[Top(t)] \/ FreeFor(t, o)
    PROVE  Orderly' /\ HeldAfter(Duties[Top(t)], Duties[f])
<1> DEFINE n == Len(stack[t]) - 1
<1> USE DEF IInv
<1>1. /\ Moved(Duties, t, n, Duties[Top(t)], Duties[f])
      /\ Moved(Tried, t, n, Tried[Top(t)], Tried[f])
      /\ Moved(Locked, t, n, Locked[Top(t)], Locked[f])
      /\ Len(stack'[t]) = Len(stack[t])
      /\ \A i \in 1 .. Len(stack[t]) :
            stack'[t][i] = IF i = Len(stack[t]) THEN f ELSE stack[t][i]
  BY Replacing
<1> HIDE DEF n
<1>2. /\ Alone(Threads, Depth, Roles(Duties), Elements(list))'
      /\ HeldAfter(Duties[Top(t)], Duties[f])
  BY <1>1, DutiesMoved
<1>3. OneCaller' /\ OneThread'
  BY <1>1, TriedMoved, LockedMoved
<1>4. \A u \in Threads : \A i \in 1 .. Len(stack'[u]) : Apart(stack'[u][i])
  <2>1. \A u \in Threads \ {t} : stack'[u] = stack[u]
    BY <1>1 DEF Moved
  <2>2. Len(stack[t]) \in Nat
    BY DEF Stacks
  <2>3. ASSUME NEW i \in 1 .. Len(stack'[t]) PROVE Apart(stack'[t][i])
    BY <1>1, <2>2 DEF OneHolder, Apart
  <2> QED
    BY <2>1, <2>3 DEF OneHolder, Apart
<1>5. Stacks' /\ Once(list')
  <2>1. GoodFrame' = GoodFrame /\ Once(list)' = Once(list')
    BY DEF Once
  <2> QED
    BY <1>1, <2>1 DEF Moved, Stacks, PassedOn
<1>6. OneHolder'
  BY <1>2, <1>4, <1>5 DEF OneHolder, Apart, Once
<1> QED
  BY <1>2, <1>3, <1>5, <1>6 DEF Orderly

LEMMA AfterPush ==
    ASSUME IInv, NEW t \in Threads, stack[t] # <<>>,
           NEW f \in GoodFrame, NEW g \in GoodFrame, Push(t, f, g),
           Duties[f] = Duties[Top(t)], Tried[f] = Tried[Top(t)],
           Locked[f] = Locked[Top(t)], Apart(f), Apart(g),
           PassedOn({}, Duties[g]),
           \A o \in Tried[g] : Free(o), \A o \in Locked[g] : FreeFor(t, o)
    PROVE  Orderly' /\ HeldAfter({}, Duties[g])
<1> DEFINE n == Len(stack[t])
<1> USE DEF IInv
<1>1. /\ Moved(Duties, t, n, {}, Duties[g])
      /\ Moved(Tried, t, n, {}, Tried[g])
      /\ Moved(Locked, t, n, {}, Locked[g])
      /\ Len(stack'[t]) = Len(stack[t]) + 1
      /\ \A i \in 1 .. Len(stack[t]) :
            stack'[t][i] = IF i = Len(stack[t]) THEN f ELSE stack[t][i]
      /\ stack'[t][Len(stack[t]) + 1] = g
  BY Pushing
<1> HIDE DEF n
<1>2. /\ Alone(Threads, Depth, Roles(Duties), Elements(list))'
      /\ HeldAfter({}, Duties[g])
  BY <1>1, DutiesMoved
<1>3. OneCaller' /\ OneThread'
  BY <1>1, TriedMoved, LockedMoved
<1>4. \A u \in Threads : \A i \in 1 .. Len(stack'[u]) : Apart(stack'[u][i])
  <2>1. \A u \in Threads \ {t} : stack'[u] = stack[u]
    BY <1>1 DEF Moved
  <2>2. Len(stack[t]) \in Nat
    BY DEF Stacks
  <2>3. \A i \in 1 .. Len(stack[t]) : Apart(stack[t][i])
    BY DEF OneHolder, Apart
  <2>4. ASSUME NEW i \in 1 .. Len(stack'[t]) PROVE Apart(stack'[t][i])
    <3>1. i \in 1 .. Len(stack[t]) \/ i = Len(stack[t]) + 1
      BY <1>1, <2>2
    <3>2. stack'[t][i] \in {f, g} \/ (i \in 1 .. Len(stack[t]) /\ stack'[t][i] = stack[t][i])
      BY <1>1, <3>1
    <3> QED
      BY <2>3, <3>2
  <2> QED
    BY <2>1, <2>4 DEF OneHolder, Apart
<1>5. Stacks' /\ Once(list')
  <2>1. GoodFrame' = GoodFrame /\ Once(list)' = Once(list')
    BY DEF Once
  <2> QED
    BY <1>1, <2>1 DEF Moved, Stacks, PassedOn
<1>6. OneHolder'
  BY <1>2, <1>4, <1>5 DEF OneHolder, Apart, Once
<1> QED
  BY <1>2, <1>3, <1>5, <1>6 DEF Orderly

LEMMA AfterLeave ==
    ASSUME IInv, NEW t \in Threads, stack[t] # <<>>, Leave(t),
           PassedOn(Duties[Top(t)], {})
    PROVE  Orderly' /\ HeldAfter(Duties[Top(t)], {})
<1> DEFINE n == Len(stack[t]) - 1
<1> USE DEF IInv
<1>1. /\ Moved(Duties, t, n, Duties[Top(t)], {})
      /\ Moved(Tried, t, n, Tried[Top(t)], {})
      /\ Moved(Locked, t, n, Locked[Top(t)], {})
      /\ Len(stack'[t]) = Len(stack[t]) - 1
      /\ \A i \in 1 .. Len(stack[t]) - 1 : stack'[t][i] = stack[t][i]
  BY Leaving
<1> HIDE DEF n
<1>2. /\ Alone(Threads, Depth, Roles(Duties), Elements(list))'
      /\ HeldAfter(Duties[Top(t)], {})
  BY <1>1, DutiesMoved
<1>3. OneCaller' /\ OneThread'
  BY <1>1, TriedMoved, LockedMoved
<1>4. \A u \in Threads : \A i \in 1 .. Len(stack'[u]) : Apart(stack'[u][i])
  <2>1. \A u \in Threads \ {t} : stack'[u] = stack[u]
    BY <1>1 DEF Moved
  <2>2. Len(stack[t]) \in Nat
    BY DEF Stacks
  <2>3. ASSUME NEW i \in 1 .. Len(stack'[t]) PROVE Apart(stack'[t][i])
    BY <1>1, <2>2 DEF OneHolder, Apart
  <2> QED
    BY <2>1, <2>3 DEF OneHolder, Apart
<1>5. Stacks' /\ Once(list')
  <2>1. GoodFrame' = GoodFrame /\ Once(list)' = Once(list')
    BY DEF Once
  <2> QED
    BY <1>1, <2>1 DEF Moved, Stacks, PassedOn
<1>6. OneHolder'
  BY <1>2, <1>4, <1>5 DEF OneHolder, Apart, Once
<1> QED
  BY <1>2, <1>3, <1>5, <1>6 DEF Orderly

LEMMA AfterStart ==
    ASSUME IInv, NEW t \in Threads, stack[t] = <<>>, NEW g \in GoodFrame,
           stack' = [stack EXCEPT ![t] = <<g>>], Apart(g),
           PassedOn({}, Duties[g]), Tried[g] = {}, Locked[g] = {}
    PROVE  Orderly' /\ HeldAfter({}, Duties[g])
<1> USE DEF IInv
<1>1. /\ Moved(Duties, t, 0, {}, Duties[g])
      /\ Moved(Tried, t, 0, {}, Tried[g])
      /\ Moved(Locked, t, 0, {}, Locked[g])
      /\ Len(stack'[t]) = 1 /\ stack'[t][1] = g
  BY Starting
<1>2. /\ Alone(Threads, Depth, Roles(Duties), Elements(list))'
      /\ HeldAfter({}, Duties[g])
  BY <1>1, DutiesMoved
<1>3. OneCaller' /\ OneThread'
  BY <1>1, TriedMoved, LockedMoved
<1>4. \A u \in Threads : \A i \in 1 .. Len(stack'[u]) : Apart(stack'[u][i])
  <2>1. \A u \in Threads \ {t} : stack'[u] = stack[u]
    BY <1>1 DEF Moved
  <2>2. ASSUME NEW i \in 1 .. Len(stack'[t]) PROVE Apart(stack'[t][i])
    BY <1>1
  <2> QED
    BY <2>1, <2>2 DEF OneHolder, Apart
<1>5. Stacks' /\ Once(list')
  <2>1. GoodFrame' = GoodFrame /\ Once(list)' = Once(list')
    BY DEF Once
  <2> QED
    BY <1>1, <2>1 DEF Moved, Stacks, PassedOn
<1>6. OneHolder'
  BY <1>2, <1>4, <1>5 DEF OneHolder, Apart, Once
<1> QED
  BY <1>2, <1>3, <1>5, <1>6 DEF Orderly
-----------------------------------------------------------------------------
(* The top of a stack, the list and the mutexes *)

LEMMA TopOf ==
    ASSUME Stacks, NEW t \in Threads, stack[t] # <<>>
    PROVE  /\ Top(t) \in GoodFrame
           /\ Depth[t] = Len(stack[t]) /\ Len(stack[t]) \in 1 .. Len(stack[t])
           /\ Top(t) = stack[t][Len(stack[t])]
<1>1. stack[t] \in Seq(GoodFrame)
  BY DEF Stacks
<1>2. /\ Len(stack[t]) \in Nat \ {0}
      /\ Last(stack[t]) = stack[t][Len(stack[t])] /\ Last(stack[t]) \in GoodFrame
  BY <1>1, TopAndFront
<1> QED
  BY <1>2 DEF Top, Depth

LEMMA TopHolds ==
    ASSUME Stacks, OneHolder, NEW t \in Threads, stack[t] # <<>>
    PROVE  /\ \A o \in Duties[Top(t)] : HeldNow(o)
           /\ Duties[Top(t)] \cap Elements(list) = {}
           /\ Apart(Top(t))
<1> DEFINE n == Len(stack[t])
<1>1. n \in 1 .. Depth[t] /\ Top(t) = stack[t][n] /\ n \in 1 .. Len(stack[t])
  BY TopOf
<1> HIDE DEF n
<1>2. Roles(Duties)[t][n] = Duties[Top(t)]
  BY <1>1 DEF Roles
<1>3. \A o \in Duties[Top(t)] : HeldNow(o)
  BY <1>1, <1>2 DEF HeldNow, Held
<1>4. Duties[Top(t)] \cap Elements(list) = {}
  BY <1>1, <1>2 DEF OneHolder, Alone
<1>5. Apart(Top(t))
  BY <1>1 DEF OneHolder, Apart
<1> QED
  BY <1>3, <1>4, <1>5

LEMMA ListHolds ==
    ASSUME NEW o \in Elements(list)
    PROVE  HeldNow(o)
BY DEF HeldNow, Held

\* Both builds put an object on the list that was not there.
LEMMA ActivatedIs ==
    ASSUME list \in Seq(Objects), Once(list),
           NEW o \in Objects, o \notin Elements(list), list' = Activated(o)
    PROVE  /\ list' \in Seq(Objects) /\ Once(list')
           /\ Elements(list') = Elements(list) \cup {o}
BY Appended, Prepended DEF Activated

\* Inside in terms of the roles.
LEMMA InsideHas ==
    ASSUME Stacks, NEW u \in Threads, NEW i \in 1 .. Depth[u],
           NEW o, o \in Roles(Tried)[u][i] \cup Roles(Locked)[u][i]
    PROVE  <<u, i>> \in Inside(o)
<1>1. stack[u] \in Seq(GoodFrame) /\ Depth[u] = Len(stack[u])
  BY DEF Stacks, Depth
<1>2. i \in DOMAIN stack[u] /\ stack[u][i] \in GoodFrame
  BY <1>1
<1>3. o \in Tried[stack[u][i]] \cup Locked[stack[u][i]]
  BY <1>1 DEF Roles
<1>4. stack[u][i].obj = o /\ Inner(stack[u][i])
  BY <1>2, <1>3 DEF Tried, Locked
<1>5. <<u, i>> \in AllFrames
  BY <1>2 DEF AllFrames
<1> QED
  BY <1>4, <1>5 DEF Inside, FrameOf, Inner

LEMMA FreeWhenEmpty ==
    ASSUME Stacks, NEW o, Inside(o) = {}
    PROVE  Free(o)
BY InsideHas DEF Free, Held

LEMMA FreeForOwner ==
    ASSUME Stacks, NEW t \in Threads, NEW o, \A x \in Inside(o) : x[1] = t
    PROVE  FreeFor(t, o)
<1> SUFFICES ASSUME NEW u \in Threads \ {t}, NEW i \in 1 .. Depth[u],
                    o \in Roles(Locked)[u][i]
             PROVE  FALSE
  BY DEF FreeFor
<1>1. <<u, i>> \in Inside(o)
  BY InsideHas
<1>2. <<u, i>>[1] = t
  BY <1>1
<1> QED
  BY <1>2

LEMMA SameRoles ==
    ASSUME NEW f \in GoodFrame, NEW g \in GoodFrame,
           f.obj = g.obj, f.queued = g.queued, Inner(f), Inner(g)
    PROVE  /\ Tried[f] = Tried[g] /\ Locked[f] = Locked[g]
           /\ f.at # "signal" /\ g.at # "signal" => Duties[f] = Duties[g]
<1>1. Tried[f] = Tried[g] /\ Locked[f] = Locked[g]
  BY DEF Tried, Locked
<1>2. f.at # "signal" /\ g.at # "signal" => Duties[f] = Duties[g]
  BY DEF Duties
<1> QED
  BY <1>1, <1>2
-----------------------------------------------------------------------------
(* Steps that leave every duty where it is *)

SameQueues == \A o \in Objects : queue'[o] = <<>> <=> queue[o] = <<>>

LEMMA DutyKept ==
    ASSUME Duty, SameQueues, \A o : HeldNow(o)' <=> HeldNow(o)
    PROVE  Duty'
BY DEF Duty, SameQueues

LEMMA QuietReplace ==
    ASSUME IInv, NEW t \in Threads, stack[t] # <<>>, NEW f \in GoodFrame,
           Replace(t, f), Duties[f] = Duties[Top(t)], Apart(f),
           \A o \in Tried[f] : o \in Tried[Top(t)] \/ Free(o),
           \A o \in Locked[f] : o \in Locked[Top(t)] \/ FreeFor(t, o),
           list' = list, SameQueues, Types'
    PROVE  IInv'
<1>1. /\ \A o \in Duties[f] : HeldNow(o)
      /\ Duties[f] \cap Elements(list) = {}
  BY TopHolds DEF IInv
<1>2. PassedOn(Duties[Top(t)], Duties[f])
  BY <1>1 DEF PassedOn, IInv, OneHolder
<1>3. Orderly' /\ HeldAfter(Duties[Top(t)], Duties[f])
  BY <1>2, AfterReplace
<1>4. \A o : HeldNow(o)' <=> HeldNow(o)
  BY <1>1, <1>3, ListHolds DEF HeldAfter
<1>5. Duty'
  BY <1>4, DutyKept DEF IInv
<1> QED
  BY <1>3, <1>5 DEF IInv, Orderly

LEMMA QuietPush ==
    ASSUME IInv, NEW t \in Threads, stack[t] # <<>>,
           NEW f \in GoodFrame, NEW g \in GoodFrame, Push(t, f, g),
           Duties[f] = Duties[Top(t)], Tried[f] = Tried[Top(t)],
           Locked[f] = Locked[Top(t)], Apart(f), Apart(g), Duties[g] = {},
           \A o \in Tried[g] : Free(o), \A o \in Locked[g] : FreeFor(t, o),
           list' = list, SameQueues, Types'
    PROVE  IInv'
<1>1. PassedOn({}, Duties[g])
  BY DEF PassedOn, IInv, OneHolder
<1>2. Orderly' /\ HeldAfter({}, {})
  BY <1>1, AfterPush
<1>3. \A o : HeldNow(o)' <=> HeldNow(o)
  BY <1>2, ListHolds DEF HeldAfter
<1>4. Duty'
  BY <1>3, DutyKept DEF IInv
<1> QED
  BY <1>2, <1>4 DEF IInv, Orderly

\* The innermost call goes on: its object, and who runs it, stay the same.
LEMMA GoesOn ==
    ASSUME IInv, NEW t \in Threads, stack[t] # <<>>, NEW f \in GoodFrame,
           Replace(t, f), f.obj = Top(t).obj, f.queued = Top(t).queued,
           Inner(f), Inner(Top(t)), f.at # "signal", Top(t).at # "signal",
           list' = list, SameQueues, Types'
    PROVE  IInv'
<1>1. Top(t) \in GoodFrame
  BY TopOf DEF IInv
<1>2. /\ Tried[f] = Tried[Top(t)] /\ Locked[f] = Locked[Top(t)]
      /\ Duties[f] = Duties[Top(t)]
  BY <1>1, SameRoles
<1>3. Apart(f)
  BY DEF Apart
<1> QED
  BY <1>2, <1>3, QuietReplace
-----------------------------------------------------------------------------
(* Calls *)

\* What a step leaves to be said of the variables that are no roles.
RestTypes ==
    /\ build' = build
    /\ promise' \in [Promises -> {"unused", "asked", "set"}]
    /\ sent' \in 0 .. MaxSends

LEMMA SameTypes ==
    ASSUME Types, RestTypes, queue' = queue, list' = list
    PROVE  Types' /\ SameQueues
BY DEF Types, RestTypes, SameQueues, Queueing

\* A call that the caller runs, and one that run_some runs.
ByCaller(o, r) == Entered(o, "method", FALSE, 0, r)
FromQueue(o, place, n, r) == Entered(o, place, TRUE, n, r)

LEMMA ByCallerIs ==
    ASSUME NEW o \in Objects, NEW r \in Sinks, Kind[o] # "basic"
    PROVE  LET g == ByCaller(o, r) IN
           /\ g \in GoodFrame /\ Apart(g)
           /\ g.obj = o /\ g.queued = FALSE /\ g.at = "method"
           /\ Duties[g] = {}
           /\ Tried[g] = IF Kind[o] = "eager" THEN {o} ELSE {}
           /\ Locked[g] = IF Kind[o] = "mutexed" THEN {o} ELSE {}
<1> DEFINE g == ByCaller(o, r)
<1>1. /\ g \in Frame
      /\ g.obj = o /\ g.queued = FALSE /\ g.at = "method"
  BY CallsAssumption DEF ByCaller, Entered, Frame, Sinks, Places
<1> HIDE DEF g
<1>2. g \in GoodFrame /\ Apart(g)
  BY <1>1 DEF GoodFrame, Apart, Queueing
<1>3. Duties[g] = {} /\ Locked[g] = IF Kind[o] = "mutexed" THEN {o} ELSE {}
  BY <1>1, <1>2 DEF Duties, Locked, Inner, Queueing
<1>4. Tried[g] = IF Kind[o] = "eager" THEN {o} ELSE {}
  BY <1>1, <1>2 DEF Tried, Inner, Queueing
<1> QED
  BY <1>1, <1>2, <1>3, <1>4 DEF g

LEMMA FromQueueIs ==
    ASSUME NEW o \in Queueing, NEW r \in Sinks, NEW n \in 0 .. Budget,
           NEW place \in {"loop", "method", "resched"},
           NEW g, g = FromQueue(o, place, n, r)
    PROVE  /\ g \in GoodFrame /\ Apart(g)
           /\ g.obj = o /\ g.queued /\ g.at = place
<1>1. /\ g \in Frame
      /\ g.obj = o /\ g.queued /\ g.at = place
  BY DEF FromQueue, Entered, Frame, Sinks, Places, Queueing
<1>2. g \in GoodFrame /\ Apart(g)
  BY <1>1 DEF GoodFrame, Apart, Queueing
<1> QED
  BY <1>1, <1>2

LEMMA QueuedRoles ==
    ASSUME NEW o \in Queueing, NEW g \in GoodFrame,
           g.queued, g.obj = o, g.at # "signal"
    PROVE  /\ Duties[g] = {o} /\ Locked[g] = {}
           /\ \A x \in Tried[g] : x = o /\ Kind[o] = "eager" /\ Inner(g)
<1>1. Duties[g] = {o} /\ Locked[g] = {}
  BY DEF Duties, Locked, Queueing
<1>2. \A x \in Tried[g] : x = o /\ Kind[o] = "eager" /\ Inner(g)
  BY DEF Tried
<1> QED
  BY <1>1, <1>2

LEMMA StepRunByCaller ==
    ASSUME IInv, RestTypes, list' = list,
           NEW t \in Threads, stack[t] # <<>>,
           Inner(Top(t)), Top(t).at # "signal",
           NEW f \in GoodFrame, f.obj = Top(t).obj, f.queued = Top(t).queued,
           f.at = "method", NEW o \in Objects, NEW r \in Sinks,
           Kind[o] # "basic", Kind[o] = "eager" => Free(o),
           Kind[o] = "mutexed" => FreeFor(t, o), RunByCaller(t, f, o, r)
    PROVE  IInv'
<1> DEFINE g == ByCaller(o, r)
<1>1. /\ g \in GoodFrame /\ Apart(g) /\ Duties[g] = {}
      /\ \A x \in Tried[g] : x = o /\ Kind[x] = "eager"
      /\ \A x \in Locked[g] : x = o /\ Kind[x] = "mutexed"
  <2>1. /\ g \in GoodFrame /\ Apart(g) /\ Duties[g] = {}
        /\ Tried[g] = IF Kind[o] = "eager" THEN {o} ELSE {}
        /\ Locked[g] = IF Kind[o] = "mutexed" THEN {o} ELSE {}
    BY ByCallerIs
  <2> HIDE DEF g
  <2> QED
    BY <2>1
<1> HIDE DEF g
<1>2. Push(t, f, g) /\ queue' = queue
  BY DEF RunByCaller, ByCaller, g
<1>3. /\ Duties[f] = Duties[Top(t)] /\ Tried[f] = Tried[Top(t)]
      /\ Locked[f] = Locked[Top(t)] /\ Apart(f)
  BY TopOf, SameRoles DEF IInv, Inner, Apart
<1>4. Types' /\ SameQueues
  BY <1>2, SameTypes DEF IInv
<1> QED
  BY <1>1, <1>2, <1>3, <1>4, QuietPush

LEMMA StepEnqueue ==
    ASSUME IInv, RestTypes, list' = list,
           NEW t \in Threads, stack[t] # <<>>,
           Inner(Top(t)), Top(t).at # "signal",
           NEW f \in GoodFrame, f.obj = Top(t).obj, f.queued = Top(t).queued,
           f.at = "method", NEW o \in Queueing, NEW r \in Sinks,
           Enqueue(t, f, o, r)
    PROVE  IInv'
<1> DEFINE g == [f EXCEPT !.at = "signal", !.to = o]
<1>1. o \in Objects /\ queue \in [Objects -> Seq(Sinks)] /\ Top(t) \in GoodFrame
  BY TopOf DEF IInv, Types, Queueing
<1>2. /\ queue' \in [Objects -> Seq(Sinks)]
      /\ queue'[o] = Append(queue[o], r) /\ queue'[o] # <<>>
      /\ Len(queue'[o]) = Len(queue[o]) + 1 /\ Len(queue[o]) \in Nat
      /\ \A p \in Objects \ {o} : queue'[p] = queue[p]
  BY <1>1 DEF Enqueue
<1>3. Types'
  <2>1. \A p \in Objects : queue'[p] # <<>> => p \in Queueing
    BY <1>2 DEF IInv, Types
  <2> QED
    BY <1>2, <2>1 DEF IInv, Types, RestTypes, Queueing
<1>4. CASE queue[o] # <<>>
  <2>1. Len(queue'[o]) # 1
    BY <1>1, <1>2, <1>4
  <2>2. Replace(t, f)
    BY <2>1 DEF Enqueue
  <2>3. SameQueues
    BY <1>2, <1>4 DEF SameQueues
  <2> QED
    BY <1>3, <2>2, <2>3, GoesOn DEF Inner
<1>5. CASE queue[o] = <<>>
  <2>1. Len(queue'[o]) = 1
    BY <1>2, <1>5
  <2>2. Replace(t, g)
    BY <2>1 DEF Enqueue
  <2>3. /\ g \in GoodFrame /\ g.at = "signal" /\ g.to = o
        /\ g.obj = Top(t).obj /\ g.queued = Top(t).queued
    BY <1>1 DEF GoodFrame, Frame, Places
  <2> HIDE DEF g
  <2>4. ~HeldNow(o)
    BY <1>1, <1>5 DEF IInv, Duty
  <2>5. /\ Duties[g] = Duties[Top(t)] \cup {o}
        /\ Duties[Top(t)] = IF Top(t).queued THEN {Top(t).obj} ELSE {}
    BY <1>1, <2>3 DEF Duties
  <2>6. Tried[g] = Tried[Top(t)] /\ Locked[g] = Locked[Top(t)]
    BY <1>1, <2>3, SameRoles DEF Inner
  <2>7. /\ \A p \in Duties[Top(t)] : HeldNow(p)
        /\ Duties[Top(t)] \cap Elements(list) = {}
    BY TopHolds DEF IInv
  <2>8. Apart(g)
    BY <2>3, <2>4, <2>5, <2>7 DEF Apart
  <2>9. PassedOn(Duties[Top(t)], Duties[g])
    BY <2>4, <2>5, <2>7, ListHolds DEF PassedOn, IInv, OneHolder
  <2>10. Orderly' /\ HeldAfter(Duties[Top(t)], Duties[g])
    BY <2>2, <2>3, <2>6, <2>8, <2>9, AfterReplace
  <2>11. \A p : HeldNow(p)' <=> HeldNow(p) \/ p = o
    BY <2>5, <2>7, <2>10, ListHolds DEF HeldAfter
  <2>12. Duty'
    BY <1>2, <2>11 DEF IInv, Duty
  <2> QED
    BY <1>3, <2>10, <2>12 DEF IInv, Orderly
<1> QED
  BY <1>4, <1>5

LEMMA StepCall ==
    ASSUME IInv, promise' \in [Promises -> {"unused", "asked", "set"}],
           NEW t \in Threads, stack[t] # <<>>, Top(t).at = "method",
           NEW f \in GoodFrame, f.obj = Top(t).obj, f.queued = Top(t).queued,
           f.at = "method", NEW o \in Objects, NEW r \in Sinks, Call(t, f, o, r)
    PROVE  IInv'
<1>1. RestTypes /\ list' = list
  BY CallsAssumption DEF Call, RestTypes, IInv, Types
<1>2. Inner(Top(t)) /\ Top(t).at # "signal"
  BY DEF Inner
<1>3. CASE Kind[o] = "direct" /\ RunByCaller(t, f, o, r)
  BY <1>1, <1>2, <1>3, StepRunByCaller
<1>4. CASE TryLock(o) /\ RunByCaller(t, f, o, r)
  BY <1>1, <1>2, <1>4, StepRunByCaller, FreeWhenEmpty DEF TryLock, IInv
<1>5. CASE Kind[o] = "basic" /\ Enqueue(t, f, o, r)
  BY <1>1, <1>2, <1>5, StepEnqueue DEF Queueing
<1>6. ASSUME NEW place \in {"push", "lock"}, Pending(t, f, place, o, r),
             place = "push" => Kind[o] = "eager",
             place = "lock" => Kind[o] = "mutexed"
      PROVE  IInv'
  <2> DEFINE g == [f EXCEPT !.at = place, !.to = o, !.msg = r]
  <2>1. /\ g \in GoodFrame /\ g.at = place
        /\ g.obj = Top(t).obj /\ g.queued = Top(t).queued
    BY <1>6 DEF GoodFrame, Frame, Places
  <2>2. Replace(t, g) /\ queue' = queue
    BY <1>6 DEF Pending
  <2> HIDE DEF g
  <2>3. Types' /\ SameQueues
    BY <1>1, <2>2, SameTypes DEF IInv
  <2>4. Inner(g) /\ g.at # "signal"
    BY <2>1 DEF Inner
  <2> QED
    BY <1>1, <1>2, <2>1, <2>2, <2>3, <2>4, GoesOn
<1> QED
  BY <1>3, <1>4, <1>5, <1>6 DEF Call

LEMMA StepSend ==
    ASSUME IInv, NEW t \in Threads, NEW o \in Objects, Send(t, o)
    PROVE  IInv'
<1>1. stack[t] # <<>> /\ Top(t).at = "method"
  BY DEF Send, At
<1>2. Top(t) \in GoodFrame
  BY <1>1, TopOf DEF IInv
<1>3. promise' \in [Promises -> {"unused", "asked", "set"}]
  BY DEF Send, IInv, Types
<1>4. CASE Call(t, Top(t), o, NoPromise)
  <2>1. NoPromise \in Sinks
    BY DEF Sinks
  <2> QED
    BY <1>1, <1>2, <1>3, <1>4, <2>1, StepCall
<1>5. CASE Call(t, [Top(t) EXCEPT !.reply = NoPromise], o, Top(t).reply)
  <2> DEFINE f == [Top(t) EXCEPT !.reply = NoPromise]
  <2>1. /\ f \in GoodFrame /\ f.at = "method"
        /\ f.obj = Top(t).obj /\ f.queued = Top(t).queued
        /\ Top(t).reply \in Sinks
    BY <1>1, <1>2 DEF GoodFrame, Frame, Sinks
  <2>2. Call(t, f, o, Top(t).reply)
    BY <1>5
  <2> HIDE DEF f
  <2> QED
    BY <1>1, <1>3, <2>1, <2>2, StepCall
<1> QED
  BY <1>4, <1>5 DEF Send

LEMMA StepAsk ==
    ASSUME IInv, NEW t \in Threads, NEW o \in Objects,
           NEW p \in Promises, Ask(t, o, p)
    PROVE  IInv'
<1> DEFINE f == [Top(t) EXCEPT !.asks = p]
<1>1. stack[t] # <<>> /\ Top(t).at = "method"
  BY DEF Ask, At
<1>2. /\ f \in GoodFrame /\ f.at = "method"
      /\ f.obj = Top(t).obj /\ f.queued = Top(t).queued
  BY <1>1, TopOf DEF IInv, GoodFrame, Frame, Sinks
<1>3. promise' \in [Promises -> {"unused", "asked", "set"}] /\ p \in Sinks
  BY DEF Ask, IInv, Types, Sinks
<1>4. Call(t, f, o, p)
  BY DEF Ask
<1> HIDE DEF f
<1> QED
  BY <1>1, <1>2, <1>3, <1>4, StepCall

LEMMA ResumedIs ==
    ASSUME NEW f \in GoodFrame
    PROVE  /\ Resumed(f) \in GoodFrame /\ Resumed(f).at = "method"
           /\ Resumed(f).obj = f.obj /\ Resumed(f).queued = f.queued
<1> DEFINE g == Resumed(f)
<1>1. /\ f \in Frame
      /\ f.queued => f.obj \in Queueing
      /\ ~f.queued /\ f.obj \in Objects => Kind[f.obj] # "basic"
  BY DEF GoodFrame
<1>2. /\ g \in Frame /\ g.at = "method" /\ g.obj = f.obj /\ g.queued = f.queued
  BY <1>1 DEF Resumed, Frame, Places, Sinks
<1> HIDE DEF g
<1>3. g \in GoodFrame
  BY <1>1, <1>2 DEF GoodFrame
<1> QED
  BY <1>2, <1>3 DEF g

LEMMA StepQueueInstead ==
    ASSUME IInv, NEW t \in Threads, QueueInstead(t)
    PROVE  IInv'
<1>1. /\ stack[t] # <<>> /\ Top(t).at = "push" /\ RestTypes /\ list' = list
      /\ Enqueue(t, Resumed(Top(t)), Top(t).to, Top(t).msg)
  BY DEF QueueInstead, At, RestTypes, IInv, Types
<1>2. Top(t) \in GoodFrame
  BY <1>1, TopOf DEF IInv
<1>3. Top(t).to \in Queueing /\ Top(t).msg \in Sinks
  BY <1>1, <1>2 DEF GoodFrame, Frame, Queueing
<1>4. Inner(Top(t)) /\ Top(t).at # "signal"
  BY <1>1 DEF Inner
<1> QED
  BY <1>1, <1>2, <1>3, <1>4, ResumedIs, StepEnqueue

LEMMA StepLock ==
    ASSUME IInv, NEW t \in Threads, Lock(t)
    PROVE  IInv'
<1>1. /\ stack[t] # <<>> /\ Top(t).at = "lock" /\ RestTypes /\ list' = list
      /\ RunByCaller(t, Resumed(Top(t)), Top(t).to, Top(t).msg)
  BY DEF Lock, At, RestTypes, IInv, Types
<1>2. Top(t) \in GoodFrame
  BY <1>1, TopOf DEF IInv
<1>3. Top(t).to \in Objects /\ Top(t).msg \in Sinks /\ Kind[Top(t).to] = "mutexed"
  BY <1>1, <1>2 DEF GoodFrame, Frame
<1>4. FreeFor(t, Top(t).to)
  BY FreeForOwner DEF IInv, Lock
<1>5. Inner(Top(t)) /\ Top(t).at # "signal"
  BY <1>1 DEF Inner
<1> QED
  BY <1>1, <1>2, <1>3, <1>4, <1>5, ResumedIs, StepRunByCaller

\* A duty passes from the caller to the list.
LEMMA StepSignal ==
    ASSUME IInv, NEW t \in Threads, Signal(t)
    PROVE  IInv'
<1> DEFINE f == Resumed(Top(t))
           o == Top(t).to
<1>1. /\ stack[t] # <<>> /\ Top(t).at = "signal" /\ Replace(t, f)
      /\ list' = Activated(o) /\ RestTypes /\ queue' = queue
  BY DEF Signal, At, RestTypes, IInv, Types
<1>2. Top(t) \in GoodFrame
  BY <1>1, TopOf DEF IInv
<1>3. /\ f \in GoodFrame /\ f.at = "method" /\ o \in Objects
      /\ f.obj = Top(t).obj /\ f.queued = Top(t).queued
  BY <1>1, <1>2, ResumedIs DEF GoodFrame
<1> HIDE DEF f
<1>4. /\ Duties[Top(t)] = Duties[f] \cup {o} /\ o \notin Duties[f]
      /\ \A p \in Duties[Top(t)] : HeldNow(p)
      /\ Duties[Top(t)] \cap Elements(list) = {}
  <2>1. /\ \A p \in Duties[Top(t)] : HeldNow(p)
        /\ Duties[Top(t)] \cap Elements(list) = {}
        /\ Apart(Top(t))
    BY <1>1, TopHolds DEF IInv
  <2>2. /\ Duties[f] = IF Top(t).queued THEN {Top(t).obj} ELSE {}
        /\ Duties[Top(t)] = Duties[f] \cup {o}
    BY <1>1, <1>2, <1>3 DEF Duties
  <2> QED
    BY <1>1, <2>1, <2>2 DEF Apart
<1>5. list' \in Seq(Objects) /\ Once(list') /\ Elements(list') = Elements(list) \cup {o}
  BY <1>1, <1>3, <1>4, ActivatedIs DEF IInv, Types, OneHolder
<1>6. Tried[f] = Tried[Top(t)] /\ Locked[f] = Locked[Top(t)]
  BY <1>1, <1>2, <1>3, SameRoles DEF Inner
<1>7. PassedOn(Duties[Top(t)], Duties[f]) /\ Apart(f)
  BY <1>3, <1>4, <1>5 DEF PassedOn, Apart
<1>8. Orderly' /\ HeldAfter(Duties[Top(t)], Duties[f])
  BY <1>1, <1>3, <1>6, <1>7, AfterReplace
<1>9. \A p : HeldNow(p)' <=> HeldNow(p)
  BY <1>4, <1>5, <1>8, ListHolds DEF HeldAfter
<1>10. Types' /\ Duty'
  BY <1>1, <1>5, <1>9 DEF IInv, Types, Duty, RestTypes, Queueing
<1> QED
  BY <1>8, <1>10 DEF IInv, Orderly
-----------------------------------------------------------------------------
(* Answers and waits *)

LEMMA StepAnswer ==
    ASSUME IInv, NEW t \in Threads, Answer(t)
    PROVE  IInv'
<1> DEFINE f == [Top(t) EXCEPT !.reply = NoPromise]
<1>1. /\ stack[t] # <<>> /\ Top(t).at = "method" /\ Top(t).reply # NoPromise
      /\ Replace(t, f) /\ build' = build /\ queue' = queue /\ list' = list
      /\ sent' = sent /\ promise' = [promise EXCEPT ![Top(t).reply] = "set"]
  BY DEF Answer, At
<1>2. Top(t) \in GoodFrame
  BY <1>1, TopOf DEF IInv
<1>3. /\ f \in GoodFrame /\ f.at = "method"
      /\ f.obj = Top(t).obj /\ f.queued = Top(t).queued
  BY <1>1, <1>2 DEF GoodFrame, Frame, Sinks
<1> HIDE DEF f
<1>4. RestTypes
  BY <1>1 DEF RestTypes, IInv, Types
<1>5. Types' /\ SameQueues
  BY <1>1, <1>4, SameTypes DEF IInv
<1> QED
  BY <1>1, <1>3, <1>5, GoesOn DEF Inner

LEMMA StepGet ==
    ASSUME IInv, NEW t \in Threads, Get(t)
    PROVE  IInv'
<1> DEFINE f == [Top(t) EXCEPT !.at = "method", !.asks = NoPromise]
<1>1. /\ stack[t] # <<>> /\ Top(t).at \in {"poll", "get"}
      /\ Replace(t, f) /\ build' = build /\ queue' = queue /\ list' = list
      /\ sent' = sent /\ promise' = [promise EXCEPT ![Top(t).asks] = "unused"]
  BY DEF Get, At
<1>2. Top(t) \in GoodFrame
  BY <1>1, TopOf DEF IInv
<1>3. /\ f \in GoodFrame /\ f.at = "method"
      /\ f.obj = Top(t).obj /\ f.queued = Top(t).queued
  BY <1>1, <1>2 DEF GoodFrame, Frame, Sinks, Places
<1> HIDE DEF f
<1>4. RestTypes
  BY <1>1 DEF RestTypes, IInv, Types
<1>5. Types' /\ SameQueues
  BY <1>1, <1>4, SameTypes DEF IInv
<1> QED
  BY <1>1, <1>3, <1>5, GoesOn DEF Inner

LEMMA GoesTo ==
    ASSUME IInv, NEW t \in Threads, stack[t] # <<>>, Inner(Top(t)),
           Top(t).at # "signal", Top(t).asks # NoPromise,
           NEW place \in {"poll", "get"}, Goto(t, place),
           UNCHANGED <<build, queue, list, promise, sent>>
    PROVE  IInv'
<1> DEFINE f == [Top(t) EXCEPT !.at = place]
<1>1. Top(t) \in GoodFrame
  BY TopOf DEF IInv
<1>2. /\ f \in GoodFrame /\ f.at = place
      /\ f.obj = Top(t).obj /\ f.queued = Top(t).queued
  BY <1>1 DEF GoodFrame, Frame, Sinks, Places
<1>3. Replace(t, f)
  BY DEF Goto
<1> HIDE DEF f
<1>4. RestTypes
  BY DEF RestTypes, IInv, Types
<1>5. Types' /\ SameQueues
  BY <1>4, SameTypes DEF IInv
<1> QED
  BY <1>2, <1>3, <1>5, GoesOn DEF Inner

LEMMA StepWait ==
    ASSUME IInv, NEW t \in Threads, Wait(t)
    PROVE  IInv'
BY GoesTo DEF Wait, At, Inner

\* The first object of the list becomes the duty of a new call, on top of a
\* waiting method (Idle) or at the bottom of a worker's stack (Take).
LEMMA FirstTaken ==
    ASSUME IInv, NEW t \in Threads, list # <<>>, list' = Tail(list),
           UNCHANGED <<build, queue, promise, sent>>,
           NEW g, g = FromQueue(Head(list), "loop", Budget, NoPromise)
    PROVE  /\ g \in GoodFrame /\ Apart(g)
           /\ Tried[g] = {} /\ Locked[g] = {}
           /\ PassedOn({}, Duties[g])
           /\ Orderly' /\ HeldAfter({}, Duties[g]) => IInv'
<1> DEFINE o == Head(list)
<1>1. /\ list' \in Seq(Objects) /\ o \in Objects /\ Once(list')
      /\ o \in Elements(list) /\ Elements(list') = Elements(list) \ {o}
  BY HeadTaken DEF IInv, Types, OneHolder
<1>2. HeldNow(o) /\ o \in Queueing
  BY <1>1, ListHolds DEF IInv, Duty, Types
<1> HIDE DEF o
<1>3. /\ g \in GoodFrame /\ Apart(g) /\ Duties[g] = {o}
      /\ Tried[g] = {} /\ Locked[g] = {}
  <2>1. Budget \in 0 .. Budget /\ NoPromise \in Sinks
    BY CallsAssumption DEF Sinks
  <2>2. g = FromQueue(o, "loop", Budget, NoPromise)
    BY DEF o
  <2>3. /\ g \in GoodFrame /\ Apart(g)
        /\ g.obj = o /\ g.queued /\ g.at = "loop"
    BY <1>2, <2>1, <2>2, FromQueueIs
  <2> QED
    BY <1>2, <2>3, QueuedRoles DEF Inner
<1>4. PassedOn({}, Duties[g])
  BY <1>1, <1>3 DEF PassedOn
<1>5. ASSUME Orderly', HeldAfter({}, Duties[g]) PROVE IInv'
  <2>1. \A p : HeldNow(p)' <=> HeldNow(p)
    BY <1>1, <1>2, <1>3, <1>5, ListHolds DEF HeldAfter
  <2>2. Types' /\ Duty'
    BY <1>1, <2>1 DEF IInv, Types, Duty, Queueing
  <2> QED
    BY <1>5, <2>2 DEF IInv, Orderly
<1> QED
  BY <1>3, <1>4, <1>5

LEMMA StepIdle ==
    ASSUME IInv, NEW t \in Threads, Idle(t)
    PROVE  IInv'
<1>1. /\ stack[t] # <<>> /\ Top(t).at = "poll"
      /\ UNCHANGED <<build, queue, promise, sent>>
  BY DEF Idle, At
<1>2. Top(t) \in GoodFrame
  BY <1>1, TopOf DEF IInv
<1>3. CASE Goto(t, "get") /\ list' = list
  <2>1. Top(t).asks # NoPromise
    BY <1>1, <1>2, CallsAssumption DEF GoodFrame
  <2> QED
    BY <1>1, <1>3, <2>1, GoesTo DEF Inner
<1>4. CASE /\ list # <<>> /\ list' = Tail(list)
           /\ Push(t, Top(t), FromQueue(Head(list), "loop", Budget, NoPromise))
  <2> DEFINE g == FromQueue(Head(list), "loop", Budget, NoPromise)
  <2>1. /\ g \in GoodFrame /\ Apart(g)
        /\ Tried[g] = {} /\ Locked[g] = {}
        /\ PassedOn({}, Duties[g])
        /\ Orderly' /\ HeldAfter({}, Duties[g]) => IInv'
    BY <1>1, <1>4, FirstTaken
  <2>2. Push(t, Top(t), g)
    BY <1>4
  <2> HIDE DEF g
  <2>3. Apart(Top(t))
    BY <1>1 DEF Apart
  <2> QED
    BY <1>1, <1>2, <2>1, <2>2, <2>3, AfterPush
<1> QED
  BY <1>3, <1>4 DEF Idle, FromQueue
-----------------------------------------------------------------------------
(* run_some *)

LEMMA StepTake ==
    ASSUME IInv, NEW t \in Threads, Take(t)
    PROVE  IInv'
<1> DEFINE g == FromQueue(Head(list), "loop", Budget, NoPromise)
<1>1. /\ stack[t] = <<>> /\ list # <<>> /\ list' = Tail(list)
      /\ stack' = [stack EXCEPT ![t] = <<g>>]
      /\ UNCHANGED <<build, queue, promise, sent>>
  BY DEF Take, FromQueue
<1>2. /\ g \in GoodFrame /\ Apart(g)
      /\ Tried[g] = {} /\ Locked[g] = {}
      /\ PassedOn({}, Duties[g])
      /\ Orderly' /\ HeldAfter({}, Duties[g]) => IInv'
  BY <1>1, FirstTaken
<1> HIDE DEF g
<1> QED
  BY <1>1, <1>2, AfterStart

\* A call of run_some either goes on, with messages left, or ends with none.
LEMMA StepRunLoop ==
    ASSUME IInv, NEW t \in Threads, stack[t] # <<>>, Top(t).queued,
           Top(t).at \in {"loop", "method"},
           NEW q \in Seq(Sinks), NEW n \in 0 .. Budget,
           queue' = [queue EXCEPT ![Top(t).obj] = q],
           UNCHANGED <<build, list, promise, sent>>,
           Kind[Top(t).obj] = "eager" =>
               Top(t).obj \in Tried[Top(t)] \/ Free(Top(t).obj),
           RunLoop(t, q, n)
    PROVE  IInv'
<1> DEFINE o == Top(t).obj
<1>1. Top(t) \in GoodFrame /\ o \in Queueing /\ o \in Objects
  BY TopOf DEF IInv, GoodFrame, Queueing
<1>2. Duties[Top(t)] = {o}
  BY <1>1 DEF Duties
<1>3. HeldNow(o) /\ o \notin Elements(list) /\ queue[o] # <<>>
  BY <1>1, <1>2, TopHolds DEF IInv, Duty
<1>4. /\ queue' \in [Objects -> Seq(Sinks)] /\ queue'[o] = q
      /\ \A p \in Objects \ {o} : queue'[p] = queue[p]
  BY <1>1 DEF IInv, Types
<1>5. Types'
  BY <1>1, <1>4 DEF IInv, Types, Queueing
<1> HIDE DEF o
<1>6. CASE q = <<>> /\ Leave(t)
  <2>1. PassedOn(Duties[Top(t)], {})
    BY <1>2, <1>3 DEF PassedOn, IInv, OneHolder
  <2>2. Orderly' /\ HeldAfter({o}, {})
    BY <1>2, <1>6, <2>1, AfterLeave
  <2>3. \A p : HeldNow(p)' <=> HeldNow(p) /\ p # o
    BY <1>3, <2>2, ListHolds DEF HeldAfter
  <2>4. Duty'
    BY <1>4, <1>6, <2>3 DEF IInv, Duty
  <2> QED
    BY <1>5, <2>2, <2>4 DEF IInv, Orderly
<1>7. ASSUME NEW place \in {"method", "resched"}, NEW m \in 0 .. Budget,
             NEW r \in Sinks, q # <<>>, Replace(t, FromQueue(o, place, m, r))
      PROVE  IInv'
  <2> DEFINE g == FromQueue(o, place, m, r)
  <2> HIDE DEF g
  <2>1. g = FromQueue(o, place, m, r)
    BY DEF g
  <2>2. /\ g \in GoodFrame /\ Apart(g)
        /\ g.obj = o /\ g.queued /\ g.at = place
    BY <1>1, <2>1, FromQueueIs
  <2>3. /\ Duties[g] = {o} /\ Locked[g] = {}
        /\ \A x \in Tried[g] : x = o /\ Kind[o] = "eager" /\ place = "method"
    BY <1>1, <2>2, QueuedRoles DEF Inner
  <2>4. Replace(t, g)
    BY <1>7 DEF g
  <2>5. SameQueues
    BY <1>3, <1>4, <1>7 DEF SameQueues
  <2>6. \A p \in Tried[g] : p \in Tried[Top(t)] \/ Free(p)
    BY <2>3 DEF o
  <2> QED
    BY <1>2, <1>5, <2>2, <2>4, <2>5, <2>6, <2>3, QuietReplace
<1>8. CASE q # <<>> /\ n > 0
           /\ Replace(t, FromQueue(o, "method", n - 1, Head(q)))
  <2>1. Head(q) \in Sinks /\ n - 1 \in 0 .. Budget
    BY <1>8, CallsAssumption
  <2> QED
    BY <1>7, <1>8, <2>1
<1>9. CASE q # <<>> /\ Replace(t, FromQueue(o, "resched", 0, NoPromise))
  <2>1. NoPromise \in Sinks /\ 0 \in 0 .. Budget
    BY CallsAssumption DEF Sinks
  <2> QED
    BY <1>7, <1>9, <2>1
<1> QED
  BY <1>6, <1>8, <1>9 DEF RunLoop, FromQueue, o

LEMMA StepBegin ==
    ASSUME IInv, NEW t \in Threads, Begin(t)
    PROVE  IInv'
<1> DEFINE o == Top(t).obj
<1>1. /\ stack[t] # <<>> /\ Top(t).at = "loop"
      /\ UNCHANGED <<build, queue, list, promise, sent>>
  BY DEF Begin, At
<1>2. /\ Top(t) \in GoodFrame /\ Top(t).queued /\ o \in Queueing /\ o \in Objects
      /\ Top(t).left \in 0 .. Budget
  BY <1>1, TopOf DEF IInv, GoodFrame, Frame, Queueing
<1>3. CASE Goto(t, "resched")
  <2> DEFINE f == [Top(t) EXCEPT !.at = "resched"]
  <2>1. /\ f \in GoodFrame /\ f.at = "resched" /\ f.queued /\ f.obj = o
    BY <1>2 DEF GoodFrame, Frame, Places
  <2>2. Replace(t, f)
    BY <1>3 DEF Goto
  <2> HIDE DEF f, o
  <2>3. Duties[f] = {o} /\ Tried[f] = {} /\ Locked[f] = {} /\ Apart(f)
    BY <2>1 DEF Duties, Tried, Locked, Inner, Apart
  <2>4. Duties[Top(t)] = {o}
    BY <1>1, <1>2 DEF Duties, o
  <2>5. RestTypes
    BY <1>1 DEF RestTypes, IInv, Types
  <2>6. Types' /\ SameQueues
    BY <1>1, <2>5, SameTypes DEF IInv
  <2> QED
    BY <1>1, <2>1, <2>2, <2>3, <2>4, <2>6, QuietReplace
<1>4. CASE /\ Kind[o] = "eager" => TryLock(o)
           /\ RunLoop(t, queue[o], Top(t).left)
  <2>1. Kind[o] = "eager" => Free(o)
    BY <1>4, FreeWhenEmpty DEF TryLock, IInv
  <2>2. queue' = [queue EXCEPT ![o] = queue[o]] /\ queue[o] \in Seq(Sinks)
    BY <1>1, <1>2 DEF IInv, Types
  <2> QED
    BY <1>1, <1>2, <1>4, <2>1, <2>2, StepRunLoop
<1> QED
  BY <1>3, <1>4 DEF Begin

LEMMA StepEndMethod ==
    ASSUME IInv, NEW t \in Threads, EndMethod(t)
    PROVE  IInv'
<1> DEFINE o == Top(t).obj
<1>1. /\ stack[t] # <<>> /\ Top(t).at = "method"
      /\ UNCHANGED <<build, list, promise, sent>>
  BY DEF EndMethod, At
<1>2. Top(t) \in GoodFrame /\ Top(t).left \in 0 .. Budget
  BY <1>1, TopOf DEF IInv, GoodFrame, Frame
<1>3. CASE /\ Top(t).queued
           /\ queue' = [queue EXCEPT ![o] = Tail(@)]
           /\ RunLoop(t, queue'[o], Top(t).left)
  <2>1. o \in Queueing /\ o \in Objects
    BY <1>2, <1>3 DEF GoodFrame, Queueing
  <2>2. o \in Duties[Top(t)] /\ (Kind[o] = "eager" => o \in Tried[Top(t)])
    BY <1>1, <1>2, <1>3, <2>1 DEF Duties, Tried, Inner
  <2>3. queue[o] # <<>>
    BY <1>1, <2>1, <2>2, TopHolds DEF IInv, Duty
  <2>4. queue \in [Objects -> Seq(Sinks)] /\ Tail(queue[o]) \in Seq(Sinks)
    BY <2>1, <2>3 DEF IInv, Types
  <2>5. queue' = [queue EXCEPT ![o] = Tail(queue[o])]
    BY <1>3
  <2>6. queue'[o] = Tail(queue[o])
    BY <2>1, <2>4, <2>5
  <2> QED
    BY <1>1, <1>2, <1>3, <2>2, <2>4, <2>5, <2>6, StepRunLoop
<1>4. CASE ~Top(t).queued /\ Leave(t) /\ queue' = queue
  <2>1. Duties[Top(t)] = {}
    BY <1>1, <1>2, <1>4 DEF Duties
  <2>2. PassedOn({}, {})
    BY <1>1 DEF PassedOn, IInv, OneHolder
  <2>3. Orderly' /\ HeldAfter({}, {})
    BY <1>1, <1>4, <2>1, <2>2, AfterLeave
  <2>4. \A p : HeldNow(p)' <=> HeldNow(p)
    BY <1>1, <2>3, ListHolds DEF HeldAfter
  <2>5. Types' /\ Duty'
    BY <1>1, <1>4, <2>4 DEF IInv, Types, Duty, Queueing
  <2> QED
    BY <2>3, <2>5 DEF IInv, Orderly
<1> QED
  BY <1>3, <1>4 DEF EndMethod

\* A duty passes from run_some to the list.
LEMMA StepResched ==
    ASSUME IInv, NEW t \in Threads, Resched(t)
    PROVE  IInv'
<1> DEFINE o == Top(t).obj
<1>1. /\ stack[t] # <<>> /\ Top(t).at = "resched" /\ Leave(t)
      /\ list' = Activated(o) /\ UNCHANGED <<build, queue, promise, sent>>
  BY DEF Resched, At
<1>2. Top(t) \in GoodFrame /\ Top(t).queued /\ o \in Objects
  BY <1>1, TopOf DEF IInv, GoodFrame, Queueing
<1>3. Duties[Top(t)] = {o}
  BY <1>1, <1>2 DEF Duties
<1> HIDE DEF o
<1>4. HeldNow(o) /\ o \notin Elements(list)
  BY <1>1, <1>3, TopHolds DEF IInv
<1>5. list' \in Seq(Objects) /\ Once(list') /\ Elements(list') = Elements(list) \cup {o}
  BY <1>1, <1>2, <1>4, ActivatedIs DEF IInv, Types, OneHolder
<1>6. PassedOn({o}, {})
  BY <1>5 DEF PassedOn
<1>7. Orderly' /\ HeldAfter({o}, {})
  BY <1>1, <1>3, <1>6, AfterLeave
<1>8. \A p : HeldNow(p)' <=> HeldNow(p)
  BY <1>4, <1>5, <1>7, ListHolds DEF HeldAfter
<1>9. Types' /\ Duty'
  BY <1>1, <1>5, <1>8 DEF IInv, Types, Duty, Queueing
<1> QED
  BY <1>7, <1>9 DEF IInv, Orderly
-----------------------------------------------------------------------------
(* The invariant *)

LEMMA InitIInv == Init => IInv
<1> SUFFICES ASSUME Init PROVE IInv
  OBVIOUS
<1>1. Types
  BY CallsAssumption DEF Init, Types
<1> DEFINE m == Entered(NoObject, "method", FALSE, 0, NoPromise)
<1>2. m \in Frame /\ m.at = "method" /\ ~m.queued /\ m.obj = NoObject
  BY CallsAssumption DEF Entered, Frame, Sinks, Places
<1>3. stack = [t \in Threads |-> IF t = Main THEN <<m>> ELSE <<>>]
  BY DEF Init
<1> HIDE DEF m
<1>4. m \in GoodFrame
  BY <1>2, CallsAssumption DEF GoodFrame
<1>5. Stacks
  BY <1>3, <1>4 DEF Stacks
<1>6. Duties[m] = {} /\ Tried[m] = {} /\ Locked[m] = {}
  BY <1>2, <1>4, CallsAssumption DEF Duties, Tried, Locked
<1>7. ASSUME NEW t \in Threads, NEW i \in 1 .. Len(stack[t]) PROVE stack[t][i] = m
  BY <1>3
<1>8. ASSUME NEW t \in Threads, NEW i \in 1 .. Depth[t]
      PROVE  /\ Roles(Duties)[t][i] = {} /\ Roles(Tried)[t][i] = {}
             /\ Roles(Locked)[t][i] = {}
  <2>1. i \in 1 .. Len(stack[t])
    BY DEF Depth
  <2> QED
    BY <1>6, <1>7, <2>1 DEF Roles
<1>9. list = <<>> /\ Elements(list) = {} /\ Once(list)
  BY DEF Init, Elements, Once
<1>10. OneHolder
  BY <1>2, <1>7, <1>8, <1>9 DEF OneHolder, Alone
<1>11. OneCaller /\ OneThread
  BY <1>8 DEF OneCaller, Alone, OneThread, OnOneThread
<1>12. Duty
  BY <1>8, <1>9 DEF Init, Duty, HeldNow, Held
<1> QED
  BY <1>1, <1>5, <1>10, <1>11, <1>12 DEF IInv

LEMMA StutterIInv == IInv /\ UNCHANGED vars => IInv'
<1> SUFFICES ASSUME IInv, UNCHANGED vars PROVE IInv'
  OBVIOUS
<1>1. Types' /\ Stacks'
  BY DEF IInv, vars, Types, Stacks
<1>2. Depth' = Depth /\ Roles(Duties)' = Roles(Duties) /\ Roles(Tried)' = Roles(Tried)
      /\ Roles(Locked)' = Roles(Locked) /\ Elements(list)' = Elements(list)
  BY DEF vars, Depth, Roles, Elements
<1>3. OneHolder' /\ OneCaller' /\ OneThread'
  BY <1>2 DEF IInv, vars, OneHolder, OneCaller, OneThread, Once
<1>4. Duty'
  BY <1>2 DEF IInv, vars, Duty, HeldNow
<1> QED
  BY <1>1, <1>3, <1>4 DEF IInv

LEMMA NextIInv == IInv /\ [Next]_vars => IInv'
<1> SUFFICES ASSUME IInv, Next PROVE IInv'
  BY StutterIInv
<1>1. PICK t \in Threads :
         \/ \E o \in Objects : Send(t, o) \/ \E p \in Promises : Ask(t, o, p)
         \/ Work(t)
  BY DEF Next
<1>2. CASE \E o \in Objects : Send(t, o) \/ \E p \in Promises : Ask(t, o, p)
  BY <1>2, StepSend, StepAsk
<1>3. CASE Work(t)
  BY <1>3, StepQueueInstead, StepSignal, StepLock, StepAnswer, StepWait, StepGet,
     StepIdle, StepTake, StepBegin, StepEndMethod, StepResched DEF Work
<1> QED
  BY <1>1, <1>2, <1>3

LEMMA IInvHolds == Spec => []IInv
BY InitIInv, NextIInv, PTL DEF Spec

\* Queues hold sinks, stacks hold calls, in every reachable state.
THEOREM CallsTypeCorrect == Spec => []TypeOK
<1>1. IInv => TypeOK
  <2>1. GoodFrame \subseteq Frame
    BY DEF GoodFrame
  <2>2. Stacks => stack \in [Threads -> Seq(Frame)]
    BY <2>1 DEF Stacks
  <2> QED
    BY <2>2 DEF IInv, Types, TypeOK
<1> QED
  BY <1>1, IInvHolds, PTL
-----------------------------------------------------------------------------
(* Back to the positions that the properties are about *)

\* The calls on the stacks.
LEMMA CallOf ==
    ASSUME Stacks, NEW x \in AllFrames
    PROVE  \E t \in Threads : \E i \in 1 .. Depth[t] :
              /\ x = <<t, i>> /\ FrameOf(x) = stack[t][i]
              /\ stack[t][i] \in GoodFrame
              /\ Roles(Duties)[t][i] = Duties[stack[t][i]]
              /\ Roles(Tried)[t][i] = Tried[stack[t][i]]
              /\ Roles(Locked)[t][i] = Locked[stack[t][i]]
<1>1. PICK t \in Threads : x \in {<<t, i>> : i \in DOMAIN stack[t]}
  BY DEF AllFrames
<1>2. PICK i \in DOMAIN stack[t] : x = <<t, i>>
  BY <1>1
<1>3. stack[t] \in Seq(GoodFrame) /\ Depth[t] = Len(stack[t])
  BY DEF Stacks, Depth
<1>4. /\ i \in 1 .. Len(stack[t]) /\ stack[t][i] \in GoodFrame
      /\ FrameOf(x) = stack[t][i]
  BY <1>2, <1>3 DEF FrameOf
<1>5. /\ Roles(Duties)[t][i] = Duties[stack[t][i]]
      /\ Roles(Tried)[t][i] = Tried[stack[t][i]]
      /\ Roles(Locked)[t][i] = Locked[stack[t][i]]
  BY <1>4 DEF Roles
<1> QED
  BY <1>2, <1>3, <1>4, <1>5

\* A call inside an eager object has its mutex, one inside a mutexed object has
\* its recursive mutex, and one inside a basic object answers for its messages.
LEMMA InsideIs ==
    ASSUME Stacks, NEW o \in Objects, NEW x \in Inside(o)
    PROVE  \E t \in Threads : \E i \in 1 .. Depth[t] :
              /\ x = <<t, i>>
              /\ Kind[o] = "basic" => o \in Roles(Duties)[t][i]
              /\ Kind[o] = "eager" => o \in Roles(Tried)[t][i]
              /\ Kind[o] = "mutexed" => o \in Roles(Locked)[t][i]
<1>1. x \in AllFrames /\ FrameOf(x).obj = o /\ Inner(FrameOf(x))
  BY DEF Inside, Inner
<1>2. PICK t \in Threads : \E i \in 1 .. Depth[t] :
              /\ x = <<t, i>> /\ FrameOf(x) = stack[t][i]
              /\ stack[t][i] \in GoodFrame
              /\ Roles(Duties)[t][i] = Duties[stack[t][i]]
              /\ Roles(Tried)[t][i] = Tried[stack[t][i]]
              /\ Roles(Locked)[t][i] = Locked[stack[t][i]]
  BY <1>1, CallOf
<1>3. PICK i \in 1 .. Depth[t] :
              /\ x = <<t, i>> /\ FrameOf(x) = stack[t][i]
              /\ stack[t][i] \in GoodFrame
              /\ Roles(Duties)[t][i] = Duties[stack[t][i]]
              /\ Roles(Tried)[t][i] = Tried[stack[t][i]]
              /\ Roles(Locked)[t][i] = Locked[stack[t][i]]
  BY <1>2
<1> DEFINE f == stack[t][i]
<1>4. f \in GoodFrame /\ f.obj = o /\ Inner(f)
  BY <1>1, <1>3
<1> HIDE DEF f
<1>5. /\ Kind[o] = "eager" => o \in Tried[f]
      /\ Kind[o] = "mutexed" => o \in Locked[f]
  BY <1>4 DEF Tried, Locked
<1>6. ASSUME Kind[o] = "basic" PROVE o \in Duties[f]
  <2>1. f.queued
    BY <1>4, <1>6 DEF GoodFrame
  <2> QED
    BY <1>4, <2>1 DEF Duties
<1> QED
  BY <1>3, <1>5, <1>6 DEF f

\* At most one method of a basic or eager object runs at a time, whoever runs
\* it, and the methods of a mutexed object are in one thread (fast.hpp:25, 53;
\* synchronous.hpp:23).
THEOREM ExclusiveHolds == Spec => []Exclusive
<1>1. IInv => Exclusive
  <2> SUFFICES ASSUME IInv, NEW o \in Objects, NEW x \in Inside(o), NEW y \in Inside(o)
               PROVE  /\ Kind[o] \in {"basic", "eager"} => x = y
                      /\ Kind[o] = "mutexed" => x[1] = y[1]
    BY DEF Exclusive
  <2> USE DEF IInv
  <2>1. PICK t \in Threads : \E i \in 1 .. Depth[t] :
              /\ x = <<t, i>>
              /\ Kind[o] = "basic" => o \in Roles(Duties)[t][i]
              /\ Kind[o] = "eager" => o \in Roles(Tried)[t][i]
              /\ Kind[o] = "mutexed" => o \in Roles(Locked)[t][i]
    BY InsideIs
  <2>2. PICK i \in 1 .. Depth[t] :
              /\ x = <<t, i>>
              /\ Kind[o] = "basic" => o \in Roles(Duties)[t][i]
              /\ Kind[o] = "eager" => o \in Roles(Tried)[t][i]
              /\ Kind[o] = "mutexed" => o \in Roles(Locked)[t][i]
    BY <2>1
  <2>3. PICK u \in Threads : \E j \in 1 .. Depth[u] :
              /\ y = <<u, j>>
              /\ Kind[o] = "basic" => o \in Roles(Duties)[u][j]
              /\ Kind[o] = "eager" => o \in Roles(Tried)[u][j]
              /\ Kind[o] = "mutexed" => o \in Roles(Locked)[u][j]
    BY InsideIs
  <2>4. PICK j \in 1 .. Depth[u] :
              /\ y = <<u, j>>
              /\ Kind[o] = "basic" => o \in Roles(Duties)[u][j]
              /\ Kind[o] = "eager" => o \in Roles(Tried)[u][j]
              /\ Kind[o] = "mutexed" => o \in Roles(Locked)[u][j]
    BY <2>3
  <2>5. CASE Kind[o] = "basic"
    <3>1. Roles(Duties)[t][i] \cap Roles(Duties)[u][j] # {}
      BY <2>2, <2>4, <2>5
    <3> QED
      BY <2>2, <2>4, <2>5, <3>1 DEF OneHolder, Alone
  <2>6. CASE Kind[o] = "eager"
    <3>1. Roles(Tried)[t][i] \cap Roles(Tried)[u][j] # {}
      BY <2>2, <2>4, <2>6
    <3> QED
      BY <2>2, <2>4, <2>6, <3>1 DEF OneCaller, Alone
  <2>7. CASE Kind[o] = "mutexed"
    <3>1. Roles(Locked)[t][i] \cap Roles(Locked)[u][j] # {}
      BY <2>2, <2>4, <2>7
    <3>2. t = u
      BY <3>1 DEF OneThread, OnOneThread
    <3> QED
      BY <2>2, <2>4, <2>7, <3>2
  <2> QED
    BY <2>5, <2>6, <2>7
<1> QED
  BY <1>1, IInvHolds, PTL

CallsOf(o) == {x \in AllFrames : FrameOf(x).obj = o /\ FrameOf(x).queued}
SendersTo(o) == {x \in AllFrames : FrameOf(x).at = "signal" /\ FrameOf(x).to = o}
Positions(o) == {i \in DOMAIN list : list[i] = o}

LEMMA HoldersAre ==
    ASSUME NEW o, NEW x
    PROVE  x \in Holders(o) <=>
              \/ \E i \in Positions(o) : x = <<"list", i>>
              \/ \E y \in CallsOf(o) : x = <<"frame", y>>
              \/ \E y \in SendersTo(o) : x = <<"sender", y>>
BY DEF Holders, CallsOf, SendersTo, Positions

\* A call that is one of the holders has the duty.
LEMMA CallsHave ==
    ASSUME Stacks, NEW o \in Objects, NEW x \in CallsOf(o) \cup SendersTo(o)
    PROVE  \E t \in Threads : \E i \in 1 .. Depth[t] :
              x = <<t, i>> /\ o \in Roles(Duties)[t][i]
<1>1. x \in AllFrames
  BY DEF CallsOf, SendersTo
<1>2. PICK t \in Threads : \E i \in 1 .. Depth[t] :
              /\ x = <<t, i>> /\ FrameOf(x) = stack[t][i]
              /\ stack[t][i] \in GoodFrame
              /\ Roles(Duties)[t][i] = Duties[stack[t][i]]
  BY <1>1, CallOf
<1>3. PICK i \in 1 .. Depth[t] :
              /\ x = <<t, i>> /\ FrameOf(x) = stack[t][i]
              /\ stack[t][i] \in GoodFrame
              /\ Roles(Duties)[t][i] = Duties[stack[t][i]]
  BY <1>2
<1>4. o \in Duties[stack[t][i]]
  BY <1>3 DEF CallsOf, SendersTo, Duties
<1> QED
  BY <1>3, <1>4

LEMMA OneCall ==
    ASSUME IInv, NEW o \in Objects
    PROVE  /\ \A x, y \in CallsOf(o) \cup SendersTo(o) : x = y
           /\ \A i, j \in Positions(o) : i = j
           /\ Positions(o) # {} => CallsOf(o) \cup SendersTo(o) = {}
           /\ CallsOf(o) \cap SendersTo(o) = {}
<1> USE DEF IInv
<1>1. DOMAIN list = 1 .. Len(list)
  BY DEF Types
<1>2. ASSUME NEW x \in CallsOf(o) \cup SendersTo(o), NEW y \in CallsOf(o) \cup SendersTo(o)
      PROVE  x = y
  <2>1. PICK t \in Threads : \E i \in 1 .. Depth[t] :
            x = <<t, i>> /\ o \in Roles(Duties)[t][i]
    BY CallsHave
  <2>2. PICK i \in 1 .. Depth[t] : x = <<t, i>> /\ o \in Roles(Duties)[t][i]
    BY <2>1
  <2>3. PICK u \in Threads : \E j \in 1 .. Depth[u] :
            y = <<u, j>> /\ o \in Roles(Duties)[u][j]
    BY CallsHave
  <2>4. PICK j \in 1 .. Depth[u] : y = <<u, j>> /\ o \in Roles(Duties)[u][j]
    BY <2>3
  <2>5. Roles(Duties)[t][i] \cap Roles(Duties)[u][j] # {}
    BY <2>2, <2>4
  <2> QED
    BY <2>2, <2>4, <2>5 DEF OneHolder, Alone
<1>3. \A i, j \in Positions(o) : i = j
  BY <1>1 DEF Positions, OneHolder, Once
<1>4. ASSUME Positions(o) # {}, NEW x \in CallsOf(o) \cup SendersTo(o) PROVE FALSE
  <2>1. o \in Elements(list)
    BY <1>1, <1>4 DEF Positions, Elements
  <2>2. PICK t \in Threads : \E i \in 1 .. Depth[t] : o \in Roles(Duties)[t][i]
    BY CallsHave
  <2> QED
    BY <2>1, <2>2 DEF OneHolder, Alone
<1>5. ASSUME NEW x \in CallsOf(o), x \in SendersTo(o) PROVE FALSE
  <2>1. PICK t \in Threads : \E i \in 1 .. Depth[t] :
            x = <<t, i>> /\ FrameOf(x) = stack[t][i]
    BY CallOf DEF CallsOf
  <2>2. PICK i \in 1 .. Depth[t] : FrameOf(x) = stack[t][i]
    BY <2>1
  <2>3. /\ i \in 1 .. Len(stack[t]) /\ stack[t][i].queued
        /\ stack[t][i].obj = o /\ stack[t][i].at = "signal" /\ stack[t][i].to = o
    BY <1>5, <2>2 DEF CallsOf, SendersTo, Depth
  <2> QED
    BY <2>3 DEF OneHolder
<1> QED
  BY <1>2, <1>3, <1>4, <1>5

LEMMA HeldHolders ==
    ASSUME IInv, NEW o \in Objects
    PROVE  Holders(o) # {} <=> HeldNow(o)
<1> USE DEF IInv
<1>1. /\ Holders(o) # {} <=>
            Positions(o) # {} \/ CallsOf(o) \cup SendersTo(o) # {}
  BY HoldersAre
<1>2. Positions(o) # {} <=> o \in Elements(list)
  <2>1. DOMAIN list = 1 .. Len(list)
    BY DEF Types
  <2> QED
    BY <2>1 DEF Positions, Elements
<1>3. ASSUME NEW x \in CallsOf(o) \cup SendersTo(o) PROVE HeldNow(o)
  BY CallsHave DEF HeldNow, Held
<1>4. ASSUME NEW t \in Threads, NEW i \in 1 .. Depth[t], o \in Roles(Duties)[t][i]
      PROVE  CallsOf(o) \cup SendersTo(o) # {}
  <2>1. i \in 1 .. Len(stack[t]) /\ o \in Duties[stack[t][i]]
    BY <1>4 DEF Depth, Roles
  <2>2. /\ i \in DOMAIN stack[t] /\ <<t, i>> \in AllFrames
        /\ stack[t][i] \in GoodFrame
    BY <2>1 DEF Stacks, AllFrames
  <2>3. FrameOf(<<t, i>>) = stack[t][i]
    BY DEF FrameOf
  <2> QED
    BY <2>1, <2>2, <2>3 DEF Duties, CallsOf, SendersTo
<1> QED
  BY <1>1, <1>2, <1>3, <1>4 DEF HeldNow, Held

\* A queue has messages exactly while the list, one call of run_some or one
\* caller answers for it, also when a caller runs the object's method itself and
\* run_some has to give up (fast.hpp:54, object.hpp:312-339).
THEOREM CallsNoLostActivation == Spec => []NoLostActivation
<1>1. IInv => NoLostActivation
  <2> SUFFICES ASSUME IInv, NEW o \in Objects
               PROVE  /\ queue[o] # <<>> <=> Holders(o) # {}
                      /\ \A x, y \in Holders(o) : x = y
    BY DEF NoLostActivation
  <2>1. queue[o] # <<>> <=> Holders(o) # {}
    BY HeldHolders DEF IInv, Duty
  <2>2. \A x, y \in Holders(o) : x = y
    BY HoldersAre, OneCall
  <2> QED
    BY <2>1, <2>2
<1> QED
  BY <1>1, IInvHolds, PTL
=============================================================================
