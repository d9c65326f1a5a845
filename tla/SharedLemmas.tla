---------------------------- MODULE SharedLemmas ----------------------------
(***************************************************************************)
(* Lemmas that the proofs about several components cite.                   *)
(*                                                                         *)
(* First, what Advanced and Calls have in common: an object that has work  *)
(* is held in one place, on the scheduler's list or by one call on the     *)
(* stack of one thread, and a step of a thread moves it between the list   *)
(* and the top of that thread's stack.                                     *)
(*                                                                         *)
(* There, T is the set of threads, N[t] the number of calls on the stack   *)
(* of t, R[t][i] the set of objects that call i of t holds, L the set of   *)
(* the objects on the list.                                                *)
(*                                                                         *)
(* Then sequences, induction and recursion over natural numbers,           *)
(* FlattenSeq, and Reverse.                                                *)
(*                                                                         *)
(* Last, for the programs: sequences of whatever they are made of, Among,  *)
(* how often something occurs in a sequence, and how much of it is on its  *)
(* way, in the mailboxes b and the calls c of a set D of objects.          *)
(***************************************************************************)
EXTENDS Traffic, Integers, Sequences, FiniteSets, SequencesExt, SequenceTheorems,
        FiniteSetTheorems, WellFoundedInduction, TLAPS

\* No object is held twice.
Alone(T, N, R, L) ==
    /\ \A t, u \in T : \A i \in 1 .. N[t], j \in 1 .. N[u] :
          R[t][i] \cap R[u][j] # {} => t = u /\ i = j
    /\ \A t \in T : \A i \in 1 .. N[t] : R[t][i] \cap L = {}

Held(T, N, R, L, o) ==
    \/ o \in L
    \/ \E t \in T : \E i \in 1 .. N[t] : o \in R[t][i]

\* A step of thread t that leaves its first n calls and the other threads as
\* they are; X is what call n + 1 held before, and Y what it holds afterwards.
Step(T, N, N2, R, R2, t, n, X, Y) ==
    /\ N \in [T -> Nat] /\ N2 \in [T -> Nat]
    /\ t \in T /\ n \in Nat
    /\ N[t] \in {n, n + 1} /\ N2[t] \in {n, n + 1}
    /\ \A u \in T \ {t} : N2[u] = N[u] /\ \A i \in 1 .. N[u] : R2[u][i] = R[u][i]
    /\ \A i \in 1 .. n : R2[t][i] = R[t][i]
    /\ X = (IF N[t] = n + 1 THEN R[t][n + 1] ELSE {})
    /\ Y = (IF N2[t] = n + 1 THEN R2[t][n + 1] ELSE {})

\* Where X and the list had been, there are now Y and the list, with nothing new
\* but objects that nobody held.
Passed(T, N, R, L, L2, X, Y) ==
    /\ Y \cap L2 = {}
    /\ \A o \in Y \cup L2 : o \in X \cup L \/ ~Held(T, N, R, L, o)

LEMMA Handover ==
    ASSUME NEW T, NEW N, NEW N2, NEW R, NEW R2, NEW L, NEW L2,
           NEW t, NEW n, NEW X, NEW Y,
           Alone(T, N, R, L), Step(T, N, N2, R, R2, t, n, X, Y),
           Passed(T, N, R, L, L2, X, Y)
    PROVE  /\ Alone(T, N2, R2, L2)
           /\ \A o : Held(T, N2, R2, L2, o) <=>
                 \/ Held(T, N, R, L, o) /\ o \notin X \cup L
                 \/ o \in Y \cup L2
<1> USE DEF Step, Passed
<1> DEFINE Kept(u, i) == i \in 1 .. N[u] /\ (u = t => i <= n)
\* A call is one of those kept, or the new top of t.
<1>1. ASSUME NEW u \in T, NEW i \in 1 .. N2[u]
      PROVE  \/ Kept(u, i) /\ R2[u][i] = R[u][i]
             \/ u = t /\ i = n + 1 /\ R2[u][i] = Y
  OBVIOUS
<1>2. ASSUME NEW u \in T, NEW i, Kept(u, i)
      PROVE  i \in 1 .. N2[u] /\ R2[u][i] = R[u][i]
  BY <1>2
\* What a kept call holds is nowhere else before the step, so it is not in
\* Y or L2.
<1>3. ASSUME NEW u \in T, NEW i, Kept(u, i), NEW o \in R[u][i]
      PROVE  o \notin X \cup L /\ o \notin Y \cup L2 /\ Held(T, N, R, L, o)
  <2>1. Held(T, N, R, L, o) /\ o \notin L
    BY <1>3 DEF Held, Alone
  <2>2. o \notin X
    <3>1. CASE N[t] = n + 1
      <4>1. n + 1 \in 1 .. N[t] /\ X = R[t][n + 1]
        BY <3>1
      <4>2. ~(u = t /\ i = n + 1)
        BY <1>3
      <4>3. i \in 1 .. N[u]
        BY <1>3
      <4>4. R[u][i] \cap R[t][n + 1] = {}
        BY <4>1, <4>2, <4>3 DEF Alone
      <4> QED
        BY <1>3, <4>1, <4>4
    <3> QED
      BY <3>1
  <2> QED
    BY <2>1, <2>2
<1> HIDE DEF Kept
<1>4. Alone(T, N2, R2, L2)
  <2>1. ASSUME NEW u \in T, NEW v \in T, NEW i \in 1 .. N2[u], NEW j \in 1 .. N2[v],
               R2[u][i] \cap R2[v][j] # {}
        PROVE  u = v /\ i = j
    <3>1. PICK o : o \in R2[u][i] /\ o \in R2[v][j]
      BY <2>1
    <3>2. CASE Kept(u, i) /\ R2[u][i] = R[u][i]
      <4>1. o \in R[u][i] /\ o \notin Y
        BY <3>1, <3>2, <1>3
      <4>2. Kept(v, j) /\ R2[v][j] = R[v][j]
        BY <4>1, <3>1, <1>1
      <4>3. i \in 1 .. N[u] /\ j \in 1 .. N[v] /\ R[u][i] \cap R[v][j] # {}
        BY <4>1, <4>2, <3>1, <3>2 DEF Kept
      <4> QED
        BY <4>3 DEF Alone
    <3>3. CASE u = t /\ i = n + 1 /\ R2[u][i] = Y
      <4>1. ~Kept(v, j) \/ R2[v][j] # R[v][j]
        BY <3>1, <3>3, <1>3
      <4> QED
        BY <4>1, <3>3, <1>1
    <3> QED
      BY <3>2, <3>3, <1>1
  <2>2. ASSUME NEW u \in T, NEW i \in 1 .. N2[u] PROVE R2[u][i] \cap L2 = {}
    BY <1>1, <1>3
  <2> QED
    BY <2>1, <2>2 DEF Alone
<1>5. ASSUME NEW o, Held(T, N2, R2, L2, o)
      PROVE  \/ Held(T, N, R, L, o) /\ o \notin X \cup L
             \/ o \in Y \cup L2
  <2>1. CASE o \in L2
    BY <2>1
  <2>2. CASE \E u \in T : \E i \in 1 .. N2[u] : o \in R2[u][i]
    <3>1. PICK u \in T : \E i \in 1 .. N2[u] : o \in R2[u][i]
      BY <2>2
    <3>2. PICK i \in 1 .. N2[u] : o \in R2[u][i]
      BY <3>1
    <3> QED
      BY <3>2, <1>1, <1>3
  <2> QED
    BY <2>1, <2>2, <1>5 DEF Held
<1>6. ASSUME NEW o, Held(T, N, R, L, o), o \notin X \cup L
      PROVE  Held(T, N2, R2, L2, o)
  <2>1. PICK u \in T : \E i \in 1 .. N[u] : o \in R[u][i]
    BY <1>6 DEF Held
  <2>2. PICK i \in 1 .. N[u] : o \in R[u][i]
    BY <2>1
  <2>3. Kept(u, i)
    BY <2>2, <1>6 DEF Kept
  <2>4. i \in 1 .. N2[u] /\ o \in R2[u][i]
    BY <2>2, <2>3, <1>2
  <2> QED
    BY <2>4 DEF Held
<1>7. ASSUME NEW o \in Y \cup L2 PROVE Held(T, N2, R2, L2, o)
  <2>1. CASE o \in Y
    <3>1. N2[t] = n + 1 /\ o \in R2[t][n + 1]
      BY <2>1
    <3>2. n + 1 \in 1 .. N2[t]
      BY <3>1
    <3> QED
      BY <3>1, <3>2, Zenon DEF Held
  <2> QED
    BY <2>1 DEF Held
<1> QED
  BY <1>4, <1>5, <1>6, <1>7

\* As Handover, for roles that the calls of one thread may share.
OnOneThread(T, N, R) ==
    \A t, u \in T : \A i \in 1 .. N[t], j \in 1 .. N[u] :
        R[t][i] \cap R[u][j] # {} => t = u

LEMMA HandoverShared ==
    ASSUME NEW T, NEW N, NEW N2, NEW R, NEW R2, NEW t, NEW n, NEW X, NEW Y,
           OnOneThread(T, N, R), Step(T, N, N2, R, R2, t, n, X, Y),
           \A o \in Y : o \in X \/ \A u \in T \ {t} : \A i \in 1 .. N[u] : o \notin R[u][i]
    PROVE  OnOneThread(T, N2, R2)
<1> USE DEF Step
\* What t has it had before, or nobody else has.
<1>1. ASSUME NEW i \in 1 .. N2[t], NEW o \in R2[t][i],
             NEW u \in T \ {t}, NEW j \in 1 .. N2[u]
      PROVE  o \notin R2[u][j]
  <2>1. j \in 1 .. N[u] /\ R2[u][j] = R[u][j]
    OBVIOUS
  <2>2. CASE i \in 1 .. n
    <3>1. i \in 1 .. N[t] /\ o \in R[t][i]
      BY <2>2
    <3> QED
      BY <2>1, <3>1 DEF OnOneThread
  <2>3. CASE i = n + 1 /\ o \in Y
    <3>1. CASE o \in X
      <4>1. n + 1 \in 1 .. N[t] /\ o \in R[t][n + 1]
        BY <3>1
      <4> QED
        BY <2>1, <4>1 DEF OnOneThread
    <3> QED
      BY <2>1, <2>3, <3>1
  <2> QED
    BY <2>2, <2>3
<1>2. ASSUME NEW u \in T, NEW v \in T, NEW i \in 1 .. N2[u], NEW j \in 1 .. N2[v],
             R2[u][i] \cap R2[v][j] # {}, u # v
      PROVE  FALSE
  <2>1. PICK o : o \in R2[u][i] /\ o \in R2[v][j]
    BY <1>2
  <2>2. CASE u = t
    BY <1>1, <1>2, <2>1, <2>2
  <2>3. CASE v = t
    BY <1>1, <1>2, <2>1, <2>3
  <2>4. CASE u # t /\ v # t
    <3>1. /\ i \in 1 .. N[u] /\ R2[u][i] = R[u][i]
          /\ j \in 1 .. N[v] /\ R2[v][j] = R[v][j]
      BY <2>4
    <3> QED
      BY <1>2, <3>1 DEF OnOneThread
  <2> QED
    BY <2>2, <2>3, <2>4
<1> QED
  BY <1>2 DEF OnOneThread
-----------------------------------------------------------------------------
(* The list, as a set *)

Elements(l) == {l[i] : i \in 1 .. Len(l)}
Once(l) == \A i, j \in 1 .. Len(l) : l[i] = l[j] => i = j

LEMMA Appended ==
    ASSUME NEW S, NEW l \in Seq(S), Once(l), NEW o \in S, o \notin Elements(l)
    PROVE  /\ Append(l, o) \in Seq(S)
           /\ Once(Append(l, o))
           /\ Elements(Append(l, o)) = Elements(l) \cup {o}
<1> DEFINE r == Append(l, o)
<1>1. /\ r \in Seq(S) /\ Len(r) = Len(l) + 1 /\ Len(l) \in Nat
      /\ \A i \in 1 .. Len(l) : r[i] = l[i]
      /\ r[Len(l) + 1] = o
  OBVIOUS
<1> HIDE DEF r
<1>2. \A i \in 1 .. Len(l) : l[i] # o
  BY DEF Elements
<1>3. Once(r)
  BY <1>1, <1>2 DEF Once
<1>4. Elements(r) = Elements(l) \cup {o}
  BY <1>1 DEF Elements
<1> QED
  BY <1>1, <1>3, <1>4 DEF r

LEMMA Prepended ==
    ASSUME NEW S, NEW l \in Seq(S), Once(l), NEW o \in S, o \notin Elements(l)
    PROVE  /\ <<o>> \o l \in Seq(S)
           /\ Once(<<o>> \o l)
           /\ Elements(<<o>> \o l) = Elements(l) \cup {o}
<1> DEFINE r == <<o>> \o l
<1>1. /\ r \in Seq(S) /\ Len(r) = Len(l) + 1 /\ Len(l) \in Nat
      /\ \A i \in 2 .. Len(l) + 1 : i - 1 \in 1 .. Len(l) /\ r[i] = l[i - 1]
      /\ r[1] = o
  OBVIOUS
<1> HIDE DEF r
<1>2. \A i \in 1 .. Len(l) : l[i] # o
  BY DEF Elements
<1>3. Once(r)
  BY <1>1, <1>2 DEF Once
<1>4. Elements(r) = Elements(l) \cup {o}
  <2>1. ASSUME NEW i \in 1 .. Len(l) PROVE l[i] \in Elements(r)
    <3> DEFINE j == i + 1
    <3>1. j \in 1 .. Len(r) /\ j \in 2 .. Len(l) + 1 /\ j - 1 = i
      BY <1>1
    <3>2. r[j] = l[j - 1]
      BY <3>1, <1>1
    <3> QED
      BY <3>1, <3>2 DEF Elements
  <2>2. ASSUME NEW i \in 1 .. Len(r) PROVE r[i] = o \/ r[i] \in Elements(l)
    BY <1>1 DEF Elements
  <2>3. o \in Elements(r)
    BY <1>1 DEF Elements
  <2> QED
    BY <2>1, <2>2, <2>3 DEF Elements
<1> QED
  BY <1>1, <1>3, <1>4 DEF r

LEMMA HeadTaken ==
    ASSUME NEW S, NEW l \in Seq(S), Once(l), l # <<>>
    PROVE  /\ Tail(l) \in Seq(S)
           /\ Head(l) \in S
           /\ Once(Tail(l))
           /\ Head(l) \in Elements(l)
           /\ Elements(Tail(l)) = Elements(l) \ {Head(l)}
<1> DEFINE r == Tail(l)
<1>1. /\ r \in Seq(S) /\ Len(r) = Len(l) - 1 /\ Len(l) \in Nat \ {0}
      /\ \A i \in 1 .. Len(r) : r[i] = l[i + 1]
      /\ Head(l) = l[1] /\ Head(l) \in S
  OBVIOUS
<1> HIDE DEF r
<1>2. Once(r)
  <2> SUFFICES ASSUME NEW i \in 1 .. Len(r), NEW j \in 1 .. Len(r), r[i] = r[j]
               PROVE  i = j
    BY DEF Once
  <2>1. i + 1 \in 1 .. Len(l) /\ j + 1 \in 1 .. Len(l) /\ l[i + 1] = l[j + 1]
    BY <1>1
  <2>2. i + 1 = j + 1
    BY <2>1, Zenon DEF Once
  <2> QED
    BY <2>2
<1>3. Head(l) \in Elements(l)
  BY <1>1 DEF Elements
<1>4. Elements(r) = Elements(l) \ {Head(l)}
  <2>1. ASSUME NEW i \in 1 .. Len(r) PROVE r[i] \in Elements(l) /\ r[i] # Head(l)
    <3>1. i + 1 \in 1 .. Len(l) /\ 1 \in 1 .. Len(l) /\ i + 1 # 1 /\ r[i] = l[i + 1]
      BY <1>1
    <3>2. l[i + 1] # l[1]
      BY <3>1, Zenon DEF Once
    <3> QED
      BY <3>1, <3>2, <1>1 DEF Elements
  <2>2. ASSUME NEW i \in 1 .. Len(l), l[i] # Head(l) PROVE l[i] \in Elements(r)
    <3>1. i # 1 /\ i - 1 \in 1 .. Len(r)
      BY <2>2, <1>1
    <3>2. r[i - 1] = l[i]
      BY <3>1, <1>1
    <3> QED
      BY <3>1, <3>2 DEF Elements
  <2> QED
    BY <2>1, <2>2 DEF Elements
<1> QED
  BY <1>1, <1>2, <1>3, <1>4 DEF r
-----------------------------------------------------------------------------
(* Stacks *)

LEMMA TopAndFront ==
    ASSUME NEW S, NEW s \in Seq(S), s # <<>>
    PROVE  /\ Len(s) \in Nat \ {0}
           /\ Last(s) = s[Len(s)] /\ Last(s) \in S
           /\ Front(s) \in Seq(S) /\ Len(Front(s)) = Len(s) - 1
           /\ \A i \in 1 .. Len(s) - 1 : Front(s)[i] = s[i]
<1>1. Len(s) \in Nat \ {0}
  OBVIOUS
<1>2. s[Len(s)] \in S
  BY <1>1, ElementOfSeq
<1> DEFINE n == Len(s) - 1
<1>3. n \in Nat /\ 1 \in Int /\ \A i \in 1 .. n : s[i] \in S
  BY <1>1, ElementOfSeq
<1> HIDE DEF n
<1>4. /\ SubSeq(s, 1, n) \in Seq(S)
      /\ Len(SubSeq(s, 1, n)) = IF 1 <= n THEN n - 1 + 1 ELSE 0
      /\ \A i \in 1 .. n - 1 + 1 : SubSeq(s, 1, n)[i] = s[1 + i - 1]
  BY <1>3, SubSeqProperties, Z3
<1>5. /\ Len(SubSeq(s, 1, n)) = n
      /\ \A i \in 1 .. n : SubSeq(s, 1, n)[i] = s[i]
  <2>1. n - 1 + 1 = n /\ \A i \in 1 .. n : 1 + i - 1 = i
    BY <1>3
  <2> QED
    BY <1>3, <1>4, <2>1
<1> QED
  BY <1>1, <1>2, <1>4, <1>5 DEF Last, Front, n

LEMMA TopReplaced ==
    ASSUME NEW S, NEW s \in Seq(S), s # <<>>, NEW f \in S
    PROVE  LET r == Append(Front(s), f) IN
           /\ r \in Seq(S) /\ r # <<>> /\ Len(r) = Len(s)
           /\ \A i \in 1 .. Len(s) : r[i] = IF i = Len(s) THEN f ELSE s[i]
<1> DEFINE r == Append(Front(s), f)
<1>1. /\ r \in Seq(S) /\ Len(r) = Len(Front(s)) + 1
      /\ \A i \in 1 .. Len(Front(s)) : r[i] = Front(s)[i]
      /\ r[Len(Front(s)) + 1] = f
  BY TopAndFront, AppendProperties
<1> HIDE DEF r
<1> QED
  BY <1>1, TopAndFront DEF r

LEMMA TopCalls ==
    ASSUME NEW S, NEW s \in Seq(S), s # <<>>, NEW f \in S, NEW g \in S
    PROVE  LET r == Append(Append(Front(s), f), g) IN
           /\ r \in Seq(S) /\ r # <<>> /\ Len(r) = Len(s) + 1
           /\ \A i \in 1 .. Len(s) : r[i] = IF i = Len(s) THEN f ELSE s[i]
           /\ r[Len(s) + 1] = g
<1> DEFINE below == Append(Front(s), f)
           r == Append(below, g)
<1>1. /\ below \in Seq(S) /\ Len(below) = Len(s)
      /\ \A i \in 1 .. Len(s) : below[i] = IF i = Len(s) THEN f ELSE s[i]
  BY TopReplaced
<1> HIDE DEF below
<1>2. /\ r \in Seq(S) /\ Len(r) = Len(below) + 1
      /\ \A i \in 1 .. Len(below) : r[i] = below[i]
      /\ r[Len(below) + 1] = g
  BY <1>1, AppendProperties
<1> HIDE DEF r
<1>3. r # <<>>
  BY <1>1, <1>2
<1> QED
  BY <1>1, <1>2, <1>3 DEF r, below
-----------------------------------------------------------------------------
(* Induction and recursion over natural numbers *)

\* Every set of natural numbers that is not empty has a least element.
LEMMA LeastNat ==
    ASSUME NEW T, T \subseteq Nat, T # {}
    PROVE  \E x \in T : \A y \in T : x <= y
<1> DEFINE R == {ss \in Nat \X Nat : ss[1] < ss[2]}
<1>1. IsWellFoundedOn(R, Nat)
  BY NatLessThanWellFounded, Zenon DEF OpToRel
<1> HIDE DEF R
<1>2. PICK x \in T : \A y \in T : ~(<<y, x>> \in R)
  BY <1>1, WFMin
<1>3. \A y \in T : ~(y < x)
  BY <1>2 DEF R
<1> QED BY <1>3

LEMMA NatSetInduction ==
    ASSUME NEW S, 0 \in S, \A n \in Nat : n \in S => n + 1 \in S
    PROVE  \A n \in Nat : n \in S
<1> SUFFICES ASSUME Nat \ S # {} PROVE FALSE
  OBVIOUS
<1>1. PICK x \in Nat \ S : \A y \in Nat \ S : x <= y
  BY LeastNat
<1>2. x # 0 /\ x - 1 \in Nat
  BY <1>1
<1>3. x - 1 \in S
  BY <1>1, <1>2
<1>4. x - 1 + 1 = x
  BY <1>1
<1> QED BY <1>1, <1>2, <1>3, <1>4

Steps(step, V) == step \in [Nat \X V -> V]

Recurses(f, n, V, base, step) ==
    /\ f \in [0 .. n -> V]
    /\ f[0] = base
    /\ \A i \in 1 .. n : f[i] = step[<<i, f[i - 1]>>]

\* A function given by primitive recursion exists.
LEMMA Recursion ==
    ASSUME NEW n \in Nat, NEW V, NEW base \in V, NEW step, Steps(step, V)
    PROVE  \E f : Recurses(f, n, V, base, step)
<1> USE DEF Steps
<1> DEFINE Good(m, f) == /\ f \in [0 .. m -> V]
                         /\ f[0] = base
                         /\ \A i \in 1 .. m : f[i] = step[<<i, f[i - 1]>>]
           S == {m \in Nat : \E f \in [0 .. m -> V] : Good(m, f)}
<1>1. 0 \in S
  <2>1. Good(0, [i \in 0 .. 0 |-> base])
    OBVIOUS
  <2> QED BY <2>1
<1>2. ASSUME NEW m \in Nat, m \in S
      PROVE  m + 1 \in S
  <2>1. PICK f \in [0 .. m -> V] : Good(m, f)
    BY <1>2
  <2> DEFINE g == [i \in 0 .. m + 1 |-> IF i = m + 1 THEN step[<<i, f[m]>>] ELSE f[i]]
  <2>2. g \in [0 .. m + 1 -> V]
    <3>1. f[m] \in V /\ m + 1 \in Nat
      BY <2>1
    <3> QED BY <3>1
  <2>3. \A i \in 1 .. m + 1 : g[i] = step[<<i, g[i - 1]>>]
    <3> SUFFICES ASSUME NEW i \in 1 .. m + 1 PROVE g[i] = step[<<i, g[i - 1]>>]
      OBVIOUS
    <3>1. g[i - 1] = f[i - 1]
      OBVIOUS
    <3>2. CASE i = m + 1
      BY <3>1, <3>2
    <3>3. CASE i # m + 1
      <4>1. i \in 1 .. m /\ g[i] = f[i]
        BY <3>3
      <4> QED BY <4>1, <3>1, <2>1
    <3> QED BY <3>2, <3>3
  <2>4. g[0] = base
    BY <2>1
  <2> HIDE DEF g
  <2>5. m + 1 \in Nat /\ Good(m + 1, g)
    BY <2>2, <2>3, <2>4
  <2> HIDE DEF Good
  <2> QED BY <2>2, <2>5
<1> HIDE DEF S
<1>3. n \in S
  BY <1>1, <1>2, NatSetInduction
<1> QED BY <1>3 DEF S, Recurses
-----------------------------------------------------------------------------
(* FlattenSeq *)

\* flatten[i] of FlattenSeq, with an empty sequence in front.
Flattens(ss, n, f, S) ==
    /\ f \in [0 .. n -> Seq(S)]
    /\ f[0] = <<>>
    /\ \A i \in 1 .. n : f[i] = f[i - 1] \o ss[i]

LEMMA FlattensExists ==
    ASSUME NEW S, NEW n \in Nat, NEW ss \in [1 .. n -> Seq(S)]
    PROVE  \E f : Flattens(ss, n, f, S)
<1> DEFINE V == Seq(S)
           at(i) == IF i \in 1 .. n THEN ss[i] ELSE <<>>
           step == [x \in Nat \X V |-> x[2] \o at(x[1])]
<1>1. step \in [Nat \X V -> V]
  <2> SUFFICES ASSUME NEW i \in Nat, NEW v \in V PROVE v \o at(i) \in V
    OBVIOUS
  <2>1. at(i) \in V
    OBVIOUS
  <2> QED BY <2>1
<1>2. <<>> \in V
  OBVIOUS
<1>3. \A i \in 1 .. n, v \in V : step[<<i, v>>] = v \o ss[i]
  <2> SUFFICES ASSUME NEW i \in 1 .. n, NEW v \in V
               PROVE  step[<<i, v>>] = v \o ss[i]
    OBVIOUS
  <2>1. <<i, v>> \in Nat \X V /\ at(i) = ss[i]
    OBVIOUS
  <2> HIDE DEF at
  <2> QED BY <2>1
<1> DEFINE base == <<>>
<1>0. base \in V
  BY <1>2
<1> HIDE DEF step, V, base
<1>4. PICK f \in [0 .. n -> V] :
         f[0] = base /\ \A i \in 1 .. n : f[i] = step[<<i, f[i - 1]>>]
  <2>1. Steps(step, V)
    BY <1>1 DEF Steps
  <2>2. PICK f : Recurses(f, n, V, base, step)
    BY <1>0, <2>1, Recursion
  <2> QED BY <2>2 DEF Recurses
<1>5. ASSUME NEW i \in 1 .. n
      PROVE  f[i] = f[i - 1] \o ss[i]
  <2>1. i - 1 \in 0 .. n
    OBVIOUS
  <2>2. f[i - 1] \in V
    BY <2>1
  <2> QED BY <2>2, <1>3, <1>4
<1> QED BY <1>4, <1>5 DEF Flattens, V, base

\* FlattenSeq is the last value of any such function.
FlattenFunction(ss, n, g) ==
    \A i \in 1 .. n : g[i] = IF i = 1 THEN ss[i] ELSE g[i - 1] \o ss[i]

LEMMA FlattensIs ==
    ASSUME NEW S, NEW n \in Nat, NEW ss \in [1 .. n -> Seq(S)],
           NEW f, Flattens(ss, n, f, S), n # 0,
           NEW g, FlattenFunction(ss, n, g)
    PROVE  g[n] = f[n]
<1> DEFINE T == {i \in Nat : i \in 1 .. n => g[i] = f[i]}
<1>1. 0 \in T
  OBVIOUS
<1>2. ASSUME NEW i \in Nat, i \in T
      PROVE  i + 1 \in T
  <2> SUFFICES ASSUME i + 1 \in 1 .. n PROVE g[i + 1] = f[i + 1]
    OBVIOUS
  <2> DEFINE j == i + 1
  <2>0. j \in 1 .. n /\ j - 1 = i /\ j - 1 \in 0 .. n
    OBVIOUS
  <2> HIDE DEF j
  <2>1. g[j] = IF j = 1 THEN ss[j] ELSE g[j - 1] \o ss[j]
    BY <2>0 DEF FlattenFunction
  <2>2. f[j] = f[j - 1] \o ss[j] /\ f[0] = <<>> /\ ss[j] \in Seq(S) 
    BY <2>0 DEF Flattens
  <2> HIDE DEF T
  <2>3. CASE i = 0
    <3>1. j = 1
      BY <2>3 DEF j
    <3>2. <<>> \o ss[j] = ss[j]
      BY <2>2, ConcatEmptySeq
    <3>3. f[j] = <<>> \o ss[j]
      BY <2>0, <2>2, <2>3
    <3> QED BY <3>1, <3>2, <3>3, <2>1 DEF j
  <2>4. CASE i # 0
    <3>1. j # 1 /\ g[i] = f[i]
      BY <2>0, <2>4, <1>2 DEF j, T
    <3> QED BY <3>1, <2>0, <2>1, <2>2 DEF j
  <2> QED BY <2>3, <2>4
<1>3. n \in T
  <2> HIDE DEF T
  <2> QED BY <1>1, <1>2, NatSetInduction
<1> QED BY <1>3

LEMMA FlattenIs ==
    ASSUME NEW S, NEW ss \in Seq(Seq(S)), NEW f, Flattens(ss, Len(ss), f, S)
    PROVE  FlattenSeq(ss) = f[Len(ss)]
<1> DEFINE n == Len(ss)
           Def(g) == [i \in 1 .. n |-> IF i = 1 THEN ss[i] ELSE g[i - 1] \o ss[i]]
<1>0. n \in Nat /\ ss \in [1 .. n -> Seq(S)] /\ n = Len(ss)
  BY LenProperties
<1>1. CASE n = 0
  <2>1. ss = <<>>
    BY <1>1
  <2> QED BY <1>1, <2>1 DEF FlattenSeq, Flattens
<1>2. CASE n # 0
  <2> DEFINE h == [i \in 1 .. n |-> f[i]]
             g == CHOOSE g : g = Def(g)
  <2>1. FlattenSeq(ss) = g[n]
    BY <1>2 DEF FlattenSeq
  <2>2. Flattens(ss, n, f, S)
    OBVIOUS
  <2> HIDE DEF n
  <2>3. h = Def(h)
    <3> SUFFICES ASSUME NEW i \in 1 .. n
                 PROVE  f[i] = IF i = 1 THEN ss[i] ELSE h[i - 1] \o ss[i]
      BY Zenon
    <3>1. ss[i] \in Seq(S) /\ f[i] = f[i - 1] \o ss[i]
      BY <1>0, <2>2 DEF Flattens
    <3>2. CASE i = 1
      <4>0. f[i - 1] = <<>>
        BY <3>2, <2>2 DEF Flattens
      <4>1. f[i] = <<>> \o ss[i]
        BY <3>1, <4>0
      <4> QED BY <3>1, <3>2, <4>1, ConcatEmptySeq
    <3>3. CASE i # 1
      <4>1. i - 1 \in 1 .. n
        BY <3>3, <1>0
      <4> QED BY <3>1, <3>3, <4>1
    <3> QED BY <3>2, <3>3
  <2>4. g = Def(g)
    <3> HIDE DEF h, Def
    <3> QED BY <2>3
  <2> HIDE DEF g
  <2>5. FlattenFunction(ss, n, g)
    BY <2>4 DEF FlattenFunction
  <2>6. g[n] = f[n]
    <3> HIDE DEF Def, h
    <3> QED BY <1>0, <1>2, <2>2, <2>5, FlattensIs
  <2> QED BY <2>1, <2>6 DEF n
<1> QED BY <1>1, <1>2

LEMMA ConcatThree ==
    ASSUME NEW S
    PROVE  \A s, u, v \in Seq(S) : (s \o u) \o v = s \o (u \o v)
BY ConcatAssociative

LEMMA ConcatThenAppend ==
    ASSUME NEW S, NEW s \in Seq(S), NEW u \in Seq(S), NEW x \in S
    PROVE  s \o Append(u, x) = Append(s \o u, x)
<1> DEFINE v == <<x>>
           w == s \o u
<1>1. v \in Seq(S)
  OBVIOUS
<1>2. w \in Seq(S)
  OBVIOUS
<1>3. Append(u, x) = u \o v
  BY AppendIsConcat
<1>4. Append(w, x) = w \o v
  BY <1>2, AppendIsConcat
<1>5. \A a, b, c \in Seq(S) : (a \o b) \o c = a \o (b \o c)
  BY ConcatThree, SMTT(60)
<1> HIDE DEF v
<1>6. (s \o u) \o v = s \o (u \o v)
  BY <1>1, <1>5, Zenon
<1> QED BY <1>3, <1>4, <1>6, Zenon DEF w

LEMMA FlattenEmpty == FlattenSeq(<<>>) = <<>>
BY DEF FlattenSeq

LEMMA FlattenType ==
    ASSUME NEW S, NEW ss \in Seq(Seq(S))
    PROVE  FlattenSeq(ss) \in Seq(S)
<1> DEFINE n == Len(ss)
<1>1. n \in Nat /\ ss \in [1 .. n -> Seq(S)]
  BY LenProperties
<1>2. PICK f : Flattens(ss, n, f, S)
  <2> HIDE DEF n
  <2> QED BY <1>1, FlattensExists
<1>3. FlattenSeq(ss) = f[n]
  BY <1>2, FlattenIs
<1> HIDE DEF n
<1> QED BY <1>1, <1>2, <1>3 DEF Flattens

LEMMA FlattenAppend ==
    ASSUME NEW S, NEW ss \in Seq(Seq(S)), NEW s \in Seq(S)
    PROVE  FlattenSeq(Append(ss, s)) = FlattenSeq(ss) \o s
<1> DEFINE more == Append(ss, s)
           n == Len(ss)
<1>1. /\ more \in Seq(Seq(S)) /\ Len(more) = n + 1 /\ n \in Nat
      /\ \A i \in 1 .. n : more[i] = ss[i]
      /\ more[n + 1] = s
  BY AppendProperties
<1> HIDE DEF more
<1>0. n = Len(ss) /\ more \in [1 .. n + 1 -> Seq(S)] /\ ss \in [1 .. n -> Seq(S)]
  BY <1>1, LenProperties
<1> HIDE DEF n
<1>2. PICK f : Flattens(more, n + 1, f, S)
  <2>1. n + 1 \in Nat
    BY <1>1
  <2> QED BY <2>1, <1>0, FlattensExists
<1>3. /\ f \in [0 .. n + 1 -> Seq(S)]
      /\ f[0] = <<>>
      /\ \A i \in 1 .. n + 1 : f[i] = f[i - 1] \o more[i]
  BY <1>2 DEF Flattens
<1> DEFINE g == [i \in 0 .. n |-> f[i]]
<1>4. Flattens(ss, n, g, S)
  <2>1. g \in [0 .. n -> Seq(S)] /\ g[0] = <<>>
    BY <1>1, <1>3
  <2>2. \A i \in 0 .. n : g[i] = f[i]
    OBVIOUS
  <2>3. \A i \in 1 .. n : i \in 0 .. n /\ i - 1 \in 0 .. n /\ i \in 1 .. n + 1
    BY <1>1
  <2> HIDE DEF g
  <2>4. \A i \in 1 .. n : g[i] = g[i - 1] \o ss[i]
    BY <1>1, <1>3, <2>2, <2>3
  <2> QED BY <2>1, <2>4 DEF Flattens
<1>5. FlattenSeq(ss) = f[n]
  <2>1. FlattenSeq(ss) = g[n]
    <3> HIDE DEF g
    <3> QED BY <1>0, <1>4, FlattenIs
  <2> QED BY <2>1, <1>1
<1>6. FlattenSeq(more) = f[n + 1]
  BY <1>1, <1>2, FlattenIs
<1>7. f[n + 1] = f[n] \o s
  <2>1. n + 1 \in 1 .. n + 1 /\ n + 1 - 1 = n
    BY <1>1
  <2> DEFINE m == n + 1
  <2>2. f[m] = f[m - 1] \o more[m]
    <3>1. m \in 1 .. n + 1
      BY <2>1
    <3> HIDE DEF m
    <3> QED BY <3>1, <1>3
  <2>3. m = n + 1 /\ m - 1 = n
    BY <1>1
  <2> HIDE DEF m
  <2> QED BY <2>2, <2>3, <1>1
<1> QED BY <1>5, <1>6, <1>7 DEF more

LEMMA FlattenHeadTail ==
    ASSUME NEW S, NEW ss \in Seq(Seq(S)), ss # <<>>
    PROVE  FlattenSeq(ss) = Head(ss) \o FlattenSeq(Tail(ss))
<1> DEFINE n == Len(ss)
           tl == Tail(ss)
           s == Head(ss)
<1>1. /\ tl \in Seq(Seq(S)) /\ Len(tl) = n - 1 /\ n \in Nat \ {0}
      /\ \A i \in 1 .. n - 1 : tl[i] = ss[i + 1]
      /\ s = ss[1] /\ s \in Seq(S)
  BY HeadTailProperties
<1> HIDE DEF tl, s
<1>0. n = Len(ss) /\ ss \in [1 .. n -> Seq(S)] /\ tl \in [1 .. n - 1 -> Seq(S)]
  BY <1>1, LenProperties
<1> HIDE DEF n
<1>2. PICK f : Flattens(tl, n - 1, f, S)
  <2>1. n - 1 \in Nat
    BY <1>1
  <2> QED BY <2>1, <1>0, FlattensExists
<1>3. /\ f \in [0 .. n - 1 -> Seq(S)]
      /\ f[0] = <<>>
      /\ \A i \in 1 .. n - 1 : f[i] = f[i - 1] \o ss[i + 1]
  BY <1>1, <1>2 DEF Flattens
<1> DEFINE g == [i \in 0 .. n |-> IF i = 0 THEN <<>> ELSE s \o f[i - 1]]
<1>4. /\ g[0] = <<>>
      /\ \A i \in 1 .. n : g[i] = s \o f[i - 1]
  <2> DEFINE after(x) == s \o x
  <2> HIDE DEF after
  <2>1. g = [i \in 0 .. n |-> IF i = 0 THEN <<>> ELSE after(f[i - 1])]
    BY DEF after
  <2> HIDE DEF g
  <2>2. g[0] = <<>> /\ \A i \in 1 .. n : g[i] = after(f[i - 1])
    BY <2>1, <1>1
  <2> QED BY <2>2 DEF after
<1>5. \A i \in 1 .. n : f[i - 1] \in Seq(S)
  BY <1>1, <1>3
<1>6. Flattens(ss, n, g, S)
  <2>1. g \in [0 .. n -> Seq(S)]
    <3> SUFFICES ASSUME NEW i \in 1 .. n PROVE s \o f[i - 1] \in Seq(S)
      OBVIOUS
    <3> QED BY <1>5, <1>1
  <2> HIDE DEF g
  <2>2. ASSUME NEW i \in 1 .. n PROVE g[i] = g[i - 1] \o ss[i]
    <3>1. CASE i = 1
      <4>1. i - 1 = 0
        BY <3>1
      <4>2. g[i] = s \o <<>> /\ g[i - 1] = <<>>
        BY <4>1, <1>3, <1>4
      <4>3. s \o <<>> = s /\ <<>> \o s = s
        BY <1>1, ConcatEmptySeq
      <4> QED BY <4>2, <4>3, <3>1, <1>1
    <3>2. CASE i # 1
      <4> DEFINE k == i - 1
      <4>1. k \in 1 .. n - 1 /\ k + 1 = i /\ k \in 1 .. n /\ i - 1 = k
        BY <3>2, <1>1
      <4> HIDE DEF k
      <4>2. g[i] = s \o f[k] /\ g[k] = s \o f[k - 1]
        BY <4>1, <1>4
      <4>3. f[k] = f[k - 1] \o ss[k + 1]
        BY <4>1, <1>3
      <4>4. ss[i] \in Seq(S) /\ f[k - 1] \in Seq(S)
        BY <4>1, <1>0, <1>5
      <4> DEFINE u == f[k - 1]
                 v == ss[i]
      <4>5. u \in Seq(S) /\ v \in Seq(S) /\ s \in Seq(S)
        BY <4>4, <1>1
      <4> HIDE DEF u, v
      <4>6. (s \o u) \o v = s \o (u \o v)
        <5>1. \A x, y, z \in Seq(S) : (x \o y) \o z = x \o (y \o z)
          BY ConcatThree, SMTT(60)
        <5> QED BY <4>5, <5>1, Zenon
      <4> QED BY <4>1, <4>2, <4>3, <4>6 DEF u, v
    <3> QED BY <3>1, <3>2
  <2> QED BY <2>1, <2>2, <1>4 DEF Flattens
<1> HIDE DEF g
<1>7. FlattenSeq(ss) = g[n]
  BY <1>0, <1>6, FlattenIs
<1>8. g[n] = s \o f[n - 1]
  <2>1. n \in 1 .. n
    BY <1>1
  <2> QED BY <2>1, <1>4
<1>9. FlattenSeq(tl) = f[n - 1]
  BY <1>1, <1>2, FlattenIs
<1> QED BY <1>7, <1>8, <1>9 DEF tl, s
-----------------------------------------------------------------------------
(* Elements, Reverse, Front and Last *)

LEMMA RangeIsElements ==
    ASSUME NEW S, NEW s \in Seq(S)
    PROVE  Range(s) = Elements(s)
BY DEF Range, Elements

LEMMA ReverseEmpty == Reverse(<<>>) = <<>>
BY DEF Reverse

LEMMA ReverseType ==
    ASSUME NEW S, NEW s \in Seq(S)
    PROVE  /\ Reverse(s) \in Seq(S) /\ Len(Reverse(s)) = Len(s)
           /\ \A i \in 1 .. Len(s) : Reverse(s)[i] = s[Len(s) - i + 1]
           /\ Elements(Reverse(s)) = Elements(s)
<1> DEFINE n == Len(s)
           r == Reverse(s)
<1>1. n \in Nat /\ \A i \in 1 .. n : s[i] \in S
  OBVIOUS
<1>2. r = [i \in 1 .. n |-> s[n - i + 1]]
  BY DEF Reverse
<1>3. \A i \in 1 .. n : n - i + 1 \in 1 .. n /\ n - (n - i + 1) + 1 = i
  BY <1>1
<1>n. n = Len(s)
  OBVIOUS
<1> HIDE DEF r, n
<1>4. r \in Seq(S) /\ Len(r) = n /\ \A i \in 1 .. n : r[i] = s[n - i + 1]
  BY <1>1, <1>2, <1>3
<1>5. Elements(r) = Elements(s)
  <2>1. ASSUME NEW i \in 1 .. n PROVE r[i] \in Elements(s)
    BY <1>3, <1>4, <1>n DEF Elements
  <2>2. ASSUME NEW i \in 1 .. n PROVE s[i] \in Elements(r)
    <3> DEFINE j == n - i + 1
    <3>1. j \in 1 .. n /\ n - j + 1 = i
      BY <1>3
    <3> HIDE DEF j
    <3>2. r[j] = s[i]
      BY <3>1, <1>4
    <3> QED BY <3>1, <3>2, <1>4 DEF Elements
  <2> QED BY <2>1, <2>2, <1>4, <1>n DEF Elements
<1> QED BY <1>4, <1>5 DEF r, n

LEMMA ElementsConcat ==
    ASSUME NEW S, NEW s \in Seq(S), NEW u \in Seq(S)
    PROVE  /\ s \o u \in Seq(S)
           /\ Elements(s \o u) = Elements(s) \cup Elements(u)
           /\ Once(s \o u) => Once(s) /\ Once(u) /\ Elements(s) \cap Elements(u) = {}
<1> DEFINE c == s \o u
           n == Len(s)
           m == Len(u)
<1>1. /\ c \in Seq(S) /\ Len(c) = n + m /\ n \in Nat /\ m \in Nat
      /\ \A i \in 1 .. n + m : c[i] = IF i <= n THEN s[i] ELSE u[i - n]
  BY ConcatProperties
<1>n. n = Len(s) /\ m = Len(u)
  OBVIOUS
<1> HIDE DEF c, n, m
<1>2. ASSUME NEW i \in 1 .. n PROVE i \in 1 .. Len(c) /\ c[i] = s[i]
  BY <1>1
<1>3. ASSUME NEW i \in 1 .. m PROVE i + n \in 1 .. Len(c) /\ c[i + n] = u[i]
  <2> DEFINE j == i + n
  <2>1. j \in 1 .. n + m /\ ~(j <= n) /\ j - n = i
    BY <1>1
  <2> HIDE DEF j
  <2>2. c[j] = u[i]
    BY <2>1, <1>1
  <2> QED BY <2>1, <2>2, <1>1 DEF j
<1>4. ASSUME NEW i \in 1 .. Len(c)
      PROVE  \/ i \in 1 .. n /\ c[i] = s[i]
             \/ i - n \in 1 .. m /\ c[i] = u[i - n]
  BY <1>1
<1>5. Elements(c) = Elements(s) \cup Elements(u)
  <2>1. ASSUME NEW i \in 1 .. Len(c) PROVE c[i] \in Elements(s) \cup Elements(u)
    BY <1>4, <1>n DEF Elements
  <2>2. ASSUME NEW i \in 1 .. n PROVE s[i] \in Elements(c)
    BY <1>2 DEF Elements
  <2>3. ASSUME NEW i \in 1 .. m PROVE u[i] \in Elements(c)
    BY <1>3, Zenon DEF Elements
  <2> QED BY <2>1, <2>2, <2>3, <1>n DEF Elements
<1>6. ASSUME Once(c)
      PROVE  Once(s) /\ Once(u) /\ Elements(s) \cap Elements(u) = {}
  <2>1. Once(s)
    BY <1>2, <1>6, <1>n DEF Once
  <2>2. ASSUME NEW i \in 1 .. m, NEW j \in 1 .. m, u[i] = u[j] PROVE i = j
    <3>1. c[i + n] = c[j + n] /\ i + n \in 1 .. Len(c) /\ j + n \in 1 .. Len(c)
      BY <1>3, <2>2
    <3>2. i + n = j + n
      BY <3>1, <1>6, Zenon DEF Once
    <3> QED BY <3>2, <1>1
  <2>3. ASSUME NEW i \in 1 .. n, NEW j \in 1 .. m, s[i] = u[j] PROVE FALSE
    <3>1. c[i] = c[j + n] /\ i \in 1 .. Len(c) /\ j + n \in 1 .. Len(c)
      BY <1>2, <1>3, <2>3
    <3>2. i = j + n
      BY <3>1, <1>6, Zenon DEF Once
    <3> QED BY <3>2, <1>1
  <2> QED BY <2>1, <2>2, <2>3, <1>n DEF Once, Elements
<1> QED BY <1>1, <1>5, <1>6 DEF c

LEMMA ElementsOne ==
    ASSUME NEW S, NEW x \in S
    PROVE  <<x>> \in Seq(S) /\ Elements(<<x>>) = {x}
BY DEF Elements

\* The last element, and those before it.
LEMMA FrontLast ==
    ASSUME NEW S, NEW s \in Seq(S), s # <<>>
    PROVE  /\ s = Append(Front(s), Last(s))
           /\ Front(s) \in Seq(S) /\ Last(s) \in S
           /\ Elements(s) = Elements(Front(s)) \cup {Last(s)}
<1> DEFINE f == Front(s)
           l == Last(s)
           r == Append(f, l)
<1>1. /\ Len(s) \in Nat \ {0}
      /\ l = s[Len(s)] /\ l \in S
      /\ f \in Seq(S) /\ Len(f) = Len(s) - 1
      /\ \A i \in 1 .. Len(s) - 1 : f[i] = s[i]
  BY TopAndFront
<1> HIDE DEF f, l
<1>2. /\ r \in Seq(S) /\ Len(r) = Len(f) + 1
      /\ \A i \in 1 .. Len(f) : r[i] = f[i]
      /\ r[Len(f) + 1] = l
  BY <1>1, AppendProperties
<1> HIDE DEF r
<1>3. ASSUME NEW i \in 1 .. Len(s) PROVE s[i] = r[i]
  <2> DEFINE n == Len(s)
  <2>0. n \in Nat /\ Len(f) = n - 1 /\ i \in 1 .. n
    BY <1>1
  <2> HIDE DEF n
  <2>1. i = n \/ i \in 1 .. n - 1
    BY <2>0
  <2>2. Len(f) + 1 = n
    BY <2>0
  <2>3. CASE i = n
    BY <2>2, <2>3, <1>1, <1>2 DEF n
  <2>4. CASE i \in 1 .. n - 1
    BY <2>0, <2>4, <1>1, <1>2 DEF n
  <2> QED BY <2>1, <2>3, <2>4
<1>4. s = r
  BY <1>1, <1>2, <1>3, SeqEqual
<1>5. r = f \o <<l>>
  BY <1>1, AppendIsConcat DEF r
<1>6. Elements(r) = Elements(f) \cup {l}
  <2> DEFINE v == <<l>>
  <2>1. v \in Seq(S) /\ Elements(v) = {l}
    BY <1>1, ElementsOne
  <2>2. r = f \o v
    BY <1>5
  <2>3. f \in Seq(S)
    BY <1>1
  <2> HIDE DEF v, r
  <2>4. Elements(f \o v) = Elements(f) \cup Elements(v)
    BY <2>1, <2>3, ElementsConcat
  <2> QED BY <2>1, <2>2, <2>4
<1> QED BY <1>1, <1>4, <1>6 DEF f, l, r

LEMMA FrontOfAppend ==
    ASSUME NEW S, NEW s \in Seq(S), NEW x \in S
    PROVE  Front(Append(s, x)) = s /\ Last(Append(s, x)) = x
<1> DEFINE r == Append(s, x)
           f == Front(r)
<1>1. /\ r \in Seq(S) /\ Len(r) = Len(s) + 1 /\ Len(s) \in Nat
      /\ \A i \in 1 .. Len(s) : r[i] = s[i]
      /\ r[Len(s) + 1] = x
  BY AppendProperties
<1> HIDE DEF r
<1>2. r # <<>>
  BY <1>1
<1>3. /\ Last(r) = r[Len(r)]
      /\ f \in Seq(S) /\ Len(f) = Len(r) - 1
      /\ \A i \in 1 .. Len(r) - 1 : f[i] = r[i]
  BY <1>1, <1>2, TopAndFront
<1> HIDE DEF f
<1>4. ASSUME NEW i \in 1 .. Len(f) PROVE f[i] = s[i]
  BY <1>1, <1>3
<1>5. Len(f) = Len(s)
  BY <1>1, <1>3
<1>6. f = s
  BY <1>3, <1>4, <1>5, SeqEqual
<1> QED BY <1>1, <1>3, <1>6 DEF f, r

LEMMA ReverseCons ==
    ASSUME NEW S, NEW s \in Seq(S), NEW x \in S
    PROVE  Reverse(<<x>> \o s) = Append(Reverse(s), x)
<1> DEFINE c == <<x>> \o s
           n == Len(s)
           a == Reverse(c)
           t == Reverse(s)
           b == Append(t, x)
<1>1. /\ c \in Seq(S) /\ Len(c) = n + 1 /\ n \in Nat
      /\ c[1] = x /\ \A i \in 2 .. n + 1 : c[i] = s[i - 1]
  OBVIOUS
<1>2. t \in Seq(S) /\ Len(t) = n /\ \A i \in 1 .. n : t[i] = s[n - i + 1]
  BY ReverseType
<1> HIDE DEF c, t, n
<1>3. a \in Seq(S) /\ Len(a) = n + 1 /\ \A i \in 1 .. n + 1 : a[i] = c[n + 1 - i + 1]
  <2>1. c \in Seq(S)
    BY <1>1
  <2>2. a \in Seq(S) /\ Len(a) = Len(c) /\ \A i \in 1 .. Len(c) : a[i] = c[Len(c) - i + 1]
    BY <2>1, ReverseType
  <2> HIDE DEF a
  <2> QED BY <1>1, <2>2
<1>4. /\ b \in Seq(S) /\ Len(b) = n + 1
      /\ \A i \in 1 .. n : b[i] = t[i]
      /\ b[n + 1] = x
  BY <1>2, AppendProperties
<1> HIDE DEF a, b
<1>5. ASSUME NEW i \in 1 .. Len(a) PROVE a[i] = b[i]
  <2>1. CASE i = n + 1
    <3>1. n + 1 - i + 1 = 1
      BY <2>1, <1>1
    <3> QED BY <2>1, <3>1, <1>1, <1>3, <1>4
  <2>2. CASE i # n + 1
    <3> DEFINE j == n + 1 - i + 1
    <3>1. i \in 1 .. n /\ j \in 2 .. n + 1 /\ j - 1 = n - i + 1
      BY <2>2, <1>1, <1>3
    <3>2. a[i] = c[j]
      BY <3>1, <1>3
    <3> HIDE DEF j
    <3>3. c[j] = s[j - 1]
      BY <3>1, <1>1
    <3> QED BY <3>1, <3>2, <3>3, <1>2, <1>4
  <2> QED BY <2>1, <2>2
<1>6. a = b
  BY <1>3, <1>4, <1>5, SeqEqual
<1> QED BY <1>6 DEF a, b, c, t

LEMMA ReverseAppend ==
    ASSUME NEW S, NEW s \in Seq(S), NEW x \in S
    PROVE  Reverse(Append(s, x)) = <<x>> \o Reverse(s)
<1> DEFINE c == Append(s, x)
           n == Len(s)
           a == Reverse(c)
           t == Reverse(s)
           b == <<x>> \o t
<1>1. /\ c \in Seq(S) /\ Len(c) = n + 1 /\ n \in Nat
      /\ \A i \in 1 .. n : c[i] = s[i]
      /\ c[n + 1] = x
  BY AppendProperties
<1>2. t \in Seq(S) /\ Len(t) = n /\ \A i \in 1 .. n : t[i] = s[n - i + 1]
  BY ReverseType
<1> HIDE DEF c, t, n
<1>3. a \in Seq(S) /\ Len(a) = n + 1 /\ \A i \in 1 .. n + 1 : a[i] = c[n + 1 - i + 1]
  <2>1. c \in Seq(S)
    BY <1>1
  <2>2. a \in Seq(S) /\ Len(a) = Len(c) /\ \A i \in 1 .. Len(c) : a[i] = c[Len(c) - i + 1]
    BY <2>1, ReverseType
  <2> HIDE DEF a
  <2> QED BY <1>1, <2>2
<1>4. /\ b \in Seq(S) /\ Len(b) = n + 1
      /\ \A i \in 2 .. n + 1 : b[i] = t[i - 1]
      /\ b[1] = x
  BY <1>1, <1>2
<1> HIDE DEF a, b
<1>5. ASSUME NEW i \in 1 .. Len(a) PROVE a[i] = b[i]
  <2>1. CASE i = 1
    <3>1. n + 1 - i + 1 = n + 1
      BY <2>1, <1>1
    <3> QED BY <2>1, <3>1, <1>1, <1>3, <1>4
  <2>2. CASE i # 1
    <3> DEFINE j == i - 1
    <3>1. i \in 2 .. n + 1 /\ j \in 1 .. n /\ n + 1 - i + 1 = n - j + 1 /\ n - j + 1 \in 1 .. n
          /\ i \in 1 .. n + 1
      BY <2>2, <1>1, <1>3
    <3>2. b[i] = t[j]
      BY <3>1, <1>4
    <3> HIDE DEF j
    <3>3. t[j] = s[n - j + 1]
      BY <3>1, <1>2
    <3>4. a[i] = c[n - j + 1]
      BY <3>1, <1>3
    <3> QED BY <3>1, <3>2, <3>3, <3>4, <1>1
  <2> QED BY <2>1, <2>2
<1>6. a = b
  BY <1>3, <1>4, <1>5, SeqEqual
<1> QED BY <1>6 DEF a, b, c, t

LEMMA ConsHeadTail ==
    ASSUME NEW S, NEW s \in Seq(S), NEW x \in S
    PROVE  <<x>> \o s # <<>> /\ Head(<<x>> \o s) = x /\ Tail(<<x>> \o s) = s
<1> DEFINE c == <<x>> \o s
           t == Tail(c)
<1>1. /\ c \in Seq(S) /\ Len(c) = Len(s) + 1 /\ Len(s) \in Nat
      /\ c[1] = x /\ \A i \in 2 .. Len(s) + 1 : c[i] = s[i - 1]
  OBVIOUS
<1> HIDE DEF c
<1>2. c # <<>> /\ Head(c) = x
  BY <1>1
<1>3. t \in Seq(S) /\ Len(t) = Len(s) /\ \A i \in 1 .. Len(s) : t[i] = c[i + 1]
  BY <1>1, <1>2, HeadTailProperties
<1> HIDE DEF t
<1>4. ASSUME NEW i \in 1 .. Len(t) PROVE t[i] = s[i]
  <2> DEFINE j == i + 1
  <2>1. j \in 2 .. Len(s) + 1 /\ j - 1 = i /\ i \in 1 .. Len(s)
    BY <1>1, <1>3
  <2>2. t[i] = c[j]
    BY <2>1, <1>3
  <2> HIDE DEF j
  <2> QED BY <2>1, <2>2, <1>1
<1>5. t = s
  BY <1>3, <1>4, SeqEqual
<1> QED BY <1>2, <1>5 DEF t, c

LEMMA TurnedRound ==
    ASSUME NEW S, NEW s \in Seq(S), s # <<>>, NEW x \in S, NEW r \in Seq(S)
    PROVE  /\ Reverse(Front(<<x>> \o s)) \o r = Reverse(Front(s)) \o (<<x>> \o r)
           /\ Last(<<x>> \o s) = Last(s)
<1> DEFINE f == Front(s)
           l == Last(s)
           v == <<x>>
           g == v \o f
           b == Reverse(f)
<1>1. s = Append(f, l) /\ f \in Seq(S) /\ l \in S
  BY FrontLast
<1>2. v \in Seq(S)
  OBVIOUS
<1> HIDE DEF f, l
<1>3. g \in Seq(S) /\ Reverse(g) = Append(b, x) /\ b \in Seq(S)
  <2>1. b \in Seq(S)
    BY <1>1, ReverseType
  <2>2. Reverse(g) = Append(b, x)
    BY <1>1, ReverseCons
  <2> HIDE DEF v
  <2>3. g \in Seq(S)
    BY <1>1, <1>2, ElementsConcat
  <2> QED BY <2>1, <2>2, <2>3
<1>4. Reverse(g) = b \o v
  BY <1>3, AppendIsConcat
<1> HIDE DEF v, b
<1>5. v \o s = Append(g, l)
  <2>1. v \o Append(f, l) = Append(v \o f, l)
    BY <1>1, <1>2, ConcatThenAppend
  <2> QED BY <2>1, <1>1
<1>6. Front(v \o s) = g /\ Last(v \o s) = l
  <2> HIDE DEF g
  <2> QED BY <1>1, <1>3, <1>5, FrontOfAppend
<1>7. (b \o v) \o r = b \o (v \o r)
  <2>1. \A i, j, k \in Seq(S) : (i \o j) \o k = i \o (j \o k)
    BY ConcatAssociative, SMTT(60)
  <2> QED BY <2>1, <1>2, <1>3, ZenonT(60)
<1> QED BY <1>4, <1>6, <1>7 DEF v, b, f, l

LEMMA ReverseTakes ==
    ASSUME NEW S, NEW s \in Seq(S), s # <<>>
    PROVE  Reverse(s) = <<Last(s)>> \o Reverse(Front(s))
<1> DEFINE f == Front(s)
           l == Last(s)
<1>1. s = Append(f, l) /\ f \in Seq(S) /\ l \in S
  BY FrontLast
<1> HIDE DEF f, l
<1>2. Reverse(Append(f, l)) = <<l>> \o Reverse(f)
  BY <1>1, ReverseAppend
<1> QED BY <1>1, <1>2 DEF f, l

-----------------------------------------------------------------------------
(* Among: the members of a sequence that are in a set *)

\* The function that Among computes with.
Picks(s, S, f) ==
    f = [i \in 0 .. Len(s) |->
           IF i = 0 THEN <<>>
           ELSE IF s[i] \in S THEN Append(f[i - 1], s[i]) ELSE f[i - 1]]

LEMMA PicksExists ==
    ASSUME NEW A, NEW s \in Seq(A), NEW S
    PROVE  \E f \in [0 .. Len(s) -> Seq(A)] : Picks(s, S, f)
<1> DEFINE V == Seq(A)
           n == Len(s)
           base == <<>>
           at(i) == IF i \in 1 .. n THEN s[i] ELSE s[1]
           after(i, v) == IF i \in 1 .. n /\ s[i] \in S THEN Append(v, s[i]) ELSE v
           step == [x \in Nat \X V |-> after(x[1], x[2])]
<1>1. base \in V /\ n \in Nat
  OBVIOUS
<1>2. \A i \in Nat, v \in V : after(i, v) \in V
  OBVIOUS
<1> HIDE DEF after
<1>3. Steps(step, V)
  BY <1>2 DEF Steps
<1>4. \A i \in Nat, v \in V : step[<<i, v>>] = after(i, v)
  OBVIOUS
<1> HIDE DEF step, base, V, n
<1>5. PICK g : Recurses(g, n, V, base, step)
  BY <1>1, <1>3, Recursion
<1>6. /\ g \in [0 .. n -> V] /\ g[0] = base
      /\ \A i \in 1 .. n : g[i] = step[<<i, g[i - 1]>>]
  BY <1>5 DEF Recurses
<1> DEFINE body(i) == IF i = 0 THEN <<>>
                      ELSE IF s[i] \in S THEN Append(g[i - 1], s[i]) ELSE g[i - 1]
<1>7. ASSUME NEW i \in 0 .. n
      PROVE  g[i] = body(i)
  <2>1. CASE i = 0
    BY <2>1, <1>6 DEF base
  <2>2. CASE i # 0
    <3>1. i \in 1 .. n /\ i - 1 \in 0 .. n /\ i \in Nat
      BY <2>2, <1>1
    <3>2. g[i - 1] \in V
      BY <3>1, <1>6
    <3>3. g[i] = after(i, g[i - 1])
      BY <3>1, <3>2, <1>4, <1>6
    <3> QED BY <2>2, <3>1, <3>3 DEF after
  <2> QED BY <2>1, <2>2
<1>8. g = [i \in 0 .. n |-> g[i]]
  BY <1>6
<1> HIDE DEF body
<1>9. g = [i \in 0 .. n |-> body(i)]
  BY <1>7, <1>8
<1> QED BY <1>6, <1>9 DEF body, n, V, Picks

LEMMA AmongPicks ==
    ASSUME NEW A, NEW s \in Seq(A), NEW S
    PROVE  \E f : Picks(s, S, f) /\ Among(s, S) = f[Len(s)]
<1> DEFINE f == CHOOSE f : Picks(s, S, f)
<1>1. Picks(s, S, f)
  BY PicksExists, Zenon
<1>2. Among(s, S) = f[Len(s)]
  BY Zenon DEF Among, Picks
<1> QED BY <1>1, <1>2, Zenon

\* g finds the members of r in s, in their order, and they are in S.
Finds(g, r, s, n, S) ==
    /\ g \in [1 .. Len(r) -> 1 .. n]
    /\ \A i \in 1 .. Len(r) : r[i] = s[g[i]] /\ r[i] \in S
    /\ \A i, j \in 1 .. Len(r) : i < j => g[i] < g[j]

LEMMA FindsOneMore ==
    ASSUME NEW A, NEW s \in Seq(A), NEW S, NEW n \in Nat, n + 1 <= Len(s),
           NEW r \in Seq(A), NEW g, Finds(g, r, s, n, S), s[n + 1] \in S
    PROVE  \E h : Finds(h, Append(r, s[n + 1]), s, n + 1, S)
<1> DEFINE q == Append(r, s[n + 1])
           h == [i \in 1 .. Len(r) + 1 |-> IF i = Len(r) + 1 THEN n + 1 ELSE g[i]]
<1>1. /\ Len(q) = Len(r) + 1 /\ q[Len(r) + 1] = s[n + 1]
      /\ \A i \in 1 .. Len(r) : q[i] = r[i]
  OBVIOUS
<1>2. /\ g \in [1 .. Len(r) -> 1 .. n] /\ Len(r) \in Nat
      /\ \A i \in 1 .. Len(r) : r[i] = s[g[i]] /\ r[i] \in S
      /\ \A i, j \in 1 .. Len(r) : i < j => g[i] < g[j]
  BY DEF Finds
<1> HIDE DEF q
<1>3. h \in [1 .. Len(q) -> 1 .. n + 1]
  BY <1>1, <1>2
<1>4. \A i \in 1 .. Len(r) + 1 :
         h[i] = IF i = Len(r) + 1 THEN n + 1 ELSE g[i]
  BY <1>2
<1> HIDE DEF h
<1>5. ASSUME NEW i \in 1 .. Len(q)
      PROVE  q[i] = s[h[i]] /\ q[i] \in S
  <2>1. CASE i = Len(r) + 1
    BY <2>1, <1>1, <1>2, <1>4
  <2>2. CASE i # Len(r) + 1
    <3>1. i \in 1 .. Len(r) /\ h[i] = g[i]
      BY <2>2, <1>1, <1>2, <1>4
    <3> QED BY <3>1, <1>1, <1>2
  <2> QED BY <2>1, <2>2
<1>6. ASSUME NEW i \in 1 .. Len(q), NEW j \in 1 .. Len(q), i < j
      PROVE  h[i] < h[j]
  <2>1. i \in 1 .. Len(r) /\ h[i] = g[i] /\ g[i] \in 1 .. n
    BY <1>1, <1>2, <1>4, <1>6
  <2>2. CASE j = Len(r) + 1
    BY <2>1, <2>2, <1>1, <1>2, <1>4
  <2>3. CASE j # Len(r) + 1
    <3>1. j \in 1 .. Len(r) /\ h[j] = g[j]
      BY <2>3, <1>1, <1>2, <1>4
    <3> QED BY <2>1, <3>1, <1>2, <1>6
  <2> QED BY <2>2, <2>3
<1> QED
  BY <1>3, <1>5, <1>6 DEF Finds, q

\* Among returns members of s that are in S, in their order.
LEMMA AmongFinds ==
    ASSUME NEW A, NEW s \in Seq(A), NEW S
    PROVE  /\ Among(s, S) \in Seq(A)
           /\ \E g : Finds(g, Among(s, S), s, Len(s), S)
<1>1. PICK f : Picks(s, S, f) /\ Among(s, S) = f[Len(s)]
  BY AmongPicks
<1> DEFINE n == Len(s)
           P == {k \in Nat : k <= n => f[k] \in Seq(A) /\ \E g : Finds(g, f[k], s, k, S)}
<1>2. /\ n \in Nat
      /\ \A i \in 0 .. n : f[i] = IF i = 0 THEN <<>>
                                  ELSE IF s[i] \in S THEN Append(f[i - 1], s[i])
                                  ELSE f[i - 1]
  <2> DEFINE body(i) == IF i = 0 THEN <<>>
                        ELSE IF s[i] \in S THEN Append(f[i - 1], s[i]) ELSE f[i - 1]
  <2>1. f = [i \in 0 .. n |-> body(i)]
    BY <1>1 DEF Picks
  <2> HIDE DEF body
  <2>2. \A i \in 0 .. n : f[i] = body(i)
    BY <2>1
  <2> QED BY <2>2 DEF body
<1>3. 0 \in P
  <2>1. f[0] = <<>> /\ Len(<<>>) = 0
    BY <1>2
  <2> DEFINE g == [i \in 1 .. 0 |-> i]
  <2>2. g \in [1 .. 0 -> 1 .. 0] /\ 1 .. 0 = {}
    OBVIOUS
  <2> HIDE DEF g
  <2>3. PICK q : q = <<>>
    OBVIOUS
  <2>4. Finds(g, q, s, 0, S)
    BY <2>1, <2>2, <2>3 DEF Finds
  <2>5. f[0] = q /\ q \in Seq(A)
    BY <2>1, <2>3
  <2>6. f[0] \in Seq(A) /\ Finds(g, f[0], s, 0, S)
    BY <2>4, <2>5
  <2> QED BY <2>6
<1>4. ASSUME NEW k \in Nat, k \in P
      PROVE  k + 1 \in P
  <2> SUFFICES ASSUME k + 1 <= n
               PROVE  f[k + 1] \in Seq(A) /\ \E g : Finds(g, f[k + 1], s, k + 1, S)
    OBVIOUS
  <2>1. PICK g : f[k] \in Seq(A) /\ Finds(g, f[k], s, k, S)
    BY <1>2, <1>4
  <2>2. f[k + 1] = IF s[k + 1] \in S THEN Append(f[k], s[k + 1]) ELSE f[k]
    BY <1>2
  <2>3. CASE s[k + 1] \in S
    <3>1. \E h : Finds(h, Append(f[k], s[k + 1]), s, k + 1, S)
      BY <2>1, <2>3, FindsOneMore
    <3>2. s[k + 1] \in A
      BY <1>2
    <3> QED BY <2>1, <2>2, <2>3, <3>1, <3>2
  <2>4. CASE s[k + 1] \notin S
    <3>1. Finds(g, f[k], s, k + 1, S)
      BY <2>1 DEF Finds
    <3> QED BY <2>1, <2>2, <2>4, <3>1
  <2> QED BY <2>3, <2>4
<1> HIDE DEF P
<1>5. n \in P
  BY <1>2, <1>3, <1>4, NatSetInduction
<1> QED
  BY <1>1, <1>2, <1>5 DEF P

-----------------------------------------------------------------------------
(* Sequences, of whatever they are made *)

\* What sequences of any kind have in common.
LEMMA SeqFacts ==
    /\ \A S : \A s \in Seq(S) : s # <<>> => /\ Head(s) \in S /\ Tail(s) \in Seq(S)
                                           /\ Len(s) \in Nat \ {0} /\ Head(s) = s[1]
                                           /\ Len(Tail(s)) = Len(s) - 1
                                           /\ \A i \in 1 .. Len(s) - 1 : Tail(s)[i] = s[i + 1]
    /\ \A S : \A s \in Seq(S), x \in S :
          /\ Append(s, x) \in Seq(S) /\ Len(Append(s, x)) = Len(s) + 1
          /\ Append(s, x)[Len(s) + 1] = x
          /\ \A i \in 1 .. Len(s) : Append(s, x)[i] = s[i]
    /\ \A S : <<>> \in Seq(S)
    /\ \A S : \A x \in S : <<x>> \in Seq(S)
<1>1. \A S : \A s \in Seq(S) : s # <<>> => /\ Head(s) \in S /\ Tail(s) \in Seq(S)
                                           /\ Len(s) \in Nat \ {0} /\ Head(s) = s[1]
                                           /\ Len(Tail(s)) = Len(s) - 1
                                           /\ \A i \in 1 .. Len(s) - 1 : Tail(s)[i] = s[i + 1]
  <2> SUFFICES ASSUME NEW S, NEW s \in Seq(S), s # <<>>
               PROVE  /\ Head(s) \in S /\ Tail(s) \in Seq(S)
                      /\ Len(s) \in Nat \ {0} /\ Head(s) = s[1]
                      /\ Len(Tail(s)) = Len(s) - 1
                      /\ \A i \in 1 .. Len(s) - 1 : Tail(s)[i] = s[i + 1]
    OBVIOUS
  <2> QED BY HeadTailProperties
<1>2. \A S : \A s \in Seq(S), x \in S :
          /\ Append(s, x) \in Seq(S) /\ Len(Append(s, x)) = Len(s) + 1
          /\ Append(s, x)[Len(s) + 1] = x
          /\ \A i \in 1 .. Len(s) : Append(s, x)[i] = s[i]
  BY AppendProperties
<1>3. \A S : <<>> \in Seq(S)
  OBVIOUS
<1>4. \A S : \A x \in S : <<x>> \in Seq(S)
  OBVIOUS
<1> QED BY <1>1, <1>2, <1>3, <1>4

\* A sequence, of whatever it may be.
IsSequence(s) == \E S : s \in Seq(S)

LEMMA SequenceLength ==
    /\ \A s : IsSequence(s) =>
          /\ Len(s) \in Nat /\ DOMAIN s = 1 .. Len(s) /\ (s = <<>> <=> Len(s) = 0)
          /\ \A i \in 1 .. Len(s) : s[i] \in Range(s)
          /\ \A x \in Range(s) : \E i \in 1 .. Len(s) : x = s[i]
<1> SUFFICES ASSUME NEW s, IsSequence(s)
             PROVE  /\ Len(s) \in Nat /\ DOMAIN s = 1 .. Len(s) /\ (s = <<>> <=> Len(s) = 0)
                    /\ \A i \in 1 .. Len(s) : s[i] \in Range(s)
                    /\ \A x \in Range(s) : \E i \in 1 .. Len(s) : x = s[i]
  OBVIOUS
<1>1. PICK S : s \in Seq(S)
  BY DEF IsSequence
<1>2. Len(s) \in Nat /\ DOMAIN s = 1 .. Len(s) /\ (s = <<>> <=> Len(s) = 0)
  BY <1>1, EmptySeq
<1> QED BY <1>2 DEF Range

LEMMA SequenceTail ==
    \A s : IsSequence(s) /\ s # <<>> =>
        /\ IsSequence(Tail(s)) /\ Len(s) \in Nat \ {0} /\ Head(s) = s[1]
        /\ Len(Tail(s)) = Len(s) - 1
        /\ \A i \in 1 .. Len(s) - 1 : Tail(s)[i] = s[i + 1]
        /\ Head(s) \in Range(s) /\ Range(Tail(s)) \subseteq Range(s)
        /\ Range(s) = {Head(s)} \cup Range(Tail(s))
<1> SUFFICES ASSUME NEW s, IsSequence(s), s # <<>>
             PROVE  /\ IsSequence(Tail(s)) /\ Len(s) \in Nat \ {0} /\ Head(s) = s[1]
                    /\ Len(Tail(s)) = Len(s) - 1
                    /\ \A i \in 1 .. Len(s) - 1 : Tail(s)[i] = s[i + 1]
                    /\ Head(s) \in Range(s) /\ Range(Tail(s)) \subseteq Range(s)
                    /\ Range(s) = {Head(s)} \cup Range(Tail(s))
  OBVIOUS
<1>1. PICK S : s \in Seq(S)
  BY DEF IsSequence
<1>2. /\ Tail(s) \in Seq(S) /\ Len(s) \in Nat \ {0} /\ Head(s) = s[1]
      /\ Len(Tail(s)) = Len(s) - 1
      /\ \A i \in 1 .. Len(s) - 1 : Tail(s)[i] = s[i + 1]
  BY <1>1, HeadTailProperties
<1>3. IsSequence(Tail(s))
  BY <1>2 DEF IsSequence
<1>4. /\ \A i \in 1 .. Len(s) : s[i] \in Range(s)
      /\ \A x \in Range(Tail(s)) : \E i \in 1 .. Len(Tail(s)) : x = Tail(s)[i]
  BY <1>3, SequenceLength
<1>5. ASSUME NEW x \in Range(Tail(s)) PROVE x \in Range(s)
  <2>1. PICK i \in 1 .. Len(Tail(s)) : x = Tail(s)[i]
    BY <1>4
  <2>2. i + 1 \in 1 .. Len(s) /\ x = s[i + 1]
    BY <2>1, <1>2
  <2> QED BY <2>2, <1>4
<1>6. Head(s) \in Range(s)
  BY <1>2, <1>4
<1>7. ASSUME NEW x \in Range(s), x # Head(s) PROVE x \in Range(Tail(s))
  <2>1. PICK i \in 1 .. Len(s) : x = s[i]
    BY SequenceLength
  <2>2. i - 1 \in 1 .. Len(Tail(s)) /\ x = Tail(s)[i - 1]
    BY <2>1, <1>2, <1>7
  <2> QED BY <2>2, <1>3, SequenceLength
<1> QED BY <1>2, <1>3, <1>5, <1>6, <1>7

LEMMA SequenceAppend ==
    \A s, x : IsSequence(s) =>
        /\ IsSequence(Append(s, x)) /\ Len(Append(s, x)) = Len(s) + 1
        /\ Append(s, x)[Len(s) + 1] = x
        /\ \A i \in 1 .. Len(s) : Append(s, x)[i] = s[i]
        /\ Range(Append(s, x)) = Range(s) \cup {x}
<1> SUFFICES ASSUME NEW s, NEW x, IsSequence(s)
             PROVE  /\ IsSequence(Append(s, x)) /\ Len(Append(s, x)) = Len(s) + 1
                    /\ Append(s, x)[Len(s) + 1] = x
                    /\ \A i \in 1 .. Len(s) : Append(s, x)[i] = s[i]
                    /\ Range(Append(s, x)) = Range(s) \cup {x}
  OBVIOUS
<1>1. PICK S : s \in Seq(S)
  BY DEF IsSequence
<1> DEFINE T == S \cup {x}
           q == Append(s, x)
<1>2. s \in Seq(T) /\ x \in T
  BY <1>1
<1> HIDE DEF T
<1>3. /\ q \in Seq(T) /\ Len(q) = Len(s) + 1 /\ q[Len(s) + 1] = x
      /\ \A i \in 1 .. Len(s) : q[i] = s[i]
  BY <1>2, AppendProperties
<1> HIDE DEF q
<1>4. IsSequence(q)
  BY <1>3 DEF IsSequence
<1>5. /\ Len(s) \in Nat /\ DOMAIN s = 1 .. Len(s) /\ DOMAIN q = 1 .. Len(s) + 1
  BY <1>3, <1>4, SequenceLength
<1>6. Range(q) = Range(s) \cup {x}
  BY <1>3, <1>5 DEF Range
<1> QED BY <1>3, <1>4, <1>6 DEF q

LEMMA SequenceConcat ==
    \A s, t : IsSequence(s) /\ IsSequence(t) =>
        /\ IsSequence(s \o t) /\ Len(s \o t) = Len(s) + Len(t)
        /\ \A i \in 1 .. Len(s) : (s \o t)[i] = s[i]
        /\ \A i \in 1 .. Len(t) : (s \o t)[Len(s) + i] = t[i]
        /\ Range(s \o t) = Range(s) \cup Range(t)
<1> SUFFICES ASSUME NEW s, NEW t, IsSequence(s), IsSequence(t)
             PROVE  /\ IsSequence(s \o t) /\ Len(s \o t) = Len(s) + Len(t)
                    /\ \A i \in 1 .. Len(s) : (s \o t)[i] = s[i]
                    /\ \A i \in 1 .. Len(t) : (s \o t)[Len(s) + i] = t[i]
                    /\ Range(s \o t) = Range(s) \cup Range(t)
  OBVIOUS
<1>1. PICK S : s \in Seq(S)
  BY DEF IsSequence
<1>2. PICK U : t \in Seq(U)
  BY DEF IsSequence
<1> DEFINE T == S \cup U
           q == s \o t
<1>3. s \in Seq(T) /\ t \in Seq(T)
  BY <1>1, <1>2
<1> HIDE DEF T
<1>4. /\ q \in Seq(T) /\ Len(q) = Len(s) + Len(t) /\ Len(s) \in Nat /\ Len(t) \in Nat
      /\ \A i \in 1 .. Len(s) + Len(t) : q[i] = IF i <= Len(s) THEN s[i] ELSE t[i - Len(s)]
  BY <1>3, ConcatProperties, LenProperties
<1> HIDE DEF q
<1>5. IsSequence(q)
  BY <1>4 DEF IsSequence
<1>6. /\ \A i \in 1 .. Len(s) : q[i] = s[i]
      /\ \A i \in 1 .. Len(t) : q[Len(s) + i] = t[i]
  BY <1>4
<1>7. DOMAIN s = 1 .. Len(s) /\ DOMAIN t = 1 .. Len(t) /\ DOMAIN q = 1 .. Len(s) + Len(t)
  BY <1>4, <1>5, SequenceLength
<1>8. Range(q) = Range(s) \cup Range(t)
  <2>1. ASSUME NEW i \in 1 .. Len(s) + Len(t) PROVE q[i] \in Range(s) \cup Range(t)
    <3>1. CASE i <= Len(s)
      BY <3>1, <1>4, <1>7 DEF Range
    <3>2. CASE ~(i <= Len(s))
      <4>1. i - Len(s) \in 1 .. Len(t) /\ q[i] = t[i - Len(s)]
        BY <3>2, <1>4
      <4> QED BY <4>1, <1>7 DEF Range
    <3> QED BY <3>1, <3>2
  <2>2. ASSUME NEW i \in 1 .. Len(s) PROVE s[i] \in Range(q)
    <3>1. i \in 1 .. Len(s) + Len(t)
      BY <1>4
    <3> QED BY <3>1, <1>6, <1>7 DEF Range
  <2>3. ASSUME NEW i \in 1 .. Len(t) PROVE t[i] \in Range(q)
    <3>1. Len(s) + i \in 1 .. Len(s) + Len(t)
      BY <1>4
    <3> QED BY <3>1, <1>6, <1>7 DEF Range
  <2> QED BY <2>1, <2>2, <2>3, <1>7 DEF Range
<1> QED BY <1>4, <1>5, <1>6, <1>8 DEF q

LEMMA SequenceFew ==
    /\ IsSequence(<<>>) /\ Len(<<>>) = 0 /\ Range(<<>>) = {}
    /\ \A x : /\ IsSequence(<<x>>) /\ Len(<<x>>) = 1 /\ <<x>>[1] = x
              /\ Range(<<x>>) = {x} /\ <<x>> # <<>>
    /\ \A x, y : IsSequence(<<x, y>>) /\ Range(<<x, y>>) = {x, y} /\ Len(<<x, y>>) = 2
                 /\ <<x, y>>[1] = x /\ <<x, y>>[2] = y /\ <<x, y>> # <<>>
    /\ \A s : IsSequence(s) => <<>> \o s = s /\ s \o <<>> = s
<1>1. IsSequence(<<>>) /\ Len(<<>>) = 0 /\ Range(<<>>) = {}
  <2>1. <<>> \in Seq({})
    OBVIOUS
  <2> QED BY <2>1 DEF IsSequence, Range
<1>2. ASSUME NEW x
      PROVE  /\ IsSequence(<<x>>) /\ Len(<<x>>) = 1 /\ <<x>>[1] = x
             /\ Range(<<x>>) = {x} /\ <<x>> # <<>>
  <2>1. <<x>> \in Seq({x})
    OBVIOUS
  <2>2. Len(<<x>>) = 1 /\ <<x>>[1] = x /\ <<x>> # <<>> /\ DOMAIN <<x>> = 1 .. 1
    OBVIOUS
  <2> DEFINE s == <<x>>
  <2> HIDE DEF s
  <2>3. s[1] = x /\ DOMAIN s = 1 .. 1
    BY <2>2 DEF s
  <2>4. Range(s) = {x}
    BY <2>3 DEF Range
  <2> QED BY <2>1, <2>2, <2>4, Zenon DEF IsSequence, s
<1>3. ASSUME NEW x, NEW y
      PROVE  IsSequence(<<x, y>>) /\ Range(<<x, y>>) = {x, y} /\ Len(<<x, y>>) = 2
                 /\ <<x, y>>[1] = x /\ <<x, y>>[2] = y /\ <<x, y>> # <<>>
  <2>1. <<x, y>> \in Seq({x, y})
    OBVIOUS
  <2>2. /\ Len(<<x, y>>) = 2 /\ <<x, y>>[1] = x /\ <<x, y>>[2] = y /\ <<x, y>> # <<>>
        /\ DOMAIN <<x, y>> = 1 .. 2
    OBVIOUS
  <2> DEFINE s == <<x, y>>
  <2> HIDE DEF s
  <2>3. s[1] = x /\ s[2] = y /\ DOMAIN s = 1 .. 2
    BY <2>2 DEF s
  <2>4. Range(s) = {x, y}
    BY <2>3 DEF Range
  <2> QED BY <2>1, <2>2, <2>4, Zenon DEF IsSequence, s
<1>4. \A s : IsSequence(s) => <<>> \o s = s /\ s \o <<>> = s
  <2> SUFFICES ASSUME NEW S, NEW s \in Seq(S) PROVE <<>> \o s = s /\ s \o <<>> = s
    BY DEF IsSequence
  <2> QED BY ConcatEmptySeq
<1> QED BY <1>1, <1>2, <1>3, <1>4

LEMMA SequenceOfTwo == \A a, c : <<a>> \o <<c>> = <<a, c>>
<1> SUFFICES ASSUME NEW a, NEW c PROVE <<a>> \o <<c>> = <<a, c>>
  OBVIOUS
<1> DEFINE S == {a, c}
           s == <<a>>
           t == <<c>>
<1>1. /\ s \in Seq(S) /\ Len(s) = 1 /\ s[1] = a
      /\ t \in Seq(S) /\ Len(t) = 1 /\ t[1] = c
  OBVIOUS
<1>0. <<a, c>> \in Seq(S) /\ Len(<<a, c>>) = 2 /\ <<a, c>>[1] = a /\ <<a, c>>[2] = c
  OBVIOUS
<1> HIDE DEF S, s, t
<1>2. /\ s \o t \in Seq(S) /\ Len(s \o t) = 2
      /\ \A i \in 1 .. Len(s) + Len(t) : (s \o t)[i] = IF i <= Len(s) THEN s[i] ELSE t[i - Len(s)]
  BY <1>1, ConcatProperties
<1>3. (s \o t)[1] = a /\ (s \o t)[2] = c
  BY <1>1, <1>2
<1> DEFINE q == s \o t
           r == <<a, c>>
<1>4. q \in Seq(S) /\ Len(q) = 2 /\ q[1] = a /\ q[2] = c
  BY <1>2, <1>3
<1>5. r \in Seq(S) /\ Len(r) = 2 /\ r[1] = a /\ r[2] = c
  BY <1>0
<1> HIDE DEF q, r
<1>6. q = r
  BY <1>4, <1>5, SeqEqual
<1> QED BY <1>6 DEF q, r, s, t

LEMMA SequenceOfIts ==
    \A s : IsSequence(s) => s \in Seq(Range(s))
<1> SUFFICES ASSUME NEW S, NEW s \in Seq(S) PROVE s \in Seq(Range(s))
  BY DEF IsSequence
<1>1. s \in [1 .. Len(s) -> Range(s)] /\ Len(s) \in Nat
  BY LenProperties DEF Range
<1> QED BY <1>1, IsASeq

\* Parts of a list.
LEMMA SequenceParts ==
    ASSUME NEW s, IsSequence(s)
    PROVE  /\ \A S : /\ IsSequence(Among(s, S)) /\ Range(Among(s, S)) \subseteq Range(s)
           /\ \A i \in 1 .. Len(s) : /\ IsSequence(RemoveAt(s, i))
                                     /\ Range(RemoveAt(s, i)) \subseteq Range(s)
<1>1. s \in Seq(Range(s))
  BY SequenceOfIts
<1>2. ASSUME NEW q \in Seq(Range(s)) PROVE IsSequence(q) /\ Range(q) \subseteq Range(s)
  <2>1. \A i \in 1 .. Len(q) : q[i] \in Range(s)
    BY <1>2
  <2>2. IsSequence(q)
    BY DEF IsSequence
  <2> QED BY <2>1, <2>2, SequenceLength
<1>3. ASSUME NEW S PROVE Among(s, S) \in Seq(Range(s))
  BY <1>1, AmongFinds
<1>4. ASSUME NEW i \in 1 .. Len(s) PROVE RemoveAt(s, i) \in Seq(Range(s))
  <2> DEFINE R == Range(s)
  <2>0. s \in Seq(R)
    BY <1>1
  <2> HIDE DEF R
  <2>1. /\ SubSeq(s, 1, i - 1) \in Seq(R) /\ SubSeq(s, i + 1, Len(s)) \in Seq(R)
    BY <2>0
  <2> QED BY <2>1, ConcatProperties DEF RemoveAt, R
<1> QED BY <1>2, <1>3, <1>4

LEMMA SequenceSplit ==
    \A s : IsSequence(s) /\ s # <<>> => s = <<Head(s)>> \o Tail(s)
<1> SUFFICES ASSUME NEW s, IsSequence(s), s # <<>> PROVE s = <<Head(s)>> \o Tail(s)
  OBVIOUS
<1> DEFINE h == <<Head(s)>>
           t == Tail(s)
           q == h \o t
<1>1. /\ IsSequence(h) /\ Len(h) = 1 /\ h[1] = Head(s)
      /\ IsSequence(t) /\ Len(t) = Len(s) - 1 /\ Len(s) \in Nat \ {0} /\ Head(s) = s[1]
      /\ \A i \in 1 .. Len(s) - 1 : t[i] = s[i + 1]
  BY SequenceFew, SequenceTail
<1> HIDE DEF h, t
<1>2. /\ IsSequence(q) /\ Len(q) = Len(s) /\ q[1] = s[1]
      /\ \A i \in 1 .. Len(t) : q[1 + i] = t[i]
  <2>1. /\ IsSequence(q) /\ Len(q) = Len(h) + Len(t)
        /\ \A i \in 1 .. Len(h) : q[i] = h[i]
        /\ \A i \in 1 .. Len(t) : q[Len(h) + i] = t[i]
    <3>1. IsSequence(h) /\ IsSequence(t)
      BY <1>1
    <3> HIDE DEF q
    <3> QED BY <3>1, SequenceConcat DEF q
  <2> HIDE DEF q
  <2>2. q[1] = h[1]
    BY <1>1, <2>1
  <2> QED BY <1>1, <2>1, <2>2
<1> HIDE DEF q
<1>3. ASSUME NEW i \in 1 .. Len(s) PROVE q[i] = s[i]
  <2>1. CASE i = 1
    BY <2>1, <1>2
  <2>2. CASE i # 1
    <3>1. i - 1 \in 1 .. Len(t) /\ q[1 + (i - 1)] = t[i - 1] /\ 1 + (i - 1) = i
      BY <2>2, <1>1, <1>2
    <3>2. t[i - 1] = s[(i - 1) + 1] /\ (i - 1) + 1 = i
      BY <3>1, <1>1
    <3> QED BY <3>1, <3>2
  <2> QED BY <2>1, <2>2
<1>4. PICK S : s \in Seq(S)
  BY DEF IsSequence
<1>5. PICK U : q \in Seq(U)
  BY <1>2 DEF IsSequence
<1> DEFINE V == S \cup U
<1>6. s \in Seq(V) /\ q \in Seq(V)
  BY <1>4, <1>5
<1> HIDE DEF V
<1>7. q = s
  BY <1>2, <1>3, <1>6, SeqEqual
<1> QED BY <1>7 DEF q, h, t

\* x is in s, and before every y.
Ahead(s, x, y) ==
    \E j \in 1 .. Len(s) : s[j] = x /\ \A i \in 1 .. Len(s) : s[i] = y => j < i

\* Ahead, as a sequence grows at one end and shrinks at the other.
LEMMA AheadAppend ==
    \A s, x, y, z : IsSequence(s) =>
        /\ Ahead(s, x, y) => Ahead(Append(s, z), x, y)
        /\ y \notin Range(s) /\ x # y => Ahead(Append(s, x), x, y)
<1> SUFFICES ASSUME NEW s, NEW x, NEW y, NEW z, IsSequence(s)
             PROVE  /\ Ahead(s, x, y) => Ahead(Append(s, z), x, y)
                    /\ y \notin Range(s) /\ x # y => Ahead(Append(s, x), x, y)
  OBVIOUS
<1>1. Len(s) \in Nat /\ \A i \in 1 .. Len(s) : s[i] \in Range(s)
  BY SequenceLength
<1>2. \A w : /\ Len(Append(s, w)) = Len(s) + 1 /\ Append(s, w)[Len(s) + 1] = w
             /\ \A i \in 1 .. Len(s) : Append(s, w)[i] = s[i]
  BY SequenceAppend
<1>3. ASSUME Ahead(s, x, y) PROVE Ahead(Append(s, z), x, y)
  <2>1. PICK j \in 1 .. Len(s) : s[j] = x /\ \A i \in 1 .. Len(s) : s[i] = y => j < i
    BY <1>3 DEF Ahead
  <2> DEFINE q == Append(s, z)
             n == Len(s)
  <2>2. Len(q) = n + 1 /\ \A i \in 1 .. n : q[i] = s[i]
    BY <1>2
  <2> HIDE DEF q
  <2>3. j \in 1 .. Len(q) /\ q[j] = x
    BY <2>1, <2>2, <1>1
  <2>4. ASSUME NEW i \in 1 .. Len(q), q[i] = y PROVE j < i
    <3>1. CASE i = n + 1
      BY <3>1, <2>1, <1>1
    <3>2. CASE i \in 1 .. n
      BY <3>2, <2>4, <2>1, <2>2
    <3> QED BY <3>1, <3>2, <2>2, <1>1
  <2> QED BY <2>3, <2>4 DEF Ahead, q
<1>4. ASSUME y \notin Range(s), x # y PROVE Ahead(Append(s, x), x, y)
  <2> DEFINE q == Append(s, x)
             n == Len(s)
  <2>1. Len(q) = n + 1 /\ q[n + 1] = x /\ \A i \in 1 .. n : q[i] = s[i]
    BY <1>2
  <2> HIDE DEF q
  <2>2. n + 1 \in 1 .. Len(q)
    BY <2>1, <1>1
  <2>3. ASSUME NEW i \in 1 .. Len(q), q[i] = y PROVE n + 1 < i
    <3>1. i \notin 1 .. n
      BY <2>1, <2>3, <1>1, <1>4
    <3>2. i # n + 1
      BY <2>1, <2>3, <1>4
    <3> QED BY <3>1, <3>2, <2>1, <1>1
  <2> QED BY <2>1, <2>2, <2>3 DEF Ahead, q
<1> QED BY <1>3, <1>4

LEMMA AheadTail ==
    \A s, x, y : IsSequence(s) /\ Ahead(s, x, y) =>
        /\ s # <<>> /\ Head(s) # y
        /\ Head(s) # x => Ahead(Tail(s), x, y)
<1> SUFFICES ASSUME NEW s, NEW x, NEW y, IsSequence(s), Ahead(s, x, y)
             PROVE  s # <<>> /\ Head(s) # y /\ (Head(s) # x => Ahead(Tail(s), x, y))
  OBVIOUS
<1>1. PICK j \in 1 .. Len(s) : s[j] = x /\ \A i \in 1 .. Len(s) : s[i] = y => j < i
  BY DEF Ahead
<1>2. Len(s) \in Nat /\ Len(s) # 0 /\ s # <<>>
  BY <1>1, SequenceLength
<1>3. /\ Head(s) = s[1] /\ Len(Tail(s)) = Len(s) - 1
      /\ \A i \in 1 .. Len(s) - 1 : Tail(s)[i] = s[i + 1]
  BY <1>2, SequenceTail
<1>4. Head(s) # y
  BY <1>1, <1>2, <1>3
<1>5. ASSUME Head(s) # x PROVE Ahead(Tail(s), x, y)
  <2> DEFINE q == Tail(s)
  <2>1. Len(q) = Len(s) - 1 /\ \A i \in 1 .. Len(s) - 1 : q[i] = s[i + 1]
    BY <1>3
  <2> HIDE DEF q
  <2>2. j # 1
    BY <1>1, <1>3, <1>5
  <2>3. j - 1 \in 1 .. Len(q) /\ q[j - 1] = x
    BY <1>1, <1>2, <2>1, <2>2
  <2>4. \A i \in 1 .. Len(q) : q[i] = y => j - 1 < i
    BY <1>1, <1>2, <2>1
  <2> QED BY <2>3, <2>4 DEF Ahead, q
<1> QED BY <1>2, <1>4, <1>5

-----------------------------------------------------------------------------
(* Counting *)

\* How many members of s are in S.
Spots(s, S) == {i \in 1 .. Len(s) : s[i] \in S}
Occurs(s, S) == Cardinality(Spots(s, S))

\* f maps A one to one onto B.
LEMMA AsMany ==
    ASSUME NEW A, NEW B, IsFiniteSet(A), NEW f, f \in [A -> B],
           \A x, y \in A : f[x] = f[y] => x = y,
           \A y \in B : \E x \in A : f[x] = y
    PROVE  IsFiniteSet(B) /\ Cardinality(B) = Cardinality(A)
<1>1. f \in Bijection(A, B)
  BY DEF Bijection, Injection, Surjection, IsInjective
<1>2. ExistsBijection(A, B)
  BY <1>1 DEF ExistsBijection
<1> QED BY <1>2, FS_Bijection

LEMMA OccursNat ==
    \A s, S : IsSequence(s) =>
        /\ IsFiniteSet(Spots(s, S)) /\ Occurs(s, S) \in Nat
        /\ Occurs(s, S) = 0 <=> Range(s) \cap S = {}
<1> SUFFICES ASSUME NEW s, NEW S, IsSequence(s)
             PROVE  /\ IsFiniteSet(Spots(s, S)) /\ Occurs(s, S) \in Nat
                    /\ Occurs(s, S) = 0 <=> Range(s) \cap S = {}
  OBVIOUS
<1>1. Len(s) \in Nat /\ (\A i \in 1 .. Len(s) : s[i] \in Range(s))
      /\ \A x \in Range(s) : \E i \in 1 .. Len(s) : x = s[i]
  BY SequenceLength
<1>2. IsFiniteSet(1 .. Len(s))
  BY <1>1, FS_Interval
<1>3. IsFiniteSet(Spots(s, S)) /\ Occurs(s, S) \in Nat
  BY <1>2, FS_Subset, FS_CardinalityType DEF Spots, Occurs
<1>4. Occurs(s, S) = 0 <=> Spots(s, S) = {}
  BY <1>3, FS_EmptySet DEF Occurs
<1>5. Spots(s, S) = {} <=> Range(s) \cap S = {}
  BY <1>1 DEF Spots
<1> QED BY <1>3, <1>4, <1>5

LEMMA OccursConcat ==
    \A s, t, S : IsSequence(s) /\ IsSequence(t) =>
        Occurs(s \o t, S) = Occurs(s, S) + Occurs(t, S)
<1> SUFFICES ASSUME NEW s, NEW t, NEW S, IsSequence(s), IsSequence(t)
             PROVE  Occurs(s \o t, S) = Occurs(s, S) + Occurs(t, S)
  OBVIOUS
<1> DEFINE q == s \o t
           n == Len(s)
           A == Spots(s, S)
           B == Spots(t, S)
           C == {n + i : i \in B}
<1>1. /\ IsSequence(q) /\ Len(q) = n + Len(t) /\ n \in Nat /\ Len(t) \in Nat
      /\ \A i \in 1 .. n : q[i] = s[i]
      /\ \A i \in 1 .. Len(t) : q[n + i] = t[i]
  BY SequenceConcat, SequenceLength
<1> HIDE DEF q, n
<1>2. IsFiniteSet(A) /\ IsFiniteSet(B) /\ B \subseteq 1 .. Len(t) /\ A \subseteq 1 .. n
  BY OccursNat, ZenonT(60) DEF Spots, n
<1>3. IsFiniteSet(C) /\ Cardinality(C) = Cardinality(B)
  <2> DEFINE f == [i \in B |-> n + i]
  <2>1. f \in [B -> C] /\ \A i \in B : f[i] = n + i
    OBVIOUS
  <2>2. \A y \in C : \E i \in B : f[i] = y
    BY <2>1
  <2>3. \A i, j \in B : f[i] = f[j] => i = j
    BY <1>1, <1>2, <2>1
  <2>4. IsFiniteSet(B) /\ f \in [B -> C]
    BY <1>2, <2>1
  <2> HIDE DEF f, B, C
  <2> QED BY <2>2, <2>3, <2>4, AsMany, ZenonT(60)
<1>4. Spots(q, S) = A \cup C
  <2>1. ASSUME NEW i \in 1 .. Len(q) PROVE q[i] \in S <=> i \in A \cup C
    <3>1. CASE i <= n
      <4>1. i \in 1 .. n /\ q[i] = s[i] /\ i \notin C
        BY <3>1, <1>1, <1>2
      <4> QED BY <4>1 DEF Spots, n
    <3>2. CASE ~(i <= n)
      <4>1. i - n \in 1 .. Len(t) /\ q[n + (i - n)] = t[i - n] /\ n + (i - n) = i
        BY <3>2, <1>1
      <4>2. i \notin A
        BY <3>2, <1>1, <1>2
      <4>3. i \in C <=> i - n \in B
        BY <4>1, <1>1, <1>2
      <4> QED BY <4>1, <4>2, <4>3 DEF Spots
    <3> QED BY <3>1, <3>2
  <2>2. A \cup C \subseteq 1 .. Len(q)
    BY <1>1, <1>2
  <2> QED BY <2>1, <2>2 DEF Spots
<1>5. A \cap C = {}
  BY <1>1, <1>2
<1> HIDE DEF A, B, C
<1>6. Cardinality(A \cup C) = Cardinality(A) + Cardinality(C) - Cardinality({})
  BY <1>2, <1>3, <1>5, FS_Union
<1>7. Cardinality(A) \in Nat /\ Cardinality(B) \in Nat
  BY <1>2, FS_CardinalityType
<1> QED BY <1>3, <1>4, <1>6, <1>7, FS_EmptySet DEF Occurs, A, B, q

LEMMA OccursFew ==
    /\ \A S : Occurs(<<>>, S) = 0
    /\ \A x, S : Occurs(<<x>>, S) = IF x \in S THEN 1 ELSE 0
<1>1. \A S : Occurs(<<>>, S) = 0
  BY SequenceFew, OccursNat
<1>2. ASSUME NEW x, NEW S PROVE Occurs(<<x>>, S) = IF x \in S THEN 1 ELSE 0
  <2> DEFINE s == <<x>>
  <2>1. Len(s) = 1 /\ s[1] = x
    BY SequenceFew
  <2> HIDE DEF s
  <2>2. Spots(s, S) = IF x \in S THEN {1} ELSE {}
    BY <2>1 DEF Spots
  <2> QED BY <2>2, FS_Singleton, FS_EmptySet DEF Occurs, s
<1> QED BY <1>1, <1>2

LEMMA OccursAppend ==
    \A s, x, S : IsSequence(s) =>
        Occurs(Append(s, x), S) = Occurs(s, S) + IF x \in S THEN 1 ELSE 0
<1> SUFFICES ASSUME NEW s, NEW x, NEW S, IsSequence(s)
             PROVE  Occurs(Append(s, x), S) = Occurs(s, S) + IF x \in S THEN 1 ELSE 0
  OBVIOUS
<1> DEFINE q == Append(s, x)
           n == Len(s)
<1>1. /\ IsSequence(q) /\ Len(q) = n + 1 /\ n \in Nat /\ q[n + 1] = x
      /\ \A i \in 1 .. n : q[i] = s[i]
  BY SequenceAppend, SequenceLength
<1>2. IsFiniteSet(Spots(s, S)) /\ Occurs(s, S) \in Nat
  BY OccursNat
<1> HIDE DEF q, n
<1>3. Spots(q, S) = IF x \in S THEN Spots(s, S) \cup {n + 1} ELSE Spots(s, S)
  <2>1. Spots(s, S) = {i \in 1 .. n : q[i] \in S}
    BY <1>1 DEF Spots, n
  <2>2. Spots(q, S) = {i \in 1 .. n + 1 : q[i] \in S}
    BY <1>1 DEF Spots
  <2>3. 1 .. n + 1 = (1 .. n) \cup {n + 1}
    BY <1>1
  <2> QED BY <2>1, <2>2, <2>3, <1>1
<1>4. n + 1 \notin Spots(s, S)
  BY <1>1 DEF Spots, n
<1> QED BY <1>2, <1>3, <1>4, FS_AddElement, SMTT(60) DEF Occurs, q

LEMMA OccursTail ==
    \A s, S : IsSequence(s) /\ s # <<>> =>
        Occurs(s, S) = Occurs(Tail(s), S) + IF Head(s) \in S THEN 1 ELSE 0
<1> SUFFICES ASSUME NEW s, NEW S, IsSequence(s), s # <<>>
             PROVE  Occurs(s, S) = Occurs(Tail(s), S) + IF Head(s) \in S THEN 1 ELSE 0
  OBVIOUS
<1>1. IsSequence(Tail(s)) /\ Occurs(Tail(s), S) \in Nat
  BY SequenceTail, OccursNat
<1>3. s = <<Head(s)>> \o Tail(s)
  BY SequenceSplit
<1>4. Occurs(<<Head(s)>> \o Tail(s), S) = Occurs(<<Head(s)>>, S) + Occurs(Tail(s), S)
  BY <1>1, SequenceFew, OccursConcat
<1>5. Occurs(s, S) = Occurs(<<Head(s)>> \o Tail(s), S)
  BY <1>3, Zenon
<1>6. Occurs(<<Head(s)>>, S) = IF Head(s) \in S THEN 1 ELSE 0
  BY OccursFew, Zenon
<1> QED BY <1>1, <1>4, <1>5, <1>6

\* The members of r are those of s at some places Z.
LEMMA OccursWithin ==
    ASSUME NEW s, IsSequence(s), NEW r, IsSequence(r), NEW Z, NEW g,
           g \in [1 .. Len(r) -> 1 .. Len(s)],
           \A i \in 1 .. Len(r) : r[i] = s[g[i]] /\ g[i] \in Z,
           \A i, j \in 1 .. Len(r) : g[i] = g[j] => i = j, NEW X
    PROVE  Occurs(r, X) <= Cardinality(Spots(s, X) \cap Z)
<1> DEFINE A == Spots(r, X)
           B == Spots(s, X) \cap Z
           f == [i \in A |-> g[i]]
<1>1. IsFiniteSet(B)
  BY OccursNat, FS_Subset
<1>2. f \in [A -> B] /\ \A i \in A : f[i] = g[i]
  BY DEF Spots
<1>3. \A i, j \in A : f[i] = f[j] => i = j
  BY <1>2 DEF Spots
<1> HIDE DEF A, B, f
<1>4. f \in Injection(A, B)
  BY <1>2, <1>3 DEF Injection, IsInjective
<1> QED BY <1>1, <1>4, FS_Injection DEF Occurs, A, B

LEMMA OccursRemoveAt ==
    \A s, X, k : IsSequence(s) /\ k \in 1 .. Len(s) =>
        Occurs(RemoveAt(s, k), X) + (IF s[k] \in X THEN 1 ELSE 0) <= Occurs(s, X)
<1> SUFFICES ASSUME NEW s, NEW X, IsSequence(s), NEW k \in 1 .. Len(s)
             PROVE  Occurs(RemoveAt(s, k), X) + (IF s[k] \in X THEN 1 ELSE 0) <= Occurs(s, X)
  OBVIOUS
<1> DEFINE a == SubSeq(s, 1, k - 1)
           c == SubSeq(s, k + 1, Len(s))
           r == RemoveAt(s, k)
           n == Len(s)
           g == [i \in 1 .. Len(r) |-> IF i < k THEN i ELSE i + 1]
           Z == (1 .. n) \ {k}
<1>1. n \in Nat /\ k \in Nat /\ k <= n /\ k >= 1
  BY SequenceLength
<1>2. PICK S : s \in Seq(S)
  BY DEF IsSequence
<1>3. /\ a \in Seq(S) /\ Len(a) = k - 1 /\ \A i \in 1 .. k - 1 : a[i] = s[i]
      /\ c \in Seq(S) /\ Len(c) = n - k /\ \A i \in 1 .. n - k : c[i] = s[i + k]
  <2>1. a \in Seq(S) /\ c \in Seq(S)
    BY <1>2
  <2>2. Len(a) = k - 1 /\ \A i \in 1 .. k - 1 : a[i] = s[i]
    BY <1>1, <1>2
  <2>3. Len(c) = n - k /\ \A i \in 1 .. n - k : c[i] = s[i + k]
    BY <1>1, <1>2
  <2> QED BY <2>1, <2>2, <2>3
<1> HIDE DEF a, c
<1>4. IsSequence(a) /\ IsSequence(c)
  BY <1>3 DEF IsSequence
<1>5. r = a \o c
  BY DEF RemoveAt, a, c
<1> HIDE DEF r
<1>6. /\ IsSequence(r) /\ Len(r) = n - 1
      /\ \A i \in 1 .. k - 1 : r[i] = s[i]
      /\ \A i \in 1 .. n - k : r[(k - 1) + i] = s[i + k]
  <2>1. /\ IsSequence(r) /\ Len(r) = Len(a) + Len(c)
        /\ \A i \in 1 .. Len(a) : r[i] = a[i]
        /\ \A i \in 1 .. Len(c) : r[Len(a) + i] = c[i]
    BY <1>4, <1>5, SequenceConcat
  <2> HIDE DEF n
  <2>2. Len(a) = k - 1 /\ Len(c) = n - k
    BY <1>3
  <2>3. Len(r) = n - 1
    BY <2>1, <2>2, <1>1
  <2>4. \A i \in 1 .. k - 1 : r[i] = s[i]
    BY <2>1, <2>2, <1>3
  <2>5. \A i \in 1 .. n - k : r[(k - 1) + i] = s[i + k]
    BY <2>1, <2>2, <1>3
  <2> QED BY <2>1, <2>3, <2>4, <2>5
<1> HIDE DEF n
<1>7. ASSUME NEW i \in 1 .. Len(r) PROVE r[i] = s[g[i]] /\ g[i] \in Z
  <2>1. CASE i < k
    BY <2>1, <1>1, <1>6
  <2>2. CASE ~(i < k)
    <3>1. i - (k - 1) \in 1 .. n - k /\ (k - 1) + (i - (k - 1)) = i /\ (i - (k - 1)) + k = i + 1
      BY <2>2, <1>1, <1>6
    <3>2. r[i] = s[i + 1]
      BY <3>1, <1>6
    <3> QED BY <3>2, <2>2, <1>1, <1>6
  <2> QED BY <2>1, <2>2
<1>8. g \in [1 .. Len(r) -> 1 .. n] /\ \A i, j \in 1 .. Len(r) : g[i] = g[j] => i = j
  BY <1>1, <1>6
<1> HIDE DEF g
<1>9. Occurs(r, X) <= Cardinality(Spots(s, X) \cap Z)
  BY <1>6, <1>7, <1>8, OccursWithin DEF n
<1>10. Spots(s, X) \cap Z = Spots(s, X) \ {k}
  BY DEF Spots, n
<1>11. /\ IsFiniteSet(Spots(s, X)) /\ Occurs(s, X) \in Nat /\ Occurs(r, X) \in Nat
       /\ k \in Spots(s, X) <=> s[k] \in X
  BY <1>6, OccursNat DEF Spots
<1>12. Cardinality(Spots(s, X) \ {k})
         = IF s[k] \in X THEN Occurs(s, X) - 1 ELSE Occurs(s, X)
  BY <1>11, FS_RemoveElement DEF Occurs
<1>13. Occurs(r, X) <= Cardinality(Spots(s, X) \ {k})
  BY <1>9, <1>10
<1> QED BY <1>11, <1>12, <1>13 DEF r

\* What is left of s after its first n members.
LEMMA OccursRest ==
    \A s, X, n : IsSequence(s) /\ n \in 0 .. Len(s) =>
        /\ IsSequence(SubSeq(s, n + 1, Len(s)))
        /\ Occurs(SubSeq(s, n + 1, Len(s)), X) <= Occurs(s, X)
<1> SUFFICES ASSUME NEW s, NEW X, NEW n, IsSequence(s), n \in 0 .. Len(s)
             PROVE  /\ IsSequence(SubSeq(s, n + 1, Len(s)))
                    /\ Occurs(SubSeq(s, n + 1, Len(s)), X) <= Occurs(s, X)
  OBVIOUS
<1> DEFINE r == SubSeq(s, n + 1, Len(s))
           g == [i \in 1 .. Len(r) |-> i + n]
           Z == 1 .. Len(s)
<1>1. Len(s) \in Nat /\ n \in Nat /\ n <= Len(s)
  BY SequenceLength
<1>2. PICK S : s \in Seq(S)
  BY DEF IsSequence
<1>3. /\ r \in Seq(S) /\ Len(r) = Len(s) - n
      /\ \A i \in 1 .. Len(s) - n : r[i] = s[i + n]
  BY <1>1, <1>2
<1>4. IsSequence(r)
  BY <1>3 DEF IsSequence
<1> HIDE DEF r
<1>5. /\ g \in [1 .. Len(r) -> 1 .. Len(s)]
      /\ \A i \in 1 .. Len(r) : r[i] = s[g[i]] /\ g[i] \in Z
      /\ \A i, j \in 1 .. Len(r) : g[i] = g[j] => i = j
  BY <1>1, <1>3
<1> HIDE DEF g, Z
<1>6. Occurs(r, X) <= Cardinality(Spots(s, X) \cap Z)
  BY <1>4, <1>5, OccursWithin
<1>7. Spots(s, X) \cap Z = Spots(s, X)
  BY DEF Spots, Z
<1> QED BY <1>4, <1>6, <1>7 DEF Occurs, r

\* Two parts of a list that have nothing in common.
LEMMA OccursAmong ==
    ASSUME NEW s, IsSequence(s), NEW A, NEW C, A \cap C = {}
    PROVE  \A X : Occurs(Among(s, A), X) + Occurs(Among(s, C), X) <= Occurs(s, X)
<1> DEFINE Z(B) == {i \in 1 .. Len(s) : s[i] \in B}
<1>1. ASSUME NEW B, NEW X
      PROVE  /\ Occurs(Among(s, B), X) <= Cardinality(Spots(s, X) \cap Z(B))
             /\ Occurs(Among(s, B), X) \in Nat
  <2> DEFINE r == Among(s, B)
  <2>1. PICK S : s \in Seq(S)
    BY DEF IsSequence
  <2>2. PICK g : Finds(g, r, s, Len(s), B)
    BY <2>1, AmongFinds
  <2>3. IsSequence(r)
    BY SequenceParts
  <2> HIDE DEF r
  <2>4. Len(r) \in Nat /\ Len(s) \in Nat
    BY <2>3, SequenceLength
  <2>5. /\ g \in [1 .. Len(r) -> 1 .. Len(s)]
        /\ \A i \in 1 .. Len(r) : r[i] = s[g[i]] /\ r[i] \in B
        /\ \A i, j \in 1 .. Len(r) : i < j => g[i] < g[j]
    BY <2>2 DEF Finds
  <2>6. \A i \in 1 .. Len(r) : r[i] = s[g[i]] /\ g[i] \in Z(B)
    BY <2>5
  <2>7. ASSUME NEW i \in 1 .. Len(r), NEW j \in 1 .. Len(r), g[i] = g[j] PROVE i = j
    <3>1. ~(i < j) /\ ~(j < i)
      <4>1. g[i] \in Int /\ g[j] \in Int
        BY <2>4, <2>5
      <4> QED BY <4>1, <2>5, <2>7
    <3> QED BY <3>1, <2>4
  <2> HIDE DEF Z
  <2>8. Occurs(r, X) <= Cardinality(Spots(s, X) \cap Z(B))
    BY <2>3, <2>5, <2>6, <2>7, OccursWithin
  <2>9. Occurs(r, X) \in Nat
    BY <2>3, OccursNat
  <2> QED BY <2>8, <2>9 DEF r
<1>2. ASSUME NEW X PROVE Occurs(Among(s, A), X) + Occurs(Among(s, C), X) <= Occurs(s, X)
  <2> DEFINE P == Spots(s, X) \cap Z(A)
             Q == Spots(s, X) \cap Z(C)
  <2>1. IsFiniteSet(Spots(s, X)) /\ P \cup Q \subseteq Spots(s, X) /\ P \cap Q = {}
    BY OccursNat
  <2>2. IsFiniteSet(P) /\ IsFiniteSet(Q)
    BY <2>1, FS_Subset
  <2> HIDE DEF Z
  <2>3. Occurs(Among(s, A), X) <= Cardinality(P) /\ Occurs(Among(s, C), X) <= Cardinality(Q)
        /\ Occurs(Among(s, A), X) \in Nat /\ Occurs(Among(s, C), X) \in Nat
    BY <1>1
  <2> HIDE DEF P, Q
  <2>4. Cardinality(P \cup Q) = Cardinality(P) + Cardinality(Q) - Cardinality({})
    BY <2>1, <2>2, FS_Union
  <2>5. Cardinality(P \cup Q) <= Occurs(s, X)
    BY <2>1, FS_Subset DEF Occurs
  <2>6. Cardinality(P) \in Nat /\ Cardinality(Q) \in Nat /\ Cardinality({}) = 0
        /\ Occurs(s, X) \in Nat
    BY <2>2, FS_CardinalityType, FS_EmptySet, OccursNat
  <2> QED BY <2>3, <2>4, <2>5, <2>6
<1> QED BY <1>2

LEMMA OccursTwo ==
    \A a, c, S : Occurs(<<a, c>>, S) = (IF a \in S THEN 1 ELSE 0) + (IF c \in S THEN 1 ELSE 0)
<1> SUFFICES ASSUME NEW a, NEW c, NEW S
             PROVE  Occurs(<<a, c>>, S) = (IF a \in S THEN 1 ELSE 0) + (IF c \in S THEN 1 ELSE 0)
  OBVIOUS
<1> DEFINE s == <<a>>
           t == <<c>>
           q == <<a, c>>
<1>1. q = s \o t
  BY SequenceOfTwo
<1>2. IsSequence(s) /\ IsSequence(t)
  BY SequenceFew
<1>3. /\ Occurs(s, S) = IF a \in S THEN 1 ELSE 0
      /\ Occurs(t, S) = IF c \in S THEN 1 ELSE 0
  BY OccursFew
<1> HIDE DEF s, t, q
<1>4. Occurs(q, S) = Occurs(s, S) + Occurs(t, S)
  BY <1>1, <1>2, OccursConcat
<1> QED BY <1>3, <1>4 DEF q

LEMMA ConcatTwo ==
    \A s, t : IsSequence(s) /\ IsSequence(t) /\ Len(s) = 2 /\ Len(t) = 2 =>
        /\ IsSequence(s \o t) /\ Len(s \o t) = 4 /\ Range(s \o t) = Range(s) \cup Range(t)
        /\ (s \o t)[1] = s[1] /\ (s \o t)[2] = s[2]
<1> SUFFICES ASSUME NEW s, NEW t, IsSequence(s), IsSequence(t), Len(s) = 2, Len(t) = 2
             PROVE  /\ IsSequence(s \o t) /\ Len(s \o t) = 4
                    /\ Range(s \o t) = Range(s) \cup Range(t)
                    /\ (s \o t)[1] = s[1] /\ (s \o t)[2] = s[2]
  OBVIOUS
<1> DEFINE q == s \o t
<1>1. /\ IsSequence(q) /\ Len(q) = Len(s) + Len(t)
      /\ \A i \in 1 .. Len(s) : q[i] = s[i]
      /\ Range(q) = Range(s) \cup Range(t)
  BY SequenceConcat, ZenonT(60)
<1> HIDE DEF q
<1>2. /\ IsSequence(q) /\ Len(q) = 4 /\ Range(q) = Range(s) \cup Range(t)
      /\ q[1] = s[1] /\ q[2] = s[2]
  BY <1>1
<1> QED BY <1>2 DEF q

In(o, S) == IF o \in S THEN 1 ELSE 0

\* Two sets that differ in x only.
LEMMA OneApart ==
    \A S, T, x : IsFiniteSet(S) /\ IsFiniteSet(T) /\ S \ {x} = T \ {x} =>
        /\ Cardinality(T) + In(x, S) = Cardinality(S) + In(x, T)
        /\ Cardinality(S) \in Nat /\ Cardinality(T) \in Nat
<1> SUFFICES ASSUME NEW S, NEW T, NEW x, IsFiniteSet(S), IsFiniteSet(T), S \ {x} = T \ {x}
             PROVE  /\ Cardinality(T) + In(x, S) = Cardinality(S) + In(x, T)
                    /\ Cardinality(S) \in Nat /\ Cardinality(T) \in Nat
  OBVIOUS
<1>1. Cardinality(S) \in Nat /\ Cardinality(T) \in Nat
  BY FS_CardinalityType
<1>2. /\ Cardinality(S \ {x}) = IF x \in S THEN Cardinality(S) - 1 ELSE Cardinality(S)
      /\ Cardinality(T \ {x}) = IF x \in T THEN Cardinality(T) - 1 ELSE Cardinality(T)
  BY FS_RemoveElement
<1> QED BY <1>1, <1>2 DEF In

-----------------------------------------------------------------------------
(* Counting what is in flight *)

\* InFlight and Envelope, for any mailboxes b and calls c.
Flight(b, c) ==
    (UNION {{<<o, "box", i>> : i \in DOMAIN b[o]} : o \in DOMAIN b})
        \cup (UNION {{<<o, "todo", i>> : i \in DOMAIN c[o]} : o \in DOMAIN c})
Enveloped(b, c, x) == IF x[2] = "box" THEN To(x[1], b[x[1]][x[3]]) ELSE c[x[1]][x[3]]

\* The mailboxes and calls of the objects D.
Lines(b, c, D) ==
    /\ DOMAIN b = D /\ DOMAIN c = D
    /\ \A o \in D : IsSequence(b[o]) /\ IsSequence(c[o])

LEMMA FlightIs ==
    ASSUME NEW b, NEW c, NEW D, Lines(b, c, D)
    PROVE  /\ \A x : x \in Flight(b, c) <=>
                 \/ \E o \in D : \E i \in 1 .. Len(b[o]) : x = <<o, "box", i>>
                 \/ \E o \in D : \E i \in 1 .. Len(c[o]) : x = <<o, "todo", i>>
           /\ \A o \in D : \A i : Enveloped(b, c, <<o, "box", i>>) = To(o, b[o][i])
           /\ \A o \in D : \A i : Enveloped(b, c, <<o, "todo", i>>) = c[o][i]
<1>1. /\ DOMAIN b = D /\ \A o \in D : DOMAIN b[o] = 1 .. Len(b[o])
      /\ DOMAIN c = D /\ \A o \in D : DOMAIN c[o] = 1 .. Len(c[o])
  BY SequenceLength DEF Lines
<1>2. ASSUME NEW x, x \in Flight(b, c)
      PROVE  \/ \E o \in D : \E i \in 1 .. Len(b[o]) : x = <<o, "box", i>>
             \/ \E o \in D : \E i \in 1 .. Len(c[o]) : x = <<o, "todo", i>>
  <2>1. \/ \E o \in DOMAIN b : x \in {<<o, "box", i>> : i \in DOMAIN b[o]}
        \/ \E o \in DOMAIN c : x \in {<<o, "todo", i>> : i \in DOMAIN c[o]}
    BY <1>2, Zenon DEF Flight
  <2> QED BY <1>1, <2>1
<1>3. ASSUME NEW o \in D, NEW i \in 1 .. Len(b[o])
      PROVE  <<o, "box", i>> \in Flight(b, c)
  <2>1. o \in DOMAIN b /\ <<o, "box", i>> \in {<<o, "box", j>> : j \in DOMAIN b[o]}
    BY <1>1
  <2> QED BY <2>1, ZenonT(60) DEF Flight
<1>4. ASSUME NEW o \in D, NEW i \in 1 .. Len(c[o])
      PROVE  <<o, "todo", i>> \in Flight(b, c)
  <2>1. o \in DOMAIN c /\ <<o, "todo", i>> \in {<<o, "todo", j>> : j \in DOMAIN c[o]}
    BY <1>1
  <2> QED BY <2>1, ZenonT(60) DEF Flight
<1>5. \A x : x \in Flight(b, c) <=>
                 \/ \E o \in D : \E i \in 1 .. Len(b[o]) : x = <<o, "box", i>>
                 \/ \E o \in D : \E i \in 1 .. Len(c[o]) : x = <<o, "todo", i>>
  BY <1>2, <1>3, <1>4, Zenon
<1>6. \A o \in D : \A i : Enveloped(b, c, <<o, "box", i>>) = To(o, b[o][i])
  BY DEF Enveloped, To
<1>7. \A o \in D : \A i : Enveloped(b, c, <<o, "todo", i>>) = c[o][i]
  BY DEF Enveloped
<1> QED BY <1>5, <1>6, <1>7

\* What is in flight of S, and how much.
Carried(b, c, S) == {x \in Flight(b, c) : Enveloped(b, c, x) \in S}
Flying(b, c, S) == Cardinality(Carried(b, c, S))

\* The messages that S has for o.
For(o, S) == {m \in {e.msg : e \in S} : To(o, m) \in S}

LEMMA ForIs == \A o, S, m : m \in For(o, S) <=> To(o, m) \in S
BY DEF For, To

\* What is neither among the calls of o nor in the mailbox of t.
Elsewhere(b, c, o, t, S) ==
    {x \in Carried(b, c, S) : ~(x[1] = o /\ x[2] = "todo") /\ ~(x[1] = t /\ x[2] = "box")}

LEMMA FlightFinite ==
    ASSUME NEW b, NEW c, NEW D, IsFiniteSet(D), Lines(b, c, D)
    PROVE  IsFiniteSet(Flight(b, c)) /\ \A S : IsFiniteSet(Carried(b, c, S)) /\ Flying(b, c, S) \in Nat
<1> DEFINE B(o) == {<<o, "box", i>> : i \in DOMAIN b[o]}
           T(o) == {<<o, "todo", i>> : i \in DOMAIN c[o]}
<1>1. \A o \in D : IsFiniteSet(DOMAIN b[o]) /\ IsFiniteSet(DOMAIN c[o])
  <2>1. \A s : IsSequence(s) => IsFiniteSet(DOMAIN s)
    <3> SUFFICES ASSUME NEW s, IsSequence(s) PROVE IsFiniteSet(DOMAIN s)
      OBVIOUS
    <3>1. Len(s) \in Int /\ 1 \in Int /\ DOMAIN s = 1 .. Len(s)
      BY SequenceLength
    <3> QED BY <3>1, FS_Interval
  <2> QED BY <2>1 DEF Lines
<1>2. ASSUME NEW o \in D PROVE IsFiniteSet(B(o)) /\ IsFiniteSet(T(o))
  <2> DEFINE f == [i \in DOMAIN b[o] |-> <<o, "box", i>>]
             g == [i \in DOMAIN c[o] |-> <<o, "todo", i>>]
  <2>1. f \in Surjection(DOMAIN b[o], B(o)) /\ g \in Surjection(DOMAIN c[o], T(o))
    BY DEF Surjection
  <2> HIDE DEF f, g, B, T
  <2> QED BY <1>1, <2>1, FS_Surjection
<1> DEFINE BB == {B(o) : o \in D}
           TT == {T(o) : o \in D}
<1>3. IsFiniteSet(BB) /\ IsFiniteSet(TT)
  <2> HIDE DEF B, T
  <2> DEFINE f == [o \in D |-> B(o)]
             g == [o \in D |-> T(o)]
  <2>1. f \in Surjection(D, BB) /\ g \in Surjection(D, TT)
    BY DEF Surjection
  <2> HIDE DEF f, g, BB, TT
  <2> QED BY <2>1, FS_Surjection
<1>4. IsFiniteSet(UNION BB) /\ IsFiniteSet(UNION TT)
  <2> HIDE DEF B, T
  <2>1. (\A X \in BB : IsFiniteSet(X)) /\ (\A X \in TT : IsFiniteSet(X))
    BY <1>2
  <2> HIDE DEF BB, TT
  <2> QED BY <1>3, <2>1, FS_UNION
<1>5. Flight(b, c) = (UNION BB) \cup (UNION TT)
  BY DEF Flight, Lines
<1> HIDE DEF BB, TT
<1>6. IsFiniteSet(Flight(b, c))
  BY <1>4, <1>5, FS_Union, ZenonT(60)
<1> QED BY <1>6, FS_Subset, FS_CardinalityType, SMTT(60) DEF Carried, Flying

LEMMA FlyingParts ==
    ASSUME NEW b, NEW c, NEW D, IsFiniteSet(D), Lines(b, c, D), NEW o \in D, NEW t \in D, NEW S
    PROVE  /\ Cardinality(Elsewhere(b, c, o, t, S)) \in Nat
           /\ Flying(b, c, S) = Cardinality(Elsewhere(b, c, o, t, S))
                             + Occurs(c[o], S) + Occurs(b[t], For(t, S))
<1> DEFINE E == Elsewhere(b, c, o, t, S)
           P == Spots(c[o], S)
           Q == Spots(b[t], For(t, S))
           T == {<<o, "todo", i>> : i \in P}
           B == {<<t, "box", i>> : i \in Q}
<1>1. /\ IsFiniteSet(P) /\ IsFiniteSet(Q) /\ IsFiniteSet(Carried(b, c, S))
      /\ P \subseteq 1 .. Len(c[o]) /\ Q \subseteq 1 .. Len(b[t])
  <2>1. IsSequence(c[o]) /\ IsSequence(b[t])
    BY DEF Lines
  <2>2. IsFiniteSet(P) /\ IsFiniteSet(Q)
    <3> HIDE DEF P, Q
    <3> QED BY <2>1, OccursNat DEF P, Q
  <2>3. IsFiniteSet(Carried(b, c, S))
    BY FlightFinite
  <2> QED BY <2>2, <2>3 DEF Spots
<1>2. IsFiniteSet(T) /\ Cardinality(T) = Cardinality(P)
  <2> DEFINE f == [i \in P |-> <<o, "todo", i>>]
  <2>1. f \in [P -> T] /\ \A i \in P : f[i] = <<o, "todo", i>>
    OBVIOUS
  <2>2. (\A y \in T : \E i \in P : f[i] = y) /\ \A i, j \in P : f[i] = f[j] => i = j
    BY <2>1
  <2> HIDE DEF f, T, P
  <2> QED BY <1>1, <2>1, <2>2, AsMany, ZenonT(60)
<1>3. IsFiniteSet(B) /\ Cardinality(B) = Cardinality(Q)
  <2> DEFINE f == [i \in Q |-> <<t, "box", i>>]
  <2>1. f \in [Q -> B] /\ \A i \in Q : f[i] = <<t, "box", i>>
    OBVIOUS
  <2>2. (\A y \in B : \E i \in Q : f[i] = y) /\ \A i, j \in Q : f[i] = f[j] => i = j
    BY <2>1
  <2> HIDE DEF f, B, Q
  <2> QED BY <1>1, <2>1, <2>2, AsMany, ZenonT(60)
<1>4. ASSUME NEW x PROVE x \in Carried(b, c, S) <=> x \in E \cup (T \cup B)
  <2>1. ASSUME NEW i PROVE <<o, "todo", i>> \in Carried(b, c, S) <=> i \in P
    <3>1. <<o, "todo", i>> \in Flight(b, c) <=> i \in 1 .. Len(c[o])
      BY FlightIs
    <3>2. Enveloped(b, c, <<o, "todo", i>>) = c[o][i]
      BY FlightIs
    <3> QED BY <3>1, <3>2 DEF Carried, Spots
  <2>2. ASSUME NEW i PROVE <<t, "box", i>> \in Carried(b, c, S) <=> i \in Q
    <3>1. <<t, "box", i>> \in Flight(b, c) <=> i \in 1 .. Len(b[t])
      BY FlightIs
    <3>2. Enveloped(b, c, <<t, "box", i>>) = To(t, b[t][i])
      BY FlightIs
    <3> QED BY <3>1, <3>2, ForIs DEF Carried, Spots
  <2>3. ASSUME x \in Carried(b, c, S), x \notin E PROVE x \in T \cup B
    <3>1. x \in Flight(b, c) /\ ((x[1] = o /\ x[2] = "todo") \/ (x[1] = t /\ x[2] = "box"))
      BY <2>3 DEF Elsewhere, Carried
    <3>2. \/ \E i : x = <<t, "box", i>>
          \/ \E i : x = <<o, "todo", i>>
      <4>1. \/ \E p \in D : \E i \in 1 .. Len(b[p]) : x = <<p, "box", i>>
            \/ \E p \in D : \E i \in 1 .. Len(c[p]) : x = <<p, "todo", i>>
        BY <3>1, FlightIs
      <4>2. \A y, z, i : <<y, z, i>>[1] = y /\ <<y, z, i>>[2] = z
        OBVIOUS
      <4>3. "todo" # "box"
        OBVIOUS
      <4> QED BY <3>1, <4>1, <4>2, <4>3
    <3> HIDE DEF P, Q
    <3> QED BY <2>3, <3>2, <2>1, <2>2
  <2>4. ASSUME x \in T \cup B PROVE x \in Carried(b, c, S)
    <3> HIDE DEF P, Q
    <3> QED BY <2>4, <2>1, <2>2
  <2>5. E \subseteq Carried(b, c, S)
    BY DEF Elsewhere
  <2> HIDE DEF E, T, B
  <2> QED BY <2>3, <2>4, <2>5
<1>5. E \cap (T \cup B) = {} /\ T \cap B = {}
  BY DEF Elsewhere
<1>6. IsFiniteSet(E)
  BY <1>1, FS_Subset DEF Elsewhere
<1> HIDE DEF E, P, Q, T, B
<1>7. /\ Cardinality(T \cup B) = Cardinality(T) + Cardinality(B) - Cardinality({})
      /\ IsFiniteSet(T \cup B)
  BY <1>2, <1>3, <1>5, FS_Union
<1>8. Cardinality(E \cup (T \cup B)) = Cardinality(E) + Cardinality(T \cup B) - Cardinality({})
  BY <1>5, <1>6, <1>7, FS_Union
<1>9. Carried(b, c, S) = E \cup (T \cup B)
  BY <1>4
<1>10. /\ Cardinality(E) \in Nat /\ Cardinality(T) \in Nat /\ Cardinality(B) \in Nat
       /\ Cardinality({}) = 0
  BY <1>2, <1>3, <1>6, FS_CardinalityType, FS_EmptySet
<1> QED BY <1>2, <1>3, <1>7, <1>8, <1>9, <1>10 DEF Flying, Occurs, E, P, Q

\* From one state to another only the calls of o and the mailbox of t change.
Touches(b, c, b2, c2, D, o, t) ==
    /\ Lines(b, c, D) /\ Lines(b2, c2, D) /\ o \in D /\ t \in D
    /\ \A p \in D : p # o => c2[p] = c[p]
    /\ \A p \in D : p # t => b2[p] = b[p]

InBalance(b, c, b2, c2, o, t, S) ==
    /\ Flying(b, c, S) \in Nat /\ Flying(b2, c2, S) \in Nat
    /\ Flying(b2, c2, S) + Occurs(c[o], S) + Occurs(b[t], For(t, S))
          = Flying(b, c, S) + Occurs(c2[o], S) + Occurs(b2[t], For(t, S))

LEMMA FlyingChanges ==
    \A b, c, b2, c2, D, o, t :
        IsFiniteSet(D) /\ Touches(b, c, b2, c2, D, o, t)
           => \A S : InBalance(b, c, b2, c2, o, t, S)
<1> SUFFICES ASSUME NEW b, NEW c, NEW b2, NEW c2, NEW D, IsFiniteSet(D), NEW o, NEW t,
                    Touches(b, c, b2, c2, D, o, t), NEW S
             PROVE  InBalance(b, c, b2, c2, o, t, S)
  OBVIOUS
<1>0. /\ Lines(b, c, D) /\ Lines(b2, c2, D) /\ o \in D /\ t \in D
      /\ \A p \in D : p # o => c2[p] = c[p]
      /\ \A p \in D : p # t => b2[p] = b[p]
  BY DEF Touches
<1>1. /\ Cardinality(Elsewhere(b, c, o, t, S)) \in Nat
      /\ Flying(b, c, S) = Cardinality(Elsewhere(b, c, o, t, S))
                             + Occurs(c[o], S) + Occurs(b[t], For(t, S))
  BY <1>0, FlyingParts
<1>2. /\ Cardinality(Elsewhere(b2, c2, o, t, S)) \in Nat
      /\ Flying(b2, c2, S) = Cardinality(Elsewhere(b2, c2, o, t, S))
                             + Occurs(c2[o], S) + Occurs(b2[t], For(t, S))
  BY <1>0, FlyingParts
<1>3. Elsewhere(b, c, o, t, S) = Elsewhere(b2, c2, o, t, S)
  <2>1. ASSUME NEW x
        PROVE  x \in Elsewhere(b, c, o, t, S) <=> x \in Elsewhere(b2, c2, o, t, S)
    <3>1. ASSUME NEW p \in D, NEW i, x = <<p, "box", i>>, p # t
          PROVE  x \in Carried(b, c, S) <=> x \in Carried(b2, c2, S)
      <4>1. b2[p] = b[p] /\ Enveloped(b2, c2, x) = Enveloped(b, c, x)
        BY <3>1, <1>0, FlightIs
      <4>2. x \in Flight(b, c) <=> x \in Flight(b2, c2)
        BY <3>1, <4>1, <1>0, FlightIs
      <4> QED BY <4>1, <4>2 DEF Carried
    <3>2. ASSUME NEW p \in D, NEW i, x = <<p, "todo", i>>, p # o
          PROVE  x \in Carried(b, c, S) <=> x \in Carried(b2, c2, S)
      <4>1. c2[p] = c[p] /\ Enveloped(b2, c2, x) = Enveloped(b, c, x)
        BY <3>2, <1>0, FlightIs
      <4>2. x \in Flight(b, c) <=> x \in Flight(b2, c2)
        BY <3>2, <4>1, <1>0, FlightIs
      <4> QED BY <4>1, <4>2 DEF Carried
    <3>3. ASSUME x \in Flight(b, c) \/ x \in Flight(b2, c2)
          PROVE  \E p \in D : \E i : x = <<p, "box", i>> \/ x = <<p, "todo", i>>
      BY <3>3, <1>0, FlightIs
    <3>4. CASE \E p \in D : \E i : x = <<p, "box", i>> \/ x = <<p, "todo", i>>
      <4>1. PICK p \in D : \E i : x = <<p, "box", i>> \/ x = <<p, "todo", i>>
        BY <3>4
      <4>2. PICK i : x = <<p, "box", i>> \/ x = <<p, "todo", i>>
        BY <4>1
      <4> QED BY <4>2, <3>1, <3>2 DEF Elsewhere
    <3> QED BY <3>3, <3>4 DEF Elsewhere, Carried
  <2> QED BY <2>1 DEF Elsewhere
<1>4. /\ Occurs(c[o], S) \in Nat /\ Occurs(c2[o], S) \in Nat
      /\ Occurs(b[t], For(t, S)) \in Nat /\ Occurs(b2[t], For(t, S)) \in Nat
  BY <1>0, OccursNat DEF Lines
<1> QED BY <1>1, <1>2, <1>3, <1>4 DEF InBalance

\* o makes its next call, which is of t.
MakesCall(b, c, b2, c2, D, o, t) ==
    /\ o \in D /\ c[o] # <<>> /\ t \in D /\ t = Head(c[o]).to
    /\ b2 = [b EXCEPT ![t] = Append(b[t], Head(c[o]).msg)]
    /\ c2 = [c EXCEPT ![o] = Tail(c[o])]

\* Making a call moves it to a mailbox.
LEMMA CallFlies ==
    \A b, c, b2, c2, D, o, t :
        IsFiniteSet(D) /\ Lines(b, c, D) /\ MakesCall(b, c, b2, c2, D, o, t) =>
           /\ Lines(b2, c2, D)
           /\ \A S : (Head(c[o]) \in S <=> To(t, Head(c[o]).msg) \in S) =>
                /\ Flying(b2, c2, S) = Flying(b, c, S)
                /\ Flying(b, c, S) \in Nat
<1> SUFFICES
    ASSUME NEW b, NEW c, NEW b2, NEW c2, NEW D, IsFiniteSet(D), Lines(b, c, D),
           NEW o, NEW t, MakesCall(b, c, b2, c2, D, o, t)
    PROVE  /\ Lines(b2, c2, D)
           /\ \A S : (Head(c[o]) \in S <=> To(t, Head(c[o]).msg) \in S) =>
                /\ Flying(b2, c2, S) = Flying(b, c, S)
                /\ Flying(b, c, S) \in Nat
  OBVIOUS
<1> DEFINE m == Head(c[o]).msg
           q == Append(b[t], m)
<1>0. /\ o \in D /\ c[o] # <<>> /\ t \in D /\ t = Head(c[o]).to
      /\ b2 = [b EXCEPT ![t] = Append(b[t], Head(c[o]).msg)]
      /\ c2 = [c EXCEPT ![o] = Tail(c[o])]
  BY DEF MakesCall
<1>1. /\ IsSequence(c[o]) /\ IsSequence(b[t]) /\ DOMAIN b = D /\ DOMAIN c = D
      /\ \A p \in D : IsSequence(b[p]) /\ IsSequence(c[p])
  BY <1>0 DEF Lines
<1>2. IsSequence(Tail(c[o])) /\ IsSequence(q)
  BY <1>0, <1>1, SequenceTail, SequenceAppend
<1>3. \A S : Occurs(q, S) = Occurs(b[t], S) + IF m \in S THEN 1 ELSE 0
  BY <1>1, OccursAppend
<1>4. \A S : Occurs(c[o], S) = Occurs(Tail(c[o]), S) + IF Head(c[o]) \in S THEN 1 ELSE 0
  BY <1>0, <1>1, OccursTail
<1>5. \A S : /\ Occurs(b[t], S) \in Nat /\ Occurs(Tail(c[o]), S) \in Nat
             /\ Occurs(q, S) \in Nat /\ Occurs(c[o], S) \in Nat
  BY <1>1, <1>2, OccursNat
<1> HIDE DEF q, m
<1>6. /\ DOMAIN b2 = D /\ DOMAIN c2 = D /\ b2[t] = q /\ c2[o] = Tail(c[o])
      /\ \A p \in D : p # o => c2[p] = c[p]
      /\ \A p \in D : p # t => b2[p] = b[p]
  BY <1>0, <1>1 DEF q, m
<1>7. Lines(b2, c2, D)
  BY <1>1, <1>2, <1>6 DEF Lines
<1>8. ASSUME NEW S, Head(c[o]) \in S <=> To(t, Head(c[o]).msg) \in S
      PROVE  Flying(b2, c2, S) = Flying(b, c, S) /\ Flying(b, c, S) \in Nat
  <2>1. /\ Flying(b, c, S) \in Nat /\ Flying(b2, c2, S) \in Nat
        /\ Flying(b2, c2, S) + Occurs(c[o], S) + Occurs(b[t], For(t, S))
             = Flying(b, c, S) + Occurs(c2[o], S) + Occurs(b2[t], For(t, S))
    <3>1. Touches(b, c, b2, c2, D, o, t)
      BY <1>0, <1>6, <1>7 DEF Touches
    <3>2. InBalance(b, c, b2, c2, o, t, S)
      BY <3>1, FlyingChanges
    <3> QED BY <3>2 DEF InBalance
  <2>2. Head(c[o]) \in S <=> m \in For(t, S)
    BY <1>8, ForIs DEF m
  <2>3. Occurs(b2[t], For(t, S)) = Occurs(b[t], For(t, S)) + IF m \in For(t, S) THEN 1 ELSE 0
    BY <1>3, <1>6
  <2>4. Occurs(c[o], S) = Occurs(c2[o], S) + IF m \in For(t, S) THEN 1 ELSE 0
    BY <2>2, <1>4, <1>6
  <2>5. Occurs(b[t], For(t, S)) \in Nat /\ Occurs(c2[o], S) \in Nat
    BY <1>5, <1>6
  <2> QED BY <2>1, <2>3, <2>4, <2>5
<1> QED BY <1>7, <1>8

\* o takes its first message, and the method for it is to make these calls.
TakesUp(b, c, b2, c2, D, o, calls) ==
    /\ o \in D /\ b[o] # <<>> /\ c[o] = <<>> /\ IsSequence(calls)
    /\ b2 = [b EXCEPT ![o] = Tail(b[o])]
    /\ c2 = [c EXCEPT ![o] = calls]

LEMMA DoesFlies ==
    \A b, c, b2, c2, D, o, calls :
        IsFiniteSet(D) /\ Lines(b, c, D) /\ TakesUp(b, c, b2, c2, D, o, calls) =>
           /\ Lines(b2, c2, D)
           /\ \A S : /\ Flying(b2, c2, S) + (IF To(o, Head(b[o])) \in S THEN 1 ELSE 0)
                          = Flying(b, c, S) + Occurs(calls, S)
                     /\ Flying(b, c, S) \in Nat /\ Flying(b2, c2, S) \in Nat
                     /\ Occurs(calls, S) \in Nat
<1> SUFFICES
    ASSUME NEW b, NEW c, NEW b2, NEW c2, NEW D, IsFiniteSet(D), Lines(b, c, D),
           NEW o, NEW calls, TakesUp(b, c, b2, c2, D, o, calls)
    PROVE  /\ Lines(b2, c2, D)
           /\ \A S : /\ Flying(b2, c2, S) + (IF To(o, Head(b[o])) \in S THEN 1 ELSE 0)
                          = Flying(b, c, S) + Occurs(calls, S)
                     /\ Flying(b, c, S) \in Nat /\ Flying(b2, c2, S) \in Nat
                     /\ Occurs(calls, S) \in Nat
  OBVIOUS
<1>0. /\ o \in D /\ b[o] # <<>> /\ c[o] = <<>> /\ IsSequence(calls)
      /\ b2 = [b EXCEPT ![o] = Tail(b[o])]
      /\ c2 = [c EXCEPT ![o] = calls]
  BY DEF TakesUp
<1>1. /\ IsSequence(b[o]) /\ DOMAIN b = D /\ DOMAIN c = D
      /\ \A p \in D : IsSequence(b[p]) /\ IsSequence(c[p])
  BY <1>0 DEF Lines
<1>2. IsSequence(Tail(b[o]))
  BY <1>0, <1>1, SequenceTail
<1>3. \A S : Occurs(b[o], S) = Occurs(Tail(b[o]), S) + IF Head(b[o]) \in S THEN 1 ELSE 0
  BY <1>0, <1>1, OccursTail
<1>4. \A S : /\ Occurs(calls, S) \in Nat /\ Occurs(Tail(b[o]), S) \in Nat
             /\ Occurs(c[o], S) = 0
  BY <1>0, <1>1, <1>2, OccursNat, OccursFew
<1>5. /\ DOMAIN b2 = D /\ DOMAIN c2 = D /\ b2[o] = Tail(b[o]) /\ c2[o] = calls
      /\ \A p \in D : p # o => c2[p] = c[p] /\ b2[p] = b[p]
  BY <1>0, <1>1
<1>6. Lines(b2, c2, D)
  BY <1>0, <1>1, <1>2, <1>5 DEF Lines
<1>7. ASSUME NEW S
      PROVE  /\ Flying(b2, c2, S) + (IF To(o, Head(b[o])) \in S THEN 1 ELSE 0)
                  = Flying(b, c, S) + Occurs(calls, S)
             /\ Flying(b, c, S) \in Nat /\ Flying(b2, c2, S) \in Nat
  <2>1. /\ Flying(b, c, S) \in Nat /\ Flying(b2, c2, S) \in Nat
        /\ Flying(b2, c2, S) + Occurs(c[o], S) + Occurs(b[o], For(o, S))
             = Flying(b, c, S) + Occurs(c2[o], S) + Occurs(b2[o], For(o, S))
    <3>1. Touches(b, c, b2, c2, D, o, o)
      BY <1>0, <1>5, <1>6 DEF Touches
    <3>2. InBalance(b, c, b2, c2, o, o, S)
      BY <3>1, FlyingChanges
    <3> QED BY <3>2 DEF InBalance
  <2>2. To(o, Head(b[o])) \in S <=> Head(b[o]) \in For(o, S)
    BY ForIs
  <2>3. Occurs(b[o], For(o, S))
          = Occurs(b2[o], For(o, S)) + IF Head(b[o]) \in For(o, S) THEN 1 ELSE 0
    BY <1>3, <1>5
  <2>4. /\ Occurs(b2[o], For(o, S)) \in Nat /\ Occurs(c2[o], S) = Occurs(calls, S)
        /\ Occurs(c2[o], S) \in Nat /\ Occurs(c[o], S) = 0
    BY <1>4, <1>5
  <2> QED BY <2>1, <2>2, <2>3, <2>4
<1> QED BY <1>4, <1>6, <1>7

\* The method of o goes on with other calls; the mailbox of t may be emptied.
Continues(b, c, b2, c2, D, o, t, calls) ==
    /\ o \in D /\ c[o] # <<>> /\ t \in D /\ IsSequence(calls)
    /\ \E q \in {b[t], <<>>} : b2 = [b EXCEPT ![t] = q] \/ b2 = b
    /\ c2 = [c EXCEPT ![o] = calls \o Tail(c[o])]

LEMMA ContinueFlies ==
    \A b, c, b2, c2, D, o, t, calls :
        IsFiniteSet(D) /\ Lines(b, c, D) /\ Continues(b, c, b2, c2, D, o, t, calls) =>
           /\ Lines(b2, c2, D)
           /\ \A S : /\ Flying(b2, c2, S) + (IF Head(c[o]) \in S THEN 1 ELSE 0)
                          <= Flying(b, c, S) + Occurs(calls, S)
                     /\ Flying(b, c, S) \in Nat /\ Flying(b2, c2, S) \in Nat
                     /\ Occurs(calls, S) \in Nat
<1> SUFFICES
    ASSUME NEW b, NEW c, NEW b2, NEW c2, NEW D, IsFiniteSet(D), Lines(b, c, D),
           NEW o, NEW t, NEW calls, Continues(b, c, b2, c2, D, o, t, calls)
    PROVE  /\ Lines(b2, c2, D)
           /\ \A S : /\ Flying(b2, c2, S) + (IF Head(c[o]) \in S THEN 1 ELSE 0)
                          <= Flying(b, c, S) + Occurs(calls, S)
                     /\ Flying(b, c, S) \in Nat /\ Flying(b2, c2, S) \in Nat
                     /\ Occurs(calls, S) \in Nat
  OBVIOUS
<1> DEFINE rest == Tail(c[o])
           s == calls \o rest
<1>0. /\ o \in D /\ c[o] # <<>> /\ t \in D /\ IsSequence(calls)
      /\ \E q \in {b[t], <<>>} : b2 = [b EXCEPT ![t] = q] \/ b2 = b
      /\ c2 = [c EXCEPT ![o] = calls \o Tail(c[o])]
  BY DEF Continues
<1>1. /\ IsSequence(b[t]) /\ IsSequence(c[o]) /\ DOMAIN b = D /\ DOMAIN c = D
      /\ \A p \in D : IsSequence(b[p]) /\ IsSequence(c[p])
  BY <1>0 DEF Lines
<1>2. IsSequence(rest) /\ IsSequence(<<>>)
  BY <1>0, <1>1, SequenceTail, SequenceFew
<1>3. \A S : Occurs(c[o], S) = Occurs(rest, S) + IF Head(c[o]) \in S THEN 1 ELSE 0
  BY <1>0, <1>1, OccursTail
<1> HIDE DEF rest
<1>4. IsSequence(s) /\ \A S : Occurs(s, S) = Occurs(calls, S) + Occurs(rest, S)
  BY <1>0, <1>2, SequenceConcat, OccursConcat
<1>5. \A S : Occurs(calls, S) \in Nat /\ Occurs(rest, S) \in Nat
             /\ Occurs(b[t], S) \in Nat /\ Occurs(<<>>, S) = 0
  BY <1>0, <1>1, <1>2, OccursNat, OccursFew
<1> HIDE DEF s
<1>6. /\ DOMAIN b2 = D /\ DOMAIN c2 = D /\ b2[t] \in {b[t], <<>>} /\ c2[o] = s
      /\ \A p \in D : p # o => c2[p] = c[p]
      /\ \A p \in D : p # t => b2[p] = b[p]
  BY <1>0, <1>1 DEF s, rest
<1>7. Lines(b2, c2, D)
  <2>1. \A p \in D : IsSequence(b2[p]) /\ IsSequence(c2[p])
    BY <1>1, <1>2, <1>4, <1>6
  <2> QED BY <2>1, <1>6 DEF Lines
<1>8. ASSUME NEW S
      PROVE  /\ Flying(b2, c2, S) + (IF Head(c[o]) \in S THEN 1 ELSE 0)
                  <= Flying(b, c, S) + Occurs(calls, S)
             /\ Flying(b, c, S) \in Nat /\ Flying(b2, c2, S) \in Nat
  <2>1. /\ Flying(b, c, S) \in Nat /\ Flying(b2, c2, S) \in Nat
        /\ Flying(b2, c2, S) + Occurs(c[o], S) + Occurs(b[t], For(t, S))
             = Flying(b, c, S) + Occurs(c2[o], S) + Occurs(b2[t], For(t, S))
    <3>1. Touches(b, c, b2, c2, D, o, t)
      BY <1>0, <1>6, <1>7 DEF Touches
    <3>2. InBalance(b, c, b2, c2, o, t, S)
      BY <3>1, FlyingChanges
    <3> QED BY <3>2 DEF InBalance
  <2>2. Occurs(c2[o], S) = Occurs(calls, S) + Occurs(rest, S)
    BY <1>4, <1>6
  <2>3. b2[t] = b[t] \/ b2[t] = <<>>
    BY <1>6
  <2>4. /\ Occurs(b2[t], For(t, S)) <= Occurs(b[t], For(t, S))
        /\ Occurs(b2[t], For(t, S)) \in Nat /\ Occurs(b[t], For(t, S)) \in Nat
    BY <2>3, <1>5
  <2>5. /\ Occurs(c[o], S) = Occurs(rest, S) + IF Head(c[o]) \in S THEN 1 ELSE 0
        /\ Occurs(calls, S) \in Nat /\ Occurs(rest, S) \in Nat
    BY <1>3, <1>5
  <2> HIDE DEF s
  <2> QED BY <2>1, <2>2, <2>4, <2>5
<1> QED BY <1>5, <1>7, <1>8
=============================================================================
