-------------------------- MODULE AtomicFifoProofs --------------------------
(***************************************************************************)
(* Theorems about AtomicFifo, for any threads and any finite set of nodes. *)
(*                                                                         *)
(* The inductive invariant LInv says of the memory what a reader of pop    *)
(* keeps in mind: output_queue has one owner (OneOwner), what input_queue, *)
(* output_queue and the owner's pointers point to are lists that end       *)
(* (Lists), a pusher's node points to the input_queue it loaded (Memory),  *)
(* and each node is free, once in the queue, or in one hand (Places).      *)
(*                                                                         *)
(* A step of a thread t is described by Makes(t, q, x, fr): the queue      *)
(* becomes q, t's hand x and the free nodes fr.  There are five kinds of   *)
(* step, which Parted* show to keep Places, and which are the steps of     *)
(* FifoQueue.                                                              *)
(***************************************************************************)
EXTENDS AtomicFifo, SharedLemmas, FiniteSetTheorems, FunctionTheorems, TLAPS

(* One owner *)

\* Where a push or pop has a node in hand, it has one.
HandOK ==
    \A t \in Threads :
        pc[t] \in {"load", "swap", "take", "turn"} => at[t] \in Nodes

IInv == TypeOK /\ HandOK /\ OneOwner

LEMMA InitIInv == Init => IInv
BY FifoAssumption DEF Init, IInv, TypeOK, HandOK, OneOwner, Owners, Links

\* A step by which t comes to own output_queue.
LEMMA OwnerComes ==
    ASSUME IInv, NEW t \in Threads, Owners = {}, output' = Busy,
           NEW place \in {"take", "transfer"}, Goto(t, place)
    PROVE  OneOwner'
<1>1. Owners' = {t}
  BY DEF Owners, Goto, IInv, TypeOK
<1> QED
  BY <1>1 DEF OneOwner

\* A step by which t, the owner, gives output_queue back.
LEMMA OwnerGoes ==
    ASSUME IInv, NEW t \in Owners, output' # Busy, Goto(t, "idle")
    PROVE  OneOwner'
<1>1. Owners = {t}
  BY DEF OneOwner, IInv
<1>2. Owners' = {}
  BY <1>1 DEF Owners, Goto, IInv, TypeOK
<1> QED
  BY <1>2 DEF OneOwner

\* A step between two places that both own output_queue, or both do not.
LEMMA OwnerStays ==
    ASSUME IInv, NEW t \in Threads, output' = output,
           NEW place,
           place \in {"take", "transfer", "turn", "publish"} <=> t \in Owners,
           Goto(t, place)
    PROVE  OneOwner'
<1>1. Owners' = Owners
  BY DEF Owners, Goto, IInv, TypeOK
<1> QED
  BY <1>1 DEF OneOwner, IInv

LEMMA NextIInv == IInv /\ [Next]_vars => IInv'
<1> SUFFICES ASSUME IInv, [Next]_vars PROVE IInv'
  OBVIOUS
<1> USE FifoAssumption DEF IInv
<1>1. ASSUME NEW t \in Threads, NEW n \in Nodes, CallPush(t, n)
      PROVE  IInv'
  <2>1. TypeOK' /\ HandOK'
    BY <1>1 DEF CallPush, Goto, TypeOK, HandOK, Links
  <2>2. OneOwner'
    BY <1>1, OwnerStays DEF CallPush, Owners
  <2> QED BY <2>1, <2>2
<1>2. ASSUME NEW t \in Threads, CallPop(t)
      PROVE  IInv'
  <2>1. TypeOK' /\ HandOK'
    BY <1>2 DEF CallPop, Goto, TypeOK, HandOK
  <2>2. OneOwner'
    BY <1>2, OwnerStays DEF CallPop, Owners
  <2> QED BY <2>1, <2>2
<1>3. ASSUME NEW t \in Threads, PushLoad(t)
      PROVE  IInv'
  <2>1. TypeOK' /\ HandOK'
    BY <1>3 DEF PushLoad, Goto, TypeOK, HandOK, Links
  <2>2. OneOwner'
    BY <1>3, OwnerStays DEF PushLoad, Owners
  <2> QED BY <2>1, <2>2
<1>4. ASSUME NEW t \in Threads, PushSwap(t)
      PROVE  IInv'
  <2>1. TypeOK' /\ HandOK'
    BY <1>4 DEF PushSwap, Goto, TypeOK, HandOK, Links
  <2>2. OneOwner'
    BY <1>4, OwnerStays DEF PushSwap, Owners
  <2> QED BY <2>1, <2>2
<1>5. ASSUME NEW t \in Threads, PushRetry(t) \/ PushSpurious(t)
      PROVE  IInv'
  <2>1. TypeOK' /\ HandOK'
    BY <1>5 DEF PushRetry, PushSpurious, Goto, TypeOK, HandOK
  <2>2. OneOwner'
    BY <1>5, OwnerStays DEF PushRetry, PushSpurious, Owners
  <2> QED BY <2>1, <2>2
<1>6. ASSUME NEW t \in Threads, Acquire(t)
      PROVE  IInv'
  <2>1. /\ output \in Links /\ output' = Busy
        /\ at' = [at EXCEPT ![t] = output]
        /\ UNCHANGED <<next, input, old, rest, free>>
    BY <1>6 DEF Acquire, TypeOK
  <2>2. PICK place \in {"take", "transfer"} :
           Goto(t, place) /\ (place = "take" => output \in Nodes)
    BY <1>6, <2>1 DEF Acquire, Links
  <2>3. TypeOK' /\ HandOK'
    BY <2>1, <2>2 DEF Goto, TypeOK, HandOK, Links
  <2>4. OneOwner'
    BY <1>6, <2>1, <2>2, OwnerComes DEF Acquire, OneOwner
  <2> QED BY <2>3, <2>4
<1>7. ASSUME NEW t \in Threads, Take(t) \/ Publish(t)
      PROVE  IInv'
  <2>1. PICK new_output \in Links : Return(t, new_output) /\ t \in Owners
    BY <1>7 DEF Take, Publish, TypeOK, HandOK, Owners
  <2>2. TypeOK' /\ HandOK'
    BY <2>1 DEF Return, Goto, TypeOK, HandOK, Links
  <2>3. OneOwner'
    BY <2>1, OwnerGoes DEF Return, Links
  <2> QED BY <2>2, <2>3
<1>8. ASSUME NEW t \in Threads, Transfer(t)
      PROVE  IInv'
  <2>1. PICK place \in {"publish", "turn"} :
           Goto(t, place) /\ (place = "turn" => input \in Nodes)
    BY <1>8 DEF Transfer, TypeOK, Links
  <2>2. TypeOK' /\ HandOK'
    BY <1>8, <2>1 DEF Transfer, Goto, TypeOK, HandOK, Links
  <2>3. OneOwner'
    BY <1>8, <2>1, OwnerStays DEF Transfer, Owners
  <2> QED BY <2>2, <2>3
<1>9. ASSUME NEW t \in Threads, Turn(t)
      PROVE  IInv'
  <2>1. at[t] \in Nodes /\ next[at[t]] \in Links /\ pc[t] = "turn" /\ output' = output
    BY <1>9 DEF Turn, TypeOK, HandOK
  <2>2. TypeOK' /\ HandOK'
    BY <1>9, <2>1 DEF Turn, Goto, TypeOK, HandOK, Links
  <2>3. OneOwner'
    <3>1. CASE next[at[t]] # Null
      BY <1>9, <3>1 DEF Turn, OneOwner, Owners
    <3>2. CASE next[at[t]] = Null
      BY <1>9, <2>1, <3>2, OwnerStays DEF Turn, Owners
    <3> QED BY <3>1, <3>2
  <2> QED BY <2>2, <2>3
<1>10. CASE UNCHANGED vars
  BY <1>10 DEF vars, TypeOK, HandOK, OneOwner, Owners
<1> QED
  BY <1>1, <1>2, <1>3, <1>4, <1>5, <1>6, <1>7, <1>8, <1>9, <1>10 DEF Next, Work
-----------------------------------------------------------------------------
(* Lists along next *)

\* Chain, along any memory nx.
FromHead(nx, h) ==
    LET from[k \in 0 .. Cardinality(Nodes)] ==
            [n \in Links |->
               IF k = 0 \/ n = Null THEN <<>> ELSE <<n>> \o from[k - 1][nx[n]]]
    IN  from[Cardinality(Nodes)][h]

\* Chain is FromHead along next.
LEMMA ChainIs == \A h : Chain(h) = FromHead(next, h)
BY Zenon DEF Chain, FromHead

\* What defines from.
Follows(nx, f) ==
    \A k \in 0 .. Cardinality(Nodes), n \in Links :
        f[k][n] = IF k = 0 \/ n = Null THEN <<>> ELSE <<n>> \o f[k - 1][nx[n]]

\* There is such a function for any memory.
LEMMA FollowsExists ==
    ASSUME NEW nx \in [Nodes -> Links], NEW K \in Nat
    PROVE  \E f : f = [k \in 0 .. K |-> [n \in Links |->
                        IF k = 0 \/ n = Null THEN <<>> ELSE <<n>> \o f[k - 1][nx[n]]]]
<1> DEFINE V == [Links -> Seq(Nodes)]
           base == [n \in Links |-> <<>>]
           after(v) == [n \in Links |-> IF n = Null THEN <<>> ELSE <<n>> \o v[nx[n]]]
           step == [x \in Nat \X V |-> after(x[2])]
<1>1. base \in V
  OBVIOUS
<1>2. \A v \in V : after(v) \in V
  <2> SUFFICES ASSUME NEW v \in V, NEW n \in Links, n # Null
               PROVE  <<n>> \o v[nx[n]] \in Seq(Nodes)
    OBVIOUS
  <2>1. n \in Nodes /\ nx[n] \in Links
    BY DEF Links
  <2>2. v[nx[n]] \in Seq(Nodes) /\ <<n>> \in Seq(Nodes)
    BY <2>1
  <2> QED BY <2>2
<1> HIDE DEF after
<1>3. Steps(step, V)
  BY <1>2 DEF Steps
<1>4. \A k \in Nat, v \in V : step[<<k, v>>] = after(v)
  OBVIOUS
<1> HIDE DEF step, base, V
<1>5. PICK g : Recurses(g, K, V, base, step)
  BY <1>1, <1>3, Recursion
<1>6. /\ g \in [0 .. K -> V] /\ g[0] = base
      /\ \A i \in 1 .. K : g[i] = step[<<i, g[i - 1]>>]
  BY <1>5 DEF Recurses
<1> DEFINE body(k) == [n \in Links |->
                         IF k = 0 \/ n = Null THEN <<>> ELSE <<n>> \o g[k - 1][nx[n]]]
<1>7. ASSUME NEW k \in 0 .. K
      PROVE  g[k] = body(k)
  <2>1. CASE k = 0
    BY <2>1, <1>6 DEF base
  <2>2. CASE k # 0
    <3>1. k \in 1 .. K /\ k - 1 \in 0 .. K /\ k \in Nat
      BY <2>2
    <3>2. g[k - 1] \in V
      BY <3>1, <1>6
    <3>3. g[k] = after(g[k - 1])
      BY <3>1, <3>2, <1>4, <1>6
    <3> QED BY <2>2, <3>3 DEF after
  <2> QED BY <2>1, <2>2
<1>8. g = [k \in 0 .. K |-> g[k]]
  BY <1>6
<1> HIDE DEF body
<1>9. g = [k \in 0 .. K |-> body(k)]
  BY <1>7, <1>8
<1> QED BY <1>9 DEF body

\* FromHead is what such a function says of as many steps as there are nodes.
LEMMA FromFollows ==
    ASSUME NEW nx \in [Nodes -> Links]
    PROVE  \E f : Follows(nx, f) /\ \A h \in Links : FromHead(nx, h) = f[Cardinality(Nodes)][h]
<1> DEFINE K == Cardinality(Nodes)
           Def(f) == [k \in 0 .. K |-> [n \in Links |->
                        IF k = 0 \/ n = Null THEN <<>> ELSE <<n>> \o f[k - 1][nx[n]]]]
           f == CHOOSE f : f = Def(f)
<1>1. K \in Nat
  BY FifoAssumption, FS_CardinalityType
<1>2. \E x : x = Def(x)
  <2> HIDE DEF K
  <2> QED BY <1>1, FollowsExists
<1>3. f = Def(f)
  <2> HIDE DEF Def
  <2> QED BY <1>2
<1>4. \A h \in Links : FromHead(nx, h) = f[K][h]
  BY Zenon DEF FromHead
<1> HIDE DEF f
<1>5. Follows(nx, f)
  <2> SUFFICES ASSUME NEW k \in 0 .. K, NEW n \in Links
               PROVE  f[k][n] = IF k = 0 \/ n = Null THEN <<>> ELSE <<n>> \o f[k - 1][nx[n]]
    BY Zenon DEF Follows
  <2> DEFINE row(i) == [m \in Links |->
                          IF i = 0 \/ m = Null THEN <<>> ELSE <<m>> \o f[i - 1][nx[m]]]
  <2>1. f = [i \in 0 .. K |-> row(i)]
    BY <1>3, Zenon
  <2> HIDE DEF row, K
  <2>2. f[k] = row(k)
    BY <2>1
  <2> QED BY <2>2, Zenon DEF row
<1> QED BY <1>4, <1>5

\* The element i of s, and nullptr behind its end.
Link(s, i) == IF i \in 1 .. Len(s) THEN s[i] ELSE Null

\* s is the nodes from h along nx, to the node whose next is nullptr.
IsPath(nx, s, h) ==
    /\ s \in Seq(Nodes)
    /\ h = Link(s, 1)
    /\ \A i \in 1 .. Len(s) : nx[s[i]] = Link(s, i + 1)

\* s without its first i - 1 elements.
From(s, i) == [j \in 1 .. Len(s) + 1 - i |-> s[i + j - 1]]

LEMMA FromStep ==
    ASSUME NEW s \in Seq(Nodes), NEW i \in 1 .. Len(s)
    PROVE  From(s, i) = <<s[i]>> \o From(s, i + 1)
<1> DEFINE a == From(s, i)
           t == From(s, i + 1)
           n == Len(s)
           b == <<s[i]>> \o t
<1>1. n \in Nat /\ \A j \in 1 .. n : s[j] \in Nodes
  OBVIOUS
<1>2. /\ a \in Seq(Nodes) /\ Len(a) = n + 1 - i
      /\ \A j \in 1 .. n + 1 - i : a[j] = s[i + j - 1]
  <2>1. \A j \in 1 .. n + 1 - i : i + j - 1 \in 1 .. n
    BY <1>1
  <2>2. n + 1 - i \in Nat
    BY <1>1
  <2> QED BY <2>1, <2>2, <1>1 DEF From
<1>3. /\ t \in Seq(Nodes) /\ Len(t) = n - i
      /\ \A j \in 1 .. n - i : t[j] = s[i + 1 + j - 1]
  <2>1. \A j \in 1 .. n + 1 - (i + 1) : i + 1 + j - 1 \in 1 .. n
    BY <1>1
  <2>2. n + 1 - (i + 1) \in Nat /\ n + 1 - (i + 1) = n - i
    BY <1>1
  <2> QED BY <2>1, <2>2, <1>1 DEF From
<1>4. s[i] \in Nodes
  BY <1>1
<1> HIDE DEF a, t, n
<1>5. /\ b \in Seq(Nodes) /\ Len(b) = n - i + 1
      /\ b[1] = s[i]
      /\ \A j \in 2 .. n - i + 1 : b[j] = t[j - 1]
  BY <1>1, <1>3, <1>4
<1> HIDE DEF b
<1>6. i \in 1 .. n
  BY DEF n
<1>7. ASSUME NEW j \in 1 .. Len(a) PROVE a[j] = b[j]
  <2>1. CASE j = 1
    <3>1. i + 1 - 1 = i
      BY <1>6, <1>1
    <3> QED BY <2>1, <3>1, <1>2, <1>5
  <2>2. CASE j # 1
    <3> DEFINE k == j - 1
    <3>1. k \in 1 .. n - i /\ j \in 2 .. n - i + 1 /\ i + 1 + k - 1 = i + j - 1
      BY <2>2, <1>1, <1>2, <1>6
    <3>2. b[j] = t[k]
      BY <3>1, <1>5
    <3> HIDE DEF k
    <3>3. t[k] = s[i + 1 + k - 1]
      BY <3>1, <1>3
    <3> QED BY <3>1, <3>2, <3>3, <1>2
  <2> QED BY <2>1, <2>2
<1>8. Len(a) = Len(b)
  BY <1>1, <1>2, <1>5, <1>6
<1>9. a = b
  BY <1>2, <1>5, <1>7, <1>8, SeqEqual
<1> QED BY <1>9 DEF a, b, t

\* Such a function finds the rest of a path that is no longer than its steps.
LEMMA FollowsPath ==
    ASSUME NEW nx \in [Nodes -> Links], NEW f, Follows(nx, f), NEW s, NEW h,
           IsPath(nx, s, h)
    PROVE  \A k \in Nat : k \in 0 .. Cardinality(Nodes) =>
              \A i \in 1 .. Len(s) + 1 : Len(s) + 1 - i <= k => f[k][Link(s, i)] = From(s, i)
<1> DEFINE K == Cardinality(Nodes)
           T == {k \in Nat : k \in 0 .. K =>
                   \A i \in 1 .. Len(s) + 1 : Len(s) + 1 - i <= k => f[k][Link(s, i)] = From(s, i)}
<1>0. s \in Seq(Nodes) /\ Len(s) \in Nat /\ \A i \in 1 .. Len(s) : s[i] \in Nodes
  BY DEF IsPath
<1>1. \A i \in Nat : Link(s, i) \in Links
  BY <1>0 DEF Link, Links
<1>2. From(s, Len(s) + 1) = <<>> /\ Link(s, Len(s) + 1) = Null
  <2>1. Len(s) + 1 - (Len(s) + 1) = 0 /\ ~(Len(s) + 1 \in 1 .. Len(s))
    BY <1>0
  <2> QED BY <2>1 DEF From, Link
<1>3. \A k \in 0 .. K, n \in Links :
        f[k][n] = IF k = 0 \/ n = Null THEN <<>> ELSE <<n>> \o f[k - 1][nx[n]]
  BY DEF Follows
<1>4. \A k \in 0 .. K : f[k][Null] = <<>>
  BY <1>3 DEF Links
<1> HIDE DEF K
<1>5. 0 \in T
  <2> SUFFICES ASSUME 0 \in 0 .. K, NEW i \in 1 .. Len(s) + 1, Len(s) + 1 - i <= 0
               PROVE  f[0][Link(s, i)] = From(s, i)
    OBVIOUS
  <2>1. i = Len(s) + 1
    BY <1>0
  <2> QED BY <2>1, <1>2, <1>4
<1>6. ASSUME NEW k \in Nat, k \in T PROVE k + 1 \in T
  <2> SUFFICES ASSUME k + 1 \in 0 .. K, NEW i \in 1 .. Len(s) + 1, Len(s) + 1 - i <= k + 1
               PROVE  f[k + 1][Link(s, i)] = From(s, i)
    OBVIOUS
  <2> DEFINE l == k + 1
  <2>0. l \in 0 .. K /\ l # 0 /\ l - 1 = k /\ k \in 0 .. K
    <3>1. K \in Nat
      BY FifoAssumption, FS_CardinalityType DEF K
    <3> QED BY <3>1
  <2>1. CASE i = Len(s) + 1
    BY <2>0, <2>1, <1>2, <1>4
  <2>2. CASE i # Len(s) + 1
    <3>1. i \in 1 .. Len(s) /\ i + 1 \in 1 .. Len(s) + 1 /\ Len(s) + 1 - (i + 1) <= k
      BY <2>2, <1>0
    <3>2. f[k][Link(s, i + 1)] = From(s, i + 1)
      BY <3>1, <2>0, <1>6
    <3>3. Link(s, i) = s[i] /\ s[i] \in Nodes /\ s[i] # Null /\ nx[s[i]] = Link(s, i + 1)
      BY <3>1, <1>0, FifoAssumption DEF Link, IsPath
    <3> HIDE DEF l, T
    <3>4. f[l][s[i]] = <<s[i]>> \o f[l - 1][nx[s[i]]]
      BY <3>3, <2>0, <1>3 DEF Links
    <3>5. From(s, i) = <<s[i]>> \o From(s, i + 1)
      BY <3>1, <1>0, FromStep
    <3> QED BY <3>2, <3>3, <3>4, <3>5, <2>0 DEF l
  <2> QED BY <2>1, <2>2
<1> HIDE DEF T
<1>7. \A k \in Nat : k \in T
  BY <1>5, <1>6, NatSetInduction
<1> QED BY <1>7 DEF T, K

\* Along next no node comes twice on the way to nullptr.
LEMMA PathOnce ==
    ASSUME NEW nx, NEW s, NEW h, IsPath(nx, s, h)
    PROVE  Once(s)
<1>0. s \in Seq(Nodes) /\ Len(s) \in Nat /\ \A i \in 1 .. Len(s) : s[i] \in Nodes
  BY DEF IsPath
<1> DEFINE n == Len(s)
<1> SUFFICES ASSUME NEW i \in 1 .. n, NEW j \in 1 .. n, s[i] = s[j], i < j
             PROVE  FALSE
  BY <1>0 DEF Once
<1> DEFINE T == {d \in Nat : d \in 0 .. n - j => s[i + d] = s[j + d]}
<1>1. 0 \in T
  BY <1>0
<1>2. ASSUME NEW d \in Nat, d \in T PROVE d + 1 \in T
  <2> SUFFICES ASSUME d + 1 \in 0 .. n - j PROVE s[i + (d + 1)] = s[j + (d + 1)]
    OBVIOUS
  <2> DEFINE a == i + d
             b == j + d
  <2>1. /\ d \in 0 .. n - j /\ a \in 1 .. n /\ b \in 1 .. n
        /\ a + 1 = i + (d + 1) /\ b + 1 = j + (d + 1)
        /\ a + 1 \in 1 .. n /\ b + 1 \in 1 .. n
    BY <1>0
  <2>2. s[a] = s[b]
    BY <2>1, <1>2
  <2> HIDE DEF a, b
  <2>3. nx[s[a]] = s[a + 1] /\ nx[s[b]] = s[b + 1]
    BY <2>1 DEF IsPath, Link
  <2> QED BY <2>1, <2>2, <2>3
<1> DEFINE d == n - j
           a == i + d
<1>3. d \in Nat /\ d \in 0 .. n - j /\ j + d = n /\ a \in 1 .. n /\ a + 1 \in 1 .. n
      /\ n \in 1 .. n /\ ~(n + 1 \in 1 .. n)
  BY <1>0
<1>4. s[a] = s[n]
  <2> HIDE DEF T
  <2>1. d \in T
    BY <1>1, <1>2, <1>3, NatSetInduction
  <2> HIDE DEF d
  <2> QED BY <2>1, <1>3 DEF T
<1> HIDE DEF a
<1>5. nx[s[a]] = s[a + 1] /\ nx[s[n]] = Null /\ s[a + 1] \in Nodes
  BY <1>0, <1>3 DEF IsPath, Link
<1> QED BY <1>4, <1>5, FifoAssumption

\* A sequence without repetition is as long as it has elements.
LEMMA OnceCounts ==
    ASSUME NEW S, NEW s \in Seq(S), Once(s)
    PROVE  IsFiniteSet(Elements(s)) /\ Cardinality(Elements(s)) = Len(s)
<1>1. Len(s) \in Nat /\ \A i \in 1 .. Len(s) : s[i] \in S
  OBVIOUS
<1> DEFINE f == [i \in 1 .. Len(s) |-> s[i]]
<1>2. f \in Bijection(1 .. Len(s), Elements(s))
  <2>1. f \in [1 .. Len(s) -> Elements(s)]
    BY DEF Elements
  <2>2. \A i, j \in 1 .. Len(s) : f[i] = f[j] => i = j
    BY DEF Once
  <2>3. \A x \in Elements(s) : \E i \in 1 .. Len(s) : f[i] = x
    BY DEF Elements
  <2> QED BY <2>1, <2>2, <2>3, Fun_IsBij
<1>3. ExistsBijection(1 .. Len(s), Elements(s))
  BY <1>2 DEF ExistsBijection
<1> QED BY <1>1, <1>3, FS_CountingElements, FS_NatBijection

\* FromHead finds the path, which is no longer than there are nodes.
LEMMA PathIs ==
    ASSUME NEW nx \in [Nodes -> Links], NEW s, NEW h, IsPath(nx, s, h)
    PROVE  FromHead(nx, h) = s
<1> DEFINE K == Cardinality(Nodes)
<1>1. s \in Seq(Nodes) /\ Len(s) \in Nat /\ h = Link(s, 1)
      /\ \A i \in 1 .. Len(s) : s[i] \in Nodes
  BY DEF IsPath
<1>2. Len(s) <= K /\ K \in Nat
  <2>1. Once(s)
    BY PathOnce
  <2>2. IsFiniteSet(Elements(s)) /\ Cardinality(Elements(s)) = Len(s)
    BY <1>1, <2>1, OnceCounts
  <2>3. Elements(s) \subseteq Nodes
    BY <1>1 DEF Elements
  <2> QED BY <2>2, <2>3, FifoAssumption, FS_Subset, FS_CardinalityType
<1>3. PICK f : Follows(nx, f) /\ \A l \in Links : FromHead(nx, l) = f[Cardinality(Nodes)][l]
  BY FromFollows
<1>4. h \in Links
  BY <1>1 DEF Link, Links
<1>5. FromHead(nx, h) = f[K][h]
  BY <1>3, <1>4
<1>6. K \in 0 .. K /\ 1 \in 1 .. Len(s) + 1 /\ Len(s) + 1 - 1 <= K
  BY <1>1, <1>2
<1>7. f[K][Link(s, 1)] = From(s, 1)
  BY <1>2, <1>3, <1>6, FollowsPath
<1>8. From(s, 1) = s
  <2>1. Len(s) + 1 - 1 = Len(s) /\ \A j \in 1 .. Len(s) : 1 + j - 1 = j
    BY <1>1
  <2> QED BY <2>1, <1>1 DEF From
<1> QED BY <1>1, <1>5, <1>7, <1>8

\* What follows h along nx is a list that comes to an end.
Ends(nx, h) == IsPath(nx, FromHead(nx, h), h)

LEMMA PathEnds ==
    ASSUME NEW nx \in [Nodes -> Links], NEW s, NEW h, IsPath(nx, s, h)
    PROVE  Ends(nx, h) /\ FromHead(nx, h) = s
BY PathIs DEF Ends

LEMMA EndsType ==
    ASSUME NEW nx, NEW h, Ends(nx, h)
    PROVE  FromHead(nx, h) \in Seq(Nodes) /\ Once(FromHead(nx, h)) /\ h \in Links
<1>1. IsPath(nx, FromHead(nx, h), h)
  BY DEF Ends
<1> DEFINE s == FromHead(nx, h)
<1> HIDE DEF s
<1>2. s \in Seq(Nodes) /\ Once(s) /\ h = Link(s, 1)
  BY <1>1, PathOnce DEF s, IsPath
<1> QED BY <1>2 DEF Link, Links, s

\* The empty list.
LEMMA EndsNull ==
    ASSUME NEW nx \in [Nodes -> Links]
    PROVE  Ends(nx, Null) /\ FromHead(nx, Null) = <<>>
<1>1. IsPath(nx, <<>>, Null)
  BY DEF IsPath, Link
<1> QED BY <1>1, PathEnds

\* A node in front of a list.
LEMMA EndsCons ==
    ASSUME NEW nx \in [Nodes -> Links], NEW n \in Nodes, Ends(nx, nx[n])
    PROVE  Ends(nx, n) /\ FromHead(nx, n) = <<n>> \o FromHead(nx, nx[n])
<1> DEFINE s == FromHead(nx, nx[n])
           r == <<n>> \o s
<1>1. s \in Seq(Nodes) /\ Len(s) \in Nat /\ nx[n] = Link(s, 1)
      /\ \A i \in 1 .. Len(s) : nx[s[i]] = Link(s, i + 1)
  BY DEF Ends, IsPath
<1> HIDE DEF s
<1>2. /\ r \in Seq(Nodes) /\ Len(r) = Len(s) + 1 /\ r[1] = n
      /\ \A i \in 2 .. Len(s) + 1 : r[i] = s[i - 1]
  BY <1>1
<1> HIDE DEF r
<1>3. \A i \in 1 .. Len(s) + 1 : Link(r, i + 1) = Link(s, i)
  <2> SUFFICES ASSUME NEW i \in 1 .. Len(s) + 1 PROVE Link(r, i + 1) = Link(s, i)
    OBVIOUS
  <2> DEFINE j == i + 1
  <2>1. j - 1 = i /\ (j \in 1 .. Len(r) <=> i \in 1 .. Len(s))
        /\ (j \in 1 .. Len(r) => j \in 2 .. Len(s) + 1)
    BY <1>1, <1>2
  <2> HIDE DEF j
  <2>2. Link(r, j) = Link(s, i)
    BY <2>1, <1>2 DEF Link
  <2> QED BY <2>2 DEF j
<1>4. IsPath(nx, r, n)
  <2>1. n = Link(r, 1)
    BY <1>1, <1>2 DEF Link
  <2>2. ASSUME NEW i \in 1 .. Len(r) PROVE nx[r[i]] = Link(r, i + 1)
    <3>1. i \in 1 .. Len(s) + 1
      BY <1>2
    <3>2. CASE i = 1
      <4>1. 1 \in 1 .. Len(s) + 1 /\ Link(r, 1 + 1) = Link(s, 1)
        BY <1>1, <1>3
      <4> QED BY <4>1, <3>2, <1>1, <1>2
    <3>3. CASE i # 1
      <4> DEFINE j == i - 1
      <4>1. j \in 1 .. Len(s) /\ i \in 2 .. Len(s) + 1 /\ j + 1 = i
        BY <3>1, <3>3, <1>1
      <4>2. r[i] = s[j]
        BY <4>1, <1>2
      <4> HIDE DEF j
      <4>3. nx[s[j]] = Link(s, j + 1)
        BY <4>1, <1>1
      <4> QED BY <4>1, <4>2, <4>3, <3>1, <1>3
    <3> QED BY <3>2, <3>3
  <2> QED BY <2>1, <2>2, <1>2 DEF IsPath
<1>5. Ends(nx, n) /\ FromHead(nx, n) = r
  BY <1>4, PathEnds
<1> QED BY <1>5 DEF r, s

\* What follows the first node of a list.
LEMMA EndsNext ==
    ASSUME NEW nx \in [Nodes -> Links], NEW n \in Nodes, Ends(nx, n)
    PROVE  Ends(nx, nx[n]) /\ FromHead(nx, n) = <<n>> \o FromHead(nx, nx[n])
<1> DEFINE r == FromHead(nx, n)
           s == Tail(r)
<1>1. /\ r \in Seq(Nodes) /\ Len(r) \in Nat /\ n = Link(r, 1)
      /\ \A i \in 1 .. Len(r) : nx[r[i]] = Link(r, i + 1)
  BY DEF Ends, IsPath
<1> HIDE DEF r
<1>2. r # <<>> /\ 1 \in 1 .. Len(r) /\ r[1] = n
  BY <1>1, FifoAssumption DEF Link
<1>3. /\ s \in Seq(Nodes) /\ Len(s) = Len(r) - 1
      /\ \A i \in 1 .. Len(r) - 1 : s[i] = r[i + 1]
  BY <1>1, <1>2, HeadTailProperties
<1> HIDE DEF s
<1>4. \A i \in 1 .. Len(r) : Link(r, i + 1) = Link(s, i)
  <2> SUFFICES ASSUME NEW i \in 1 .. Len(r) PROVE Link(r, i + 1) = Link(s, i)
    OBVIOUS
  <2>1. i + 1 \in 1 .. Len(r) <=> i \in 1 .. Len(s)
    BY <1>1, <1>3
  <2>2. i \in 1 .. Len(s) => i \in 1 .. Len(r) - 1
    BY <1>3
  <2> QED BY <2>1, <2>2, <1>3 DEF Link
<1>5. IsPath(nx, s, nx[n])
  <2>1. nx[n] = Link(s, 1)
    BY <1>1, <1>2, <1>4
  <2>2. ASSUME NEW i \in 1 .. Len(s) PROVE nx[s[i]] = Link(s, i + 1)
    <3> DEFINE j == i + 1
    <3>1. j \in 1 .. Len(r) /\ i \in 1 .. Len(r) - 1
      BY <1>1, <1>3
    <3>2. s[i] = r[j]
      BY <3>1, <1>3
    <3> HIDE DEF j
    <3>3. nx[r[j]] = Link(s, j)
      BY <3>1, <1>1, <1>4
    <3> QED BY <3>2, <3>3 DEF j
  <2> QED BY <2>1, <2>2, <1>3 DEF IsPath
<1>6. Ends(nx, nx[n])
  BY <1>5, PathEnds
<1> QED BY <1>6, EndsCons

\* Where the nodes of a list keep their next, the list stays what it is.
LEMMA EndsKept ==
    ASSUME NEW nx \in [Nodes -> Links], NEW h, Ends(nx, h),
           NEW mx \in [Nodes -> Links],
           \A n \in Elements(FromHead(nx, h)) : mx[n] = nx[n]
    PROVE  Ends(mx, h) /\ FromHead(mx, h) = FromHead(nx, h)
<1> DEFINE s == FromHead(nx, h)
<1>1. IsPath(nx, s, h)
  BY DEF Ends
<1>2. \A i \in 1 .. Len(s) : mx[s[i]] = nx[s[i]]
  BY DEF Elements
<1> HIDE DEF s
<1>3. IsPath(mx, s, h)
  BY <1>1, <1>2 DEF IsPath
<1>4. Ends(mx, h) /\ FromHead(mx, h) = s
  BY <1>3, PathEnds
<1> QED BY <1>4 DEF s
-----------------------------------------------------------------------------
(* Every node in one place *)

\* The nodes are divided among the queue q, the hands h of the threads, and fr.
Parted(q, h, fr) ==
    /\ q \in Seq(Nodes) /\ Once(q)
    /\ fr \subseteq Nodes /\ Elements(q) \cap fr = {}
    /\ h \in [Threads -> Links]
    /\ \A t \in Threads : h[t] \notin fr /\ h[t] \notin Elements(q)
    /\ \A t, u \in Threads : h[t] = h[u] /\ h[t] # Null => t = u
    /\ \A n \in Nodes : n \in fr \/ n \in Elements(q) \/ \E t \in Threads : h[t] = n

LEMMA QueueInNodes ==
    ASSUME NEW q \in Seq(Nodes)
    PROVE  Elements(q) \subseteq Nodes
BY DEF Elements

\* A free node into the hand of t.
LEMMA PartedCallPush ==
    ASSUME NEW q, NEW h, NEW fr, Parted(q, h, fr),
           NEW t \in Threads, NEW n \in fr, h[t] = Null
    PROVE  Parted(q, [h EXCEPT ![t] = n], fr \ {n})
<1> n \in Nodes /\ n # Null /\ n \in Links
  BY FifoAssumption DEF Parted, Links
<1> DEFINE g == [h EXCEPT ![t] = n]
<1>1. g \in [Threads -> Links] /\ g[t] = n /\ \A u \in Threads \ {t} : g[u] = h[u]
  BY DEF Parted
<1> HIDE DEF g
<1>2. \A u \in Threads : g[u] \notin fr \ {n} /\ g[u] \notin Elements(q)
  BY <1>1 DEF Parted
<1>3. \A u, v \in Threads : g[u] = g[v] /\ g[u] # Null => u = v
  BY <1>1 DEF Parted
<1>4. ASSUME NEW m \in Nodes
      PROVE  m \in fr \ {n} \/ m \in Elements(q) \/ \E u \in Threads : g[u] = m
  <2>1. ASSUME NEW u \in Threads, h[u] = m PROVE g[u] = m
    BY <2>1, <1>1, FifoAssumption
  <2> QED BY <2>1, <1>1 DEF Parted
<1> QED BY <1>1, <1>2, <1>3, <1>4 DEF Parted, g

\* The node in the hand of t to the end of the queue.
LEMMA PartedPush ==
    ASSUME NEW q, NEW h, NEW fr, Parted(q, h, fr),
           NEW t \in Threads, h[t] # Null
    PROVE  Parted(Append(q, h[t]), [h EXCEPT ![t] = Null], fr)
<1> DEFINE g == [h EXCEPT ![t] = Null]
           n == h[t]
           p == Append(q, n)
<1>1. g \in [Threads -> Links] /\ g[t] = Null /\ \A u \in Threads \ {t} : g[u] = h[u]
  BY DEF Parted, Links
<1>2. n \in Nodes /\ n \notin Elements(q) /\ n \notin fr
  BY DEF Parted, Links
<1>3. p \in Seq(Nodes) /\ Once(p) /\ Elements(p) = Elements(q) \cup {n}
  BY <1>2, Appended DEF Parted
<1>0. n = h[t]
  OBVIOUS
<1> HIDE DEF g, p, n
<1>4. \A u \in Threads : g[u] \notin fr /\ g[u] \notin Elements(p)
  <2>1. Null \notin fr /\ Null \notin Elements(p)
    BY <1>3, QueueInNodes, FifoAssumption DEF Parted
  <2>2. ASSUME NEW u \in Threads \ {t} PROVE g[u] # n \/ g[u] = Null
    BY <1>0, <1>1 DEF Parted
  <2> QED BY <2>1, <2>2, <1>1, <1>3 DEF Parted
<1>5. \A u, v \in Threads : g[u] = g[v] /\ g[u] # Null => u = v
  BY <1>1 DEF Parted
<1>6. ASSUME NEW m \in Nodes
      PROVE  m \in fr \/ m \in Elements(p) \/ \E u \in Threads : g[u] = m
  <2>1. ASSUME NEW u \in Threads, h[u] = m PROVE m = n \/ g[u] = m
    BY <2>1, <1>0, <1>1
  <2> QED BY <2>1, <1>3 DEF Parted
<1>7. Elements(p) \cap fr = {}
  BY <1>2, <1>3 DEF Parted
<1>8. fr \subseteq Nodes
  BY DEF Parted
<1>9. Parted(p, g, fr)
  BY <1>1, <1>3, <1>4, <1>5, <1>6, <1>7, <1>8 DEF Parted
<1> QED BY <1>9 DEF g, p, n

\* The first node of the queue into the hand of t.
LEMMA PartedPop ==
    ASSUME NEW q, NEW h, NEW fr, Parted(q, h, fr),
           NEW t \in Threads, h[t] = Null, q # <<>>
    PROVE  Parted(Tail(q), [h EXCEPT ![t] = Head(q)], fr)
<1> DEFINE n == Head(q)
           g == [h EXCEPT ![t] = n]
           p == Tail(q)
<1>1. /\ p \in Seq(Nodes) /\ Once(p) /\ n \in Nodes /\ n \in Elements(q)
      /\ Elements(p) = Elements(q) \ {n}
  BY HeadTaken DEF Parted
<1> HIDE DEF p, n
<1>2. g \in [Threads -> Links] /\ g[t] = n /\ \A u \in Threads \ {t} : g[u] = h[u]
  BY <1>1 DEF Parted, Links
<1> HIDE DEF g
<1>4. \A u \in Threads : g[u] \notin fr /\ g[u] \notin Elements(p)
  BY <1>1, <1>2 DEF Parted
<1>5. \A u, v \in Threads : g[u] = g[v] /\ g[u] # Null => u = v
  BY <1>1, <1>2 DEF Parted
<1>6. ASSUME NEW m \in Nodes
      PROVE  m \in fr \/ m \in Elements(p) \/ \E u \in Threads : g[u] = m
  <2>1. ASSUME NEW u \in Threads, h[u] = m PROVE g[u] = m
    BY <2>1, <1>2, FifoAssumption
  <2> QED BY <2>1, <1>1, <1>2 DEF Parted
<1>7. Elements(p) \cap fr = {} /\ fr \subseteq Nodes
  BY <1>1 DEF Parted
<1>8. Parted(p, g, fr)
  BY <1>1, <1>2, <1>4, <1>5, <1>6, <1>7 DEF Parted
<1> QED BY <1>8 DEF g, p, n

\* The node in the hand of t, if any, to the free nodes.
LEMMA PartedReturn ==
    ASSUME NEW q, NEW h, NEW fr, Parted(q, h, fr), NEW t \in Threads
    PROVE  Parted(q, [h EXCEPT ![t] = Null], fr \cup ({h[t]} \ {Null}))
<1> DEFINE g == [h EXCEPT ![t] = Null]
           r == fr \cup ({h[t]} \ {Null})
<1>1. g \in [Threads -> Links] /\ g[t] = Null /\ \A u \in Threads \ {t} : g[u] = h[u]
  BY DEF Parted, Links
<1>2. r \subseteq Nodes /\ Elements(q) \cap r = {}
  BY DEF Parted, Links
<1> HIDE DEF g
<1>3. ASSUME NEW u \in Threads PROVE g[u] \notin r /\ g[u] \notin Elements(q)
  <2>1. CASE u = t
    <3>1. Null \notin Elements(q) /\ Null \notin r
      BY <1>2, QueueInNodes, FifoAssumption DEF Parted
    <3> QED BY <2>1, <3>1, <1>1
  <2>2. CASE u # t
    BY <2>2, <1>1 DEF Parted
  <2> QED BY <2>1, <2>2
<1>4. \A u, v \in Threads : g[u] = g[v] /\ g[u] # Null => u = v
  BY <1>1 DEF Parted
<1>5. ASSUME NEW m \in Nodes
      PROVE  m \in r \/ m \in Elements(q) \/ \E u \in Threads : g[u] = m
  <2>1. ASSUME NEW u \in Threads, h[u] = m PROVE m \in r \/ g[u] = m
    BY <2>1, <1>1, FifoAssumption
  <2> QED BY <2>1 DEF Parted
<1> HIDE DEF r
<1>6. q \in Seq(Nodes) /\ Once(q)
  BY DEF Parted
<1>7. Parted(q, g, r)
  BY <1>1, <1>2, <1>3, <1>4, <1>5, <1>6 DEF Parted
<1> QED BY <1>7 DEF g, r
-----------------------------------------------------------------------------
(* The queue, the hands and the inductive invariant *)

\* The operators of AtomicFifo, of any values of its variables.
OwnersIn(p) == {t \in Threads : p[t] \in {"take", "transfer", "turn", "publish"}}

PoppedIn(nx, p, a, t) ==
    CASE p[t] \in {"take", "publish"} -> a[t]
      [] p[t] = "turn" -> Last(FromHead(nx, a[t]))
      [] OTHER -> Null

RemainderIn(nx, p, a, r, t) ==
    CASE p[t] = "take" -> FromHead(nx, nx[a[t]])
      [] p[t] = "transfer" -> <<>>
      [] p[t] = "turn" -> Reverse(Front(FromHead(nx, a[t]))) \o FromHead(nx, r[t])
      [] p[t] = "publish" -> FromHead(nx, r[t])

\* What is in front of the nodes of input_queue.
FrontIn(nx, o, p, a, r) ==
    IF OwnersIn(p) # {} THEN RemainderIn(nx, p, a, r, CHOOSE t \in OwnersIn(p) : TRUE)
    ELSE IF o = Busy THEN <<>> ELSE FromHead(nx, o)

QueueIn(nx, i, o, p, a, r) == FrontIn(nx, o, p, a, r) \o Reverse(FromHead(nx, i))

\* They are what AtomicFifo defines, before a step
LEMMA NowIs ==
    /\ Owners = OwnersIn(pc)
    /\ Queue = QueueIn(next, input, output, pc, at, rest)
    /\ \A t : Popped(t) = PoppedIn(next, pc, at, t)
BY Zenon DEF Owners, OwnersIn, Queue, QueueIn, FrontIn, Remainder, RemainderIn, Popped,
             PoppedIn, Chain, FromHead

\* and after it.
LEMMA ThenIs ==
    /\ Owners' = OwnersIn(pc')
    /\ Queue' = QueueIn(next', input', output', pc', at', rest')
    /\ \A t : Popped(t)' = PoppedIn(next', pc', at', t)
BY Zenon DEF Owners, OwnersIn, Queue, QueueIn, FrontIn, Remainder, RemainderIn, Popped,
             PoppedIn, Chain, FromHead

OneIn(p) == \A t, u \in OwnersIn(p) : t = u

\* With an owner, its remainder is in front; with none, the output list.
LEMMA OwnedFront ==
    ASSUME NEW nx, NEW o, NEW p, NEW a, NEW r, OneIn(p), NEW t \in OwnersIn(p)
    PROVE  FrontIn(nx, o, p, a, r) = RemainderIn(nx, p, a, r, t)
<1>1. OwnersIn(p) # {} /\ (CHOOSE u \in OwnersIn(p) : TRUE) = t
  BY DEF OneIn
<1> QED BY <1>1, Zenon DEF FrontIn

LEMMA FreeFront ==
    ASSUME NEW nx, NEW o, NEW p, NEW a, NEW r, OwnersIn(p) = {}, o # Busy
    PROVE  FrontIn(nx, o, p, a, r) = FromHead(nx, o)
BY Zenon DEF FrontIn

\* The node t has, in a push or a pop.
Hand(t) == IF t \in Pushers THEN at[t] ELSE Popped(t)
HandIn(nx, p, a, t) == IF p[t] \in {"load", "swap"} THEN a[t] ELSE PoppedIn(nx, p, a, t)
HandsIn(nx, p, a) == [t \in Threads |-> HandIn(nx, p, a, t)]

Hands == HandsIn(next, pc, at)

\* The lists are lists.
Lists ==
    /\ Ends(next, input)
    /\ output # Busy => Ends(next, output)
    /\ \A t \in Threads :
          /\ pc[t] \in {"take", "turn"} => Ends(next, at[t])
          /\ pc[t] \in {"turn", "publish"} => Ends(next, rest[t])

\* What the threads remember.
Memory ==
    \A t \in Threads :
        /\ pc[t] = "swap" => next[at[t]] = old[t]
        /\ pc[t] \in {"idle", "acquire", "transfer"} => at[t] = Null
        /\ pc[t] \notin {"turn", "publish"} => rest[t] = Null

Now == QueueIn(next, input, output, pc, at, rest)

Places == Parted(Now, Hands, free)

LInv == IInv /\ Lists /\ Memory /\ Places

LEMMA OwnersOne == OneOwner => OneIn(pc) /\ (output = Busy <=> OwnersIn(pc) # {})
BY DEF OneOwner, Owners, OwnersIn, OneIn

LEMMA OwnersOnePrime == OneOwner' => OneIn(pc') /\ (output' = Busy <=> OwnersIn(pc') # {})
BY DEF OneOwner, Owners, OwnersIn, OneIn

\* A step outside the owner's part leaves what is in front alone.
LEMMA FrontSame ==
    ASSUME OneOwner, OwnersIn(pc') = OwnersIn(pc), UNCHANGED <<next, output>>,
           \A u \in OwnersIn(pc) : pc'[u] = pc[u] /\ at'[u] = at[u] /\ rest'[u] = rest[u]
    PROVE  FrontIn(next', output', pc', at', rest') = FrontIn(next, output, pc, at, rest)
<1>1. CASE OwnersIn(pc) = {}
  BY <1>1, Zenon DEF FrontIn
<1>2. CASE OwnersIn(pc) # {}
  <2>1. PICK t \in OwnersIn(pc) : TRUE
    BY <1>2
  <2>2. OneIn(pc) /\ OneIn(pc') /\ t \in OwnersIn(pc')
    BY <2>1, OwnersOne DEF OneIn
  <2>3. FrontIn(next, output, pc, at, rest) = RemainderIn(next, pc, at, rest, t)
    BY <2>1, <2>2, OwnedFront
  <2>4. FrontIn(next', output', pc', at', rest') = RemainderIn(next', pc', at', rest', t)
    BY <2>1, <2>2, OwnedFront
  <2>5. RemainderIn(next', pc', at', rest', t) = RemainderIn(next, pc, at, rest, t)
    <3>1. next' = next /\ pc'[t] = pc[t] /\ at'[t] = at[t] /\ rest'[t] = rest[t]
      BY <2>1
    <3> QED BY <3>1, Zenon DEF RemainderIn
  <2> QED BY <2>3, <2>4, <2>5
<1> QED BY <1>1, <1>2

LEMMA QueueSame ==
    ASSUME OneOwner, OwnersIn(pc') = OwnersIn(pc),
           UNCHANGED <<next, input, output>>,
           \A u \in OwnersIn(pc) : pc'[u] = pc[u] /\ at'[u] = at[u] /\ rest'[u] = rest[u]
    PROVE  Now' = Now
<1>1. FrontIn(next', output', pc', at', rest') = FrontIn(next, output, pc, at, rest)
  BY FrontSame
<1> QED BY <1>1 DEF Now, QueueIn

LEMMA HandsType == \A t \in Threads : Hands[t] = HandIn(next, pc, at, t)
BY DEF Hands, HandsIn

\* A step by which only t's hand changes.
LEMMA HandsMove ==
    ASSUME NEW t \in Threads, NEW x,
           \A u \in Threads \ {t} :
              /\ pc'[u] = pc[u] /\ at'[u] = at[u]
              /\ pc[u] = "turn" => FromHead(next', at[u]) = FromHead(next, at[u]),
           HandIn(next', pc', at', t) = x
    PROVE  Hands' = [Hands EXCEPT ![t] = x]
<1>1. ASSUME NEW u \in Threads \ {t}
      PROVE  HandIn(next', pc', at', u) = HandIn(next, pc, at, u)
  BY DEF HandIn, PoppedIn
<1>2. Hands' = [u \in Threads |-> HandIn(next', pc', at', u)]
  BY DEF Hands, HandsIn
<1>3. Hands = [u \in Threads |-> HandIn(next, pc, at, u)]
  BY DEF Hands, HandsIn
<1> HIDE DEF Hands
<1>4. [Hands EXCEPT ![t] = x] = [u \in Threads |-> IF u = t THEN x ELSE HandIn(next, pc, at, u)]
  BY <1>3
<1> QED BY <1>1, <1>2, <1>4

-----------------------------------------------------------------------------
(* What the steps of push and the call of pop do *)

\* What a step of t does to the queue q, to t's hand and to the free nodes.
Makes(t, q, x, fr) ==
    /\ Now' = q
    /\ Hands' = [Hands EXCEPT ![t] = x]
    /\ free' = fr
    /\ Lists' /\ Memory'

\* The node goes from the callers into the hand of t.
LEMMA CallPushMakes ==
    ASSUME LInv, NEW t \in Threads, NEW n \in Nodes, CallPush(t, n)
    PROVE  Makes(t, Now, n, free \ {n}) /\ Hands[t] = Null
<1> USE DEF LInv, IInv
<1>1. /\ pc[t] = "idle" /\ pc' = [pc EXCEPT ![t] = "load"]
      /\ at' = [at EXCEPT ![t] = n]
      /\ UNCHANGED <<next, input, output, old, rest>> /\ free' = free \ {n}
  BY DEF CallPush, Goto
<1>2. /\ pc'[t] = "load" /\ at'[t] = n
      /\ \A u \in Threads \ {t} : pc'[u] = pc[u] /\ at'[u] = at[u]
  BY <1>1 DEF TypeOK
<1>3. OwnersIn(pc') = OwnersIn(pc) /\ t \notin OwnersIn(pc)
  BY <1>1, <1>2 DEF OwnersIn
<1>4. Now' = Now
  <2>1. \A u \in OwnersIn(pc) : u \in Threads \ {t}
    BY <1>3 DEF OwnersIn
  <2> QED BY <2>1, <1>1, <1>2, <1>3, QueueSame
<1>5. HandIn(next', pc', at', t) = n
  BY <1>2 DEF HandIn
<1>6. Hands' = [Hands EXCEPT ![t] = n]
  <2>1. \A u \in Threads \ {t} :
           /\ pc'[u] = pc[u] /\ at'[u] = at[u]
           /\ pc[u] = "turn" => FromHead(next', at[u]) = FromHead(next, at[u])
    BY <1>1, <1>2
  <2> QED BY <2>1, <1>5, HandsMove, Zenon
<1>7. Lists'
  BY <1>1, <1>2 DEF Lists
<1>8. Memory'
  BY <1>1, <1>2 DEF Memory
<1>9. Hands[t] = Null
  BY <1>1, HandsType DEF HandIn, PoppedIn
<1> QED BY <1>1, <1>4, <1>6, <1>7, <1>8, <1>9 DEF Makes

\* Where every list is as it was, so is all that is made of lists.
LEMMA CallPopMakes ==
    ASSUME LInv, NEW t \in Threads, CallPop(t)
    PROVE  Makes(t, Now, Null, free) /\ Hands[t] = Null
<1> USE DEF LInv, IInv
<1>1. /\ pc[t] = "idle" /\ pc' = [pc EXCEPT ![t] = "acquire"]
      /\ UNCHANGED <<next, input, output, at, old, rest, free>>
  BY DEF CallPop, Goto
<1>2. /\ pc'[t] = "acquire"
      /\ \A u \in Threads \ {t} : pc'[u] = pc[u]
  BY <1>1 DEF TypeOK
<1>3. OwnersIn(pc') = OwnersIn(pc) /\ t \notin OwnersIn(pc)
  BY <1>1, <1>2 DEF OwnersIn
<1>4. Now' = Now
  <2>1. \A u \in OwnersIn(pc) : u \in Threads \ {t}
    BY <1>3 DEF OwnersIn
  <2> QED BY <2>1, <1>1, <1>2, <1>3, QueueSame
<1>5. HandIn(next', pc', at', t) = Null
  BY <1>2 DEF HandIn, PoppedIn
<1>6. Hands' = [Hands EXCEPT ![t] = Null]
  <2>1. \A u \in Threads \ {t} :
           /\ pc'[u] = pc[u] /\ at'[u] = at[u]
           /\ pc[u] = "turn" => FromHead(next', at[u]) = FromHead(next, at[u])
    BY <1>1, <1>2
  <2> QED BY <2>1, <1>5, HandsMove, Zenon
<1>7. Lists'
  BY <1>1, <1>2 DEF Lists
<1>8. Memory'
  BY <1>1, <1>2 DEF Memory
<1>9. Hands[t] = Null
  BY <1>1, HandsType DEF HandIn, PoppedIn
<1> QED BY <1>1, <1>4, <1>6, <1>7, <1>8, <1>9 DEF Makes

\* Nothing but the place of t changes.
LEMMA PushRetryMakes ==
    ASSUME LInv, NEW t \in Threads, PushRetry(t) \/ PushSpurious(t)
    PROVE  Makes(t, Now, Hands[t], free)
<1> USE DEF LInv, IInv
<1>1. /\ pc[t] = "swap" /\ pc' = [pc EXCEPT ![t] = "load"]
      /\ UNCHANGED <<next, input, output, at, old, rest, free>>
  BY DEF PushRetry, PushSpurious, Goto
<1>2. /\ pc'[t] = "load"
      /\ \A u \in Threads \ {t} : pc'[u] = pc[u]
  BY <1>1 DEF TypeOK
<1>3. OwnersIn(pc') = OwnersIn(pc) /\ t \notin OwnersIn(pc)
  BY <1>1, <1>2 DEF OwnersIn
<1>4. Now' = Now
  <2>1. \A u \in OwnersIn(pc) : u \in Threads \ {t}
    BY <1>3 DEF OwnersIn
  <2> QED BY <2>1, <1>1, <1>2, <1>3, QueueSame
<1>5. HandIn(next', pc', at', t) = Hands[t]
  BY <1>1, <1>2, HandsType DEF HandIn
<1>6. Hands' = [Hands EXCEPT ![t] = Hands[t]]
  BY <1>1, <1>2, <1>5, HandsMove
<1>7. Lists'
  BY <1>1, <1>2 DEF Lists
<1>8. Memory'
  BY <1>1, <1>2 DEF Memory
<1> QED BY <1>1, <1>4, <1>6, <1>7, <1>8 DEF Makes
-----------------------------------------------------------------------------
(* The lists of the invariant *)

\* The input list is a list of nodes.
LEMMA InputList ==
    ASSUME LInv
    PROVE  /\ FromHead(next, input) \in Seq(Nodes)
           /\ Reverse(FromHead(next, input)) \in Seq(Nodes)
           /\ Elements(Reverse(FromHead(next, input))) = Elements(FromHead(next, input))
BY EndsType, ReverseType DEF LInv, Lists

\* What t has in its hand and what it leaves in the queue, by its place.
LEMMA TakeHas ==
    ASSUME LInv, NEW t \in Threads, pc[t] = "take"
    PROVE  /\ at[t] \in Nodes /\ Hands[t] = at[t]
           /\ Ends(next, next[at[t]])
           /\ FromHead(next, at[t]) = <<at[t]>> \o FromHead(next, next[at[t]])
           /\ RemainderIn(next, pc, at, rest, t) = FromHead(next, next[at[t]])
<1>1. at[t] \in Nodes /\ next \in [Nodes -> Links] /\ Ends(next, at[t])
  BY DEF LInv, IInv, HandOK, TypeOK, Lists
<1>2. Hands[t] = at[t]
  BY HandsType DEF HandIn, PoppedIn
<1>3. RemainderIn(next, pc, at, rest, t) = FromHead(next, next[at[t]])
  BY DEF RemainderIn
<1> QED BY <1>1, <1>2, <1>3, EndsNext

LEMMA TurnHas ==
    ASSUME LInv, NEW t \in Threads, pc[t] = "turn"
    PROVE  /\ at[t] \in Nodes /\ Ends(next, at[t]) /\ Ends(next, rest[t])
           /\ Ends(next, next[at[t]])
           /\ FromHead(next, at[t]) = <<at[t]>> \o FromHead(next, next[at[t]])
           /\ Hands[t] = Last(FromHead(next, at[t]))
           /\ RemainderIn(next, pc, at, rest, t)
                 = Reverse(Front(FromHead(next, at[t]))) \o FromHead(next, rest[t])
<1>1. at[t] \in Nodes /\ next \in [Nodes -> Links] /\ Ends(next, at[t]) /\ Ends(next, rest[t])
  BY DEF LInv, IInv, HandOK, TypeOK, Lists
<1>2. Hands[t] = Last(FromHead(next, at[t]))
  BY HandsType DEF HandIn, PoppedIn
<1>3. RemainderIn(next, pc, at, rest, t)
         = Reverse(Front(FromHead(next, at[t]))) \o FromHead(next, rest[t])
  BY DEF RemainderIn
<1> QED BY <1>1, <1>2, <1>3, EndsNext

LEMMA PublishHas ==
    ASSUME LInv, NEW t \in Threads, pc[t] = "publish"
    PROVE  /\ Hands[t] = at[t] /\ Ends(next, rest[t])
           /\ RemainderIn(next, pc, at, rest, t) = FromHead(next, rest[t])
<1>1. Ends(next, rest[t])
  BY DEF LInv, Lists
<1>2. Hands[t] = at[t]
  BY HandsType DEF HandIn, PoppedIn
<1>3. RemainderIn(next, pc, at, rest, t) = FromHead(next, rest[t])
  BY DEF RemainderIn
<1> QED BY <1>1, <1>2, <1>3

LEMMA TransferHas ==
    ASSUME LInv, NEW t \in Threads, pc[t] = "transfer"
    PROVE  /\ Hands[t] = Null
           /\ RemainderIn(next, pc, at, rest, t) = <<>>
BY HandsType DEF HandIn, PoppedIn, RemainderIn

\* What an owner leaves in front is a sequence of nodes.
LEMMA RemainderType ==
    ASSUME LInv, NEW t \in OwnersIn(pc)
    PROVE  RemainderIn(next, pc, at, rest, t) \in Seq(Nodes)
<1>1. t \in Threads /\ pc[t] \in {"take", "transfer", "turn", "publish"}
  BY DEF OwnersIn
<1>2. CASE pc[t] = "take"
  BY <1>1, <1>2, TakeHas, EndsType
<1>3. CASE pc[t] = "turn"
  <2> DEFINE c == FromHead(next, at[t])
             d == FromHead(next, rest[t])
             f == Reverse(Front(c))
  <2>1. c \in Seq(Nodes) /\ d \in Seq(Nodes) /\ c # <<>>
    <3>1. FromHead(next, next[at[t]]) \in Seq(Nodes) /\ at[t] \in Nodes
          /\ c = <<at[t]>> \o FromHead(next, next[at[t]]) /\ c \in Seq(Nodes)
          /\ d \in Seq(Nodes)
      BY <1>1, <1>3, TurnHas, EndsType
    <3> QED BY <3>1, ConsHeadTail
  <2>2. RemainderIn(next, pc, at, rest, t) = f \o d
    BY <1>1, <1>3, TurnHas
  <2> HIDE DEF c, d
  <2>3. f \in Seq(Nodes)
    BY <2>1, FrontLast, ReverseType
  <2> HIDE DEF f
  <2> QED BY <2>1, <2>2, <2>3, ElementsConcat
<1>4. CASE pc[t] = "publish"
  BY <1>1, <1>4, PublishHas, EndsType
<1>5. CASE pc[t] = "transfer"
  <2>1. RemainderIn(next, pc, at, rest, t) = <<>>
    BY <1>1, <1>5, TransferHas
  <2>2. <<>> \in Seq(Nodes)
    OBVIOUS
  <2> QED BY <2>1, <2>2, Zenon
<1> QED BY <1>1, <1>2, <1>3, <1>4, <1>5

NowFront == FrontIn(next, output, pc, at, rest)

\* The queue is the front and the input list turned round, which share no node.
LEMMA NowParts ==
    ASSUME LInv
    PROVE  /\ Now = NowFront \o Reverse(FromHead(next, input))
           /\ NowFront \in Seq(Nodes)
           /\ Now \in Seq(Nodes)
           /\ Elements(Now) = Elements(NowFront) \cup Elements(FromHead(next, input))
           /\ Elements(NowFront) \cap Elements(FromHead(next, input)) = {}
           /\ Once(NowFront)
<1>1. OneIn(pc) /\ (output = Busy <=> OwnersIn(pc) # {})
  BY OwnersOne DEF LInv, IInv
<1>2. NowFront \in Seq(Nodes)
  <2>1. CASE OwnersIn(pc) = {}
    <3>1. Ends(next, output) /\ output # Busy
      BY <1>1, <2>1 DEF LInv, Lists
    <3>2. NowFront = FromHead(next, output)
      BY <2>1, <3>1, FreeFront DEF NowFront
    <3> QED BY <3>1, <3>2, EndsType
  <2>2. CASE OwnersIn(pc) # {}
    <3>1. PICK t \in OwnersIn(pc) : TRUE
      BY <2>2
    <3>2. NowFront = RemainderIn(next, pc, at, rest, t)
      BY <1>1, <3>1, OwnedFront DEF NowFront
    <3> QED BY <3>1, <3>2, RemainderType
  <2> QED BY <2>1, <2>2
<1> DEFINE r == Reverse(FromHead(next, input))
<1>3. r \in Seq(Nodes) /\ Elements(r) = Elements(FromHead(next, input))
  BY InputList
<1>4. Now = NowFront \o r
  BY DEF Now, QueueIn, NowFront
<1>5. Once(Now)
  BY DEF LInv, Places, Parted
<1> HIDE DEF r
<1>6. /\ NowFront \o r \in Seq(Nodes)
      /\ Elements(NowFront \o r) = Elements(NowFront) \cup Elements(r)
      /\ Once(NowFront \o r) => Once(NowFront) /\ Once(r) /\ Elements(NowFront) \cap Elements(r) = {}
  BY <1>2, <1>3, ElementsConcat
<1> QED BY <1>2, <1>3, <1>4, <1>5, <1>6 DEF r

\* All nodes of lists are in the queue, or the last is in the owner's hand.
LEMMA ListsHeld ==
    ASSUME LInv
    PROVE  /\ Elements(FromHead(next, input)) \subseteq Elements(Now)
           /\ output # Busy => Elements(FromHead(next, output)) \subseteq Elements(Now)
           /\ \A t \in Threads :
                /\ pc[t] \in {"take", "turn"} =>
                      Elements(FromHead(next, at[t])) \subseteq Elements(Now) \cup {Hands[t]}
                /\ pc[t] \in {"turn", "publish"} =>
                      Elements(FromHead(next, rest[t])) \subseteq Elements(Now)
<1>1. OneIn(pc) /\ (output = Busy <=> OwnersIn(pc) # {})
  BY OwnersOne DEF LInv, IInv
<1>2. /\ NowFront \in Seq(Nodes)
      /\ Elements(Now) = Elements(NowFront) \cup Elements(FromHead(next, input))
  BY NowParts
<1>3. output # Busy => Elements(FromHead(next, output)) \subseteq Elements(Now)
  BY <1>1, <1>2, FreeFront DEF NowFront
<1>4. ASSUME NEW t \in Threads, t \in OwnersIn(pc)
      PROVE  RemainderIn(next, pc, at, rest, t) = NowFront
  BY <1>1, <1>4, OwnedFront DEF NowFront
<1>5. ASSUME NEW t \in Threads, pc[t] = "take"
      PROVE  Elements(FromHead(next, at[t])) \subseteq Elements(Now) \cup {Hands[t]}
  <2> DEFINE u == FromHead(next, next[at[t]])
             v == <<at[t]>>
  <2>1. /\ at[t] \in Nodes /\ Hands[t] = at[t]
        /\ u \in Seq(Nodes)
        /\ FromHead(next, at[t]) = v \o u
        /\ RemainderIn(next, pc, at, rest, t) = u
    BY <1>5, TakeHas, EndsType
  <2>2. t \in OwnersIn(pc)
    BY <1>5 DEF OwnersIn
  <2>3. v \in Seq(Nodes) /\ Elements(v) = {at[t]}
    BY <2>1, ElementsOne
  <2> HIDE DEF u, v
  <2>4. Elements(v \o u) = Elements(v) \cup Elements(u)
    BY <2>1, <2>3, ElementsConcat
  <2>5. u = NowFront
    BY <2>1, <2>2, <1>4
  <2> QED BY <2>1, <2>3, <2>4, <2>5, <1>2
<1>6. ASSUME NEW t \in Threads, pc[t] = "turn"
      PROVE  /\ Elements(FromHead(next, at[t])) \subseteq Elements(Now) \cup {Hands[t]}
             /\ Elements(FromHead(next, rest[t])) \subseteq Elements(Now)
  <2> DEFINE c == FromHead(next, at[t])
             d == FromHead(next, rest[t])
             f == Front(c)
             g == Reverse(f)
  <2>1. c \in Seq(Nodes) /\ d \in Seq(Nodes) /\ c # <<>>
    <3>1. FromHead(next, next[at[t]]) \in Seq(Nodes) /\ at[t] \in Nodes
          /\ c = <<at[t]>> \o FromHead(next, next[at[t]]) /\ c \in Seq(Nodes)
          /\ d \in Seq(Nodes)
      BY <1>6, TurnHas, EndsType
    <3> QED BY <3>1, ConsHeadTail
  <2>2. Hands[t] = Last(c) /\ RemainderIn(next, pc, at, rest, t) = g \o d
    BY <1>6, TurnHas
  <2>3. t \in OwnersIn(pc)
    BY <1>6 DEF OwnersIn
  <2> HIDE DEF c, d
  <2>4. f \in Seq(Nodes) /\ Elements(c) = Elements(f) \cup {Last(c)}
    BY <2>1, FrontLast
  <2> HIDE DEF f
  <2>5. g \in Seq(Nodes) /\ Elements(g) = Elements(f)
    BY <2>4, ReverseType
  <2> HIDE DEF g
  <2>6. Elements(g \o d) = Elements(g) \cup Elements(d)
    BY <2>1, <2>5, ElementsConcat
  <2>7. g \o d = NowFront
    BY <2>2, <2>3, <1>4
  <2>8. Elements(c) \subseteq Elements(Now) \cup {Hands[t]}
        /\ Elements(d) \subseteq Elements(Now)
    BY <2>2, <2>4, <2>5, <2>6, <2>7, <1>2
  <2> QED BY <2>8 DEF c, d
<1>7. ASSUME NEW t \in Threads, pc[t] = "publish"
      PROVE  Elements(FromHead(next, rest[t])) \subseteq Elements(Now)
  <2>1. t \in OwnersIn(pc)
    BY <1>7 DEF OwnersIn
  <2>2. NowFront = FromHead(next, rest[t])
    BY <1>7, <2>1, <1>4, PublishHas
  <2> QED BY <2>2, <1>2
<1> QED BY <1>2, <1>3, <1>5, <1>6, <1>7
-----------------------------------------------------------------------------
(* What the other steps do *)

\* A write to the next of a node that no list has leaves the lists as they are.
LEMMA WriteOutside ==
    ASSUME LInv, NEW n \in Nodes, NEW mx \in [Nodes -> Links],
           \A m \in Nodes : m # n => mx[m] = next[m],
           n \notin Elements(Now),
           \A u \in Threads : pc[u] \in {"take", "turn"} => Hands[u] # n
    PROVE  /\ Ends(mx, input) /\ FromHead(mx, input) = FromHead(next, input)
           /\ output # Busy => Ends(mx, output) /\ FromHead(mx, output) = FromHead(next, output)
           /\ \A u \in Threads :
                /\ pc[u] \in {"take", "turn"} =>
                      Ends(mx, at[u]) /\ FromHead(mx, at[u]) = FromHead(next, at[u])
                /\ pc[u] \in {"turn", "publish"} =>
                      Ends(mx, rest[u]) /\ FromHead(mx, rest[u]) = FromHead(next, rest[u])
                /\ pc[u] = "take" => FromHead(mx, mx[at[u]]) = FromHead(next, next[at[u]])
<1>1. next \in [Nodes -> Links]
  BY DEF LInv, IInv, TypeOK
<1>2. ASSUME NEW h, Ends(next, h), n \notin Elements(FromHead(next, h))
      PROVE  Ends(mx, h) /\ FromHead(mx, h) = FromHead(next, h)
  <2> DEFINE s == FromHead(next, h)
  <2>1. Elements(s) \subseteq Nodes
    BY <1>2, EndsType, QueueInNodes
  <2>2. \A m \in Elements(s) : mx[m] = next[m]
    BY <2>1, <1>1, <1>2
  <2> QED BY <2>2, <1>1, <1>2, EndsKept
<1>3. Ends(next, input) /\ n \notin Elements(FromHead(next, input))
  BY ListsHeld DEF LInv, Lists
<1>4. output # Busy => Ends(next, output) /\ n \notin Elements(FromHead(next, output))
  BY ListsHeld DEF LInv, Lists
<1>5. ASSUME NEW u \in Threads, pc[u] \in {"take", "turn"}
      PROVE  Ends(next, at[u]) /\ n \notin Elements(FromHead(next, at[u]))
  BY <1>5, ListsHeld DEF LInv, Lists
<1>6. ASSUME NEW u \in Threads, pc[u] \in {"turn", "publish"}
      PROVE  Ends(next, rest[u]) /\ n \notin Elements(FromHead(next, rest[u]))
  BY <1>6, ListsHeld DEF LInv, Lists
<1>7. ASSUME NEW u \in Threads, pc[u] = "take"
      PROVE  FromHead(mx, mx[at[u]]) = FromHead(next, next[at[u]])
  <2> DEFINE a == <<at[u]>>
             d == FromHead(next, next[at[u]])
  <2>1. at[u] \in Nodes /\ at[u] # n /\ Ends(next, next[at[u]])
        /\ FromHead(next, at[u]) = a \o d
    BY <1>7, TakeHas
  <2>2. d \in Seq(Nodes) /\ a \in Seq(Nodes)
    BY <2>1, EndsType, ElementsOne
  <2>3. n \notin Elements(a \o d)
    BY <2>1, <1>5, <1>7
  <2> HIDE DEF a, d
  <2>4. n \notin Elements(d)
    BY <2>2, <2>3, ElementsConcat
  <2>5. mx[at[u]] = next[at[u]]
    BY <2>1, <1>1
  <2>6. FromHead(mx, next[at[u]]) = FromHead(next, next[at[u]])
    BY <2>1, <2>4, <1>2 DEF d
  <2> QED BY <2>5, <2>6
<1> QED BY <1>1, <1>2, <1>3, <1>4, <1>5, <1>6, <1>7

\* What a thread in push has, and nobody else.
LEMMA PusherHas ==
    ASSUME LInv, NEW t \in Threads, pc[t] \in {"load", "swap"}
    PROVE  /\ Hands[t] = at[t] /\ at[t] \in Nodes /\ at[t] # Null
           /\ at[t] \notin Elements(Now)
           /\ \A u \in Threads \ {t} : Hands[u] # at[t]
<1>1. Hands[t] = at[t] /\ at[t] \in Nodes /\ at[t] # Null
  BY HandsType, FifoAssumption DEF LInv, IInv, HandOK, HandIn
<1> QED BY <1>1 DEF LInv, Places, Parted

\* The node t writes to is in no list, so the lists stay.
LEMMA PushLoadMakes ==
    ASSUME LInv, NEW t \in Threads, PushLoad(t)
    PROVE  Makes(t, Now, Hands[t], free)
<1> USE DEF LInv, IInv
<1> DEFINE n == at[t]
<1>1. /\ pc[t] = "load" /\ pc' = [pc EXCEPT ![t] = "swap"]
      /\ old' = [old EXCEPT ![t] = input]
      /\ next' = [next EXCEPT ![n] = input]
      /\ UNCHANGED <<input, output, at, rest, free>>
  BY DEF PushLoad, Goto
<1>2. /\ pc'[t] = "swap" /\ old'[t] = input
      /\ \A u \in Threads \ {t} : pc'[u] = pc[u] /\ old'[u] = old[u]
  BY <1>1 DEF TypeOK
<1>3. /\ Hands[t] = n /\ n \in Nodes /\ n # Null /\ n \notin Elements(Now)
      /\ \A u \in Threads \ {t} : Hands[u] # n
  BY <1>1, PusherHas
<1>4. /\ next'[n] = input /\ input \in Links
      /\ \A m \in Nodes : m # n => next'[m] = next[m]
  BY <1>1, <1>3 DEF TypeOK
<1>5. /\ Ends(next', input) /\ FromHead(next', input) = FromHead(next, input)
      /\ output # Busy => Ends(next', output) /\ FromHead(next', output) = FromHead(next, output)
      /\ \A u \in Threads :
           /\ pc[u] \in {"take", "turn"} =>
                 Ends(next', at[u]) /\ FromHead(next', at[u]) = FromHead(next, at[u])
           /\ pc[u] \in {"turn", "publish"} =>
                 Ends(next', rest[u]) /\ FromHead(next', rest[u]) = FromHead(next, rest[u])
           /\ pc[u] = "take" => FromHead(next', next'[at[u]]) = FromHead(next, next[at[u]])
  <2>1. \A u \in Threads : pc[u] \in {"take", "turn"} => Hands[u] # n
    BY <1>1, <1>3
  <2> HIDE DEF n, LInv, IInv
  <2>2. next' \in [Nodes -> Links]
    BY <1>1, <1>4, <1>3 DEF LInv, IInv, TypeOK
  <2> QED BY <2>1, <2>2, <1>3, <1>4, WriteOutside
<1> HIDE DEF n
<1>6. OwnersIn(pc') = OwnersIn(pc) /\ t \notin OwnersIn(pc)
  BY <1>1, <1>2 DEF OwnersIn
<1>7. FrontIn(next', output', pc', at', rest') = NowFront
  <2>0. OneIn(pc) /\ (output = Busy <=> OwnersIn(pc) # {}) /\ OneIn(pc')
    BY <1>6, OwnersOne DEF OneIn
  <2>1. CASE OwnersIn(pc) = {}
    <3>1. FrontIn(next', output', pc', at', rest') = FromHead(next', output')
      BY <2>0, <2>1, <1>1, <1>6, FreeFront
    <3>2. NowFront = FromHead(next, output)
      BY <2>0, <2>1, FreeFront DEF NowFront
    <3> QED BY <3>1, <3>2, <2>0, <2>1, <1>1, <1>5
  <2>2. CASE OwnersIn(pc) # {}
    <3>1. PICK u \in OwnersIn(pc) : TRUE
      BY <2>2
    <3>2. u \in Threads \ {t} /\ pc[u] \in {"take", "transfer", "turn", "publish"}
          /\ pc'[u] = pc[u]
      BY <3>1, <1>2, <1>6 DEF OwnersIn
    <3>3. NowFront = RemainderIn(next, pc, at, rest, u)
      BY <2>0, <3>1, OwnedFront DEF NowFront
    <3>4. FrontIn(next', output', pc', at', rest') = RemainderIn(next', pc', at', rest', u)
      BY <2>0, <3>1, <1>6, OwnedFront
    <3>5. RemainderIn(next', pc', at', rest', u) = RemainderIn(next, pc, at, rest, u)
      <4>1. CASE pc[u] = "take"
        BY <4>1, <3>2, <1>1, <1>5 DEF RemainderIn
      <4>2. CASE pc[u] = "transfer"
        BY <4>2, <3>2, <1>1, <1>5 DEF RemainderIn
      <4>3. CASE pc[u] = "turn"
        <5>1. FromHead(next', at'[u]) = FromHead(next, at[u])
              /\ FromHead(next', rest'[u]) = FromHead(next, rest[u])
          BY <4>3, <3>2, <1>1, <1>5
        <5>2. pc'[u] = "turn"
          BY <4>3, <3>2
        <5> QED BY <5>1, <5>2, <4>3 DEF RemainderIn
      <4>4. CASE pc[u] = "publish"
        BY <4>4, <3>2, <1>1, <1>5 DEF RemainderIn
      <4> QED BY <4>1, <4>2, <4>3, <4>4, <3>2
    <3> QED BY <3>3, <3>4, <3>5
  <2> QED BY <2>1, <2>2
<1>8. Now' = Now
  BY <1>1, <1>5, <1>7 DEF Now, QueueIn, NowFront
<1>9. HandIn(next', pc', at', t) = Hands[t]
  BY <1>1, <1>2, <1>3 DEF HandIn, n
<1>10. Hands' = [Hands EXCEPT ![t] = Hands[t]]
  <2>1. \A u \in Threads \ {t} :
           /\ pc'[u] = pc[u] /\ at'[u] = at[u]
           /\ pc[u] = "turn" => FromHead(next', at[u]) = FromHead(next, at[u])
    BY <1>1, <1>2, <1>5
  <2> QED BY <2>1, <1>9, HandsMove, Zenon
<1>11. Lists'
  BY <1>1, <1>2, <1>5 DEF Lists
<1>12. Memory'
  <2>1. ASSUME NEW u \in Threads, pc'[u] = "swap" PROVE next'[at'[u]] = old'[u]
    <3>1. CASE u = t
      BY <3>1, <1>1, <1>2, <1>4 DEF n
    <3>2. CASE u # t
      <4>1. pc[u] = "swap" /\ at[u] = Hands[u] /\ at[u] \in Nodes /\ at[u] # n
        BY <2>1, <3>2, <1>2, <1>3, PusherHas
      <4> QED BY <4>1, <3>2, <1>1, <1>2, <1>4 DEF Memory
    <3> QED BY <3>1, <3>2
  <2> QED BY <2>1, <1>1, <1>2 DEF Memory
<1> QED BY <1>1, <1>8, <1>10, <1>11, <1>12 DEF Makes

\* The node in the hand of t, which points to the input list, is put before it.
LEMMA PushSwapMakes ==
    ASSUME LInv, NEW t \in Threads, PushSwap(t)
    PROVE  Makes(t, Append(Now, Hands[t]), Null, free) /\ Hands[t] # Null
<1> USE DEF LInv, IInv
<1> DEFINE n == at[t]
<1>1. /\ pc[t] = "swap" /\ pc' = [pc EXCEPT ![t] = "idle"]
      /\ input = old[t] /\ input' = n
      /\ at' = [at EXCEPT ![t] = Null]
      /\ old' = [old EXCEPT ![t] = Null]
      /\ UNCHANGED <<next, output, rest, free>>
  BY DEF PushSwap, Goto
<1>2. /\ pc'[t] = "idle" /\ at'[t] = Null
      /\ \A u \in Threads \ {t} : pc'[u] = pc[u] /\ old'[u] = old[u] /\ at'[u] = at[u]
  BY <1>1 DEF TypeOK
<1>3. Hands[t] = n /\ n \in Nodes /\ n # Null
  BY <1>1, PusherHas
<1>4. next[n] = input /\ Ends(next, input) /\ next \in [Nodes -> Links]
  BY <1>1 DEF Memory, Lists, TypeOK
<1>5. Ends(next, n) /\ FromHead(next, n) = <<n>> \o FromHead(next, input)
  BY <1>3, <1>4, EndsCons
<1>6. OwnersIn(pc') = OwnersIn(pc) /\ t \notin OwnersIn(pc)
  BY <1>1, <1>2 DEF OwnersIn
<1>7. FrontIn(next', output', pc', at', rest') = NowFront
  <2>1. \A u \in OwnersIn(pc) : u \in Threads \ {t}
    BY <1>6 DEF OwnersIn
  <2> QED BY <2>1, <1>1, <1>2, <1>6, FrontSame DEF NowFront
<1>8. Now' = Append(Now, n)
  <2> DEFINE l == FromHead(next, input)
             r == Reverse(l)
  <2>1. l \in Seq(Nodes) /\ r \in Seq(Nodes)
    BY InputList
  <2>2. Now = NowFront \o r /\ NowFront \in Seq(Nodes)
    BY NowParts
  <2>3. Now' = NowFront \o Reverse(FromHead(next, n))
    BY <1>1, <1>7 DEF Now, QueueIn
  <2> HIDE DEF l, n
  <2>4. Reverse(<<n>> \o l) = Append(r, n)
    BY <2>1, <1>3, ReverseCons
  <2>5. NowFront \o Append(r, n) = Append(NowFront \o r, n)
    <3> HIDE DEF r
    <3> QED BY <2>1, <2>2, <1>3, ConcatThenAppend
  <2> QED BY <2>2, <2>3, <2>4, <2>5, <1>5 DEF l
<1> HIDE DEF n
<1>9. HandIn(next', pc', at', t) = Null
  BY <1>2 DEF HandIn, PoppedIn
<1>10. Hands' = [Hands EXCEPT ![t] = Null]
  <2>1. \A u \in Threads \ {t} :
           /\ pc'[u] = pc[u] /\ at'[u] = at[u]
           /\ pc[u] = "turn" => FromHead(next', at[u]) = FromHead(next, at[u])
    BY <1>1, <1>2
  <2> QED BY <2>1, <1>9, HandsMove, Zenon
<1>11. Lists'
  BY <1>1, <1>2, <1>5 DEF Lists
<1>12. Memory'
  BY <1>1, <1>2 DEF Memory
<1> QED BY <1>1, <1>3, <1>8, <1>10, <1>11, <1>12 DEF Makes

\* The first node of the output list, if any, comes into the hand of t.
LEMMA AcquireMakes ==
    ASSUME LInv, NEW t \in Threads, Acquire(t), OneOwner'
    PROVE  /\ Hands[t] = Null
           /\ output # Null => Now # <<>> /\ Makes(t, Tail(Now), Head(Now), free)
           /\ output = Null => Makes(t, Now, Null, free)
<1> USE DEF LInv, IInv
<1>1. /\ pc[t] = "acquire"
      /\ pc' = [pc EXCEPT ![t] = IF output = Null THEN "transfer" ELSE "take"]
      /\ output # Busy /\ output' = Busy
      /\ at' = [at EXCEPT ![t] = output]
      /\ UNCHANGED <<next, input, old, rest, free>>
  BY DEF Acquire, Goto
<1>2. /\ pc'[t] = (IF output = Null THEN "transfer" ELSE "take") /\ at'[t] = output
      /\ \A u \in Threads \ {t} : pc'[u] = pc[u] /\ at'[u] = at[u]
  BY <1>1 DEF TypeOK
<1>3. OwnersIn(pc) = {} /\ t \in OwnersIn(pc') /\ OneIn(pc')
  <2>1. t \in OwnersIn(pc')
    BY <1>2 DEF OwnersIn
  <2> QED BY <2>1, <1>1, OwnersOne, OwnersOnePrime
<1>4. Hands[t] = Null
  BY <1>1, HandsType DEF HandIn, PoppedIn
<1>5. output \in Links /\ Ends(next, output) /\ next \in [Nodes -> Links]
  BY <1>1 DEF TypeOK, Lists
<1>6. NowFront = FromHead(next, output)
  BY <1>1, <1>3, FreeFront DEF NowFront
<1>7. FrontIn(next', output', pc', at', rest') = RemainderIn(next, pc', at', rest', t)
  BY <1>1, <1>3, OwnedFront
<1> DEFINE l == FromHead(next, input)
           r == Reverse(l)
<1>8. r \in Seq(Nodes) /\ Now = NowFront \o r /\ NowFront \in Seq(Nodes)
  BY InputList, NowParts
<1>9. Now' = RemainderIn(next, pc', at', rest', t) \o r
  BY <1>1, <1>7 DEF Now, QueueIn
<1>10. ASSUME NEW x, HandIn(next', pc', at', t) = x
       PROVE  Hands' = [Hands EXCEPT ![t] = x]
  <2>1. \A u \in Threads \ {t} :
           /\ pc'[u] = pc[u] /\ at'[u] = at[u]
           /\ pc[u] = "turn" => FromHead(next', at[u]) = FromHead(next, at[u])
    BY <1>1, <1>2
  <2> QED BY <2>1, <1>10, HandsMove, Zenon
<1>11. Lists'
  BY <1>1, <1>2, <1>5 DEF Lists
<1>12. Memory'
  BY <1>1, <1>2 DEF Memory
<1> HIDE DEF r
<1>13. ASSUME output # Null
       PROVE  Now # <<>> /\ Makes(t, Tail(Now), Head(Now), free)
  <2> DEFINE o == output
             d == FromHead(next, next[o])
             v == <<o>>
             w == d \o r
  <2>1. o \in Nodes /\ Ends(next, next[o]) /\ NowFront = v \o d
    BY <1>5, <1>6, <1>13, EndsNext DEF Links
  <2>2. d \in Seq(Nodes) /\ v \in Seq(Nodes)
    BY <2>1, EndsType, ElementsOne
  <2>3. RemainderIn(next, pc', at', rest', t) = d
    BY <1>2, <1>13 DEF RemainderIn
  <2>4. HandIn(next', pc', at', t) = o
    BY <1>2, <1>13 DEF HandIn, PoppedIn
  <2> HIDE DEF d
  <2>5. w \in Seq(Nodes)
    BY <2>2, <1>8, ElementsConcat
  <2>6. Now = v \o w
    <3>1. \A a, b, c \in Seq(Nodes) : (a \o b) \o c = a \o (b \o c)
      BY ConcatThree
    <3> HIDE DEF v
    <3> QED BY <3>1, <2>1, <2>2, <1>8, Zenon
  <2> HIDE DEF w
  <2>7. Now # <<>> /\ Head(Now) = o /\ Tail(Now) = w
    BY <2>1, <2>5, <2>6, ConsHeadTail
  <2>8. Now' = w
    BY <2>3, <1>9 DEF w
  <2>9. Hands' = [Hands EXCEPT ![t] = o]
    BY <2>4, <1>10
  <2> QED BY <2>7, <2>8, <2>9, <1>1, <1>11, <1>12, Zenon DEF Makes
<1>14. ASSUME output = Null
       PROVE  Makes(t, Now, Null, free)
  <2>1. NowFront = <<>>
    BY <1>5, <1>6, <1>14, EndsNull
  <2>2. RemainderIn(next, pc', at', rest', t) = <<>>
    BY <1>2, <1>14 DEF RemainderIn
  <2>3. HandIn(next', pc', at', t) = Null
    BY <1>2, <1>14 DEF HandIn, PoppedIn
  <2>4. Now' = Now
    BY <2>1, <2>2, <1>8, <1>9
  <2>5. Hands' = [Hands EXCEPT ![t] = Null]
    BY <2>3, <1>10
  <2> QED BY <2>4, <2>5, <1>1, <1>11, <1>12 DEF Makes
<1> QED BY <1>4, <1>13, <1>14

\* The remainder of the owner becomes the output list.
LEMMA ReturnMakes ==
    ASSUME LInv, NEW t \in Threads, Take(t) \/ Publish(t), OneOwner'
    PROVE  Makes(t, Now, Null, free \cup ({Hands[t]} \ {Null}))
<1> USE DEF LInv, IInv
<1>1. PICK o :
         /\ pc[t] \in {"take", "publish"} /\ pc' = [pc EXCEPT ![t] = "idle"]
         /\ output' = o /\ free' = free \cup ({at[t]} \ {Null})
         /\ at' = [at EXCEPT ![t] = Null]
         /\ rest' = [rest EXCEPT ![t] = Null]
         /\ UNCHANGED <<next, input, old>>
         /\ o = IF pc[t] = "take" THEN next[at[t]] ELSE rest[t]
  BY DEF Take, Publish, Return, Goto
<1>2. /\ pc'[t] = "idle" /\ at'[t] = Null /\ rest'[t] = Null
      /\ \A u \in Threads \ {t} : pc'[u] = pc[u] /\ at'[u] = at[u] /\ rest'[u] = rest[u]
  BY <1>1 DEF TypeOK
<1>3. /\ Hands[t] = at[t] /\ Ends(next, o)
      /\ RemainderIn(next, pc, at, rest, t) = FromHead(next, o)
  <2>1. CASE pc[t] = "take"
    BY <2>1, <1>1, TakeHas
  <2>2. CASE pc[t] = "publish"
    BY <2>2, <1>1, PublishHas
  <2> QED BY <2>1, <2>2, <1>1
<1>4. o # Busy
  BY <1>3, EndsType, FifoAssumption DEF Links
<1>5. OwnersIn(pc') = {} /\ t \in OwnersIn(pc) /\ OneIn(pc)
  <2>1. t \in OwnersIn(pc)
    BY <1>1 DEF OwnersIn
  <2> QED BY <2>1, <1>1, <1>4, OwnersOne, OwnersOnePrime
<1>6. NowFront = FromHead(next, o)
  BY <1>3, <1>5, OwnedFront DEF NowFront
<1>7. FrontIn(next', output', pc', at', rest') = FromHead(next, o)
  BY <1>1, <1>4, <1>5, FreeFront
<1>8. Now' = Now
  BY <1>1, <1>6, <1>7 DEF Now, QueueIn, NowFront
<1>9. HandIn(next', pc', at', t) = Null
  BY <1>2 DEF HandIn, PoppedIn
<1>10. Hands' = [Hands EXCEPT ![t] = Null]
  <2>1. \A u \in Threads \ {t} :
           /\ pc'[u] = pc[u] /\ at'[u] = at[u]
           /\ pc[u] = "turn" => FromHead(next', at[u]) = FromHead(next, at[u])
    BY <1>1, <1>2
  <2> QED BY <2>1, <1>9, HandsMove, Zenon
<1>11. Lists'
  BY <1>1, <1>2, <1>3 DEF Lists
<1>12. Memory'
  BY <1>1, <1>2 DEF Memory
<1> QED BY <1>1, <1>3, <1>8, <1>10, <1>11, <1>12 DEF Makes

\* The oldest node of the input list, if any, comes into the hand of t.
LEMMA TransferMakes ==
    ASSUME LInv, NEW t \in Threads, Transfer(t), OneOwner'
    PROVE  /\ Hands[t] = Null
           /\ input # Null => Now # <<>> /\ Makes(t, Tail(Now), Head(Now), free)
           /\ input = Null => Now = <<>> /\ Makes(t, <<>>, Null, free)
<1> USE DEF LInv, IInv
<1>1. /\ pc[t] = "transfer"
      /\ pc' = [pc EXCEPT ![t] = IF input = Null THEN "publish" ELSE "turn"]
      /\ input' = Null
      /\ at' = [at EXCEPT ![t] = input]
      /\ UNCHANGED <<next, output, old, rest, free>>
  BY DEF Transfer, Goto
<1>2. /\ pc'[t] = (IF input = Null THEN "publish" ELSE "turn") /\ at'[t] = input
      /\ \A u \in Threads \ {t} : pc'[u] = pc[u] /\ at'[u] = at[u]
  BY <1>1 DEF TypeOK
<1>3. t \in OwnersIn(pc) /\ OneIn(pc) /\ t \in OwnersIn(pc') /\ OneIn(pc')
  <2>1. t \in OwnersIn(pc) /\ t \in OwnersIn(pc')
    BY <1>1, <1>2 DEF OwnersIn
  <2> QED BY <2>1, OwnersOne, OwnersOnePrime
<1>4. Hands[t] = Null /\ NowFront = <<>>
  BY <1>1, <1>3, TransferHas, OwnedFront DEF NowFront
<1>5. input \in Links /\ Ends(next, input) /\ next \in [Nodes -> Links] /\ rest[t] = Null
  BY <1>1 DEF TypeOK, Lists, Memory
<1> DEFINE l == FromHead(next, input)
           w == RemainderIn(next, pc', at', rest', t)
<1>6. l \in Seq(Nodes) /\ Reverse(l) \in Seq(Nodes) /\ Now = Reverse(l)
  <2>1. l \in Seq(Nodes) /\ Reverse(l) \in Seq(Nodes)
    BY InputList
  <2>2. Now = NowFront \o Reverse(l)
    BY NowParts
  <2> HIDE DEF l
  <2> QED BY <2>1, <2>2, <1>4
<1>7. Ends(next, Null) /\ FromHead(next, Null) = <<>>
  BY <1>5, EndsNull
<1>8. Now' = w \o <<>>
  <2>1. FrontIn(next', output', pc', at', rest') = w
    BY <1>1, <1>3, OwnedFront
  <2>2. Now' = w \o Reverse(FromHead(next, Null))
    BY <2>1, <1>1 DEF Now, QueueIn
  <2> QED BY <2>2, <1>7, ReverseEmpty
<1>10. ASSUME NEW x, HandIn(next', pc', at', t) = x
       PROVE  Hands' = [Hands EXCEPT ![t] = x]
  <2>1. \A u \in Threads \ {t} :
           /\ pc'[u] = pc[u] /\ at'[u] = at[u]
           /\ pc[u] = "turn" => FromHead(next', at[u]) = FromHead(next, at[u])
    BY <1>1, <1>2
  <2> QED BY <2>1, <1>10, HandsMove, Zenon
<1>11. Lists'
  BY <1>1, <1>2, <1>5, <1>7 DEF Lists
<1>12. Memory'
  BY <1>1, <1>2 DEF Memory
<1>13. ASSUME input # Null
       PROVE  Now # <<>> /\ Makes(t, Tail(Now), Head(Now), free)
  <2> DEFINE d == FromHead(next, next[input])
             f == Reverse(Front(l))
  <2>1. l # <<>>
    <3>1. input \in Nodes /\ Ends(next, next[input]) /\ l = <<input>> \o d
      BY <1>5, <1>13, EndsNext DEF Links
    <3>2. d \in Seq(Nodes)
      BY <3>1, EndsType
    <3> HIDE DEF d, l
    <3> QED BY <3>1, <3>2, ConsHeadTail
  <2>2. HandIn(next', pc', at', t) = Last(l)
    BY <1>1, <1>2, <1>13 DEF HandIn, PoppedIn
  <2>3. w = f \o <<>>
    BY <1>1, <1>2, <1>5, <1>7, <1>13 DEF RemainderIn
  <2> HIDE DEF l, w
  <2>4. Last(l) \in Nodes /\ f \in Seq(Nodes) /\ Now = <<Last(l)>> \o f
    BY <2>1, <1>6, FrontLast, ReverseType, ReverseTakes
  <2> HIDE DEF f
  <2>5. Now # <<>> /\ Head(Now) = Last(l) /\ Tail(Now) = f
    BY <2>4, ConsHeadTail
  <2>6. Now' = f
    BY <2>3, <2>4, <1>8, ConcatEmptySeq
  <2>7. Hands' = [Hands EXCEPT ![t] = Last(l)]
    BY <2>2, <1>10
  <2> QED BY <2>5, <2>6, <2>7, <1>1, <1>11, <1>12, Zenon DEF Makes
<1>14. ASSUME input = Null
       PROVE  Now = <<>> /\ Makes(t, <<>>, Null, free)
  <2>1. Now = <<>>
    BY <1>6, <1>7, <1>14, ReverseEmpty
  <2>2. w = <<>>
    BY <1>1, <1>2, <1>5, <1>7, <1>14 DEF RemainderIn
  <2>3. HandIn(next', pc', at', t) = Null
    BY <1>2, <1>14 DEF HandIn, PoppedIn
  <2> HIDE DEF w
  <2>4. Now' = <<>>
    BY <2>2, <1>8
  <2>5. Hands' = [Hands EXCEPT ![t] = Null]
    BY <2>3, <1>10
  <2> QED BY <2>1, <2>4, <2>5, <1>1, <1>11, <1>12 DEF Makes
<1> QED BY <1>4, <1>13, <1>14

\* The loop breaks at the oldest node.
LEMMA TurnEnds ==
    ASSUME LInv, NEW t \in Threads, Turn(t), next[at[t]] = Null, OneOwner'
    PROVE  Makes(t, Now, Hands[t], free)
<1> USE DEF LInv, IInv
<1>1. /\ pc[t] = "turn" /\ pc' = [pc EXCEPT ![t] = "publish"]
      /\ UNCHANGED <<next, input, output, at, old, rest, free>>
  BY DEF Turn, Goto
<1>2. pc'[t] = "publish" /\ \A u \in Threads \ {t} : pc'[u] = pc[u]
  BY <1>1 DEF TypeOK
<1>3. t \in OwnersIn(pc) /\ OneIn(pc) /\ t \in OwnersIn(pc') /\ OneIn(pc')
  <2>1. t \in OwnersIn(pc) /\ t \in OwnersIn(pc')
    BY <1>1, <1>2 DEF OwnersIn
  <2> QED BY <2>1, OwnersOne, OwnersOnePrime
<1> DEFINE n == at[t]
           c == FromHead(next, n)
           d == FromHead(next, rest[t])
<1>4. /\ n \in Nodes /\ Ends(next, rest[t])
      /\ c = <<n>> \o FromHead(next, Null)
      /\ Hands[t] = Last(c)
      /\ RemainderIn(next, pc, at, rest, t) = Reverse(Front(c)) \o d
  BY <1>1, TurnHas
<1>5. FromHead(next, Null) = <<>> /\ d \in Seq(Nodes)
  BY <1>4, EndsNull, EndsType DEF TypeOK
<1>6. RemainderIn(next, pc', at', rest', t) = d
  BY <1>1, <1>2 DEF RemainderIn
<1>7. HandIn(next', pc', at', t) = n
  BY <1>1, <1>2 DEF HandIn, PoppedIn
<1> HIDE DEF c, d, n
<1>8. c = Append(<<>>, n)
  BY <1>4, <1>5
<1>9. Last(c) = n /\ Front(c) = <<>>
  <2>1. <<>> \in Seq(Nodes)
    OBVIOUS
  <2>2. \A s \in Seq(Nodes), x \in Nodes : Front(Append(s, x)) = s /\ Last(Append(s, x)) = x
    BY FrontOfAppend
  <2> QED BY <2>1, <2>2, <1>4, <1>8, Zenon
<1>10. RemainderIn(next, pc, at, rest, t) = d
  BY <1>4, <1>5, <1>9, ReverseEmpty, ConcatEmptySeq
<1>11. FrontIn(next', output', pc', at', rest') = NowFront
  BY <1>1, <1>3, <1>6, <1>10, OwnedFront DEF NowFront
<1>12. Now' = Now
  BY <1>1, <1>11 DEF Now, QueueIn, NowFront
<1>13. Hands' = [Hands EXCEPT ![t] = Hands[t]]
  <2>1. \A u \in Threads \ {t} :
           /\ pc'[u] = pc[u] /\ at'[u] = at[u]
           /\ pc[u] = "turn" => FromHead(next', at[u]) = FromHead(next, at[u])
    BY <1>1, <1>2
  <2>2. HandIn(next', pc', at', t) = Hands[t]
    BY <1>4, <1>7, <1>9
  <2> QED BY <2>1, <2>2, HandsMove, Zenon
<1>14. Lists'
  BY <1>1, <1>2 DEF Lists
<1>15. Memory'
  BY <1>1, <1>2 DEF Memory
<1> QED BY <1>1, <1>12, <1>13, <1>14, <1>15 DEF Makes

\* One round of the loop moves a node from the one list to the other.
LEMMA TurnMoves ==
    ASSUME LInv, NEW t \in Threads, Turn(t), next[at[t]] # Null, OneOwner'
    PROVE  Makes(t, Now, Hands[t], free)
<1> USE DEF LInv, IInv
<1> DEFINE n == at[t]
           m == next[n]
           v == <<n>>
           c == FromHead(next, n)
           d == FromHead(next, rest[t])
           e == FromHead(next, m)
           l == FromHead(next, input)
           b == Reverse(Front(e))
           w == v \o d
<1>1. /\ pc[t] = "turn" /\ m # Null
      /\ at' = [at EXCEPT ![t] = m]
      /\ next' = [next EXCEPT ![n] = rest[t]]
      /\ rest' = [rest EXCEPT ![t] = n]
      /\ UNCHANGED <<pc, input, output, old, free>>
  BY DEF Turn
<1>2. /\ at'[t] = m /\ rest'[t] = n
      /\ \A u \in Threads \ {t} : at'[u] = at[u] /\ rest'[u] = rest[u]
  BY <1>1 DEF TypeOK
<1>3. t \in OwnersIn(pc) /\ OneIn(pc) /\ t \in OwnersIn(pc') /\ OneIn(pc')
      /\ output = Busy
  <2>1. t \in OwnersIn(pc) /\ t \in OwnersIn(pc')
    BY <1>1 DEF OwnersIn
  <2> QED BY <2>1, OwnersOne, OwnersOnePrime
<1>4. \A u \in Threads \ {t} : pc[u] \notin {"take", "turn", "publish"}
  BY <1>3 DEF OneIn, OwnersIn
<1>5. /\ n \in Nodes /\ Ends(next, n) /\ Ends(next, rest[t]) /\ Ends(next, m)
      /\ c = v \o e /\ Hands[t] = Last(c)
      /\ RemainderIn(next, pc, at, rest, t) = Reverse(Front(c)) \o d
  BY <1>1, TurnHas
<1>6. /\ next \in [Nodes -> Links] /\ next' \in [Nodes -> Links] /\ rest[t] \in Links
      /\ next'[n] = rest[t] /\ \A k \in Nodes : k # n => next'[k] = next[k]
  BY <1>1, <1>5 DEF TypeOK
<1>7. c \in Seq(Nodes) /\ Once(c) /\ d \in Seq(Nodes) /\ e \in Seq(Nodes)
      /\ v \in Seq(Nodes) /\ Elements(v) = {n}
  BY <1>5, EndsType, ElementsOne
<1>8. e # <<>>
  <2> DEFINE f == FromHead(next, next[m])
  <2>1. m \in Nodes /\ Ends(next, next[m]) /\ e = <<m>> \o f
    BY <1>1, <1>5, <1>6, EndsNext DEF Links
  <2>2. f \in Seq(Nodes)
    BY <2>1, EndsType
  <2> HIDE DEF e, f, m
  <2> QED BY <2>1, <2>2, ConsHeadTail
<1>9. l \in Seq(Nodes) /\ Ends(next, input)
      /\ NowFront \in Seq(Nodes) /\ Once(NowFront)
      /\ Elements(NowFront) \cap Elements(l) = {}
      /\ Elements(Now) = Elements(NowFront) \cup Elements(l)
  BY InputList, NowParts DEF Lists
<1>10. NowFront = Reverse(Front(c)) \o d
  BY <1>3, <1>5, OwnedFront DEF NowFront
<1>11. NowFront = b \o w /\ Last(c) = Last(e)
  <2> HIDE DEF c, d, e, n
  <2>1. \A s, r \in Seq(Nodes), x \in Nodes : s # <<>> =>
           /\ Reverse(Front(<<x>> \o s)) \o r = Reverse(Front(s)) \o (<<x>> \o r)
           /\ Last(<<x>> \o s) = Last(s)
    <3> SUFFICES ASSUME NEW s \in Seq(Nodes), NEW r \in Seq(Nodes), NEW x \in Nodes, s # <<>>
                 PROVE  /\ Reverse(Front(<<x>> \o s)) \o r = Reverse(Front(s)) \o (<<x>> \o r)
                        /\ Last(<<x>> \o s) = Last(s)
      BY Zenon
    <3> QED BY TurnedRound, Zenon
  <2> QED BY <2>1, <1>5, <1>7, <1>8, <1>10, Zenon
<1>12. /\ n \notin Elements(e) /\ n \notin Elements(d) /\ n \notin Elements(l)
       /\ n \in Elements(Now)
  <2> HIDE DEF c, d, e, l, v, m, n
  <2>1. n \notin Elements(e)
    BY <1>5, <1>7, ElementsConcat
  <2>2. b \in Seq(Nodes)
    BY <1>7, <1>8, FrontLast, ReverseType
  <2>3. w \in Seq(Nodes) /\ Elements(w) = {n} \cup Elements(d)
        /\ (Once(w) => n \notin Elements(d))
    BY <1>7, ElementsConcat
  <2> HIDE DEF b, w
  <2>4. Once(w) /\ Elements(NowFront) = Elements(b) \cup Elements(w)
    BY <2>2, <2>3, <1>9, <1>11, ElementsConcat
  <2> QED BY <2>1, <2>3, <2>4, <1>9
<1>13. ASSUME NEW h, Ends(next, h), n \notin Elements(FromHead(next, h))
       PROVE  Ends(next', h) /\ FromHead(next', h) = FromHead(next, h)
  <2> DEFINE s == FromHead(next, h)
  <2>1. Elements(s) \subseteq Nodes
    BY <1>13, EndsType, QueueInNodes
  <2>2. \A k \in Elements(s) : next'[k] = next[k]
    BY <2>1, <1>6, <1>13
  <2> QED BY <2>2, <1>6, <1>13, EndsKept
<1>14. /\ Ends(next', m) /\ FromHead(next', m) = e
       /\ Ends(next', rest[t]) /\ FromHead(next', rest[t]) = d
       /\ Ends(next', input) /\ FromHead(next', input) = l
  BY <1>5, <1>9, <1>12, <1>13
<1>15. Ends(next', n) /\ FromHead(next', n) = w
  <2>1. Ends(next', next'[n]) /\ FromHead(next', next'[n]) = d
    BY <1>6, <1>14
  <2> QED BY <2>1, <1>5, <1>6, EndsCons
<1>16. FrontIn(next', output', pc', at', rest') = NowFront
  <2>1. FrontIn(next', output', pc', at', rest') = RemainderIn(next', pc', at', rest', t)
    BY <1>3, OwnedFront
  <2>2. FromHead(next', at'[t]) = e /\ FromHead(next', rest'[t]) = w /\ pc'[t] = "turn"
    BY <1>1, <1>2, <1>14, <1>15
  <2> HIDE DEF e, w
  <2>3. RemainderIn(next', pc', at', rest', t) = b \o w
    BY <2>2 DEF RemainderIn
  <2> QED BY <2>1, <2>3, <1>11
<1>17. Now' = Now
  BY <1>1, <1>14, <1>16 DEF Now, QueueIn, NowFront
<1>18. HandIn(next', pc', at', t) = Hands[t]
  <2>1. FromHead(next', at'[t]) = e /\ pc'[t] = "turn"
    BY <1>1, <1>2, <1>14
  <2> HIDE DEF e, c
  <2> QED BY <2>1, <1>5, <1>11 DEF HandIn, PoppedIn
<1>19. Hands' = [Hands EXCEPT ![t] = Hands[t]]
  <2>1. \A u \in Threads \ {t} :
           /\ pc'[u] = pc[u] /\ at'[u] = at[u]
           /\ pc[u] = "turn" => FromHead(next', at[u]) = FromHead(next, at[u])
    BY <1>1, <1>2, <1>4
  <2> QED BY <2>1, <1>18, HandsMove, Zenon
<1>20. Lists'
  <2>1. Ends(next', input') /\ output' = Busy
    BY <1>1, <1>3, <1>14
  <2>2. ASSUME NEW u \in Threads
        PROVE  /\ pc'[u] \in {"take", "turn"} => Ends(next', at'[u])
               /\ pc'[u] \in {"turn", "publish"} => Ends(next', rest'[u])
    BY <1>1, <1>2, <1>4, <1>14, <1>15
  <2> QED BY <2>1, <2>2 DEF Lists
<1>21. Memory'
  <2>1. ASSUME NEW u \in Threads, pc[u] = "swap" PROVE next'[at'[u]] = old[u]
    <3>1. u # t /\ at[u] \in Nodes /\ at[u] \notin Elements(Now)
      BY <2>1, <1>1, PusherHas
    <3> QED BY <3>1, <2>1, <1>2, <1>6, <1>12 DEF Memory
  <2>2. ASSUME NEW u \in Threads
        PROVE  /\ pc[u] \in {"idle", "acquire", "transfer"} => at'[u] = Null
               /\ pc[u] \notin {"turn", "publish"} => rest'[u] = Null
    BY <1>1, <1>2 DEF Memory
  <2> QED BY <2>1, <2>2, <1>1 DEF Memory
<1> QED BY <1>1, <1>17, <1>19, <1>20, <1>21 DEF Makes

LEMMA TurnMakes ==
    ASSUME LInv, NEW t \in Threads, Turn(t), OneOwner'
    PROVE  Makes(t, Now, Hands[t], free)
BY TurnEnds, TurnMoves
-----------------------------------------------------------------------------
(* The invariant is inductive *)

\* It holds at the start, and a step of any kind keeps it.
LEMMA InitLInv == Init => LInv
<1> SUFFICES ASSUME Init PROVE LInv
  OBVIOUS
<1>1. /\ next = [n \in Nodes |-> Null] /\ input = Null /\ output = Null
      /\ pc = [t \in Threads |-> "idle"] /\ at = [t \in Threads |-> Null]
      /\ old = [t \in Threads |-> Null] /\ rest = [t \in Threads |-> Null]
      /\ free = Nodes
  BY DEF Init
<1>2. IInv
  BY InitIInv
<1>3. Ends(next, Null) /\ FromHead(next, Null) = <<>>
  BY <1>2, EndsNull DEF IInv, TypeOK
<1>4. Lists
  BY <1>1, <1>3 DEF Lists
<1>5. Memory
  BY <1>1 DEF Memory
<1>6. Now = <<>>
  <2>1. OwnersIn(pc) = {} /\ output # Busy
    BY <1>1, FifoAssumption DEF OwnersIn
  <2>2. FrontIn(next, output, pc, at, rest) = <<>>
    BY <2>1, <1>1, <1>3, FreeFront
  <2> QED BY <2>2, <1>1, <1>3, ReverseEmpty DEF Now, QueueIn
<1>7. Hands = [t \in Threads |-> Null]
  <2>1. \A t \in Threads : HandIn(next, pc, at, t) = Null
    BY <1>1 DEF HandIn, PoppedIn
  <2> QED BY <2>1 DEF Hands, HandsIn
<1>8. Places
  <2>1. Now \in Seq(Nodes) /\ Once(Now) /\ Elements(Now) = {}
    BY <1>6 DEF Once, Elements
  <2>2. Hands \in [Threads -> Links] /\ \A t \in Threads : Hands[t] = Null
    BY <1>7 DEF Links
  <2> QED BY <2>1, <2>2, <1>1, FifoAssumption DEF Places, Parted
<1> QED BY <1>2, <1>4, <1>5, <1>8 DEF LInv

\* What a step of t may do to the queue, the hands and the free nodes.
LEMMA Moves ==
    ASSUME LInv, Next, OneOwner'
    PROVE  \E t \in Threads :
             \/ \E n \in free : Makes(t, Now, n, free \ {n}) /\ Hands[t] = Null
             \/ Makes(t, Append(Now, Hands[t]), Null, free) /\ Hands[t] # Null
             \/ Makes(t, Tail(Now), Head(Now), free) /\ Hands[t] = Null /\ Now # <<>>
             \/ Makes(t, Now, Null, free \cup ({Hands[t]} \ {Null}))
             \/ Makes(t, Now, Hands[t], free)
<1>1. PICK t \in Threads :
         \/ \E n \in Nodes : CallPush(t, n)
         \/ CallPop(t)
         \/ PushSpurious(t)
         \/ Work(t)
  BY DEF Next
<1>2. ASSUME NEW n \in Nodes, CallPush(t, n)
      PROVE  n \in free /\ Makes(t, Now, n, free \ {n}) /\ Hands[t] = Null
  BY <1>2, CallPushMakes DEF CallPush
<1>3. CASE CallPop(t)
  BY <1>3, CallPopMakes
<1>4. CASE PushSpurious(t) \/ PushRetry(t)
  BY <1>4, PushRetryMakes
<1>5. CASE PushLoad(t)
  BY <1>5, PushLoadMakes
<1>6. CASE PushSwap(t)
  BY <1>6, PushSwapMakes
<1>7. CASE Acquire(t)
  BY <1>7, AcquireMakes
<1>8. CASE Take(t) \/ Publish(t)
  BY <1>8, ReturnMakes
<1>9. CASE Transfer(t)
  BY <1>9, TransferMakes
<1>10. CASE Turn(t)
  BY <1>10, TurnMakes
<1> QED BY <1>1, <1>2, <1>3, <1>4, <1>5, <1>6, <1>7, <1>8, <1>9, <1>10, Zenon DEF Work

LEMMA NextLInv == LInv /\ [Next]_vars => LInv'
<1>1. ASSUME LInv, Next PROVE LInv'
  <2>1. IInv' /\ OneOwner'
    BY <1>1, NextIInv DEF LInv, IInv
  <2>2. Places
    BY <1>1 DEF LInv
  <2>3. PICK t \in Threads :
             \/ \E n \in free : Makes(t, Now, n, free \ {n}) /\ Hands[t] = Null
             \/ Makes(t, Append(Now, Hands[t]), Null, free) /\ Hands[t] # Null
             \/ Makes(t, Tail(Now), Head(Now), free) /\ Hands[t] = Null /\ Now # <<>>
             \/ Makes(t, Now, Null, free \cup ({Hands[t]} \ {Null}))
             \/ Makes(t, Now, Hands[t], free)
    BY <1>1, <2>1, Moves
  <2>4. ASSUME NEW q, NEW x, NEW fr, Makes(t, q, x, fr), Parted(q, [Hands EXCEPT ![t] = x], fr)
        PROVE  LInv'
    BY <2>1, <2>4 DEF LInv, Makes, Places
  <2>5. ASSUME NEW n \in free, Makes(t, Now, n, free \ {n}), Hands[t] = Null
        PROVE  LInv'
    <3>1. Parted(Now, [Hands EXCEPT ![t] = n], free \ {n})
      BY <2>2, <2>5, PartedCallPush DEF Places
    <3> QED BY <3>1, <2>4, <2>5, Zenon
  <2>6. ASSUME Makes(t, Append(Now, Hands[t]), Null, free), Hands[t] # Null
        PROVE  LInv'
    <3>1. Parted(Append(Now, Hands[t]), [Hands EXCEPT ![t] = Null], free)
      BY <2>2, <2>6, PartedPush DEF Places
    <3> QED BY <3>1, <2>4, <2>6, Zenon
  <2>7. ASSUME Makes(t, Tail(Now), Head(Now), free), Hands[t] = Null, Now # <<>>
        PROVE  LInv'
    <3>1. Parted(Tail(Now), [Hands EXCEPT ![t] = Head(Now)], free)
      BY <2>2, <2>7, PartedPop DEF Places
    <3> QED BY <3>1, <2>4, <2>7, Zenon
  <2>8. ASSUME Makes(t, Now, Null, free \cup ({Hands[t]} \ {Null}))
        PROVE  LInv'
    <3>1. Parted(Now, [Hands EXCEPT ![t] = Null], free \cup ({Hands[t]} \ {Null}))
      BY <2>2, PartedReturn DEF Places
    <3> QED BY <3>1, <2>4, <2>8, Zenon
  <2>9. ASSUME Makes(t, Now, Hands[t], free)
        PROVE  LInv'
    <3>1. [Hands EXCEPT ![t] = Hands[t]] = Hands
      BY <2>2 DEF Places, Parted
    <3> QED BY <3>1, <2>2, <2>4, <2>9, Zenon DEF Places
  <2> QED BY <2>3, <2>5, <2>6, <2>7, <2>8, <2>9, Zenon
<1>2. ASSUME LInv, UNCHANGED vars PROVE LInv'
  <2>1. IInv'
    BY <1>2, NextIInv DEF LInv
  <2>2. Now' = Now /\ Hands' = Hands
    BY <1>2, Zenon DEF vars, Now, Hands
  <2>3. Lists' /\ Memory'
    BY <1>2 DEF vars, LInv, Lists, Memory
  <2> QED BY <1>2, <2>1, <2>2, <2>3 DEF LInv, Places, vars
<1> QED BY <1>1, <1>2
-----------------------------------------------------------------------------
(* No node is lost *)

\* A node in a hand, of a thread that pushes or pops it.
LEMMA HandIs ==
    ASSUME TypeOK, HandOK, NEW t \in Threads
    PROVE  /\ t \in Pushers => Hands[t] = at[t] /\ at[t] \in Nodes /\ t \notin Poppers
           /\ t \notin Pushers => Hands[t] = Popped(t)
<1>1. Popped(t) = PoppedIn(next, pc, at, t)
  BY NowIs, Zenon
<1>2. ASSUME t \in Pushers
      PROVE  Hands[t] = at[t] /\ at[t] \in Nodes /\ t \notin Poppers
  BY <1>1, <1>2, HandsType DEF Pushers, Poppers, HandIn, PoppedIn, HandOK
<1>3. ASSUME t \notin Pushers PROVE Hands[t] = Popped(t)
  BY <1>1, <1>3, HandsType DEF Pushers, HandIn
<1> QED BY <1>2, <1>3

\* Sets of the same size, and a set of two parts.
LEMMA SameSize ==
    ASSUME NEW S, NEW T, ExistsBijection(S, T), IsFiniteSet(T)
    PROVE  Cardinality(T) = Cardinality(S)
BY Fun_ExistsBijSymmetric, FS_Bijection

LEMMA DisjointSum ==
    ASSUME NEW S, NEW T, IsFiniteSet(S), IsFiniteSet(T), S \cap T = {}
    PROVE  IsFiniteSet(S \cup T) /\ Cardinality(S \cup T) = Cardinality(S) + Cardinality(T)
<1>1. Cardinality(S) \in Nat /\ Cardinality(T) \in Nat
  BY FS_CardinalityType
<1> QED BY <1>1, FS_Union, FS_EmptySet

LEMMA NoneLost == LInv => NoNodeLost
<1> SUFFICES ASSUME LInv PROVE NoNodeLost
  OBVIOUS
<1>1. Parted(Now, Hands, free) /\ TypeOK /\ HandOK
  BY DEF LInv, IInv, Places
<1>2. Queue = Now
  BY NowIs DEF Now
<1>3. Now \in Seq(Nodes) /\ Once(Now) /\ Range(Queue) = Elements(Now)
  BY <1>1, <1>2, RangeIsElements DEF Parted
<1> DEFINE E == Elements(Now)
           P == {at[t] : t \in Pushers}
           O == {Popped(t) : t \in Poppers}
<1>4. ASSUME NEW t \in Threads
      PROVE  /\ t \in Pushers => Hands[t] = at[t] /\ at[t] \in Nodes /\ t \notin Poppers
             /\ t \in Poppers => Hands[t] = Popped(t) /\ Hands[t] # Null /\ Hands[t] \in Nodes
             /\ Hands[t] # Null => t \in Pushers \cup Poppers
  <2>1. Hands[t] \in Links
    BY <1>1 DEF Parted
  <2> QED BY <2>1, <1>1, HandIs DEF Poppers, Links
<1>5. Nodes = free \cup E \cup P \cup O
  <2>1. P \subseteq Nodes /\ O \subseteq Nodes
    BY <1>4 DEF Pushers, Poppers
  <2>2. E \subseteq Nodes
    BY <1>3, QueueInNodes
  <2>3. ASSUME NEW n \in Nodes, n \notin free, n \notin E PROVE n \in P \cup O
    <3>1. PICK t \in Threads : Hands[t] = n
      BY <2>3, <1>1 DEF Parted
    <3>2. n # Null
      BY FifoAssumption
    <3> QED BY <3>1, <3>2, <1>4
  <2> QED BY <2>1, <2>2, <2>3, <1>1 DEF Parted
<1>6. /\ free \cap E = {} /\ (free \cup E) \cap P = {} /\ (free \cup E \cup P) \cap O = {}
  <2>1. \A t \in Pushers \cup Poppers : t \in Threads
    BY DEF Pushers, Poppers
  <2>2. \A t \in Threads : Hands[t] \notin free /\ Hands[t] \notin E
    BY <1>1 DEF Parted
  <2>3. ASSUME NEW t \in Pushers, NEW u \in Poppers, at[t] = Popped(u) PROVE FALSE
    <3>1. Hands[t] = Hands[u] /\ Hands[t] # Null
      BY <2>1, <2>3, <1>4
    <3>2. t = u
      BY <3>1, <2>1, <1>1 DEF Parted
    <3> QED BY <3>2, <2>1, <1>4
  <2> QED BY <2>1, <2>2, <2>3, <1>1, <1>4 DEF Parted
<1>7. /\ IsFiniteSet(Nodes) /\ IsFiniteSet(free) /\ IsFiniteSet(E)
      /\ IsFiniteSet(P) /\ IsFiniteSet(O)
  BY <1>5, FifoAssumption, FS_Subset
<1>8. Cardinality(E) = Len(Queue)
  BY <1>2, <1>3, OnceCounts
<1>9. Cardinality(P) = Cardinality(Pushers)
  <2> DEFINE f == [t \in Pushers |-> at[t]]
  <2>1. f \in Bijection(Pushers, P)
    <3>1. f \in [Pushers -> P]
      OBVIOUS
    <3>2. \A t, u \in Pushers : f[t] = f[u] => t = u
      BY <1>1, <1>4, FifoAssumption DEF Parted, Pushers
    <3>3. \A x \in P : \E t \in Pushers : f[t] = x
      OBVIOUS
    <3> QED BY <3>1, <3>2, <3>3, Fun_IsBij
  <2>2. ExistsBijection(Pushers, P)
    BY <2>1 DEF ExistsBijection
  <2> QED BY <2>2, <1>7, SameSize
<1>10. Cardinality(O) = Cardinality(Poppers)
  <2> DEFINE f == [t \in Poppers |-> Popped(t)]
  <2>1. f \in Bijection(Poppers, O)
    <3>1. f \in [Poppers -> O]
      OBVIOUS
    <3>2. \A t, u \in Poppers : f[t] = f[u] => t = u
      BY <1>1, <1>4 DEF Parted, Poppers
    <3>3. \A x \in O : \E t \in Poppers : f[t] = x
      OBVIOUS
    <3> QED BY <3>1, <3>2, <3>3, Fun_IsBij
  <2>2. ExistsBijection(Poppers, O)
    BY <2>1 DEF ExistsBijection
  <2> QED BY <2>2, <1>7, SameSize
<1> HIDE DEF E, P, O
<1>11. Cardinality(Nodes) = Cardinality(free) + Cardinality(E) + Cardinality(P) + Cardinality(O)
  <2>1. IsFiniteSet(free \cup E)
        /\ Cardinality(free \cup E) = Cardinality(free) + Cardinality(E)
    BY <1>6, <1>7, DisjointSum
  <2>2. IsFiniteSet(free \cup E \cup P)
        /\ Cardinality(free \cup E \cup P) = Cardinality(free \cup E) + Cardinality(P)
    BY <2>1, <1>6, <1>7, DisjointSum
  <2>3. Cardinality(free \cup E \cup P \cup O) = Cardinality(free \cup E \cup P) + Cardinality(O)
    BY <2>2, <1>6, <1>7, DisjointSum
  <2> QED BY <2>1, <2>2, <2>3, <1>5
<1> QED BY <1>3, <1>5, <1>8, <1>9, <1>10, <1>11 DEF NoNodeLost, E, P, O
-----------------------------------------------------------------------------
(* push and pop as FifoQueue sees them *)

\* The call a thread is in, from its place and the node in its hand.
Op(place, n) ==
    CASE place = "idle" -> [op |-> "none", node |-> Null]
      [] place \in {"load", "swap"} -> [op |-> "push", node |-> n]
      [] place \in {"acquire", "transfer"} -> [op |-> "pop", node |-> Null]
      [] OTHER -> [op |-> "popped", node |-> n]

\* What AtomicFifo puts for call of FifoQueue.
CallOf(t) ==
    CASE pc[t] = "idle" -> [op |-> "none", node |-> Null]
      [] pc[t] \in {"load", "swap"} -> [op |-> "push", node |-> at[t]]
      [] pc[t] \in {"acquire", "transfer"} -> [op |-> "pop", node |-> Null]
      [] OTHER -> [op |-> "popped", node |-> Popped(t)]

CallsNow == [t \in Threads |-> CallOf(t)]

\* What FifoQueue sees of t is its place and its hand, before a step
LEMMA CallsAre == CallsNow = [t \in Threads |-> Op(pc[t], Hands[t])]
<1>1. ASSUME NEW t \in Threads
      PROVE  CallOf(t) = Op(pc[t], Hands[t])
  <2>1. Hands[t] = HandIn(next, pc, at, t) /\ Popped(t) = PoppedIn(next, pc, at, t)
    BY HandsType, NowIs, Zenon
  <2>2. CASE pc[t] \in {"load", "swap"}
    BY <2>1, <2>2 DEF CallOf, Op, HandIn
  <2>3. CASE pc[t] \notin {"load", "swap"}
    BY <2>1, <2>3 DEF CallOf, Op, HandIn
  <2> QED BY <2>2, <2>3
<1> QED BY <1>1 DEF CallsNow

\* and after it.
LEMMA CallsWillBe == (CallsNow = [t \in Threads |-> Op(pc[t], Hands[t])])'
BY CallsAre, PTL

\* A step of t as FifoQueue sees it.
LEMMA SeenAs ==
    ASSUME LInv, NEW t \in Threads, NEW q, NEW x, NEW fr, Makes(t, q, x, fr),
           NEW place, pc' = [pc EXCEPT ![t] = place]
    PROVE  /\ CallsNow[t] = Op(pc[t], Hands[t])
           /\ CallsNow' = [CallsNow EXCEPT ![t] = Op(place, x)]
           /\ Queue = Now /\ Queue' = q /\ free' = fr
<1>1. pc'[t] = place /\ \A u \in Threads \ {t} : pc'[u] = pc[u]
  BY DEF LInv, IInv, TypeOK
<1>2. Hands'[t] = x /\ \A u \in Threads \ {t} : Hands'[u] = Hands[u]
  BY DEF Makes, LInv, Places, Parted
<1>3. CallsNow = [u \in Threads |-> Op(pc[u], Hands[u])]
  BY CallsAre
<1>4. CallsNow' = [u \in Threads |-> Op(pc'[u], Hands'[u])]
  BY CallsWillBe
<1>5. \A u \in Threads : Op(pc'[u], Hands'[u]) = IF u = t THEN Op(place, x) ELSE Op(pc[u], Hands[u])
  BY <1>1, <1>2
<1> HIDE DEF CallsNow
<1>6. CallsNow' = [CallsNow EXCEPT ![t] = Op(place, x)]
  BY <1>3, <1>4, <1>5
<1>7. Queue = Now /\ Queue' = Now'
  BY NowIs, ThenIs, Zenon DEF Now
<1> QED BY <1>3, <1>6, <1>7 DEF Makes

LEMMA AsFifo ==
    /\ Fifo!Init <=> Queue = <<>> /\ CallsNow = [t \in Threads |-> Op("idle", Null)] /\ free = Nodes
    /\ Fifo!vars = <<Queue, CallsNow, free>>
BY Zenon DEF Fifo!Init, Fifo!vars, Fifo!Idle, Fifo!Call, CallsNow, CallOf, Op

\* The refinement: initial states to initial states, a step to a step or a stutter.
LEMMA InitImplements == Init => Fifo!Init
<1> SUFFICES ASSUME Init PROVE Fifo!Init
  OBVIOUS
<1>1. LInv
  BY InitLInv
<1>2. /\ pc = [t \in Threads |-> "idle"] /\ output = Null /\ input = Null /\ free = Nodes
  BY DEF Init
<1>3. Queue = <<>>
  <2>1. FromHead(next, Null) = <<>>
    BY <1>1, EndsNull DEF LInv, IInv, TypeOK
  <2>2. OwnersIn(pc) = {} /\ output # Busy
    BY <1>2, FifoAssumption DEF OwnersIn
  <2>3. FrontIn(next, output, pc, at, rest) = <<>>
    BY <2>1, <2>2, <1>2, FreeFront
  <2> QED BY <2>1, <2>3, <1>2, NowIs, ReverseEmpty DEF QueueIn
<1>4. CallsNow = [t \in Threads |-> Op("idle", Null)]
  BY <1>2 DEF CallsNow, CallOf, Op
<1> QED BY <1>2, <1>3, <1>4, AsFifo

\* The actions of FifoQueue, of what AtomicFifo puts for its variables.
LEMMA FifoActions ==
    ASSUME NEW t
    PROVE  /\ \A n : Fifo!CallPush(t, n) <=>
                 /\ CallsNow[t] = [op |-> "none", node |-> Null]
                 /\ n \in free
                 /\ CallsNow' = [CallsNow EXCEPT ![t] = [op |-> "push", node |-> n]]
                 /\ free' = free \ {n}
                 /\ Queue' = Queue
           /\ Fifo!DoPush(t) <=>
                 /\ CallsNow[t].op = "push"
                 /\ Queue' = Append(Queue, CallsNow[t].node)
                 /\ CallsNow' = [CallsNow EXCEPT ![t] = [op |-> "none", node |-> Null]]
                 /\ free' = free
           /\ Fifo!CallPop(t) <=>
                 /\ CallsNow[t] = [op |-> "none", node |-> Null]
                 /\ CallsNow' = [CallsNow EXCEPT ![t] = [op |-> "pop", node |-> Null]]
                 /\ UNCHANGED <<Queue, free>>
           /\ Fifo!DoPop(t) <=>
                 /\ CallsNow[t].op = "pop"
                 /\ \/ /\ Queue = <<>>
                       /\ CallsNow' = [CallsNow EXCEPT ![t] = [op |-> "popped", node |-> Null]]
                       /\ Queue' = Queue
                    \/ /\ Queue # <<>>
                       /\ CallsNow' = [CallsNow EXCEPT ![t] = [op |-> "popped", node |-> Head(Queue)]]
                       /\ Queue' = Tail(Queue)
                 /\ free' = free
           /\ Fifo!ReturnPop(t) <=>
                 /\ CallsNow[t].op = "popped"
                 /\ CallsNow' = [CallsNow EXCEPT ![t] = [op |-> "none", node |-> Null]]
                 /\ free' = free \cup ({CallsNow[t].node} \ {Null})
                 /\ Queue' = Queue
           /\ UNCHANGED Fifo!vars <=> UNCHANGED <<Queue, CallsNow, free>>
<1>1. \A n : Fifo!CallPush(t, n) <=>
                 /\ CallsNow[t] = [op |-> "none", node |-> Null]
                 /\ n \in free
                 /\ CallsNow' = [CallsNow EXCEPT ![t] = [op |-> "push", node |-> n]]
                 /\ free' = free \ {n}
                 /\ Queue' = Queue
  BY Zenon DEF Fifo!CallPush, Fifo!Idle, Fifo!Call, CallsNow, CallOf
<1>2. Fifo!DoPush(t) <=>
                 /\ CallsNow[t].op = "push"
                 /\ Queue' = Append(Queue, CallsNow[t].node)
                 /\ CallsNow' = [CallsNow EXCEPT ![t] = [op |-> "none", node |-> Null]]
                 /\ free' = free
  BY Zenon DEF Fifo!DoPush, Fifo!Idle, Fifo!Call, CallsNow, CallOf
<1>3. Fifo!CallPop(t) <=>
                 /\ CallsNow[t] = [op |-> "none", node |-> Null]
                 /\ CallsNow' = [CallsNow EXCEPT ![t] = [op |-> "pop", node |-> Null]]
                 /\ UNCHANGED <<Queue, free>>
  BY Zenon DEF Fifo!CallPop, Fifo!Idle, Fifo!Call, CallsNow, CallOf
<1>4. Fifo!DoPop(t) <=>
                 /\ CallsNow[t].op = "pop"
                 /\ \/ /\ Queue = <<>>
                       /\ CallsNow' = [CallsNow EXCEPT ![t] = [op |-> "popped", node |-> Null]]
                       /\ Queue' = Queue
                    \/ /\ Queue # <<>>
                       /\ CallsNow' = [CallsNow EXCEPT ![t] = [op |-> "popped", node |-> Head(Queue)]]
                       /\ Queue' = Tail(Queue)
                 /\ free' = free
  BY Zenon DEF Fifo!DoPop, Fifo!Call, CallsNow, CallOf
<1>5. Fifo!ReturnPop(t) <=>
                 /\ CallsNow[t].op = "popped"
                 /\ CallsNow' = [CallsNow EXCEPT ![t] = [op |-> "none", node |-> Null]]
                 /\ free' = free \cup ({CallsNow[t].node} \ {Null})
                 /\ Queue' = Queue
  BY Zenon DEF Fifo!ReturnPop, Fifo!Idle, Fifo!Call, CallsNow, CallOf
<1>6. UNCHANGED Fifo!vars <=> UNCHANGED <<Queue, CallsNow, free>>
  BY Zenon DEF Fifo!vars, CallsNow, CallOf
<1> QED BY <1>1, <1>2, <1>3, <1>4, <1>5, <1>6, Zenon

LEMMA NextImplements == LInv /\ [Next]_vars => [Fifo!Next]_(Fifo!vars)
<1>1. ASSUME LInv, Next PROVE [Fifo!Next]_(Fifo!vars)
  <2>0. OneOwner' /\ \A u \in Threads : pc[u] \in {"idle", "load", "swap", "acquire", "take",
                                             "transfer", "turn", "publish"}
    BY <1>1, NextIInv DEF LInv, IInv, TypeOK
  <2>1. PICK t \in Threads :
           \/ \E n \in Nodes : CallPush(t, n)
           \/ CallPop(t)
           \/ PushSpurious(t)
           \/ Work(t)
    BY <1>1 DEF Next
  <2> DEFINE Abstract ==
               \/ \E n \in Nodes : Fifo!CallPush(t, n)
               \/ Fifo!DoPush(t)
               \/ Fifo!CallPop(t)
               \/ Fifo!DoPop(t)
               \/ Fifo!ReturnPop(t)
               \/ UNCHANGED Fifo!vars
  <2>2. ASSUME Abstract PROVE [Fifo!Next]_(Fifo!vars)
    BY <2>2, Zenon DEF Fifo!Next
  <2>u. ASSUME UNCHANGED <<Queue, CallsNow, free>> PROVE Abstract
    BY <2>u, FifoActions, Zenon
  <2>3. ASSUME NEW n \in Nodes, CallPush(t, n) PROVE Abstract
    <3>1. Makes(t, Now, n, free \ {n}) /\ n \in free /\ pc[t] = "idle"
          /\ pc' = [pc EXCEPT ![t] = "load"]
      BY <1>1, <2>3, CallPushMakes DEF CallPush, Goto
    <3>2. /\ CallsNow[t] = Op("idle", Hands[t])
          /\ CallsNow' = [CallsNow EXCEPT ![t] = Op("load", n)]
          /\ Queue' = Queue /\ free' = free \ {n}
      BY <3>1, <1>1, SeenAs
    <3>3. Op("idle", Hands[t]) = [op |-> "none", node |-> Null]
          /\ Op("load", n) = [op |-> "push", node |-> n]
      BY DEF Op
    <3>4. Fifo!CallPush(t, n)
      BY <3>1, <3>2, <3>3, FifoActions, Zenon
    <3> QED BY <3>4
  <2>4. ASSUME CallPop(t) PROVE Abstract
    <3>1. Makes(t, Now, Null, free) /\ pc[t] = "idle" /\ pc' = [pc EXCEPT ![t] = "acquire"]
      BY <1>1, <2>4, CallPopMakes DEF CallPop, Goto
    <3>2. /\ CallsNow[t] = Op("idle", Hands[t])
          /\ CallsNow' = [CallsNow EXCEPT ![t] = Op("acquire", Null)]
          /\ Queue' = Queue /\ free' = free
      BY <3>1, <1>1, SeenAs
    <3>3. Op("idle", Hands[t]) = [op |-> "none", node |-> Null]
          /\ Op("acquire", Null) = [op |-> "pop", node |-> Null]
      BY DEF Op
    <3>4. Fifo!CallPop(t)
      BY <3>2, <3>3, FifoActions, Zenon
    <3> QED BY <3>4
  \* A step of t that leaves queue and hands alone, and does not return.
  <2>5. ASSUME NEW place, pc' = [pc EXCEPT ![t] = place], Makes(t, Now, Hands[t], free),
               Op(place, Hands[t]) = Op(pc[t], Hands[t])
        PROVE  Abstract
    <3>1. /\ CallsNow[t] = Op(pc[t], Hands[t])
          /\ CallsNow' = [CallsNow EXCEPT ![t] = Op(place, Hands[t])]
          /\ Queue' = Queue /\ free' = free
      BY <2>5, <1>1, SeenAs
    <3>2. CallsNow' = CallsNow
      <4>1. CallsNow = [u \in Threads |-> CallsNow[u]]
        BY DEF CallsNow
      <4> HIDE DEF CallsNow
      <4> QED BY <4>1, <3>1, <2>5
    <3> QED BY <3>1, <3>2, <2>u, Zenon
  <2>6. ASSUME PushSpurious(t) \/ PushRetry(t) PROVE Abstract
    <3>1. Makes(t, Now, Hands[t], free) /\ pc[t] = "swap" /\ pc' = [pc EXCEPT ![t] = "load"]
      BY <1>1, <2>6, PushRetryMakes DEF PushSpurious, PushRetry, Goto
    <3>2. Op("load", Hands[t]) = Op("swap", Hands[t])
      BY DEF Op
    <3> QED BY <3>1, <3>2, <2>5
  <2>7. ASSUME PushLoad(t) PROVE Abstract
    <3>1. Makes(t, Now, Hands[t], free) /\ pc[t] = "load" /\ pc' = [pc EXCEPT ![t] = "swap"]
      BY <1>1, <2>7, PushLoadMakes DEF PushLoad, Goto
    <3>2. Op("load", Hands[t]) = Op("swap", Hands[t])
      BY DEF Op
    <3> QED BY <3>1, <3>2, <2>5
  \* push takes effect.
  <2>8. ASSUME PushSwap(t) PROVE Abstract
    <3>1. Makes(t, Append(Now, Hands[t]), Null, free) /\ pc[t] = "swap"
          /\ pc' = [pc EXCEPT ![t] = "idle"]
      BY <1>1, <2>8, PushSwapMakes DEF PushSwap, Goto
    <3>2. /\ CallsNow[t] = Op("swap", Hands[t])
          /\ CallsNow' = [CallsNow EXCEPT ![t] = Op("idle", Null)]
          /\ Queue' = Append(Queue, Hands[t]) /\ free' = free
      BY <3>1, <1>1, SeenAs
    <3>3. Op("swap", Hands[t]).op = "push" /\ Op("swap", Hands[t]).node = Hands[t]
          /\ Op("idle", Null) = [op |-> "none", node |-> Null]
      BY DEF Op
    <3>4. CallsNow[t].op = "push" /\ CallsNow[t].node = Hands[t]
      BY <3>2, <3>3, Zenon
    <3>5. Fifo!DoPush(t)
      BY <3>2, <3>3, <3>4, FifoActions, Zenon
    <3> QED BY <3>5
  \* pop takes effect.
  <2>9. ASSUME NEW place \in {"take", "turn"}, pc' = [pc EXCEPT ![t] = place],
               pc[t] \in {"acquire", "transfer"},
               Now # <<>>, Makes(t, Tail(Now), Head(Now), free)
        PROVE  Abstract
    <3>1. /\ CallsNow[t] = Op(pc[t], Hands[t])
          /\ CallsNow' = [CallsNow EXCEPT ![t] = Op(place, Head(Now))]
          /\ Queue = Now /\ Queue' = Tail(Now) /\ free' = free
      BY <2>9, <1>1, SeenAs
    <3>2. Op(pc[t], Hands[t]).op = "pop"
          /\ Op(place, Head(Now)) = [op |-> "popped", node |-> Head(Now)]
      BY <2>9 DEF Op
    <3>3. Fifo!DoPop(t)
      BY <2>9, <3>1, <3>2, FifoActions, Zenon
    <3> QED BY <3>3
  <2>10. ASSUME Acquire(t) PROVE Abstract
    <3>1. pc[t] = "acquire"
          /\ pc' = [pc EXCEPT ![t] = IF output = Null THEN "transfer" ELSE "take"]
      BY <2>10 DEF Acquire, Goto
    <3>2. CASE output # Null
      <4>1. Now # <<>> /\ Makes(t, Tail(Now), Head(Now), free)
            /\ pc' = [pc EXCEPT ![t] = "take"]
        BY <3>1, <3>2, <2>10, <2>0, <1>1, AcquireMakes
      <4> QED BY <4>1, <3>1, <2>9
    <3>3. CASE output = Null
      <4>1. Makes(t, Now, Hands[t], free) /\ pc' = [pc EXCEPT ![t] = "transfer"]
        BY <3>1, <3>3, <2>10, <2>0, <1>1, AcquireMakes
      <4>2. Op("transfer", Hands[t]) = Op("acquire", Hands[t])
        BY DEF Op
      <4> QED BY <4>1, <4>2, <3>1, <2>5
    <3> QED BY <3>2, <3>3
  <2>11. ASSUME Transfer(t) PROVE Abstract
    <3>1. pc[t] = "transfer"
          /\ pc' = [pc EXCEPT ![t] = IF input = Null THEN "publish" ELSE "turn"]
      BY <2>11 DEF Transfer, Goto
    <3>2. CASE input # Null
      <4>1. Now # <<>> /\ Makes(t, Tail(Now), Head(Now), free)
            /\ pc' = [pc EXCEPT ![t] = "turn"]
        BY <3>1, <3>2, <2>11, <2>0, <1>1, TransferMakes
      <4> QED BY <4>1, <3>1, <2>9
    \* Nothing was there.
    <3>3. CASE input = Null
      <4>1. Now = <<>> /\ Makes(t, <<>>, Null, free) /\ pc' = [pc EXCEPT ![t] = "publish"]
        BY <3>1, <3>3, <2>11, <2>0, <1>1, TransferMakes
      <4>2. /\ CallsNow[t] = Op("transfer", Hands[t])
            /\ CallsNow' = [CallsNow EXCEPT ![t] = Op("publish", Null)]
            /\ Queue = Now /\ Queue' = <<>> /\ free' = free
        <5>1. PICK q : q = <<>>
          OBVIOUS
        <5>2. Makes(t, q, Null, free) /\ pc[t] = "transfer"
              /\ pc' = [pc EXCEPT ![t] = "publish"]
          BY <3>1, <4>1, <5>1
        <5>3. /\ CallsNow[t] = Op("transfer", Hands[t])
              /\ CallsNow' = [CallsNow EXCEPT ![t] = Op("publish", Null)]
              /\ Queue = Now /\ Queue' = q /\ free' = free
          BY <5>2, <1>1, SeenAs
        <5> QED BY <5>1, <5>3
      <4>3. Op("transfer", Hands[t]).op = "pop"
            /\ Op("publish", Null) = [op |-> "popped", node |-> Null]
        BY DEF Op
      <4>4. Fifo!DoPop(t)
        BY <4>1, <4>2, <4>3, FifoActions, Zenon
      <4> QED BY <4>4
    <3> QED BY <3>2, <3>3
  <2>12. ASSUME Turn(t) PROVE Abstract
    <3>1. Makes(t, Now, Hands[t], free) /\ pc[t] = "turn"
      BY <2>12, <2>0, <1>1, TurnMakes DEF Turn
    <3>2. PICK place \in {"turn", "publish"} : pc' = [pc EXCEPT ![t] = place]
      <4>1. pc' = pc \/ pc' = [pc EXCEPT ![t] = "publish"]
        BY <2>12 DEF Turn, Goto
      <4>2. pc = [pc EXCEPT ![t] = "turn"]
        BY <3>1, <1>1 DEF LInv, IInv, TypeOK
      <4> QED BY <4>1, <4>2
    <3>3. Op(place, Hands[t]) = Op("turn", Hands[t])
      BY <3>2 DEF Op
    <3> QED BY <3>1, <3>2, <3>3, <2>5
  <2>13. ASSUME Take(t) \/ Publish(t) PROVE Abstract
    <3>1. Makes(t, Now, Null, free \cup ({Hands[t]} \ {Null})) /\ pc[t] \in {"take", "publish"}
          /\ pc' = [pc EXCEPT ![t] = "idle"]
      BY <2>13, <2>0, <1>1, ReturnMakes DEF Take, Publish, Return, Goto
    <3>2. /\ CallsNow[t] = Op(pc[t], Hands[t])
          /\ CallsNow' = [CallsNow EXCEPT ![t] = Op("idle", Null)]
          /\ Queue' = Queue /\ free' = free \cup ({Hands[t]} \ {Null})
      BY <3>1, <1>1, SeenAs
    <3>3. Op(pc[t], Hands[t]).op = "popped" /\ Op(pc[t], Hands[t]).node = Hands[t]
          /\ Op("idle", Null) = [op |-> "none", node |-> Null]
      BY <3>1 DEF Op
    <3>4. CallsNow[t].op = "popped" /\ CallsNow[t].node = Hands[t]
      BY <3>2, <3>3, Zenon
    <3>5. Fifo!ReturnPop(t)
      BY <3>2, <3>3, <3>4, FifoActions, Zenon
    <3> QED BY <3>5
  <2> HIDE DEF Abstract
  <2> QED BY <2>1, <2>2, <2>3, <2>4, <2>6, <2>7, <2>8, <2>10, <2>11, <2>12, <2>13, Zenon DEF Work
<1>2. ASSUME LInv, UNCHANGED vars PROVE UNCHANGED Fifo!vars
  <2>1. pc' = pc /\ at' = at /\ free' = free /\ UNCHANGED <<next, input, output, rest>>
    BY <1>2 DEF vars
  <2>2. Queue' = Queue
    BY <2>1, NowIs, ThenIs, Zenon
  <2>3. CallsNow' = CallsNow
    <3>1. Hands' = Hands
      BY <2>1, Zenon DEF Hands
    <3> QED BY <3>1, <2>1, CallsAre, CallsWillBe, Zenon
  <2> QED BY <2>1, <2>2, <2>3, Zenon DEF Fifo!vars, CallsNow, CallOf
<1> QED BY <1>1, <1>2, Zenon
-----------------------------------------------------------------------------
(* Theorems *)

\* Any number of threads: at most one of them is between acquire and release of
\* output_queue, and the busy mark is set exactly then.
THEOREM OneOwnerHolds == Spec => []OneOwner
<1>1. IInv => OneOwner
  BY DEF IInv
<1> QED
  BY <1>1, InitIInv, NextIInv, PTL DEF Spec

\* Every pointer in the two lists and in the threads' hands is a node or nullptr,
\* only output_queue is ever the busy node: no pop dereferences or returns it.
THEOREM FifoTypeCorrect == Spec => []TypeOK
<1>1. IInv => TypeOK
  BY DEF IInv
<1> QED
  BY <1>1, InitIInv, NextIInv, PTL DEF Spec

\* However pushes and pops interleave at their loads, swaps and stores, and while
\* the owner of output_queue turns its list round: each node is with the callers,
\* in the queue once, or in one push or pop, and the lists neither loop nor meet.
THEOREM NoNodeLostHolds == Spec => []NoNodeLost
BY InitLInv, NextLInv, NoneLost, PTL DEF Spec

\* push and pop of lib/atomic.cpp are linearizable: seen by their callers they are
\* the atomic push and pop of a FIFO queue, for any number of threads and nodes.
THEOREM FifoLinearizable == Spec => Linearizable
<1>1. Spec => []LInv
  BY InitLInv, NextLInv, PTL DEF Spec
<1> QED BY <1>1, InitImplements, NextImplements, PTL DEF Spec, Linearizable, Fifo!Spec
=============================================================================
