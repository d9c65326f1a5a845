--------------------------- MODULE AdvancedProofs ---------------------------
(***************************************************************************)
(* For any objects, threads, priorities and capacity, and any nesting of   *)
(* idle: queues keep their order and, unless their policy is ignore, all   *)
(* but keep to their capacity; an object is activated once while it has    *)
(* messages, and never entered while it is in a method.                    *)
(*                                                                         *)
(* The argument for the first: where a queue is full a message is let in   *)
(* only if its priority is higher than that of the first, so it becomes    *)
(* the first; the messages in excess of the capacity are the first of the  *)
(* queue, and each is higher than its successor.  Taking the first leaves  *)
(* one fewer.  For the second: an object that has work is held by the list *)
(* or by one call on one stack, and a step moves it between the list and   *)
(* the top of a stack (SharedLemmas).                                      *)
(***************************************************************************)
EXTENDS Advanced, SharedLemmas, SequenceTheorems, TLAPS

Decreasing(q) == \A i, j \in 1 .. Len(q) : i <= j => q[i] >= q[j]

Near(q) == \A i \in 1 .. Len(q) - Capacity : q[i] > q[i + 1]

GoodQueue(q) ==
    /\ q \in Seq(Priorities)
    /\ Decreasing(q)
    /\ policy # "ignore" => Near(q)

\* What a frame's place says of the call it makes and of its object.
GoodFrame == {f \in Frame :
    /\ f.at = "signal" => f.to \in Objects
    /\ f.at \in {"full", "check"} =>
          f.to \in Objects /\ f.prio \in Priorities /\ policy = "block"
    /\ f.at \in {"loop", "resched"} => f.obj \in Objects}

Stacks == stack \in [Threads -> Seq(GoodFrame)]

Queues ==
    /\ queue \in [Objects -> Seq(Priorities)]
    /\ \A o \in Objects : GoodQueue(queue[o])

Rest ==
    /\ policy \in Policies
    /\ active \in [Objects -> BOOLEAN]
    /\ list \in Seq(Objects)

IInv == Rest /\ Queues /\ Stacks
-----------------------------------------------------------------------------
(* Queues *)

\* InsertAt, element by element.
LEMMA Inserting ==
    ASSUME NEW q \in Seq(Priorities), NEW p \in Priorities, NEW k \in 0 .. Len(q)
    PROVE  LET r == InsertAt(q, k + 1, p) IN
           /\ r \in Seq(Priorities)
           /\ Len(r) = Len(q) + 1
           /\ \A i \in 1 .. Len(r) :
                 r[i] = IF i <= k THEN q[i] ELSE IF i = k + 1 THEN p ELSE q[i - 1]
<1> DEFINE s1 == SubSeq(q, 1, k)
           s2 == SubSeq(q, k + 1, Len(q))
           s == s1 \o <<p>>
           r == InsertAt(q, k + 1, p)
<1>0. Len(q) \in Nat /\ k \in Nat /\ (k + 1) - 1 = k
  BY LenProperties
<1>1. r = s \o s2
  BY <1>0, Zenon DEF InsertAt
<1>2. /\ s1 \in Seq(Priorities) /\ Len(s1) = k
      /\ \A i \in 1 .. k : s1[i] = q[i]
  BY <1>0, SubSeqProperties
<1>3. /\ s2 \in Seq(Priorities) /\ Len(s2) = Len(q) - k
      /\ \A i \in 1 .. Len(q) - k : s2[i] = q[k + i]
  BY <1>0, SubSeqProperties
<1>4. /\ s \in Seq(Priorities) /\ Len(s) = k + 1
      /\ \A i \in 1 .. k : s[i] = q[i]
      /\ s[k + 1] = p
  <2>1. <<p>> \in Seq(Priorities) /\ Len(<<p>>) = 1 /\ <<p>>[1] = p
    OBVIOUS
  <2> HIDE DEF s1
  <2>2. /\ s \in Seq(Priorities) /\ Len(s) = Len(s1) + 1
        /\ \A i \in 1 .. Len(s1) + 1 :
              s[i] = IF i <= Len(s1) THEN s1[i] ELSE <<p>>[i - Len(s1)]
    BY <2>1, <1>2, ConcatProperties
  <2> QED
    BY <2>1, <2>2, <1>0, <1>2
<1> HIDE DEF r, s, s2
<1>5. /\ r \in Seq(Priorities) /\ Len(r) = Len(s) + Len(s2)
      /\ \A i \in 1 .. Len(s) + Len(s2) :
            r[i] = IF i <= Len(s) THEN s[i] ELSE s2[i - Len(s)]
  BY <1>1, <1>3, <1>4, ConcatProperties
<1>6. Len(r) = Len(q) + 1
  BY <1>0, <1>3, <1>4, <1>5
<1>7. ASSUME NEW i \in 1 .. Len(r)
      PROVE  r[i] = IF i <= k THEN q[i] ELSE IF i = k + 1 THEN p ELSE q[i - 1]
  <2>1. CASE i <= k + 1
    BY <2>1, <1>0, <1>4, <1>5, <1>6
  <2>2. CASE i > k + 1
    <3>1. r[i] = s2[i - (k + 1)]
      BY <2>2, <1>0, <1>3, <1>4, <1>5, <1>6
    <3>2. i - (k + 1) \in 1 .. Len(q) - k /\ k + (i - (k + 1)) = i - 1
      BY <2>2, <1>0, <1>6
    <3> QED
      BY <3>1, <3>2, <2>2, <1>0, <1>3
  <2> QED
    BY <2>1, <2>2, <1>0, <1>6
<1> QED
  BY <1>5, <1>6, <1>7 DEF r

\* A queue stays good if there is room, or the message goes to the front.
LEMMA InsertGood ==
    ASSUME AdvancedAssumption, NEW q, GoodQueue(q), NEW p \in Priorities,
           policy = "ignore" \/ Len(q) < Capacity \/ p > Head(q),
           NEW k \in Before(q, p)
    PROVE  GoodQueue(InsertAt(q, k + 1, p))
<1> DEFINE r == InsertAt(q, k + 1, p)
           n == Len(q)
<1>1. q \in Seq(Priorities) /\ n \in Nat /\ k \in 0 .. n
  BY DEF GoodQueue, Before
<1>2. /\ r \in Seq(Priorities) /\ Len(r) = n + 1
      /\ \A i \in 1 .. n + 1 :
            r[i] = IF i <= k THEN q[i] ELSE IF i = k + 1 THEN p ELSE q[i - 1]
  <2>1. /\ r \in Seq(Priorities) /\ Len(r) = Len(q) + 1
        /\ \A i \in 1 .. Len(r) :
              r[i] = IF i <= k THEN q[i] ELSE IF i = k + 1 THEN p ELSE q[i - 1]
    BY <1>1, Inserting, Zenon
  <2> QED
    BY <2>1
<1> HIDE DEF r
<1>3. /\ p \in Int /\ Capacity \in Nat \ {0}
      /\ \A i \in 1 .. n : q[i] \in Int
  <2>1. \A i \in 1 .. n : q[i] \in Priorities
    BY <1>1, ElementOfSeq
  <2> QED
    BY <2>1 DEF AdvancedAssumption
<1>4. \A i \in 1 .. n : q[i] >= p <=> i <= k
  BY DEF Before
<1>5. \A i, j \in 1 .. n : i <= j => q[i] >= q[j]
  BY DEF GoodQueue, Decreasing
<1> HIDE DEF n
<1>6. Decreasing(r)
  <2> SUFFICES ASSUME NEW i \in 1 .. n + 1, NEW j \in 1 .. n + 1, i < j
               PROVE  r[i] >= r[j]
    <3>1. \A i \in 1 .. n + 1 : r[i] \in Int
      BY <1>1, <1>2, <1>3
    <3> QED
      BY <1>1, <1>2, <3>1 DEF Decreasing
  <2>1. CASE j <= k
    BY <2>1, <1>1, <1>2, <1>5
  <2>2. CASE j = k + 1
    BY <2>2, <1>1, <1>2, <1>3, <1>4
  <2>3. CASE j > k + 1
    <3>1. r[j] = q[j - 1] /\ j - 1 \in 1 .. n
      BY <2>3, <1>1, <1>2
    <3>2. CASE i <= k
      <4>1. r[i] = q[i] /\ i \in 1 .. n /\ i <= j - 1
        BY <3>2, <2>3, <1>1, <1>2
      <4> QED
        BY <4>1, <3>1, <1>5
    <3>3. CASE i = k + 1
      BY <3>1, <3>3, <2>3, <1>1, <1>2, <1>3, <1>4
    <3>4. CASE i > k + 1
      <4>1. r[i] = q[i - 1] /\ i - 1 \in 1 .. n /\ i - 1 <= j - 1
        BY <3>4, <2>3, <1>1, <1>2
      <4> QED
        BY <4>1, <3>1, <1>5
    <3> QED
      BY <3>2, <3>3, <3>4, <1>1
  <2> QED
    BY <2>1, <2>2, <2>3, <1>1
<1>7. ASSUME policy # "ignore" PROVE Near(r)
  <2>1. Near(q)
    BY <1>7 DEF GoodQueue
  <2>2. CASE n < Capacity
    <3>1. Len(r) - Capacity <= 0
      BY <2>2, <1>1, <1>2, <1>3
    <3> QED
      BY <3>1, <1>1, <1>2, <1>3 DEF Near
  <2>3. CASE n >= Capacity
    <3>1. p > q[1] /\ n > 0
      BY <2>3, <1>1, <1>3, <1>7 DEF n
    <3>2. k = 0
      BY <3>1, <1>1, <1>3, <1>4
    <3>3. ASSUME NEW i \in 1 .. (n + 1) - Capacity
          PROVE  r[i] > r[i + 1]
      <4>1. r[i + 1] = q[i] /\ i \in 1 .. n
        BY <3>2, <1>1, <1>2, <1>3
      <4>2. CASE i = 1
        BY <4>1, <4>2, <3>1, <3>2, <1>2
      <4>3. CASE i > 1
        <5>1. r[i] = q[i - 1]
          BY <4>3, <4>1, <3>2, <1>2
        <5>2. q[i - 1] > q[i]
          BY <4>3, <2>1, <1>1, <1>3 DEF Near, n
        <5> QED
          BY <5>1, <5>2, <4>1
      <4> QED
        BY <4>1, <4>2, <4>3
    <3> QED
      BY <3>3, <1>2 DEF Near
  <2> QED
    BY <2>2, <2>3, <1>1, <1>3
<1> QED
  BY <1>2, <1>6, <1>7 DEF GoodQueue, r

\* A queue stays good when its first message goes.
LEMMA TailGood ==
    ASSUME AdvancedAssumption, NEW q, GoodQueue(q), q # <<>>
    PROVE  /\ GoodQueue(Tail(q))
           /\ Tail(q) = <<>> \/ Head(Tail(q)) <= Head(q)
<1> DEFINE r == Tail(q)
<1>1. /\ q \in Seq(Priorities) /\ Len(q) \in Nat /\ Len(q) > 0
      /\ r \in Seq(Priorities) /\ Len(r) = Len(q) - 1
      /\ \A i \in 1 .. Len(r) : r[i] = q[i + 1]
  BY DEF GoodQueue
<1> HIDE DEF r
<1>2. Decreasing(r)
  BY <1>1 DEF GoodQueue, Decreasing
<1>3. ASSUME policy # "ignore" PROVE Near(r)
  <2>1. Capacity \in Nat \ {0}
    BY DEF AdvancedAssumption
  <2>2. ASSUME NEW i \in 1 .. Len(r) - Capacity PROVE r[i] > r[i + 1]
    <3>1. r[i] = q[i + 1] /\ i + 1 \in 1 .. Len(q) - Capacity
      BY <1>1, <2>1
    <3> DEFINE j == i + 1
    <3>2. j \in 1 .. Len(r)
      BY <1>1, <2>1
    <3>3. r[j] = q[j + 1]
      BY <3>2, <1>1
    <3> QED
      BY <3>1, <3>3, <1>3 DEF GoodQueue, Near
  <2> QED
    BY <2>2 DEF Near
<1>4. r = <<>> \/ Head(r) <= Head(q)
  <2>1. CASE r # <<>>
    <3>1. Head(r) = q[2] /\ Head(q) = q[1] /\ 1 \in 1 .. Len(q) /\ 2 \in 1 .. Len(q)
      BY <2>1, <1>1
    <3>2. q[1] >= q[2]
      BY <3>1 DEF GoodQueue, Decreasing
    <3>3. q[1] \in Int /\ q[2] \in Int
      <4>1. q[1] \in Priorities /\ q[2] \in Priorities
        BY <3>1, <1>1, ElementOfSeq
      <4> QED
        BY <4>1 DEF AdvancedAssumption
    <3> QED
      BY <3>1, <3>2, <3>3
  <2> QED
    BY <2>1
<1> QED
  BY <1>1, <1>2, <1>3, <1>4 DEF GoodQueue, r

LEMMA EmptyGood ==
    ASSUME AdvancedAssumption
    PROVE  GoodQueue(<<>>)
<1>1. Len(<<>>) = 0 /\ <<>> \in Seq(Priorities)
  OBVIOUS
<1>2. Capacity \in Nat
  BY DEF AdvancedAssumption
<1> QED
  BY <1>1, <1>2 DEF GoodQueue, Decreasing, Near
-----------------------------------------------------------------------------
(* Stacks *)

\* The top of a stack, and what is below it.
LEMMA TopGood ==
    ASSUME Stacks, NEW t \in Threads, stack[t] # <<>>
    PROVE  /\ Top(t) \in GoodFrame
           /\ Front(stack[t]) \in Seq(GoodFrame)
<1>1. /\ stack[t] \in Seq(GoodFrame) /\ Len(stack[t]) \in Nat \ {0}
      /\ \A i \in 1 .. Len(stack[t]) : stack[t][i] \in GoodFrame
  BY ElementOfSeq DEF Stacks
<1>2. Front(stack[t]) \in Seq(GoodFrame)
  BY <1>1, SubSeqProperties DEF Front
<1> QED
  BY <1>1, <1>2 DEF Top, Last

LEMMA ReplaceGood ==
    ASSUME Stacks, NEW t \in Threads, stack[t] # <<>>, NEW f \in GoodFrame,
           Replace(t, f)
    PROVE  stack' \in [Threads -> Seq(GoodFrame)]
<1>1. Append(Front(stack[t]), f) \in Seq(GoodFrame)
  BY TopGood, AppendProperties
<1> QED
  BY <1>1 DEF Stacks, Replace

LEMMA LeaveGood ==
    ASSUME Stacks, NEW t \in Threads, stack[t] # <<>>, Leave(t)
    PROVE  stack' \in [Threads -> Seq(GoodFrame)]
BY TopGood DEF Stacks, Leave

\* A method that makes no call, and the same method about to activate o.
LEMMA CallGood ==
    ASSUME Stacks, NEW t \in Threads, stack[t] # <<>>
    PROVE  /\ [Top(t) EXCEPT !.at = "method", !.to = NoObject, !.prio = 0]
                 \in GoodFrame
           /\ \A o \in Objects :
                 [Top(t) EXCEPT !.at = "signal", !.to = o, !.prio = 0] \in GoodFrame
BY TopGood DEF GoodFrame, Frame, Places

LEMMA CalledGood ==
    ASSUME AdvancedAssumption, NEW o \in Objects, NEW n \in 0 .. Budget,
           NEW place \in {"loop", "method"}
    PROVE  Called(o, place, n) \in GoodFrame
BY DEF Called, GoodFrame, Frame, Places, AdvancedAssumption
-----------------------------------------------------------------------------
(* Steps *)

\* Steps that leave the queues alone.
LEMMA QueuesKept ==
    ASSUME Queues, UNCHANGED <<policy, queue>>
    PROVE  Queues' /\ GoodFrame' = GoodFrame
BY DEF Queues, GoodQueue, Near, GoodFrame

LEMMA EnqueueGood ==
    ASSUME AdvancedAssumption, IInv, UNCHANGED policy,
           NEW t \in Threads, stack[t] # <<>>, NEW o \in Objects,
           NEW q, GoodQueue(q), NEW p \in Priorities,
           policy = "ignore" \/ Len(q) < Capacity \/ p > Head(q),
           Enqueue(t, o, q, p)
    PROVE  Queues' /\ Stacks' /\ active' \in [Objects -> BOOLEAN]
<1>1. Queues'
  <2>1. PICK k \in Before(q, p) :
           queue' = [queue EXCEPT ![o] = InsertAt(q, k + 1, p)]
    BY DEF Enqueue
  <2>2. GoodQueue(InsertAt(q, k + 1, p))
    BY InsertGood
  <2> QED
    BY <2>1, <2>2 DEF IInv, Queues, GoodQueue, Near
<1>2. Stacks'
  <2>1. GoodFrame' = GoodFrame
    BY DEF GoodFrame
  <2>2. stack' \in [Threads -> Seq(GoodFrame)]
    BY CallGood, ReplaceGood DEF IInv, Enqueue, Continue
  <2> QED
    BY <2>1, <2>2 DEF Stacks
<1> QED
  BY <1>1, <1>2 DEF IInv, Rest, Enqueue

LEMMA LoopGood ==
    ASSUME AdvancedAssumption, IInv, UNCHANGED policy,
           NEW t \in Threads, stack[t] # <<>>, Top(t).obj \in Objects, Loop(t)
    PROVE  Queues' /\ Stacks' /\ active' \in [Objects -> BOOLEAN]
<1> DEFINE o == Top(t).obj
           n == Top(t).left
<1>1. GoodFrame' = GoodFrame /\ Top(t) \in GoodFrame /\ n \in 0 .. Budget
  BY TopGood DEF GoodFrame, Frame, IInv
<1>2. Budget \in Nat
  BY DEF AdvancedAssumption
<1>3. CASE /\ queue[o] # <<>> /\ n > 0
           /\ queue' = [queue EXCEPT ![o] = Tail(@)]
           /\ Replace(t, Called(o, "method", n - 1))
           /\ UNCHANGED active
  <2>1. GoodQueue(Tail(queue[o]))
    BY <1>3, TailGood DEF IInv, Queues
  <2>2. Queues'
    BY <1>3, <2>1 DEF IInv, Queues, GoodQueue, Near
  <2>3. n - 1 \in 0 .. Budget
    BY <1>1, <1>2, <1>3
  <2>4. Called(o, "method", n - 1) \in GoodFrame
    BY <2>3, CalledGood
  <2>5. stack' \in [Threads -> Seq(GoodFrame)]
    BY <1>3, <2>4, ReplaceGood DEF IInv
  <2> QED
    BY <1>1, <1>3, <2>2, <2>5 DEF IInv, Rest, Stacks
<1>4. CASE /\ queue[o] # <<>> /\ n = 0
           /\ active' = [active EXCEPT ![o] = TRUE]
           /\ Goto(t, "resched")
           /\ UNCHANGED queue
  <2>1. [Top(t) EXCEPT !.at = "resched"] \in GoodFrame
    BY <1>1 DEF GoodFrame, Frame, Places
  <2>2. stack' \in [Threads -> Seq(GoodFrame)]
    BY <1>4, <2>1, ReplaceGood DEF IInv, Goto
  <2> QED
    BY <1>4, <2>2, QueuesKept DEF IInv, Rest, Stacks
<1>5. CASE /\ queue[o] = <<>>
           /\ active' = [active EXCEPT ![o] = FALSE]
           /\ Leave(t)
           /\ UNCHANGED queue
  <2>1. stack' \in [Threads -> Seq(GoodFrame)]
    BY <1>5, LeaveGood DEF IInv
  <2> QED
    BY <1>5, <2>1, QueuesKept DEF IInv, Rest, Stacks
<1> QED
  BY <1>3, <1>4, <1>5 DEF Loop

LEMMA SendGood ==
    ASSUME AdvancedAssumption, IInv, NEW t \in Threads, NEW o \in Objects,
           NEW p \in Priorities, Send(t, o, p)
    PROVE  IInv'
<1>1. stack[t] # <<>> /\ GoodQueue(queue[o]) /\ UNCHANGED policy
  BY DEF Send, At, IInv, Queues
<1>2. policy' \in Policies /\ list' \in Seq(Objects)
  BY DEF Send, IInv, Rest
<1>3. CASE /\ Len(queue[o]) < Capacity \/ policy = "ignore" \/ Room(o, p)
           /\ Enqueue(t, o, queue[o], p)
  BY <1>1, <1>2, <1>3, EnqueueGood DEF IInv, Rest, Room
<1>4. CASE /\ Len(queue[o]) >= Capacity
           /\ p > Head(queue[o])
           /\ Enqueue(t, o, Tail(queue[o]), p)
  <2>1. /\ queue[o] \in Seq(Priorities) /\ queue[o] # <<>>
    BY <1>1, <1>4 DEF GoodQueue, AdvancedAssumption
  <2>2. /\ GoodQueue(Tail(queue[o]))
        /\ Tail(queue[o]) = <<>> \/ Head(Tail(queue[o])) <= Head(queue[o])
    BY <1>1, <2>1, TailGood
  <2>3. CASE Tail(queue[o]) = <<>>
    <3>1. Len(Tail(queue[o])) < Capacity
      BY <2>3 DEF AdvancedAssumption
    <3> QED
      BY <1>1, <1>2, <1>4, <2>2, <3>1, EnqueueGood DEF IInv, Rest
  <2>4. CASE Tail(queue[o]) # <<>>
    <3>1. Head(queue[o]) \in Priorities /\ Head(Tail(queue[o])) \in Priorities
      BY <2>1, <2>4
    <3>2. p > Head(Tail(queue[o]))
      <4> DEFINE first == Head(queue[o])
                 second == Head(Tail(queue[o]))
      <4>1. p \in Int /\ first \in Int /\ second \in Int
        BY <3>1 DEF AdvancedAssumption
      <4>2. p > first /\ second <= first
        BY <1>4, <2>2, <2>4
      <4> HIDE DEF first, second
      <4>3. p > second
        BY <4>1, <4>2
      <4> QED
        BY <4>3 DEF second
    <3> QED
      BY <1>1, <1>2, <1>4, <2>2, <3>2, EnqueueGood DEF IInv, Rest
  <2> QED
    BY <2>3, <2>4
<1>5. CASE UNCHANGED <<queue, active, stack>>
  BY <1>1, <1>2, <1>5, QueuesKept DEF IInv, Rest, Stacks
<1>6. CASE /\ policy = "block"
           /\ Replace(t, [Top(t) EXCEPT !.at = "full", !.to = o, !.prio = p])
           /\ UNCHANGED <<queue, active>>
  <2>1. [Top(t) EXCEPT !.at = "full", !.to = o, !.prio = p] \in GoodFrame
    BY <1>1, <1>6, TopGood DEF GoodFrame, Frame, Places, IInv
  <2>2. stack' \in [Threads -> Seq(GoodFrame)]
    BY <1>1, <1>6, <2>1, ReplaceGood DEF IInv
  <2> QED
    BY <1>1, <1>2, <1>6, <2>2, QueuesKept DEF IInv, Rest, Stacks
<1> QED
  BY <1>3, <1>4, <1>5, <1>6 DEF Send

LEMMA InitHolds == AdvancedAssumption /\ Init => IInv
<1> SUFFICES ASSUME AdvancedAssumption, Init PROVE IInv
  OBVIOUS
<1>1. Rest
  BY DEF Init, Rest
<1>2. Queues
  BY EmptyGood DEF Init, Queues
<1>3. Stacks
  <2>1. 0 \in 0 .. Budget
    BY DEF AdvancedAssumption
  <2>2. Called(NoObject, "method", 0) \in GoodFrame
    BY <2>1 DEF Called, GoodFrame, Frame, Places
  <2> QED
    BY <2>2 DEF Init, Stacks
<1> QED
  BY <1>1, <1>2, <1>3 DEF IInv

LEMMA NextHolds == AdvancedAssumption /\ IInv /\ [Next]_vars => IInv'
<1> SUFFICES ASSUME AdvancedAssumption, IInv, [Next]_vars PROVE IInv'
  OBVIOUS
<1> USE DEF IInv
<1>1. ASSUME NEW t \in Threads, NEW o \in Objects, NEW p \in Priorities,
             Send(t, o, p)
      PROVE  IInv'
  BY <1>1, SendGood
<1>2. ASSUME NEW t \in Threads, Idle(t) PROVE IInv'
  <2>1. stack[t] # <<>> /\ Top(t) \in GoodFrame
    BY <1>2, TopGood DEF Idle, At
  <2>2. [Top(t) EXCEPT !.at = "check"] \in GoodFrame
    BY <1>2, <2>1 DEF Idle, At, GoodFrame, Frame, Places
  <2>3. CASE list = <<>>
    <3>1. stack' \in [Threads -> Seq(GoodFrame)]
      BY <1>2, <2>1, <2>2, <2>3, ReplaceGood DEF Idle, Goto
    <3> QED
      BY <1>2, <2>3, <3>1, QueuesKept DEF Idle, Rest, Stacks
  <2>4. CASE list # <<>>
    <3>1. Head(list) \in Objects /\ Tail(list) \in Seq(Objects)
      BY <2>4 DEF Rest
    <3>2. Budget \in 0 .. Budget
      BY DEF AdvancedAssumption
    <3>3. Called(Head(list), "loop", Budget) \in GoodFrame
      BY <3>1, <3>2, CalledGood
    <3>4. Append(Front(stack[t]), [Top(t) EXCEPT !.at = "check"])
             \o <<Called(Head(list), "loop", Budget)>> \in Seq(GoodFrame)
      BY <2>1, <2>2, <3>3, TopGood, AppendProperties, ConcatProperties
    <3>5. stack' \in [Threads -> Seq(GoodFrame)]
      BY <1>2, <2>4, <3>4 DEF Idle, Stacks
    <3> QED
      BY <1>2, <2>4, <3>1, <3>5, QueuesKept DEF Idle, Rest, Stacks
  <2> QED
    BY <2>3, <2>4
<1>3. ASSUME NEW t \in Threads, Check(t) PROVE IInv'
  <2>1. stack[t] # <<>> /\ Top(t) \in GoodFrame
    BY <1>3, TopGood DEF Check, At
  <2>2. /\ Top(t).to \in Objects /\ Top(t).prio \in Priorities
        /\ policy = "block"
    BY <1>3, <2>1 DEF Check, At, GoodFrame
  <2>3. CASE Room(Top(t).to, Top(t).prio)
    <3>1. Enqueue(t, Top(t).to, queue[Top(t).to], Top(t).prio)
      BY <1>3, <2>3 DEF Check
    <3> QED
      BY <1>3, <2>1, <2>2, <2>3, <3>1, EnqueueGood DEF Check, Room, Queues, Rest
  <2>4. CASE ~Room(Top(t).to, Top(t).prio)
    <3>1. [Top(t) EXCEPT !.at = "full"] \in GoodFrame
      BY <2>1, <2>2 DEF GoodFrame, Frame, Places
    <3>2. stack' \in [Threads -> Seq(GoodFrame)]
      BY <1>3, <2>1, <2>4, <3>1, ReplaceGood DEF Check, Goto
    <3> QED
      BY <1>3, <2>4, <3>2, QueuesKept DEF Check, Rest, Stacks
  <2> QED
    BY <2>3, <2>4
<1>4. ASSUME NEW t \in Threads, Signal(t) PROVE IInv'
  <2>1. stack[t] # <<>> /\ Top(t).to \in Objects
    BY <1>4, TopGood DEF Signal, At, GoodFrame
  <2>2. stack' \in [Threads -> Seq(GoodFrame)]
    BY <1>4, <2>1, CallGood, ReplaceGood DEF Signal, Continue
  <2> QED
    BY <1>4, <2>1, <2>2, QueuesKept DEF Signal, Rest, Stacks
<1>5. ASSUME NEW t \in Threads, Take(t) PROVE IInv'
  <2>1. Head(list) \in Objects /\ Tail(list) \in Seq(Objects)
    BY <1>5 DEF Take, Rest
  <2>2. Budget \in 0 .. Budget
    BY DEF AdvancedAssumption
  <2>3. <<Called(Head(list), "loop", Budget)>> \in Seq(GoodFrame)
    BY <2>1, <2>2, CalledGood
  <2> QED
    BY <1>5, <2>1, <2>3, QueuesKept DEF Take, Rest, Stacks
<1>6. ASSUME NEW t \in Threads, Begin(t) PROVE IInv'
  <2>1. stack[t] # <<>> /\ Top(t).obj \in Objects
    BY <1>6, TopGood DEF Begin, At, GoodFrame
  <2> QED
    BY <1>6, <2>1, LoopGood DEF Begin, Rest
<1>7. ASSUME NEW t \in Threads, EndMethod(t) PROVE IInv'
  <2>1. stack[t] # <<>> /\ Top(t).obj \in Objects
    BY <1>7, TopGood DEF EndMethod, At, GoodFrame, Frame
  <2> QED
    BY <1>7, <2>1, LoopGood DEF EndMethod, Rest
<1>8. ASSUME NEW t \in Threads, Resched(t) PROVE IInv'
  <2>1. stack[t] # <<>> /\ Top(t).obj \in Objects
    BY <1>8, TopGood DEF Resched, At, GoodFrame
  <2>2. stack' \in [Threads -> Seq(GoodFrame)]
    BY <1>8, <2>1, LeaveGood DEF Resched
  <2>3. list' \in Seq(Objects)
    BY <1>8, <2>1 DEF Resched, Rest
  <2> QED
    BY <1>8, <2>2, <2>3, QueuesKept DEF Resched, Rest, Stacks
<1>9. ASSUME NEW t \in Threads, Clear(t) PROVE IInv'
  <2>1. Top(t).obj \in Objects
    BY <1>9, TopGood DEF Clear, At, GoodFrame, Frame
  <2>2. Queues'
    BY <1>9, <2>1, EmptyGood DEF Clear, Queues, GoodQueue, Near
  <2> QED
    BY <1>9, <2>2 DEF Clear, Rest, Stacks, GoodFrame
<1>10. CASE UNCHANGED vars
  BY <1>10, QueuesKept DEF vars, Rest, Stacks
<1> QED
  BY <1>1, <1>2, <1>3, <1>4, <1>5, <1>6, <1>7, <1>8, <1>9, <1>10 DEF Next, Work

LEMMA IInvHolds == Spec => []IInv
<1>1. Init => IInv
  BY InitHolds, AdvancedAssumption
<1>2. IInv /\ [Next]_vars => IInv'
  BY NextHolds, AdvancedAssumption
<1> QED
  BY <1>1, <1>2, PTL DEF Spec
-----------------------------------------------------------------------------
\* Type correctness, for any nesting of idle: in particular, n is not counted
\* below zero, and what is queued, listed or run is always an object's message
\* (advanced.hpp:86-214).
THEOREM AdvancedTypeCorrect == Spec => []TypeOK
<1>1. IInv => TypeOK
  <2> SUFFICES ASSUME IInv PROVE TypeOK
    OBVIOUS
  <2>1. Seq(GoodFrame) \subseteq Seq(Frame)
    <3>1. GoodFrame \subseteq Frame
      BY DEF GoodFrame
    <3> QED
      BY <3>1, SeqMonotonic, Zenon
  <2>2. stack \in [Threads -> Seq(Frame)]
    BY <2>1 DEF IInv, Stacks
  <2> QED
    BY <2>2 DEF IInv, Rest, Queues, TypeOK
<1> QED
  BY <1>1, IInvHolds, PTL

\* Unless the policy is ignore, the messages in excess of the capacity are the
\* first of the queue and each is higher than its successor, for any objects,
\* senders and priorities: a queue exceeds its capacity by less than the number
\* of priorities (advanced.hpp:90-132).
THEOREM NearCapacityHolds == Spec => []NearCapacity
<1>1. IInv => NearCapacity
  BY DEF IInv, Queues, GoodQueue, Near, NearCapacity
<1> QED
  BY <1>1, IInvHolds, PTL
-----------------------------------------------------------------------------
(* Activations *)

\* The objects that a call answers for: the one it runs, and the one it is
\* about to activate.
Has(f) == ({f.obj} \cup (IF f.at = "signal" THEN {f.to} ELSE {})) \ {NoObject}

Depth == [t \in Threads |-> Len(stack[t])]
Hold == [t \in Threads |-> [i \in 1 .. Len(stack[t]) |-> Has(stack[t][i])]]

HeldNow(o) == Held(Threads, Depth, Hold, Elements(list), o)

\* SingleActivation without positions on the list; a method never activates the
\* object it belongs to.
OneHolder ==
    /\ Once(list)
    /\ Alone(Threads, Depth, Hold, Elements(list))
    /\ \A t \in Threads : \A i \in 1 .. Len(stack[t]) :
          stack[t][i].at = "signal" => stack[t][i].to # stack[t][i].obj

\* NoLostActivation likewise.
Duty ==
    \A o \in Objects :
        /\ active[o] <=> HeldNow(o)
        /\ queue[o] # <<>> => active[o]

AInv == OneHolder /\ Duty

\* Handover, with its sets taken from the state before and after a step.
Moved(t, n, X, Y) ==
    /\ t \in Threads /\ n \in Nat
    /\ stack' \in [Threads -> Seq(GoodFrame)]
    /\ \A u \in Threads \ {t} : stack'[u] = stack[u]
    /\ Len(stack[t]) \in {n, n + 1} /\ Len(stack'[t]) \in {n, n + 1}
    /\ \A i \in 1 .. n : Has(stack'[t][i]) = Has(stack[t][i])
    /\ X = (IF Len(stack[t]) = n + 1 THEN Has(stack[t][n + 1]) ELSE {})
    /\ Y = (IF Len(stack'[t]) = n + 1 THEN Has(stack'[t][n + 1]) ELSE {})

PassedOn(X, Y) ==
    /\ Y \cap Elements(list') = {}
    /\ \A o \in Y \cup Elements(list') :
          o \in X \cup Elements(list) \/ ~HeldNow(o)

LEMMA Moves ==
    ASSUME IInv, OneHolder, NEW t, NEW n, NEW X, NEW Y,
           Moved(t, n, X, Y), PassedOn(X, Y)
    PROVE  /\ Alone(Threads, Depth, Hold, Elements(list))'
           /\ \A o : HeldNow(o)' <=>
                 \/ HeldNow(o) /\ o \notin X \cup Elements(list)
                 \/ o \in Y \cup Elements(list')
<1> USE DEF Moved, PassedOn
<1> DEFINE N == Depth
           N2 == Depth'
           R == Hold
           R2 == Hold'
           L == Elements(list)
           L2 == Elements(list')
<1>1. /\ N \in [Threads -> Nat] /\ N2 \in [Threads -> Nat]
      /\ \A u \in Threads : N[u] = Len(stack[u]) /\ N2[u] = Len(stack'[u])
  BY DEF Depth, IInv, Stacks
<1>2. \A u \in Threads :
         /\ \A i \in 1 .. N[u] : R[u][i] = Has(stack[u][i])
         /\ \A i \in 1 .. N2[u] : R2[u][i] = Has(stack'[u][i])
  BY <1>1 DEF Hold
<1>3. Alone(Threads, N, R, L)
  BY DEF OneHolder
<1>4. \A o : HeldNow(o) = Held(Threads, N, R, L, o)
  BY DEF HeldNow
<1>5. \A o : HeldNow(o)' = Held(Threads, N2, R2, L2, o)
  BY DEF HeldNow, Elements
<1>6. Alone(Threads, N2, R2, L2) <=> Alone(Threads, Depth, Hold, Elements(list))'
  BY DEF Elements
<1>7. /\ Y \cap L2 = {}
      /\ \A o \in Y \cup L2 : o \in X \cup L \/ ~Held(Threads, N, R, L, o)
  BY <1>4
<1> HIDE DEF N, N2, R, R2, L, L2
<1>8. ASSUME NEW u \in Threads \ {t}
      PROVE  N2[u] = N[u] /\ \A i \in 1 .. N[u] : R2[u][i] = R[u][i]
  <2>1. stack'[u] = stack[u] /\ N2[u] = N[u]
    BY <1>1
  <2>2. ASSUME NEW i \in 1 .. N[u] PROVE R2[u][i] = R[u][i]
    <3>1. R[u][i] = Has(stack[u][i])
      BY <1>2
    <3>2. R2[u][i] = Has(stack'[u][i])
      BY <1>2, <2>1
    <3> QED
      BY <2>1, <3>1, <3>2
  <2> QED
    BY <2>1, <2>2
<1>9. N[t] \in {n, n + 1} /\ N2[t] \in {n, n + 1}
  BY <1>1
<1>10. \A i \in 1 .. n : R2[t][i] = R[t][i]
  <2>1. \A i \in 1 .. n : i \in 1 .. N[t] /\ i \in 1 .. N2[t]
    BY <1>1, <1>9
  <2> QED
    BY <1>2, <2>1
<1>11. /\ X = (IF N[t] = n + 1 THEN R[t][n + 1] ELSE {})
       /\ Y = (IF N2[t] = n + 1 THEN R2[t][n + 1] ELSE {})
  <2>1. /\ N[t] = n + 1 => n + 1 \in 1 .. N[t]
        /\ N2[t] = n + 1 => n + 1 \in 1 .. N2[t]
    OBVIOUS
  <2> QED
    BY <1>1, <1>2, <2>1
<1>12. Step(Threads, N, N2, R, R2, t, n, X, Y)
  BY <1>1, <1>8, <1>9, <1>10, <1>11 DEF Step
<1>13. Passed(Threads, N, R, L, L2, X, Y)
  BY <1>7 DEF Passed
<1>14. /\ Alone(Threads, N2, R2, L2)
       /\ \A o : Held(Threads, N2, R2, L2, o) <=>
             \/ Held(Threads, N, R, L, o) /\ o \notin X \cup L
             \/ o \in Y \cup L2
  BY <1>3, <1>12, <1>13, Handover
<1> QED
  BY <1>4, <1>5, <1>6, <1>14 DEF L, L2

\* What the innermost call has is held, and is not on the list.
LEMMA TopHolds ==
    ASSUME IInv, OneHolder, NEW t \in Threads, stack[t] # <<>>
    PROVE  /\ Has(Top(t)) \cap Elements(list) = {}
           /\ \A o \in Has(Top(t)) : HeldNow(o)
           /\ Top(t).at = "signal" => Top(t).to # Top(t).obj
<1>1. /\ Len(stack[t]) \in 1 .. Len(stack[t])
      /\ Top(t) = stack[t][Len(stack[t])]
  <2>1. stack[t] \in Seq(GoodFrame)
    BY DEF IInv, Stacks
  <2>2. Len(stack[t]) \in Nat \ {0} /\ Last(stack[t]) = stack[t][Len(stack[t])]
    BY <2>1, TopAndFront
  <2> QED
    BY <2>2 DEF Top
<1>2. /\ Depth[t] = Len(stack[t])
      /\ Hold[t][Len(stack[t])] = Has(Top(t))
  BY <1>1 DEF Depth, Hold
<1> QED
  BY <1>1, <1>2 DEF OneHolder, Alone, HeldNow, Held

LEMMA ListHolds == ASSUME NEW o \in Elements(list) PROVE HeldNow(o)
BY DEF HeldNow, Held

\* The innermost call changes what it has.
LEMMA ReplaceMoves ==
    ASSUME IInv, OneHolder, NEW t \in Threads, stack[t] # <<>>,
           NEW f \in GoodFrame, Replace(t, f), Once(list'),
           f.at = "signal" => f.to # f.obj,
           Has(f) \cap Elements(list') = {},
           \A o \in Has(f) \cup Elements(list') :
              o \in Has(Top(t)) \cup Elements(list) \/ ~HeldNow(o)
    PROVE  /\ OneHolder'
           /\ \A o : HeldNow(o)' <=>
                 \/ HeldNow(o) /\ o \notin Has(Top(t)) \cup Elements(list)
                 \/ o \in Has(f) \cup Elements(list')
<1> DEFINE n == Len(stack[t]) - 1
<1>1. stack[t] \in Seq(GoodFrame)
  BY DEF IInv, Stacks
<1>2. n \in Nat /\ Len(stack[t]) = n + 1 /\ Top(t) = stack[t][n + 1]
  <2>1. Len(stack[t]) \in Nat \ {0} /\ Last(stack[t]) = stack[t][Len(stack[t])]
    BY <1>1, TopAndFront
  <2> QED
    BY <2>1 DEF Top
<1>3. /\ Append(Front(stack[t]), f) \in Seq(GoodFrame)
      /\ Len(Append(Front(stack[t]), f)) = Len(stack[t])
      /\ \A i \in 1 .. Len(stack[t]) :
            Append(Front(stack[t]), f)[i] = IF i = Len(stack[t]) THEN f ELSE stack[t][i]
  BY <1>1, TopReplaced
<1>4. /\ stack' \in [Threads -> Seq(GoodFrame)]
      /\ \A u \in Threads \ {t} : stack'[u] = stack[u]
      /\ stack'[t] = Append(Front(stack[t]), f)
  BY <1>3 DEF Replace, IInv, Stacks
<1> HIDE DEF n
<1>5. /\ Len(stack'[t]) = n + 1
      /\ \A i \in 1 .. n : stack'[t][i] = stack[t][i]
      /\ stack'[t][n + 1] = f
  BY <1>2, <1>3, <1>4
<1>6. Moved(t, n, Has(Top(t)), Has(f)) /\ PassedOn(Has(Top(t)), Has(f))
  BY <1>2, <1>4, <1>5 DEF Moved, PassedOn
<1>7. /\ Alone(Threads, Depth, Hold, Elements(list))'
      /\ \A o : HeldNow(o)' <=>
            \/ HeldNow(o) /\ o \notin Has(Top(t)) \cup Elements(list)
            \/ o \in Has(f) \cup Elements(list')
  BY <1>6, Moves
<1>8. \A u \in Threads : \A i \in 1 .. Len(stack'[u]) :
         stack'[u][i].at = "signal" => stack'[u][i].to # stack'[u][i].obj
  <2>1. ASSUME NEW i \in 1 .. Len(stack'[t])
        PROVE  stack'[t][i].at = "signal" => stack'[t][i].to # stack'[t][i].obj
    <3>1. CASE i = n + 1
      BY <1>5, <3>1
    <3>2. CASE i # n + 1
      <4>1. i \in 1 .. n /\ i \in 1 .. Len(stack[t])
        BY <1>2, <1>5, <3>2
      <4> QED
        BY <1>5, <4>1 DEF OneHolder
    <3> QED
      BY <3>1, <3>2
  <2> QED
    BY <1>4, <2>1 DEF OneHolder
<1> QED
  BY <1>7, <1>8 DEF OneHolder, Once

\* The innermost call changes nothing of what it has, nor the list.
LEMMA SameHolder ==
    ASSUME IInv, OneHolder, NEW t \in Threads, stack[t] # <<>>,
           NEW f \in GoodFrame, Replace(t, f), UNCHANGED list,
           f.at # "signal", Has(f) = Has(Top(t))
    PROVE  OneHolder' /\ \A o : HeldNow(o)' <=> HeldNow(o)
<1>1. Once(list') /\ Elements(list') = Elements(list)
  BY DEF OneHolder
<1>2. /\ Has(f) \cap Elements(list') = {}
      /\ \A o \in Has(f) \cup Elements(list) : HeldNow(o)
  BY <1>1, TopHolds, ListHolds
<1>3. /\ OneHolder'
      /\ \A o : HeldNow(o)' <=>
            \/ HeldNow(o) /\ o \notin Has(Top(t)) \cup Elements(list)
            \/ o \in Has(f) \cup Elements(list')
  BY <1>1, <1>2, ReplaceMoves
<1> QED
  BY <1>1, <1>2, <1>3

\* The innermost call ends; what it had may go to the list.
LEMMA LeaveMoves ==
    ASSUME IInv, OneHolder, NEW t \in Threads, stack[t] # <<>>, Leave(t),
           Once(list'), Elements(list') \subseteq Has(Top(t)) \cup Elements(list)
    PROVE  /\ OneHolder'
           /\ \A o : HeldNow(o)' <=>
                 \/ HeldNow(o) /\ o \notin Has(Top(t)) \cup Elements(list)
                 \/ o \in Elements(list')
<1> DEFINE n == Len(stack[t]) - 1
<1>1. stack[t] \in Seq(GoodFrame)
  BY DEF IInv, Stacks
<1>2. /\ n \in Nat /\ Len(stack[t]) = n + 1 /\ Top(t) = stack[t][n + 1]
      /\ Front(stack[t]) \in Seq(GoodFrame) /\ Len(Front(stack[t])) = n
      /\ \A i \in 1 .. n : Front(stack[t])[i] = stack[t][i]
  <2>1. /\ Len(stack[t]) \in Nat \ {0}
        /\ Last(stack[t]) = stack[t][Len(stack[t])]
        /\ Front(stack[t]) \in Seq(GoodFrame)
        /\ Len(Front(stack[t])) = Len(stack[t]) - 1
        /\ \A i \in 1 .. Len(stack[t]) - 1 : Front(stack[t])[i] = stack[t][i]
    BY <1>1, TopAndFront
  <2> QED
    BY <2>1 DEF Top
<1> HIDE DEF n
<1>3. /\ stack' \in [Threads -> Seq(GoodFrame)]
      /\ \A u \in Threads \ {t} : stack'[u] = stack[u]
      /\ stack'[t] = Front(stack[t])
  BY <1>2 DEF Leave, IInv, Stacks
<1>4. Len(stack'[t]) = n /\ \A i \in 1 .. n : stack'[t][i] = stack[t][i]
  BY <1>2, <1>3
<1>5. Moved(t, n, Has(Top(t)), {}) /\ PassedOn(Has(Top(t)), {})
  BY <1>2, <1>3, <1>4 DEF Moved, PassedOn
<1>6. /\ Alone(Threads, Depth, Hold, Elements(list))'
      /\ \A o : HeldNow(o)' <=>
            \/ HeldNow(o) /\ o \notin Has(Top(t)) \cup Elements(list)
            \/ o \in {} \cup Elements(list')
  BY <1>5, Moves
<1>7. \A u \in Threads : \A i \in 1 .. Len(stack'[u]) :
         stack'[u][i].at = "signal" => stack'[u][i].to # stack'[u][i].obj
  <2>1. ASSUME NEW i \in 1 .. Len(stack'[t])
        PROVE  stack'[t][i].at = "signal" => stack'[t][i].to # stack'[t][i].obj
    BY <1>2, <1>4 DEF OneHolder
  <2> QED
    BY <1>3, <2>1 DEF OneHolder
<1> QED
  BY <1>6, <1>7 DEF OneHolder, Once

\* An object goes from the list to a new call, on top of the calls there are.
LEMMA CallMoves ==
    ASSUME IInv, OneHolder, NEW t \in Threads, NEW s \in Seq(GoodFrame),
           stack' = [stack EXCEPT ![t] = s],
           list # <<>>, list' = Tail(list),
           Len(s) = Len(stack[t]) + 1,
           \A i \in 1 .. Len(stack[t]) :
              /\ Has(s[i]) = Has(stack[t][i])
              /\ s[i].at = "signal" => s[i].to # s[i].obj,
           Has(s[Len(s)]) = {Head(list)}, s[Len(s)].at # "signal"
    PROVE  OneHolder' /\ \A o : HeldNow(o)' <=> HeldNow(o)
<1> DEFINE n == Len(stack[t])
<1>1. n \in Nat /\ n # n + 1
  BY DEF IInv, Stacks
<1>2. /\ stack' \in [Threads -> Seq(GoodFrame)]
      /\ \A u \in Threads \ {t} : stack'[u] = stack[u]
      /\ stack'[t] = s
  BY DEF IInv, Stacks
<1>3. /\ Once(list') /\ Head(list) \in Elements(list)
      /\ Elements(list') = Elements(list) \ {Head(list)}
  BY HeadTaken DEF OneHolder, IInv, Rest
<1>4. Len(stack'[t]) = n + 1 /\ Has(stack'[t][n + 1]) = {Head(list)}
  BY <1>2
<1>5. \A i \in 1 .. n : Has(stack'[t][i]) = Has(stack[t][i])
  BY <1>2
<1> HIDE DEF n
<1>6. Moved(t, n, {}, {Head(list)}) /\ PassedOn({}, {Head(list)})
  BY <1>1, <1>2, <1>3, <1>4, <1>5 DEF Moved, PassedOn, n
<1>7. /\ Alone(Threads, Depth, Hold, Elements(list))'
      /\ \A o : HeldNow(o)' <=>
            \/ HeldNow(o) /\ o \notin {} \cup Elements(list)
            \/ o \in {Head(list)} \cup Elements(list')
  BY <1>6, Moves
<1>8. \A u \in Threads : \A i \in 1 .. Len(stack'[u]) :
         stack'[u][i].at = "signal" => stack'[u][i].to # stack'[u][i].obj
  <2>1. ASSUME NEW i \in 1 .. Len(stack'[t])
        PROVE  stack'[t][i].at = "signal" => stack'[t][i].to # stack'[t][i].obj
    BY <1>1, <1>2 DEF n
  <2> QED
    BY <1>2, <2>1 DEF OneHolder
<1> QED
  BY <1>3, <1>7, <1>8, ListHolds DEF OneHolder, Once
-----------------------------------------------------------------------------
(* The steps keep the activations *)

\* Steps after which the same objects are held.
LEMMA SameDuty ==
    ASSUME Duty, UNCHANGED active,
           \A o \in Objects : queue'[o] # <<>> => queue[o] # <<>>,
           \A o : HeldNow(o)' <=> HeldNow(o)
    PROVE  Duty'
BY DEF Duty

LEMMA GotoSame ==
    ASSUME IInv, AInv, NEW t \in Threads, stack[t] # <<>>, NEW place,
           Top(t).at # "signal", place # "signal", Goto(t, place),
           [Top(t) EXCEPT !.at = place] \in GoodFrame,
           UNCHANGED <<list, active>>,
           \A o \in Objects : queue'[o] # <<>> => queue[o] # <<>>
    PROVE  AInv'
<1> DEFINE f == [Top(t) EXCEPT !.at = place]
<1>1. Top(t) \in GoodFrame
  BY TopGood DEF IInv
<1>2. f.at = place /\ f.obj = Top(t).obj
  BY <1>1 DEF GoodFrame, Frame
<1>3. Has(f) = Has(Top(t)) /\ Replace(t, f) /\ f \in GoodFrame
  BY <1>2 DEF Has, Goto
<1> HIDE DEF f
<1>4. OneHolder' /\ \A o : HeldNow(o)' <=> HeldNow(o)
  BY <1>2, <1>3, SameHolder DEF AInv
<1> QED
  BY <1>4, SameDuty DEF AInv

\* enqueue: the caller answers for an object that nobody held.
LEMMA EnqueueHolds ==
    ASSUME IInv, AInv, NEW t \in Threads, stack[t] # <<>>,
           Top(t).at \in {"method", "check"}, UNCHANGED list,
           NEW o \in Objects, NEW q, NEW p, Enqueue(t, o, q, p)
    PROVE  AInv'
<1>1. Top(t) \in GoodFrame
  BY TopGood DEF IInv
<1>2. /\ active' = [active EXCEPT ![o] = TRUE] /\ active'[o] = TRUE
      /\ \A x \in Objects \ {o} : queue'[x] = queue[x] /\ active'[x] = active[x]
  <2>1. PICK k : queue' = [queue EXCEPT ![o] = InsertAt(q, k + 1, p)]
    BY DEF Enqueue
  <2>2. active' = [active EXCEPT ![o] = TRUE]
    BY DEF Enqueue
  <2> QED
    BY <2>1, <2>2 DEF IInv, Rest, Queues
<1>3. CASE active[o]
  <2> DEFINE f == [Top(t) EXCEPT !.at = "method", !.to = NoObject, !.prio = 0]
  <2>1. f \in GoodFrame
    BY CallGood DEF IInv
  <2>2. f.at = "method" /\ f.obj = Top(t).obj
    BY <1>1 DEF GoodFrame, Frame
  <2>3. Has(f) = Has(Top(t))
    BY <2>2 DEF Has
  <2>4. Replace(t, f)
    BY <1>3 DEF Enqueue, Continue
  <2> HIDE DEF f
  <2>5. OneHolder' /\ \A x : HeldNow(x)' <=> HeldNow(x)
    BY <2>1, <2>2, <2>3, <2>4, SameHolder DEF AInv
  <2> QED
    BY <1>2, <1>3, <2>5 DEF AInv, Duty
<1>4. CASE ~active[o]
  <2> DEFINE f == [Top(t) EXCEPT !.at = "signal", !.to = o, !.prio = 0]
  <2>1. f \in GoodFrame
    BY CallGood DEF IInv
  <2>2. f.at = "signal" /\ f.obj = Top(t).obj /\ f.to = o
    BY <1>1 DEF GoodFrame, Frame
  <2>3. o # NoObject
    BY AdvancedAssumption DEF AdvancedAssumption
  <2>4. Has(f) = Has(Top(t)) \cup {o}
    BY <2>2, <2>3 DEF Has
  <2>5. Replace(t, f)
    BY <1>4 DEF Enqueue
  <2>6. ~HeldNow(o)
    BY <1>4 DEF AInv, Duty
  <2>7. f.to # f.obj
    <3>1. Top(t).obj = o => o \in Has(Top(t))
      BY <2>3 DEF Has
    <3> QED
      BY <2>2, <2>6, <3>1, TopHolds DEF AInv
  <2> HIDE DEF f
  <2>8. Once(list') /\ Elements(list') = Elements(list)
    BY DEF AInv, OneHolder
  <2>9. Has(f) \cap Elements(list') = {}
    BY <2>4, <2>6, <2>8, TopHolds, ListHolds DEF AInv
  <2>10. /\ OneHolder'
         /\ \A x : HeldNow(x)' <=>
               \/ HeldNow(x) /\ x \notin Has(Top(t)) \cup Elements(list)
               \/ x \in Has(f) \cup Elements(list')
    BY <2>1, <2>4, <2>5, <2>6, <2>7, <2>8, <2>9, ReplaceMoves DEF AInv
  <2>11. \A x : HeldNow(x)' <=> HeldNow(x) \/ x = o
    BY <2>4, <2>8, <2>10, TopHolds, ListHolds DEF AInv
  <2> QED
    BY <1>2, <2>10, <2>11 DEF AInv, Duty
<1> QED
  BY <1>3, <1>4

LEMMA SendHolds ==
    ASSUME IInv, AInv, NEW t \in Threads, NEW o \in Objects, NEW p \in Priorities,
           Send(t, o, p)
    PROVE  AInv'
<1>1. stack[t] # <<>> /\ Top(t).at = "method" /\ UNCHANGED list
  BY DEF Send, At
<1>2. ASSUME NEW q, Enqueue(t, o, q, p) PROVE AInv'
  BY <1>1, <1>2, EnqueueHolds
<1>3. CASE UNCHANGED <<queue, active, stack>>
  <2>1. Depth' = Depth /\ Hold' = Hold /\ list' = list
    BY <1>1, <1>3 DEF Depth, Hold
  <2>2. OneHolder' /\ \A x : HeldNow(x)' <=> HeldNow(x)
    BY <1>3, <2>1 DEF AInv, OneHolder, HeldNow, Once, Elements
  <2> QED
    BY <1>3, <2>2, SameDuty DEF AInv
<1>4. CASE /\ policy = "block"
           /\ Replace(t, [Top(t) EXCEPT !.at = "full", !.to = o, !.prio = p])
           /\ UNCHANGED <<queue, active>>
  <2> DEFINE f == [Top(t) EXCEPT !.at = "full", !.to = o, !.prio = p]
  <2>1. f \in GoodFrame
    BY <1>1, <1>4, TopGood DEF GoodFrame, Frame, Places, IInv
  <2>2. f.at = "full" /\ f.obj = Top(t).obj
    BY <1>1, TopGood DEF GoodFrame, Frame, IInv
  <2>3. Has(f) = Has(Top(t)) /\ Replace(t, f)
    BY <1>1, <1>4, <2>2 DEF Has
  <2> HIDE DEF f
  <2>4. OneHolder' /\ \A x : HeldNow(x)' <=> HeldNow(x)
    BY <1>1, <2>1, <2>2, <2>3, SameHolder DEF AInv
  <2> QED
    BY <1>4, <2>4, SameDuty DEF AInv
<1> QED
  BY <1>2, <1>3, <1>4 DEF Send

LEMMA IdleHolds ==
    ASSUME IInv, AInv, NEW t \in Threads, Idle(t)
    PROVE  AInv'
<1>1. stack[t] # <<>> /\ Top(t).at = "full" /\ Top(t) \in GoodFrame
  BY TopGood DEF Idle, At, IInv
<1> DEFINE f == [Top(t) EXCEPT !.at = "check"]
           g == Called(Head(list), "loop", Budget)
           s == Append(Front(stack[t]), f) \o <<g>>
<1>2. f \in GoodFrame /\ f.at = "check" /\ f.obj = Top(t).obj
  BY <1>1 DEF GoodFrame, Frame, Places
<1>3. CASE list = <<>>
  BY <1>1, <1>2, <1>3, GotoSame DEF Idle
<1>4. CASE list # <<>>
  <2>1. Head(list) \in Objects
    BY <1>4 DEF IInv, Rest
  <2>2. g \in GoodFrame /\ g.at = "loop" /\ Has(g) = {Head(list)}
    <3>1. Budget \in 0 .. Budget /\ Head(list) # NoObject
      BY <2>1, AdvancedAssumption DEF AdvancedAssumption
    <3>2. g \in GoodFrame
      BY <2>1, <3>1, CalledGood, AdvancedAssumption
    <3> QED
      BY <3>1, <3>2 DEF Called, Has
  <2>3. stack[t] \in Seq(GoodFrame)
    BY DEF IInv, Stacks
  <2>4. Has(f) = Has(Top(t))
    BY <1>1, <1>2 DEF Has
  <2>5. Top(t) = stack[t][Len(stack[t])] /\ Len(stack[t]) \in Nat \ {0}
    BY <1>1, <2>3, TopAndFront DEF Top
  <2>6. stack' = [stack EXCEPT ![t] = s] /\ list' = Tail(list)
    BY <1>4 DEF Idle
  <2>7. /\ Append(Front(stack[t]), f) \in Seq(GoodFrame)
        /\ Len(Append(Front(stack[t]), f)) = Len(stack[t])
        /\ \A i \in 1 .. Len(stack[t]) :
              Append(Front(stack[t]), f)[i] =
                 IF i = Len(stack[t]) THEN f ELSE stack[t][i]
    BY <1>1, <1>2, <2>3, TopReplaced
  <2> HIDE DEF f, g
  <2>8. /\ s \in Seq(GoodFrame) /\ Len(s) = Len(stack[t]) + 1
        /\ \A i \in 1 .. Len(stack[t]) :
              s[i] = IF i = Len(stack[t]) THEN f ELSE stack[t][i]
        /\ s[Len(s)] = g
    <3> DEFINE below == Append(Front(stack[t]), f)
    <3>1. <<g>> \in Seq(GoodFrame) /\ Len(<<g>>) = 1 /\ <<g>>[1] = g
      BY <2>2
    <3> HIDE DEF below
    <3>2. below \in Seq(GoodFrame)
      BY <2>7 DEF below
    <3>3. /\ below \o <<g>> \in Seq(GoodFrame)
          /\ Len(below \o <<g>>) = Len(below) + Len(<<g>>)
          /\ \A i \in 1 .. Len(below) + Len(<<g>>) :
                (below \o <<g>>)[i] =
                   IF i <= Len(below) THEN below[i] ELSE <<g>>[i - Len(below)]
      BY <3>1, <3>2, ConcatProperties
    <3>4. Len(below) = Len(stack[t])
      BY <2>7 DEF below
    <3>5. /\ Len(below \o <<g>>) = Len(stack[t]) + 1
          /\ \A i \in 1 .. Len(stack[t]) : (below \o <<g>>)[i] = below[i]
          /\ (below \o <<g>>)[Len(stack[t]) + 1] = g
      BY <3>1, <3>3, <3>4, <2>5
    <3> QED
      BY <3>3, <3>5, <2>7 DEF below
  <2>9. ASSUME NEW i \in 1 .. Len(stack[t])
        PROVE  /\ Has(s[i]) = Has(stack[t][i])
               /\ s[i].at = "signal" => s[i].to # s[i].obj
    <3>1. CASE i = Len(stack[t])
      BY <1>2, <2>4, <2>5, <2>8, <3>1 DEF f
    <3>2. CASE i # Len(stack[t])
      BY <2>8, <3>2 DEF AInv, OneHolder
    <3> QED
      BY <3>1, <3>2
  <2>10. g.at # "signal"
    BY <2>2 DEF g
  <2> HIDE DEF s
  <2>11. OneHolder' /\ \A x : HeldNow(x)' <=> HeldNow(x)
    BY <1>4, <2>2, <2>6, <2>8, <2>9, <2>10, CallMoves DEF AInv
  <2> QED
    BY <2>11, SameDuty DEF Idle, AInv
<1> QED
  BY <1>3, <1>4

LEMMA CheckHolds ==
    ASSUME IInv, AInv, NEW t \in Threads, Check(t)
    PROVE  AInv'
<1>1. stack[t] # <<>> /\ Top(t).at = "check" /\ Top(t) \in GoodFrame
  BY TopGood DEF Check, At, IInv
<1>2. Top(t).to \in Objects /\ UNCHANGED list
  BY <1>1 DEF GoodFrame, Check
<1>3. CASE Room(Top(t).to, Top(t).prio)
  BY <1>1, <1>2, <1>3, EnqueueHolds DEF Check
<1>4. CASE ~Room(Top(t).to, Top(t).prio)
  <2>1. [Top(t) EXCEPT !.at = "full"] \in GoodFrame
    BY <1>1 DEF GoodFrame, Frame, Places
  <2> QED
    BY <1>1, <1>2, <1>4, <2>1, GotoSame DEF Check
<1> QED
  BY <1>3, <1>4

LEMMA SignalHolds ==
    ASSUME IInv, AInv, NEW t \in Threads, Signal(t)
    PROVE  AInv'
<1> DEFINE f == [Top(t) EXCEPT !.at = "method", !.to = NoObject, !.prio = 0]
           o == Top(t).to
<1>1. stack[t] # <<>> /\ Top(t).at = "signal" /\ Top(t) \in GoodFrame
  BY TopGood DEF Signal, At, IInv
<1>2. /\ f \in GoodFrame /\ f.at = "method" /\ f.obj = Top(t).obj
      /\ Replace(t, f)
  BY <1>1, CallGood DEF GoodFrame, Frame, IInv, Signal, Continue
<1>3. o \in Objects /\ o # NoObject /\ o # Top(t).obj
  BY <1>1, TopHolds, AdvancedAssumption DEF GoodFrame, AInv, AdvancedAssumption
<1>4. Has(Top(t)) = Has(f) \cup {o} /\ o \notin Has(f)
  BY <1>1, <1>2, <1>3 DEF Has
<1>5. /\ Has(Top(t)) \cap Elements(list) = {}
      /\ \A x \in Has(Top(t)) \cup Elements(list) : HeldNow(x)
  BY <1>1, TopHolds, ListHolds DEF AInv
<1> HIDE DEF f, o
<1>6. Once(list') /\ Elements(list') = Elements(list) \cup {o}
  <2>1. list \in Seq(Objects) /\ Once(list) /\ o \notin Elements(list)
    BY <1>4, <1>5 DEF IInv, Rest, AInv, OneHolder
  <2>2. list' = Append(list, o)
    BY DEF Signal, o
  <2> QED
    BY <1>3, <2>1, <2>2, Appended
<1>7. /\ OneHolder'
      /\ \A x : HeldNow(x)' <=>
            \/ HeldNow(x) /\ x \notin Has(Top(t)) \cup Elements(list)
            \/ x \in Has(f) \cup Elements(list')
  BY <1>1, <1>2, <1>4, <1>5, <1>6, ReplaceMoves DEF AInv
<1>8. \A x : HeldNow(x)' <=> HeldNow(x)
  BY <1>4, <1>5, <1>6, <1>7
<1> QED
  BY <1>7, <1>8, SameDuty DEF AInv, Signal

LEMMA TakeHolds ==
    ASSUME IInv, AInv, NEW t \in Threads, Take(t)
    PROVE  AInv'
<1> DEFINE g == Called(Head(list), "loop", Budget)
           s == <<g>>
<1>1. /\ stack[t] = <<>> /\ list # <<>> /\ list' = Tail(list)
      /\ stack' = [stack EXCEPT ![t] = s]
  BY DEF Take
<1>2. g \in GoodFrame /\ g.at = "loop" /\ Has(g) = {Head(list)}
  <2>1. Head(list) \in Objects
    BY <1>1 DEF IInv, Rest
  <2>2. Budget \in 0 .. Budget /\ Head(list) # NoObject
    BY <2>1, AdvancedAssumption DEF AdvancedAssumption
  <2>3. g \in GoodFrame
    BY <2>1, <2>2, CalledGood, AdvancedAssumption
  <2> QED
    BY <2>2, <2>3 DEF Called, Has
<1> HIDE DEF g
<1>3. s \in Seq(GoodFrame) /\ Len(s) = Len(stack[t]) + 1 /\ s[Len(s)] = g
  BY <1>1, <1>2
<1>4. \A i \in 1 .. Len(stack[t]) : FALSE
  BY <1>1
<1> HIDE DEF s
<1>5. OneHolder' /\ \A x : HeldNow(x)' <=> HeldNow(x)
  BY <1>1, <1>2, <1>3, <1>4, CallMoves DEF AInv
<1> QED
  BY <1>5, SameDuty DEF AInv, Take

\* run_some: m_activated goes down with the last thing that held the object.
LEMMA LoopHolds ==
    ASSUME IInv, AInv, NEW t \in Threads, stack[t] # <<>>,
           Top(t).at \in {"loop", "method"}, Top(t).obj \in Objects,
           UNCHANGED list, Loop(t)
    PROVE  AInv'
<1> DEFINE o == Top(t).obj
           n == Top(t).left
<1>1. Top(t) \in GoodFrame /\ n \in 0 .. Budget /\ Budget \in Nat
  BY TopGood, AdvancedAssumption DEF IInv, GoodFrame, Frame, AdvancedAssumption
<1>2. o # NoObject /\ Has(Top(t)) = {o}
  BY AdvancedAssumption DEF AdvancedAssumption, Has
<1>3. HeldNow(o) /\ active[o]
  BY <1>2, TopHolds DEF AInv, Duty
<1>4. CASE /\ queue[o] # <<>> /\ n > 0
           /\ queue' = [queue EXCEPT ![o] = Tail(@)]
           /\ Replace(t, Called(o, "method", n - 1))
           /\ UNCHANGED active
  <2> DEFINE f == Called(o, "method", n - 1)
  <2>1. n - 1 \in 0 .. Budget
    BY <1>1, <1>4
  <2>2. f \in GoodFrame
    BY <2>1, CalledGood, AdvancedAssumption
  <2>3. f.at = "method" /\ Has(f) = Has(Top(t)) /\ Replace(t, f)
    BY <1>2, <1>4 DEF Called, Has
  <2> HIDE DEF f
  <2>4. OneHolder' /\ \A x : HeldNow(x)' <=> HeldNow(x)
    BY <2>2, <2>3, SameHolder DEF AInv
  <2>5. \A x \in Objects : queue'[x] # <<>> => queue[x] # <<>>
    BY <1>4 DEF IInv, Queues
  <2> QED
    BY <1>4, <2>4, <2>5, SameDuty DEF AInv
<1>5. CASE /\ queue[o] # <<>> /\ n = 0
           /\ active' = [active EXCEPT ![o] = TRUE]
           /\ Goto(t, "resched")
           /\ UNCHANGED queue
  <2>1. [Top(t) EXCEPT !.at = "resched"] \in GoodFrame
    BY <1>1 DEF GoodFrame, Frame, Places
  <2>2. UNCHANGED active
    BY <1>3, <1>5 DEF IInv, Rest
  <2> QED
    BY <1>5, <2>1, <2>2, GotoSame
<1>6. CASE /\ queue[o] = <<>>
           /\ active' = [active EXCEPT ![o] = FALSE]
           /\ Leave(t)
           /\ UNCHANGED queue
  <2>1. Once(list') /\ Elements(list') = Elements(list)
    BY DEF AInv, OneHolder
  <2>2. /\ OneHolder'
        /\ \A x : HeldNow(x)' <=>
              \/ HeldNow(x) /\ x \notin Has(Top(t)) \cup Elements(list)
              \/ x \in Elements(list')
    BY <1>6, <2>1, LeaveMoves DEF AInv
  <2>3. \A x : HeldNow(x)' <=> HeldNow(x) /\ x # o
    BY <1>2, <2>1, <2>2, TopHolds, ListHolds DEF AInv
  <2>4. \A x \in Objects : active'[x] <=> active[x] /\ x # o
    BY <1>6 DEF IInv, Rest
  <2> QED
    BY <1>6, <2>2, <2>3, <2>4 DEF AInv, Duty
<1> QED
  BY <1>4, <1>5, <1>6 DEF Loop

LEMMA ReschedHolds ==
    ASSUME IInv, AInv, NEW t \in Threads, Resched(t)
    PROVE  AInv'
<1> DEFINE o == Top(t).obj
<1>1. stack[t] # <<>> /\ Top(t).at = "resched" /\ o \in Objects
  BY TopGood DEF Resched, At, IInv, GoodFrame
<1>2. Has(Top(t)) = {o}
  BY <1>1, AdvancedAssumption DEF AdvancedAssumption, Has
<1>3. o \notin Elements(list) /\ HeldNow(o)
  BY <1>1, <1>2, TopHolds DEF AInv
<1>4. Once(list') /\ Elements(list') = Elements(list) \cup {o}
  <2>1. list \in Seq(Objects) /\ Once(list) /\ list' = Append(list, o)
    BY DEF IInv, Rest, AInv, OneHolder, Resched
  <2> QED
    BY <1>1, <1>3, <2>1, Appended
<1>5. /\ OneHolder'
      /\ \A x : HeldNow(x)' <=>
            \/ HeldNow(x) /\ x \notin Has(Top(t)) \cup Elements(list)
            \/ x \in Elements(list')
  BY <1>1, <1>2, <1>4, LeaveMoves DEF AInv, Resched
<1>6. \A x : HeldNow(x)' <=> HeldNow(x)
  BY <1>2, <1>3, <1>4, <1>5, ListHolds
<1> QED
  BY <1>5, <1>6, SameDuty DEF AInv, Resched

LEMMA SameActivations ==
    ASSUME AInv, UNCHANGED <<active, list, stack>>,
           \A o \in Objects : queue'[o] # <<>> => queue[o] # <<>>
    PROVE  AInv'
<1>1. Depth' = Depth /\ Hold' = Hold /\ list' = list
  BY DEF Depth, Hold
<1>2. OneHolder' /\ \A x : HeldNow(x)' <=> HeldNow(x)
  BY <1>1 DEF AInv, OneHolder, HeldNow, Once, Elements
<1> QED
  BY <1>2, SameDuty DEF AInv

LEMMA InitActivations == Init => AInv
<1> SUFFICES ASSUME Init PROVE AInv
  OBVIOUS
<1>1. Elements(list) = {} /\ Once(list)
  BY DEF Init, Elements, Once
<1>2. Has(Called(NoObject, "method", 0)) = {}
  BY DEF Called, Has
<1>3. ASSUME NEW t \in Threads, NEW i \in 1 .. Len(stack[t])
      PROVE  Hold[t][i] = {} /\ stack[t][i].at = "method"
  <2>1. t = Main /\ stack[t] = <<Called(NoObject, "method", 0)>>
    BY <1>3 DEF Init
  <2>2. stack[t][i] = Called(NoObject, "method", 0)
    BY <2>1
  <2> QED
    BY <1>2, <2>2 DEF Hold, Called
<1>4. \A t \in Threads : Depth[t] = Len(stack[t])
  BY DEF Depth
<1>5. OneHolder
  BY <1>1, <1>3, <1>4 DEF OneHolder, Alone
<1>6. Duty
  <2>1. \A o : ~HeldNow(o)
    BY <1>1, <1>3, <1>4 DEF HeldNow, Held
  <2> QED
    BY <2>1 DEF Init, Duty
<1> QED
  BY <1>5, <1>6 DEF AInv

LEMMA NextActivations == IInv /\ AInv /\ [Next]_vars => AInv'
<1> SUFFICES ASSUME IInv, AInv, [Next]_vars PROVE AInv'
  OBVIOUS
<1>1. ASSUME NEW t \in Threads, NEW o \in Objects, NEW p \in Priorities,
             Send(t, o, p)
      PROVE  AInv'
  BY <1>1, SendHolds
<1>2. ASSUME NEW t \in Threads, Work(t) PROVE AInv'
  <2>1. CASE Begin(t) \/ EndMethod(t)
    <3>1. /\ stack[t] # <<>> /\ Top(t).at \in {"loop", "method"}
          /\ Loop(t) /\ UNCHANGED list
      BY <2>1 DEF Begin, EndMethod, At
    <3>2. Top(t) \in GoodFrame
      BY <3>1, TopGood DEF IInv
    <3>3. Top(t).obj \in Objects
      BY <2>1, <3>2 DEF Begin, EndMethod, At, GoodFrame, Frame
    <3> QED
      BY <3>1, <3>3, LoopHolds
  <2> QED
    BY <1>2, <2>1, IdleHolds, CheckHolds, SignalHolds, TakeHolds, ReschedHolds
       DEF Work
<1>3. ASSUME NEW t \in Threads, Clear(t) PROVE AInv'
  <2>1. \A o \in Objects : queue'[o] # <<>> => queue[o] # <<>>
    BY <1>3 DEF Clear, IInv, Queues
  <2> QED
    BY <1>3, <2>1, SameActivations DEF Clear
<1>4. CASE UNCHANGED vars
  BY <1>4, SameActivations DEF vars
<1> QED
  BY <1>1, <1>2, <1>3, <1>4 DEF Next

LEMMA AInvHolds == Spec => []AInv
<1>1. IInv /\ AInv /\ [Next]_vars => AInv'
  BY NextActivations
<1> QED
  BY <1>1, InitActivations, IInvHolds, PTL DEF Spec
-----------------------------------------------------------------------------
(* Back to the positions that the properties are about *)

CallsOf(o) == {x \in AllFrames : FrameOf(x).obj = o}
SendersTo(o) == {x \in AllFrames : FrameOf(x).at = "signal" /\ FrameOf(x).to = o}
Positions(o) == {i \in DOMAIN list : list[i] = o}

LEMMA HoldersAre ==
    ASSUME NEW o, NEW x
    PROVE  x \in Holders(o) <=>
              \/ \E i \in Positions(o) : x = <<"list", i>>
              \/ \E y \in CallsOf(o) : x = <<"frame", y>>
              \/ \E y \in SendersTo(o) : x = <<"sender", y>>
BY DEF Holders, CallsOf, SendersTo, Positions

\* A call that is one of the holders has the object.
LEMMA CallsHave ==
    ASSUME IInv, NEW o \in Objects, NEW x \in CallsOf(o) \cup SendersTo(o)
    PROVE  \E t \in Threads : \E i \in 1 .. Depth[t] :
              x = <<t, i>> /\ o \in Hold[t][i]
<1>1. o # NoObject
  BY AdvancedAssumption DEF AdvancedAssumption
<1>2. PICK t \in Threads : x \in {<<t, i>> : i \in DOMAIN stack[t]}
  BY DEF CallsOf, SendersTo, AllFrames, Frames
<1>3. PICK i \in DOMAIN stack[t] : x = <<t, i>>
  BY <1>2
<1>4. DOMAIN stack[t] = 1 .. Len(stack[t]) /\ FrameOf(x) = stack[t][i]
  BY <1>3 DEF IInv, Stacks, FrameOf
<1>5. i \in 1 .. Depth[t] /\ Hold[t][i] = Has(stack[t][i])
  BY <1>4 DEF Depth, Hold
<1>6. o \in Has(stack[t][i])
  BY <1>1, <1>4 DEF CallsOf, SendersTo, Has
<1> QED
  BY <1>3, <1>5, <1>6

\* No two calls have it, nor a call and the list, nor one call in two ways.
LEMMA OneCall ==
    ASSUME IInv, OneHolder, NEW o \in Objects
    PROVE  /\ \A x, y \in CallsOf(o) \cup SendersTo(o) : x = y
           /\ \A i, j \in Positions(o) : i = j
           /\ Positions(o) # {} => CallsOf(o) \cup SendersTo(o) = {}
           /\ CallsOf(o) \cap SendersTo(o) = {}
<1>1. DOMAIN list = 1 .. Len(list)
  BY DEF IInv, Rest
<1>2. ASSUME NEW x \in CallsOf(o) \cup SendersTo(o), NEW y \in CallsOf(o) \cup SendersTo(o)
      PROVE  x = y
  <2>1. PICK t \in Threads : \E i \in 1 .. Depth[t] : x = <<t, i>> /\ o \in Hold[t][i]
    BY CallsHave
  <2>2. PICK i \in 1 .. Depth[t] : x = <<t, i>> /\ o \in Hold[t][i]
    BY <2>1
  <2>3. PICK u \in Threads : \E j \in 1 .. Depth[u] : y = <<u, j>> /\ o \in Hold[u][j]
    BY CallsHave
  <2>4. PICK j \in 1 .. Depth[u] : y = <<u, j>> /\ o \in Hold[u][j]
    BY <2>3
  <2>5. Hold[t][i] \cap Hold[u][j] # {}
    BY <2>2, <2>4
  <2> QED
    BY <2>2, <2>4, <2>5 DEF OneHolder, Alone
<1>3. \A i, j \in Positions(o) : i = j
  BY <1>1 DEF Positions, OneHolder, Once
<1>4. ASSUME Positions(o) # {}, NEW x \in CallsOf(o) \cup SendersTo(o) PROVE FALSE
  <2>1. o \in Elements(list)
    BY <1>1, <1>4 DEF Positions, Elements
  <2>2. PICK t \in Threads : \E i \in 1 .. Depth[t] : x = <<t, i>> /\ o \in Hold[t][i]
    BY CallsHave
  <2>3. PICK i \in 1 .. Depth[t] : o \in Hold[t][i]
    BY <2>2
  <2> QED
    BY <2>1, <2>3 DEF OneHolder, Alone
<1>5. ASSUME NEW x \in CallsOf(o), x \in SendersTo(o) PROVE FALSE
  <2>1. PICK t \in Threads : x \in {<<t, i>> : i \in DOMAIN stack[t]}
    BY DEF CallsOf, AllFrames, Frames
  <2>2. PICK i \in DOMAIN stack[t] : x = <<t, i>>
    BY <2>1
  <2>3. /\ i \in 1 .. Len(stack[t]) /\ stack[t][i].obj = o
        /\ stack[t][i].at = "signal" /\ stack[t][i].to = o
    BY <1>5, <2>2 DEF IInv, Stacks, FrameOf, CallsOf, SendersTo
  <2> QED
    BY <2>3 DEF OneHolder
<1> QED
  BY <1>2, <1>3, <1>4, <1>5

\* Held, with and without positions.
LEMMA HeldHolders ==
    ASSUME IInv, NEW o \in Objects
    PROVE  Holders(o) # {} <=> HeldNow(o)
<1>1. /\ Holders(o) # {} <=>
            Positions(o) # {} \/ CallsOf(o) \cup SendersTo(o) # {}
  BY HoldersAre
<1>2. Positions(o) # {} <=> o \in Elements(list)
  <2>1. DOMAIN list = 1 .. Len(list)
    BY DEF IInv, Rest
  <2> QED
    BY <2>1 DEF Positions, Elements
<1>3. ASSUME NEW x \in CallsOf(o) \cup SendersTo(o) PROVE HeldNow(o)
  BY CallsHave DEF HeldNow, Held
<1>4. ASSUME NEW t \in Threads, NEW i \in 1 .. Depth[t], o \in Hold[t][i]
      PROVE  CallsOf(o) \cup SendersTo(o) # {}
  <2>1. i \in 1 .. Len(stack[t]) /\ o \in Has(stack[t][i])
    BY <1>4 DEF Depth, Hold
  <2>2. i \in DOMAIN stack[t] /\ <<t, i>> \in AllFrames
    BY <2>1 DEF IInv, Stacks, AllFrames, Frames
  <2>3. FrameOf(<<t, i>>) = stack[t][i]
    BY DEF FrameOf
  <2> QED
    BY <2>1, <2>2, <2>3 DEF Has, CallsOf, SendersTo
<1> QED
  BY <1>1, <1>2, <1>3, <1>4 DEF HeldNow, Held

\* An object is on the list, in one call of run_some of one thread or with one
\* sender, and in one of these only: idle never enters an object that is in the
\* middle of a method, on any stack (advanced.hpp:120, 212, 247-252).
THEOREM AdvancedSingleActivation == Spec => []SingleActivation
<1>1. IInv /\ AInv => SingleActivation
  <2> SUFFICES ASSUME IInv, AInv, NEW o \in Objects,
                      NEW x \in Holders(o), NEW y \in Holders(o)
               PROVE  x = y
    BY DEF SingleActivation
  <2> QED
    BY HoldersAre, OneCall DEF AInv
<1> QED
  BY <1>1, IInvHolds, AInvHolds, PTL

\* m_activated says whether the object is in one of those places, and an object
\* with messages is (advanced.hpp:212-213, 247-251).
THEOREM AdvancedNoLostActivation == Spec => []NoLostActivation
<1>1. IInv /\ AInv => NoLostActivation
  BY HeldHolders DEF AInv, Duty, NoLostActivation
<1> QED
  BY <1>1, IInvHolds, AInvHolds, PTL
=============================================================================
