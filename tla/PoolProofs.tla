----------------------------- MODULE PoolProofs -----------------------------
(***************************************************************************)
(* Theorems about Pool, for any objects, messages, threads and budget.     *)
(***************************************************************************)
EXTENDS Pool, FiniteSetTheorems, TLAPS

-----------------------------------------------------------------------------
(* The inductive invariant *)

\* Threads that m_busy_count counts.
Counted(t) ==
    \/ pc[t] \in {"fetch", "loop", "method", "resched", "leave"}
    \/ pc[t] = "signal" /\ cur[t] # NoObject

CountedThreads == {t \in Threads : Counted(t)}

\* The counter is the number of those, and one more while the run object lives.
BusyOK ==
    busy = Cardinality(CountedThreads) + (IF phase = "open" THEN 1 ELSE 0)

\* What a thread's place says of its object and of the object it signals.
PlaceOK ==
    \A t \in Threads :
        /\ target[t] # NoObject <=> pc[t] = "signal"
        /\ pc[t] \in {"loop", "method", "resched"} => cur[t] # NoObject
        /\ pc[t] \in {"client", "stopped", "managed", "fetch", "leave", "pause"}
              => cur[t] = NoObject
        /\ pc[t] = "leave" => Lockfree

\* What the phase says of the threads' places.
PhaseOK ==
    /\ pc[Main] # "stopped"
    /\ phase \in {"idle", "open"} => pc[Main] \in {"client", "signal"}
                                     /\ cur[Main] = NoObject
    /\ phase = "joining" => pc[Main] = "client"
    /\ phase = "inline" => pc[Main] # "client"
                           /\ (pc[Main] = "signal" => cur[Main] # NoObject)
    /\ \A w \in Workers :
          /\ pc[w] # "client"
          /\ pc[w] = "signal" => cur[w] # NoObject
          /\ phase \in {"idle", "inline"} => pc[w] = "stopped"
          /\ phase = "open" => pc[w] # "stopped"

\* SingleActivation without positions: the list has no duplicate, and the list,
\* the running threads and the signalling threads hold different objects.
Alone ==
    /\ \A i, j \in 1 .. Len(activated) : activated[i] = activated[j] => i = j
    /\ \A t, u \in Threads : cur[t] = cur[u] /\ cur[t] # NoObject => t = u
    /\ \A t, u \in Threads : target[t] = target[u] /\ target[t] # NoObject => t = u
    /\ \A t \in Threads : cur[t] \notin Range(activated)
                          /\ target[t] \notin Range(activated)
    /\ \A t, u \in Threads : cur[t] # NoObject => cur[t] # target[u]

\* NoLostActivation likewise.
Held(o) ==
    \/ o \in Range(activated)
    \/ \E t \in Threads : cur[t] = o
    \/ \E t \in Threads : target[t] = o

Duty == \A o \in Objects : queue[o] # <<>> <=> Held(o)

IInv ==
    /\ TypeOK
    /\ BusyOK
    /\ PlaceOK
    /\ PhaseOK
    /\ Alone
    /\ Duty

-----------------------------------------------------------------------------
(* The activation list as a set *)

\* Pushing an object that is not on the list adds it, wherever it goes.
LEMMA PushedRange ==
    ASSUME TypeOK, NEW o \in Objects, o \notin Range(activated),
           \A i, j \in 1 .. Len(activated) : activated[i] = activated[j] => i = j
    PROVE  /\ Pushed(o) \in Seq(Objects)
           /\ Range(Pushed(o)) = Range(activated) \cup {o}
           /\ \A i, j \in 1 .. Len(Pushed(o)) : Pushed(o)[i] = Pushed(o)[j] => i = j
<1>1. activated \in Seq(Objects)
  BY DEF TypeOK
<1>2. CASE Lockfree
  <2>1. Pushed(o) = Append(activated, o)
    BY <1>2 DEF Pushed
  <2>2. /\ Pushed(o) \in Seq(Objects)
        /\ Len(Pushed(o)) = Len(activated) + 1
        /\ \A i \in 1 .. Len(activated) : Pushed(o)[i] = activated[i]
        /\ Pushed(o)[Len(activated) + 1] = o
    BY <1>1, <2>1
  <2>3. /\ DOMAIN Pushed(o) = 1 .. Len(activated) + 1
        /\ DOMAIN activated = 1 .. Len(activated)
        /\ Len(activated) \in Nat
    BY <1>1, <2>2
  <2>4. Range(Pushed(o)) = Range(activated) \cup {o}
    BY <2>2, <2>3 DEF Range
  <2>5. \A i \in 1 .. Len(activated) : activated[i] # o
    BY <2>3 DEF Range
  <2> QED
    BY <2>2, <2>3, <2>4, <2>5
<1>3. CASE ~Lockfree
  <2>1. Pushed(o) = <<o>> \o activated
    BY <1>3 DEF Pushed
  <2>2. /\ Pushed(o) \in Seq(Objects)
        /\ Len(Pushed(o)) = Len(activated) + 1
        /\ \A i \in 1 .. Len(activated) : Pushed(o)[i + 1] = activated[i]
        /\ Pushed(o)[1] = o
    BY <1>1, <2>1
  <2>3. /\ DOMAIN Pushed(o) = 1 .. Len(activated) + 1
        /\ DOMAIN activated = 1 .. Len(activated)
        /\ Len(activated) \in Nat
    BY <1>1, <2>2
  <2>4. \A i \in 2 .. Len(activated) + 1 :
           i - 1 \in 1 .. Len(activated) /\ Pushed(o)[i] = activated[i - 1]
    BY <2>2, <2>3
  <2>5. Range(Pushed(o)) = Range(activated) \cup {o}
    <3>1. ASSUME NEW x \in Range(Pushed(o)) PROVE x \in Range(activated) \cup {o}
      BY <2>2, <2>3, <2>4 DEF Range
    <3>2. ASSUME NEW x \in Range(activated) PROVE x \in Range(Pushed(o))
      <4>1. PICK i \in 1 .. Len(activated) : x = activated[i]
        BY <2>3 DEF Range
      <4>2. i + 1 \in DOMAIN Pushed(o) /\ Pushed(o)[i + 1] = x
        BY <4>1, <2>2, <2>3
      <4> QED BY <4>2 DEF Range
    <3>3. o \in Range(Pushed(o))
      BY <2>2, <2>3 DEF Range
    <3> QED BY <3>1, <3>2, <3>3
  <2>6. \A i \in 1 .. Len(activated) : activated[i] # o
    BY <2>3 DEF Range
  <2> QED
    BY <2>2, <2>3, <2>4, <2>5, <2>6
<1> QED
  BY <1>2, <1>3

\* Taking the head off a list without duplicates removes it.
LEMMA TailRange ==
    ASSUME TypeOK, activated # <<>>,
           \A i, j \in 1 .. Len(activated) : activated[i] = activated[j] => i = j
    PROVE  /\ Tail(activated) \in Seq(Objects)
           /\ Head(activated) \in Objects
           /\ Head(activated) \in Range(activated)
           /\ Range(Tail(activated)) = Range(activated) \ {Head(activated)}
           /\ \A i, j \in 1 .. Len(Tail(activated)) :
                 Tail(activated)[i] = Tail(activated)[j] => i = j
<1>1. /\ activated \in Seq(Objects)
      /\ Len(activated) \in Nat \ {0}
      /\ DOMAIN activated = 1 .. Len(activated)
  BY DEF TypeOK
<1>2. /\ Tail(activated) \in Seq(Objects)
      /\ Len(Tail(activated)) = Len(activated) - 1
      /\ DOMAIN Tail(activated) = 1 .. Len(activated) - 1
      /\ \A i \in 1 .. Len(activated) - 1 : Tail(activated)[i] = activated[i + 1]
      /\ Head(activated) = activated[1]
  BY <1>1
<1>3. Head(activated) \in Objects /\ Head(activated) \in Range(activated)
  BY <1>1, <1>2 DEF Range
<1>4. Range(Tail(activated)) = Range(activated) \ {Head(activated)}
  <2>1. ASSUME NEW x \in Range(Tail(activated))
        PROVE  x \in Range(activated) /\ x # Head(activated)
    <3>1. PICK i \in 1 .. Len(activated) - 1 : x = activated[i + 1]
      BY <1>2 DEF Range
    <3>2. i + 1 \in 1 .. Len(activated) /\ i + 1 # 1
      BY <1>1
    <3> QED BY <3>1, <3>2, <1>1, <1>2 DEF Range
  <2>2. ASSUME NEW x \in Range(activated), x # Head(activated)
        PROVE  x \in Range(Tail(activated))
    <3>1. PICK i \in 1 .. Len(activated) : x = activated[i]
      BY <1>1 DEF Range
    <3>2. i - 1 \in 1 .. Len(activated) - 1 /\ i = (i - 1) + 1
      BY <3>1, <2>2, <1>1, <1>2
    <3>3. i - 1 \in DOMAIN Tail(activated) /\ Tail(activated)[i - 1] = x
      BY <3>1, <3>2, <1>2
    <3> QED BY <3>3 DEF Range
  <2> QED BY <2>1, <2>2
<1>5. \A i, j \in 1 .. Len(Tail(activated)) :
         Tail(activated)[i] = Tail(activated)[j] => i = j
  <2> TAKE i, j \in 1 .. Len(Tail(activated))
  <2>1. i + 1 \in 1 .. Len(activated) /\ j + 1 \in 1 .. Len(activated)
    BY <1>1, <1>2
  <2> QED BY <2>1, <1>1, <1>2
<1> QED
  BY <1>2, <1>3, <1>4, <1>5

\* Nothing but objects is on the list.
LEMMA ActivatedRange ==
    ASSUME TypeOK
    PROVE  Range(activated) \subseteq Objects
<1>1. activated \in Seq(Objects)
  BY DEF TypeOK
<1> QED
  BY <1>1 DEF Range

-----------------------------------------------------------------------------
(* The counter *)

LEMMA ThreadsFinite == IsFiniteSet(Threads)
BY PoolAssumption, FS_AddElement DEF Threads

\* What one thread's step does to the number of counted threads.
LEMMA CountedStep ==
    ASSUME NEW t \in Threads,
           \A u \in Threads : u # t => pc'[u] = pc[u] /\ cur'[u] = cur[u]
    PROVE  /\ IsFiniteSet(CountedThreads)
           /\ Cardinality(CountedThreads) \in Nat
           /\ (Counted(t) <=> Counted(t)')
                 => Cardinality(CountedThreads)' = Cardinality(CountedThreads)
           /\ ~Counted(t) /\ Counted(t)'
                 => Cardinality(CountedThreads)' = Cardinality(CountedThreads) + 1
           /\ Counted(t) /\ ~Counted(t)'
                 => Cardinality(CountedThreads)' = Cardinality(CountedThreads) - 1
<1>1. IsFiniteSet(CountedThreads)
  BY ThreadsFinite, FS_Subset DEF CountedThreads
<1>2. Cardinality(CountedThreads) \in Nat
  BY <1>1, FS_CardinalityType
<1>3. \A u \in Threads : u # t => (Counted(u) <=> Counted(u)')
  BY DEF Counted
<1>4. ASSUME Counted(t) <=> Counted(t)'
      PROVE  CountedThreads' = CountedThreads
  BY <1>3, <1>4 DEF CountedThreads, Threads
<1>5. ASSUME ~Counted(t), Counted(t)'
      PROVE  Cardinality(CountedThreads)' = Cardinality(CountedThreads) + 1
  <2>1. CountedThreads' = CountedThreads \cup {t} /\ t \notin CountedThreads
    BY <1>3, <1>5 DEF CountedThreads, Threads
  <2> QED
    BY <2>1, <1>1, FS_AddElement
<1>6. ASSUME Counted(t), ~Counted(t)'
      PROVE  Cardinality(CountedThreads)' = Cardinality(CountedThreads) - 1
  <2>1. CountedThreads' = CountedThreads \ {t} /\ t \in CountedThreads
    BY <1>3, <1>6 DEF CountedThreads, Threads
  <2> QED
    BY <2>1, <1>1, FS_RemoveElement
<1> QED
  BY <1>1, <1>2, <1>4, <1>5, <1>6

-----------------------------------------------------------------------------
(* The steps *)

LEMMA InitIInv == Init => IInv
<1> SUFFICES ASSUME Init PROVE IInv
  OBVIOUS
<1>1. CountedThreads = {}
  BY DEF Init, CountedThreads, Counted
<1>2. TypeOK
  BY PoolAssumption DEF Init, TypeOK, Places, Phases
<1>3. BusyOK
  BY <1>1, FS_EmptySet DEF Init, BusyOK
<1>4. PlaceOK
  BY DEF Init, PlaceOK
<1>5. PhaseOK
  BY PoolAssumption DEF Init, PhaseOK, Threads
<1>6. Range(activated) = {}
  BY DEF Init, Range
<1>7. Alone
  BY <1>6 DEF Init, Alone
<1>8. Duty
  BY <1>6, PoolAssumption DEF Init, Duty, Held
<1> QED
  BY <1>2, <1>3, <1>4, <1>5, <1>7, <1>8 DEF IInv

LEMMA SendIInv ==
    ASSUME IInv, NEW t \in Threads, NEW o \in Objects, NEW m \in Messages,
           Send(t, o, m)
    PROVE  IInv'
<1> USE DEF IInv
<1>1. /\ queue' \in [Objects -> Seq(Messages)]
      /\ queue[o] = <<>> <=> Len(queue'[o]) = 1
      /\ queue' = [queue EXCEPT ![o] = queue'[o]]
      /\ queue'[o] # <<>>
  BY DEF Send, TypeOK
<1>2. CASE queue[o] # <<>>
  <2>1. UNCHANGED <<activated, busy, pc, cur, left, target, phase>>
    BY <1>1, <1>2 DEF Send
  <2>2. TypeOK'
    BY <1>1, <2>1 DEF TypeOK
  <2>3. BusyOK' /\ PlaceOK' /\ PhaseOK' /\ Alone'
    BY <2>1 DEF BusyOK, PlaceOK, PhaseOK, Alone, CountedThreads, Counted
  <2>4. Duty'
    BY <1>1, <1>2, <2>1 DEF Duty, Held, TypeOK
  <2> QED
    BY <2>2, <2>3, <2>4
<1>3. CASE queue[o] = <<>>
  <2>1. /\ pc' = [pc EXCEPT ![t] = "signal"]
        /\ target' = [target EXCEPT ![t] = o]
        /\ UNCHANGED <<activated, busy, cur, left, phase>>
        /\ CanSend(t)
    BY <1>1, <1>3 DEF Send, Goto
  <2>2. ~Held(o)
    BY <1>3 DEF Duty
  <2>3. TypeOK'
    BY <1>1, <2>1 DEF TypeOK, Places
  <2>4. BusyOK'
    <3>1. Counted(t)' <=> Counted(t)
      BY <2>1 DEF Counted, CanSend, PlaceOK, TypeOK
    <3>2. Cardinality(CountedThreads)' = Cardinality(CountedThreads)
      BY <3>1, <2>1, CountedStep DEF TypeOK
    <3> QED BY <3>2, <2>1 DEF BusyOK
  <2>5. PlaceOK'
    BY <2>1, PoolAssumption DEF PlaceOK, CanSend, TypeOK
  <2>6. PhaseOK'
    BY <2>1, PoolAssumption DEF PhaseOK, PlaceOK, CanSend, TypeOK, Threads
  <2>7. Alone'
    BY <2>1, <2>2 DEF Alone, Held, TypeOK
  <2>8. Duty'
    <3>1. target[t] = NoObject /\ target'[t] = o
      BY <2>1 DEF PlaceOK, CanSend, TypeOK
    <3>2. ASSUME NEW p \in Objects, p # o PROVE Held(p)' <=> Held(p)
      BY <2>1, <3>1, <3>2, PoolAssumption DEF Held, TypeOK
    <3>3. \A p \in Objects : p # o => queue'[p] = queue[p]
      BY <1>1 DEF TypeOK
    <3>4. Held(o)'
      BY <3>1 DEF Held
    <3> QED BY <1>1, <3>2, <3>3, <3>4 DEF Duty
  <2> QED
    BY <2>3, <2>4, <2>5, <2>6, <2>7, <2>8
<1> QED
  BY <1>2, <1>3

LEMMA SignalIInv ==
    ASSUME IInv, NEW t \in Threads, Signal(t)
    PROVE  IInv'
<1> USE DEF IInv
<1> DEFINE o == target[t]
<1>1. /\ pc[t] = "signal"
      /\ o \in Objects
      /\ o # NoObject
      /\ o \notin Range(activated)
  BY PoolAssumption DEF Signal, PlaceOK, TypeOK, Alone
<1>2. /\ activated' \in Seq(Objects)
      /\ Range(activated') = Range(activated) \cup {o}
      /\ \A i, j \in 1 .. Len(activated') : activated'[i] = activated'[j] => i = j
  BY <1>1, PushedRange DEF Signal, Alone
<1>3. /\ pc' = [pc EXCEPT ![t] = IF cur[t] = NoObject THEN "client" ELSE "method"]
      /\ target' = [target EXCEPT ![t] = NoObject]
      /\ UNCHANGED <<queue, busy, cur, left, phase>>
  BY DEF Signal, Goto
<1>4. TypeOK'
  BY <1>2, <1>3 DEF TypeOK, Places
<1>5. BusyOK'
  <2>1. Counted(t)' <=> Counted(t)
    BY <1>1, <1>3 DEF Counted, TypeOK
  <2>2. Cardinality(CountedThreads)' = Cardinality(CountedThreads)
    BY <2>1, <1>3, CountedStep DEF TypeOK
  <2> QED BY <2>2, <1>3 DEF BusyOK
<1>6. PlaceOK'
  BY <1>1, <1>3, PoolAssumption DEF PlaceOK, TypeOK
<1>7. PhaseOK'
  BY <1>1, <1>3, PoolAssumption DEF PhaseOK, PlaceOK, TypeOK, Threads
<1>8. NoObject \notin Range(activated')
  BY <1>1, <1>2, ActivatedRange, PoolAssumption
<1>9. Alone'
  BY <1>1, <1>2, <1>3, <1>8 DEF Alone, TypeOK
<1>10. Duty'
  BY <1>1, <1>2, <1>3, PoolAssumption DEF Duty, Held, TypeOK
<1> QED
  BY <1>4, <1>5, <1>6, <1>7, <1>9, <1>10

\* The counted threads after a step of t, and their number with and without t.
LEMMA CountedSet ==
    ASSUME NEW t \in Threads,
           \A u \in Threads : u # t => pc'[u] = pc[u] /\ cur'[u] = cur[u]
    PROVE  /\ Counted(t)' => CountedThreads' = CountedThreads \cup {t}
           /\ ~Counted(t)' => CountedThreads' = CountedThreads \ {t}
<1>1. \A u \in Threads : u # t => (Counted(u) <=> Counted(u)')
  BY DEF Counted
<1> QED
  BY <1>1 DEF CountedThreads, Threads

LEMMA CountedSizes ==
    ASSUME NEW t \in Threads
    PROVE  /\ Cardinality(CountedThreads \ {t}) \in Nat
           /\ Cardinality(CountedThreads \cup {t})
                 = Cardinality(CountedThreads \ {t}) + 1
           /\ Counted(t) => Cardinality(CountedThreads)
                               = Cardinality(CountedThreads \ {t}) + 1
           /\ ~Counted(t) => Cardinality(CountedThreads)
                               = Cardinality(CountedThreads \ {t})
<1> DEFINE S == CountedThreads \ {t}
<1>1. IsFiniteSet(S)
  BY ThreadsFinite, FS_Subset DEF CountedThreads
<1>2. Cardinality(S) \in Nat
  BY <1>1, FS_CardinalityType
<1>3. Cardinality(S \cup {t}) = Cardinality(S) + 1
  BY <1>1, FS_AddElement
<1>4. CountedThreads \cup {t} = S \cup {t}
  OBVIOUS
<1>5. Counted(t) => CountedThreads = S \cup {t}
  BY DEF CountedThreads
<1>6. ~Counted(t) => CountedThreads = S
  BY DEF CountedThreads
<1> QED
  BY <1>2, <1>3, <1>4, <1>5, <1>6

\* m_busy_count without t, and with it.
BusyWithout(t) ==
    Cardinality(CountedThreads \ {t}) + (IF phase = "open" THEN 1 ELSE 0)

BusyWith(t) == BusyWithout(t) + 1

LEMMA BusySizes ==
    ASSUME IInv, NEW t \in Threads
    PROVE  /\ BusyWithout(t) \in Nat
           /\ Counted(t) => busy = BusyWith(t)
           /\ ~Counted(t) => busy = BusyWithout(t)
           /\ phase = "open" => BusyWithout(t) # 0
<1> DEFINE n == Cardinality(CountedThreads \ {t})
           k == IF phase = "open" THEN 1 ELSE 0
<1>1. /\ n \in Nat
      /\ Counted(t) => Cardinality(CountedThreads) = n + 1
      /\ ~Counted(t) => Cardinality(CountedThreads) = n
  BY CountedSizes
<1>2. k \in {0, 1} /\ (phase = "open" => k = 1)
  OBVIOUS
<1>3. BusyWithout(t) = n + k /\ BusyWith(t) = n + k + 1
  BY DEF BusyWithout, BusyWith
<1>4. busy = Cardinality(CountedThreads) + k
  BY DEF IInv, BusyOK
<1> HIDE DEF n, k
<1> QED
  BY <1>1, <1>2, <1>3, <1>4

\* run_managed gives up its count: t goes to wait, or home if it was the last.
LEMMA GiveUpIInv ==
    ASSUME IInv, NEW t \in Threads, pc[t] \in {"managed", "fetch", "leave"},
           GiveUp(t, BusyWithout(t))
    PROVE  IInv'
<1> USE DEF IInv
<1>1. /\ BusyWithout(t) \in Nat
      /\ phase = "open" => BusyWithout(t) # 0
      /\ cur[t] = NoObject
      /\ pc[t] # "signal"
      /\ t = Main => phase = "inline"
      /\ t # Main => t \in Workers /\ phase \in {"open", "joining"}
  <2>1. BusyWithout(t) \in Nat /\ (phase = "open" => BusyWithout(t) # 0)
    BY BusySizes
  <2>2. cur[t] = NoObject /\ pc[t] # "signal"
    BY DEF PlaceOK
  <2>3. t = Main => phase = "inline"
    BY DEF PhaseOK, TypeOK, Phases
  <2>4. t # Main => t \in Workers /\ phase \in {"open", "joining"}
    BY DEF PhaseOK, TypeOK, Phases, Threads
  <2> QED
    BY <2>1, <2>2, <2>3, <2>4
<1>2. PICK place \in {"pause", "client", "stopped"} :
         /\ pc' = [pc EXCEPT ![t] = place]
         /\ place = "client" => t = Main /\ phase' = "idle"
         /\ place # "client" => phase' = phase
         /\ place = "stopped" => t # Main /\ phase # "open"
  <2>1. CASE BusyWithout(t) # 0
    <3>1. pc' = [pc EXCEPT ![t] = "pause"] /\ phase' = phase
      BY <2>1 DEF GiveUp, Goto
    <3> QED BY <3>1
  <2>2. CASE BusyWithout(t) = 0 /\ t = Main
    <3>1. pc' = [pc EXCEPT ![t] = "client"] /\ phase' = "idle"
      BY <2>2 DEF GiveUp, Goto
    <3> QED BY <3>1, <2>2
  <2>3. CASE BusyWithout(t) = 0 /\ t # Main
    <3>1. pc' = [pc EXCEPT ![t] = "stopped"] /\ phase' = phase
      BY <2>3 DEF GiveUp, Goto
    <3> QED BY <3>1, <2>3, <1>1
  <2> QED BY <2>1, <2>2, <2>3
<1>3. busy' = BusyWithout(t) /\ UNCHANGED <<queue, activated, cur, left, target>>
  BY DEF GiveUp
<1>4. TypeOK'
  BY <1>1, <1>2, <1>3 DEF TypeOK, Places, Phases
<1>5. BusyOK'
  <2>1. ~Counted(t)'
    BY <1>1, <1>2, <1>3 DEF Counted, TypeOK
  <2>2. CountedThreads' = CountedThreads \ {t}
    BY <2>1, <1>2, <1>3, CountedSet DEF TypeOK
  <2>3. phase' = "open" <=> phase = "open"
    BY <1>1, <1>2
  <2> QED
    BY <2>2, <2>3, <1>3 DEF BusyOK, BusyWithout
<1>6. PlaceOK'
  BY <1>1, <1>2, <1>3 DEF PlaceOK, TypeOK
<1>7. PhaseOK'
  BY <1>1, <1>2, <1>3, PoolAssumption DEF PhaseOK, TypeOK, Threads
<1>8. Alone' /\ Duty'
  BY <1>3 DEF Alone, Duty, Held
<1> QED
  BY <1>4, <1>5, <1>6, <1>7, <1>8

\* t, counted from now on, takes the first object of the list or finds it empty.
LEMMA TakeOrLeaveIInv ==
    ASSUME IInv, NEW t \in Threads, pc[t] \in {"managed", "fetch"},
           TakeOrLeave(t, BusyWith(t))
    PROVE  IInv'
<1> USE DEF IInv
<1>1. /\ BusyWithout(t) \in Nat
      /\ BusyWith(t) - 1 = BusyWithout(t)
      /\ BusyWith(t) = Cardinality(CountedThreads \cup {t})
                          + (IF phase = "open" THEN 1 ELSE 0)
      /\ cur[t] = NoObject /\ target[t] = NoObject
  BY CountedSizes, BusySizes DEF BusyWithout, BusyWith, PlaceOK
<1>2. CASE activated # <<>>
  <2>1. /\ activated' = Tail(activated)
        /\ cur' = [cur EXCEPT ![t] = Head(activated)]
        /\ busy' = BusyWith(t)
        /\ pc' = [pc EXCEPT ![t] = "loop"]
        /\ UNCHANGED <<queue, left, target, phase>>
    BY <1>2 DEF TakeOrLeave, Goto
  <2>2. /\ Tail(activated) \in Seq(Objects)
        /\ Head(activated) \in Objects
        /\ Head(activated) \in Range(activated)
        /\ Range(Tail(activated)) = Range(activated) \ {Head(activated)}
        /\ \A i, j \in 1 .. Len(Tail(activated)) :
              Tail(activated)[i] = Tail(activated)[j] => i = j
    BY <1>2, TailRange DEF Alone
  <2>3. TypeOK'
    BY <1>1, <2>1, <2>2 DEF TypeOK, Places, BusyWith
  <2>4. BusyOK'
    <3>1. Counted(t)'
      BY <2>1 DEF Counted, TypeOK
    <3>2. CountedThreads' = CountedThreads \cup {t}
      BY <3>1, <2>1, CountedSet DEF TypeOK
    <3> QED BY <3>2, <2>1, <1>1 DEF BusyOK
  <2>5. PlaceOK'
    BY <2>1, <2>2, PoolAssumption DEF PlaceOK, TypeOK
  <2>6. PhaseOK'
    BY <2>1, PoolAssumption DEF PhaseOK, TypeOK, Threads
  <2>7. Alone'
    BY <2>1, <2>2, ActivatedRange, PoolAssumption DEF Alone, TypeOK
  <2>8. Duty'
    <3>1. \A o \in Objects : Held(o)' <=> Held(o)
      BY <1>1, <2>1, <2>2, PoolAssumption DEF Held, TypeOK
    <3> QED BY <3>1, <2>1 DEF Duty
  <2> QED
    BY <2>3, <2>4, <2>5, <2>6, <2>7, <2>8
<1>3. CASE activated = <<>> /\ Lockfree
  <2>1. /\ busy' = BusyWith(t)
        /\ pc' = [pc EXCEPT ![t] = "leave"]
        /\ UNCHANGED <<queue, activated, cur, left, target, phase>>
    BY <1>3 DEF TakeOrLeave, Goto
  <2>2. TypeOK'
    BY <1>1, <2>1 DEF TypeOK, Places, BusyWith
  <2>3. BusyOK'
    <3>1. Counted(t)'
      BY <2>1 DEF Counted, TypeOK
    <3>2. CountedThreads' = CountedThreads \cup {t}
      BY <3>1, <2>1, CountedSet DEF TypeOK
    <3> QED BY <3>2, <2>1, <1>1 DEF BusyOK
  <2>4. PlaceOK'
    BY <1>1, <1>3, <2>1 DEF PlaceOK, TypeOK
  <2>5. PhaseOK'
    BY <2>1, PoolAssumption DEF PhaseOK, TypeOK, Threads
  <2>6. Alone' /\ Duty'
    BY <2>1 DEF Alone, Duty, Held
  <2> QED
    BY <2>2, <2>3, <2>4, <2>5, <2>6
<1>4. CASE activated = <<>> /\ ~Lockfree
  <2>1. GiveUp(t, BusyWithout(t))
    BY <1>1, <1>4 DEF TakeOrLeave
  <2> QED
    BY <2>1, GiveUpIInv
<1> QED
  BY <1>2, <1>3, <1>4

LEMMA EnterIInv ==
    ASSUME IInv, NEW t \in Threads, Enter(t)
    PROVE  IInv'
<1>1. /\ pc[t] = "managed"
      /\ ~Counted(t)
      /\ busy + 1 = BusyWith(t)
      /\ busy \in Nat
  BY BusySizes DEF Enter, Counted, BusyWith, IInv, TypeOK
<1>2. CASE ~Lockfree
  BY <1>1, <1>2, TakeOrLeaveIInv DEF Enter
<1>3. CASE Lockfree
  <2> USE DEF IInv
  <2>1. /\ busy' = busy + 1
        /\ pc' = [pc EXCEPT ![t] = "fetch"]
        /\ UNCHANGED <<queue, activated, cur, left, target, phase>>
    BY <1>3 DEF Enter, Goto
  <2>2. TypeOK'
    BY <1>1, <2>1 DEF TypeOK, Places
  <2>3. BusyOK'
    <3>1. Counted(t)'
      BY <2>1 DEF Counted, TypeOK
    <3>2. /\ Cardinality(CountedThreads)' = Cardinality(CountedThreads) + 1
          /\ Cardinality(CountedThreads) \in Nat
      BY <3>1, <1>1, <2>1, CountedStep DEF TypeOK
    <3> QED BY <3>2, <2>1 DEF BusyOK
  <2>4. PlaceOK'
    BY <1>1, <2>1 DEF PlaceOK, TypeOK
  <2>5. PhaseOK'
    BY <1>1, <2>1, PoolAssumption DEF PhaseOK, TypeOK, Threads
  <2>6. Alone' /\ Duty'
    BY <2>1 DEF Alone, Duty, Held
  <2> QED
    BY <2>2, <2>3, <2>4, <2>5, <2>6
<1> QED
  BY <1>2, <1>3

LEMMA FetchIInv ==
    ASSUME IInv, NEW t \in Threads, Fetch(t)
    PROVE  IInv'
<1>1. pc[t] = "fetch" /\ busy = BusyWith(t)
  BY BusySizes DEF Fetch, Counted
<1> QED
  BY <1>1, TakeOrLeaveIInv DEF Fetch

LEMMA LeaveIInv ==
    ASSUME IInv, NEW t \in Threads, Leave(t)
    PROVE  IInv'
<1>1. pc[t] = "leave" /\ busy - 1 = BusyWithout(t)
  BY BusySizes DEF Leave, Counted, BusyWith
<1> QED
  BY <1>1, GiveUpIInv DEF Leave

LEMMA WakeIInv ==
    ASSUME IInv, NEW t \in Threads, Wake(t)
    PROVE  IInv'
<1> USE DEF IInv
<1>1. /\ pc[t] = "pause"
      /\ pc' = [pc EXCEPT ![t] = "managed"]
      /\ UNCHANGED <<queue, activated, busy, cur, left, target, phase>>
  BY DEF Wake, Goto
<1>2. TypeOK'
  BY <1>1 DEF TypeOK, Places
<1>3. BusyOK'
  <2>1. Counted(t)' <=> Counted(t)
    BY <1>1 DEF Counted, TypeOK
  <2>2. Cardinality(CountedThreads)' = Cardinality(CountedThreads)
    BY <2>1, <1>1, CountedStep DEF TypeOK
  <2> QED BY <2>2, <1>1 DEF BusyOK
<1>4. PlaceOK'
  BY <1>1 DEF PlaceOK, TypeOK
<1>5. PhaseOK'
  BY <1>1, PoolAssumption DEF PhaseOK, TypeOK, Threads
<1>6. Alone' /\ Duty'
  BY <1>1 DEF Alone, Duty, Held
<1> QED
  BY <1>2, <1>3, <1>4, <1>5, <1>6

\* run_some's test, with q left in the object's queue and n in the budget.
LEMMA RunLoopIInv ==
    ASSUME IInv, NEW t \in Threads, pc[t] \in {"loop", "method"},
           NEW q \in Seq(Messages), NEW n \in 0 .. Budget,
           queue' = [queue EXCEPT ![cur[t]] = q],
           RunLoop(t, q, n),
           UNCHANGED <<activated, busy, target, phase>>
    PROVE  IInv'
<1> USE DEF IInv
<1>1. PICK o \in Objects :
         /\ o = cur[t] /\ o # NoObject
         /\ target[t] = NoObject
         /\ Counted(t)
  BY DEF PlaceOK, TypeOK, Counted
<1>2. CASE q = <<>>
  <2>1. /\ cur' = [cur EXCEPT ![t] = NoObject]
        /\ pc' = [pc EXCEPT ![t] = "fetch"]
        /\ left' = left
    BY <1>2 DEF RunLoop, Goto
  <2>2. TypeOK'
    BY <1>1, <2>1 DEF TypeOK, Places
  <2>3. BusyOK'
    <3>1. Counted(t)'
      BY <2>1 DEF Counted, TypeOK
    <3>2. Cardinality(CountedThreads)' = Cardinality(CountedThreads)
      BY <3>1, <1>1, <2>1, CountedStep DEF TypeOK
    <3> QED BY <3>2 DEF BusyOK
  <2>4. PlaceOK'
    BY <1>1, <2>1 DEF PlaceOK, TypeOK
  <2>5. PhaseOK'
    BY <2>1, PoolAssumption DEF PhaseOK, TypeOK, Threads
  <2>6. Alone'
    BY <1>1, <2>1, ActivatedRange, PoolAssumption DEF Alone, TypeOK
  <2>7. ~Held(o)'
    BY <1>1, <2>1 DEF Held, Alone, TypeOK
  <2>8. \A p \in Objects : p # o => (Held(p)' <=> Held(p)) /\ queue'[p] = queue[p]
    BY <1>1, <2>1, PoolAssumption DEF Held, TypeOK
  <2>9. Duty'
    BY <1>1, <1>2, <2>7, <2>8 DEF Duty, TypeOK
  <2> QED
    BY <2>2, <2>3, <2>4, <2>5, <2>6, <2>9
<1>3. CASE q # <<>>
  <2>1. PICK place \in {"method", "resched"} : pc' = [pc EXCEPT ![t] = place]
    BY <1>3 DEF RunLoop, Goto
  <2>2. cur' = cur /\ left' \in [Threads -> 0 .. Budget]
    <3>1. \/ cur' = cur /\ left' = left
          \/ n > 0 /\ cur' = cur /\ left' = [left EXCEPT ![t] = n - 1]
      BY <1>3 DEF RunLoop
    <3>2. n > 0 => n - 1 \in 0 .. Budget
      BY PoolAssumption
    <3> QED BY <3>1, <3>2 DEF TypeOK
  <2>3. TypeOK'
    BY <1>1, <2>1, <2>2 DEF TypeOK, Places
  <2>4. BusyOK'
    <3>1. Counted(t)'
      BY <2>1 DEF Counted, TypeOK
    <3>2. Cardinality(CountedThreads)' = Cardinality(CountedThreads)
      BY <3>1, <1>1, <2>1, <2>2, CountedStep DEF TypeOK
    <3> QED BY <3>2 DEF BusyOK
  <2>5. PlaceOK'
    BY <1>1, <2>1, <2>2 DEF PlaceOK, TypeOK
  <2>6. PhaseOK'
    BY <2>1, <2>2, PoolAssumption DEF PhaseOK, TypeOK, Threads
  <2>7. Alone'
    BY <2>2 DEF Alone
  <2>8. Duty'
    BY <1>1, <1>3, <2>2 DEF Duty, Held, TypeOK
  <2> QED
    BY <2>3, <2>4, <2>5, <2>6, <2>7, <2>8
<1> QED
  BY <1>2, <1>3

LEMMA BeginIInv ==
    ASSUME IInv, NEW t \in Threads, Begin(t)
    PROVE  IInv'
<1>1. cur[t] \in Objects /\ pc[t] = "loop"
  BY DEF Begin, IInv, PlaceOK, TypeOK
<1>2. /\ queue[cur[t]] \in Seq(Messages)
      /\ queue' = [queue EXCEPT ![cur[t]] = queue[cur[t]]]
  BY <1>1 DEF Begin, IInv, TypeOK
<1>3. Budget \in 0 .. Budget
  BY PoolAssumption
<1> QED
  BY <1>1, <1>2, <1>3, RunLoopIInv DEF Begin

LEMMA EndMethodIInv ==
    ASSUME IInv, NEW t \in Threads, EndMethod(t)
    PROVE  IInv'
<1>1. cur[t] \in Objects /\ pc[t] = "method" /\ left[t] \in 0 .. Budget
  BY DEF EndMethod, IInv, PlaceOK, TypeOK
<1>2. queue[cur[t]] # <<>>
  BY <1>1 DEF IInv, Duty, Held
<1>3. /\ Tail(queue[cur[t]]) \in Seq(Messages)
      /\ queue' = [queue EXCEPT ![cur[t]] = Tail(queue[cur[t]])]
      /\ queue'[cur[t]] = Tail(queue[cur[t]])
  BY <1>1, <1>2 DEF EndMethod, IInv, TypeOK
<1> QED
  BY <1>1, <1>3, RunLoopIInv DEF EndMethod

LEMMA ReschedIInv ==
    ASSUME IInv, NEW t \in Threads, Resched(t)
    PROVE  IInv'
<1> USE DEF IInv
<1>1. PICK o \in Objects :
         /\ o = cur[t] /\ o # NoObject
         /\ o \notin Range(activated)
         /\ pc[t] = "resched"
         /\ target[t] = NoObject
  BY DEF Resched, PlaceOK, TypeOK, Alone
<1>2. /\ activated' \in Seq(Objects)
      /\ Range(activated') = Range(activated) \cup {o}
      /\ \A i, j \in 1 .. Len(activated') : activated'[i] = activated'[j] => i = j
  BY <1>1, PushedRange DEF Resched, Alone
<1>3. /\ pc' = [pc EXCEPT ![t] = "fetch"]
      /\ cur' = [cur EXCEPT ![t] = NoObject]
      /\ UNCHANGED <<queue, busy, left, target, phase>>
  BY DEF Resched, Goto
<1>4. TypeOK'
  BY <1>2, <1>3 DEF TypeOK, Places
<1>5. BusyOK'
  <2>1. Counted(t) /\ Counted(t)'
    BY <1>1, <1>3 DEF Counted, TypeOK
  <2>2. Cardinality(CountedThreads)' = Cardinality(CountedThreads)
    BY <2>1, <1>3, CountedStep DEF TypeOK
  <2> QED BY <2>2, <1>3 DEF BusyOK
<1>6. PlaceOK'
  BY <1>1, <1>3 DEF PlaceOK, TypeOK
<1>7. PhaseOK'
  BY <1>1, <1>3, PoolAssumption DEF PhaseOK, TypeOK, Threads
<1>8. NoObject \notin Range(activated')
  BY <1>1, <1>2, ActivatedRange, PoolAssumption
<1>9. Alone'
  BY <1>1, <1>2, <1>3, <1>8 DEF Alone, TypeOK
<1>10. Duty'
  <2>1. \A p \in Objects : Held(p)' <=> Held(p)
    BY <1>1, <1>2, <1>3, PoolAssumption DEF Held, TypeOK
  <2> QED BY <2>1, <1>3 DEF Duty
<1> QED
  BY <1>4, <1>5, <1>6, <1>7, <1>9, <1>10

LEMMA ClearIInv ==
    ASSUME IInv, NEW t \in Threads, Clear(t)
    PROVE  IInv'
<1> USE DEF IInv
<1>1. cur[t] \in Objects
  BY DEF Clear, PlaceOK, TypeOK
<1>2. queue[cur[t]] # <<>>
  BY <1>1 DEF Duty, Held
<1>3. Head(queue[cur[t]]) \in Messages
  BY <1>1, <1>2 DEF TypeOK
<1>4. /\ queue' = [queue EXCEPT ![cur[t]] = <<Head(queue[cur[t]])>>]
      /\ UNCHANGED <<activated, busy, pc, cur, left, target, phase>>
  BY DEF Clear
<1>5. TypeOK'
  BY <1>1, <1>3, <1>4 DEF TypeOK
<1>6. BusyOK' /\ PlaceOK' /\ PhaseOK' /\ Alone'
  BY <1>4 DEF BusyOK, PlaceOK, PhaseOK, Alone, CountedThreads, Counted
<1>7. Duty'
  BY <1>1, <1>2, <1>4 DEF Duty, Held, TypeOK
<1> QED
  BY <1>5, <1>6, <1>7

LEMMA RunCtorIInv ==
    ASSUME IInv, RunCtor
    PROVE  IInv'
<1> USE DEF IInv
<1>1. /\ phase = "idle" /\ pc[Main] = "client"
      /\ busy' = busy + 1
      /\ pc' = [t \in Threads |-> IF t = Main THEN "client" ELSE "managed"]
      /\ phase' = "open"
      /\ UNCHANGED <<queue, activated, cur, left, target>>
  BY DEF RunCtor
<1>2. \A t \in Threads : t = Main \/ pc[t] = "stopped"
  BY <1>1 DEF PhaseOK, Threads
<1>3. TypeOK'
  BY <1>1 DEF TypeOK, Places, Phases
<1>4. BusyOK'
  <2>1. CountedThreads = {} /\ CountedThreads' = {}
    BY <1>1, <1>2 DEF CountedThreads, Counted
  <2> QED
    BY <2>1, <1>1, FS_EmptySet DEF BusyOK
<1>5. PlaceOK'
  BY <1>1, <1>2 DEF PlaceOK, TypeOK
<1>6. PhaseOK'
  BY <1>1, <1>2, PoolAssumption DEF PhaseOK, Threads
<1>7. Alone' /\ Duty'
  BY <1>1 DEF Alone, Duty, Held
<1> QED
  BY <1>3, <1>4, <1>5, <1>6, <1>7

LEMMA StopWorkIInv ==
    ASSUME IInv, StopWork
    PROVE  IInv'
<1> USE DEF IInv
<1>1. /\ phase = "open" /\ pc[Main] = "client"
      /\ busy' = busy - 1
      /\ phase' = "joining"
      /\ UNCHANGED <<queue, activated, pc, cur, left, target>>
  BY DEF StopWork
<1>2. CountedThreads' = CountedThreads /\ Cardinality(CountedThreads) \in Nat
  <2>1. IsFiniteSet(CountedThreads)
    BY ThreadsFinite, FS_Subset DEF CountedThreads
  <2> QED
    BY <1>1, <2>1, FS_CardinalityType DEF CountedThreads, Counted
<1>3. BusyOK' /\ busy' \in Nat
  BY <1>1, <1>2 DEF BusyOK
<1>4. TypeOK'
  BY <1>1, <1>3 DEF TypeOK, Phases
<1>5. PlaceOK' /\ PhaseOK'
  BY <1>1 DEF PlaceOK, PhaseOK
<1>6. Alone' /\ Duty'
  BY <1>1 DEF Alone, Duty, Held
<1> QED
  BY <1>3, <1>4, <1>5, <1>6

LEMMA JoinIInv ==
    ASSUME IInv, Join
    PROVE  IInv'
<1> USE DEF IInv
<1>1. /\ phase = "joining"
      /\ phase' = "idle"
      /\ \A w \in Workers : pc[w] = "stopped"
      /\ UNCHANGED <<queue, activated, busy, pc, cur, left, target>>
  BY DEF Join
<1>2. TypeOK' /\ BusyOK' /\ PlaceOK'
  BY <1>1 DEF TypeOK, Phases, BusyOK, PlaceOK, CountedThreads, Counted
<1>3. PhaseOK'
  BY <1>1 DEF PhaseOK, PlaceOK, Threads
<1>4. Alone' /\ Duty'
  BY <1>1 DEF Alone, Duty, Held
<1> QED
  BY <1>2, <1>3, <1>4

LEMMA RunInlineIInv ==
    ASSUME IInv, RunInline
    PROVE  IInv'
<1> USE DEF IInv
<1>1. /\ phase = "idle" /\ pc[Main] = "client" /\ Main \in Threads
      /\ phase' = "inline"
      /\ pc' = [pc EXCEPT ![Main] = "managed"]
      /\ UNCHANGED <<queue, activated, busy, cur, left, target>>
  BY DEF RunInline, Goto, Threads
<1>2. TypeOK'
  BY <1>1 DEF TypeOK, Places, Phases
<1>3. BusyOK'
  <2>1. ~Counted(Main) /\ ~Counted(Main)'
    BY <1>1 DEF Counted, TypeOK
  <2>2. Cardinality(CountedThreads)' = Cardinality(CountedThreads)
    BY <2>1, <1>1, CountedStep DEF TypeOK
  <2> QED BY <2>2, <1>1 DEF BusyOK
<1>4. PlaceOK'
  BY <1>1 DEF PlaceOK, TypeOK
<1>5. PhaseOK'
  BY <1>1, PoolAssumption DEF PhaseOK, TypeOK, Threads
<1>6. Alone' /\ Duty'
  BY <1>1 DEF Alone, Duty, Held
<1> QED
  BY <1>2, <1>3, <1>4, <1>5, <1>6

LEMMA NextIInv == IInv /\ [Next]_vars => IInv'
<1> SUFFICES ASSUME IInv, [Next]_vars PROVE IInv'
  OBVIOUS
<1>1. ASSUME NEW t \in Threads, NEW o \in Objects, NEW m \in Messages, Send(t, o, m)
      PROVE  IInv'
  BY <1>1, SendIInv
<1>2. ASSUME NEW t \in Threads, Work(t)
      PROVE  IInv'
  BY <1>2, SignalIInv, EnterIInv, FetchIInv, LeaveIInv, WakeIInv, BeginIInv,
     EndMethodIInv, ReschedIInv DEF Work
<1>3. ASSUME NEW t \in Threads, Clear(t)
      PROVE  IInv'
  BY <1>3, ClearIInv
<1>4. ASSUME RunCtor \/ StopWork \/ Join \/ RunInline
      PROVE  IInv'
  BY <1>4, RunCtorIInv, StopWorkIInv, JoinIInv, RunInlineIInv
<1>5. CASE UNCHANGED vars
  BY <1>5 DEF vars, IInv, TypeOK, BusyOK, PlaceOK, PhaseOK, Alone, Duty, Held,
     CountedThreads, Counted
<1> QED
  BY <1>1, <1>2, <1>3, <1>4, <1>5 DEF Next

LEMMA SpecIInv == Spec => []IInv
BY InitIInv, NextIInv, PTL DEF Spec

-----------------------------------------------------------------------------
(* Theorems *)

\* Every variable keeps to its type; m_busy_count in particular never goes
\* below zero, however start_work, stop_work and the threads interleave.
THEOREM TypeCorrect == Spec => []TypeOK
<1>1. IInv => TypeOK
  BY DEF IInv
<1> QED
  BY <1>1, SpecIInv, PTL

\* However many senders and threads, and in both builds, an object is in at most
\* one position of the activation list, on one thread, or with one sender.
THEOREM SingleActivationHolds == Spec => []SingleActivation
<1>1. IInv => SingleActivation
  <2> SUFFICES ASSUME IInv, NEW o \in Objects,
                      NEW x \in Holders(o), NEW y \in Holders(o)
               PROVE  x = y
    BY DEF SingleActivation
  <2> USE DEF IInv
  <2>1. o # NoObject /\ (Positions(o) # {} => o \in Range(activated))
    BY PoolAssumption DEF Positions, Range, TypeOK
  <2>2. \A i, j \in Positions(o) : i = j
    BY DEF Positions, Alone
  <2>3. \A t, u \in Running(o) : t = u
    BY <2>1 DEF Running, Alone
  <2>4. \A t, u \in Signalling(o) : t = u
    BY <2>1 DEF Signalling, Alone
  <2>5. /\ Positions(o) # {} => Running(o) = {} /\ Signalling(o) = {}
        /\ Running(o) # {} => Signalling(o) = {}
    BY <2>1 DEF Running, Signalling, Alone
  <2> QED
    BY <2>2, <2>3, <2>4, <2>5 DEF Holders
<1> QED
  BY <1>1, SpecIInv, PTL

\* An object has messages exactly while something will run it: no activation is
\* lost between enqueue_fn, the list and run_some, and none is made up.
THEOREM NoLostActivationHolds == Spec => []NoLostActivation
<1>1. IInv => NoLostActivation
  <2> SUFFICES ASSUME IInv, NEW o \in Objects
               PROVE  Holders(o) # {} <=> Held(o)
    BY DEF NoLostActivation, IInv, Duty
  <2>1. Positions(o) # {} <=> o \in Range(activated)
    <3>1. DOMAIN activated = 1 .. Len(activated)
      BY DEF IInv, TypeOK
    <3> QED BY <3>1 DEF Positions, Range
  <2>2. Running(o) # {} <=> \E t \in Threads : cur[t] = o
    BY DEF Running
  <2>3. Signalling(o) # {} <=> \E t \in Threads : target[t] = o
    BY DEF Signalling
  <2>4. Holders(o) # {} <=>
           Positions(o) # {} \/ Running(o) # {} \/ Signalling(o) # {}
    BY DEF Holders
  <2> QED
    BY <2>1, <2>2, <2>3, <2>4 DEF Held
<1> QED
  BY <1>1, SpecIInv, PTL

-----------------------------------------------------------------------------
(* When m_mutex joins the empty list and the counter (the Boost build) *)

\* Once a thread has gone home after stop_work, there is nothing left to do.
Drained ==
    phase = "joining" /\ (\E w \in Workers : pc[w] = "stopped")
        => \A o \in Objects : queue[o] = <<>>

\* A thread that finds the list empty and itself alone knows all queues empty.
LEMMA LastOneOut ==
    ASSUME IInv, NEW t \in Threads, pc[t] \in {"managed", "fetch"},
           activated = <<>>, BusyWithout(t) = 0, NEW o \in Objects
    PROVE  queue[o] = <<>>
<1> USE DEF IInv
<1>1. CountedThreads \ {t} = {} /\ phase # "open"
  <2>1. IsFiniteSet(CountedThreads \ {t})
    BY ThreadsFinite, FS_Subset DEF CountedThreads
  <2>2. Cardinality(CountedThreads \ {t}) = 0 /\ phase # "open"
    <3>1. Cardinality(CountedThreads \ {t}) \in Nat
      BY CountedSizes
    <3> QED BY <3>1 DEF BusyWithout
  <2> QED BY <2>1, <2>2, FS_EmptySet
<1>2. \A u \in Threads : cur[u] = NoObject
  <2> SUFFICES ASSUME NEW u \in Threads, cur[u] # NoObject PROVE FALSE
    OBVIOUS
  <2>1. Counted(u) /\ u # t
    BY DEF Counted, PlaceOK, TypeOK, Places
  <2> QED BY <2>1, <1>1 DEF CountedThreads
<1>3. \A u \in Threads : target[u] = NoObject
  <2> SUFFICES ASSUME NEW u \in Threads, pc[u] = "signal" PROVE FALSE
    BY DEF PlaceOK
  <2>1. u = Main /\ phase = "idle"
    BY <1>1, <1>2 DEF PhaseOK, Threads, TypeOK, Phases
  <2>2. t # Main /\ t \in Workers /\ pc[t] = "stopped"
    BY <2>1 DEF PhaseOK, Threads
  <2> QED BY <2>2
<1>4. o \notin Range(activated)
  BY DEF Range
<1> QED
  BY <1>2, <1>3, <1>4, PoolAssumption DEF Duty, Held

\* Only one worker at a time stops, and only in GiveUp.
LEMMA NoNewStop ==
    ASSUME TypeOK, NEW t \in Threads, NEW place, place # "stopped",
           Goto(t, place) \/ UNCHANGED pc
    PROVE  \A w \in Workers : pc'[w] = "stopped" => pc[w] = "stopped"
BY DEF Goto, TypeOK, Threads

\* What a step that leaves run_managed's loop or pops does to queues and phase.
LEMMA LockedExit ==
    ASSUME IInv, ~Lockfree, NEW t \in Threads, pc[t] \in {"managed", "fetch"},
           TakeOrLeave(t, BusyWith(t))
    PROVE  /\ queue' = queue
           /\ \/ /\ phase' = phase
                 /\ \A w \in Workers : pc'[w] = "stopped" => pc[w] = "stopped"
              \/ \A o \in Objects : queue[o] = <<>>
<1>1. CASE activated # <<>>
  <2>1. Goto(t, "loop") /\ queue' = queue /\ phase' = phase
    BY <1>1 DEF TakeOrLeave
  <2> QED BY <2>1, NoNewStop DEF IInv
<1>2. CASE activated = <<>>
  <2>1. GiveUp(t, BusyWithout(t))
    BY <1>2, BusySizes DEF TakeOrLeave, BusyWith
  <2>2. CASE BusyWithout(t) = 0
    BY <1>2, <2>1, <2>2, LastOneOut DEF GiveUp
  <2>3. CASE BusyWithout(t) # 0
    <3>1. Goto(t, "pause") /\ queue' = queue /\ phase' = phase
      BY <2>1, <2>3 DEF GiveUp
    <3> QED BY <3>1, NoNewStop DEF IInv
  <2> QED BY <2>2, <2>3
<1> QED
  BY <1>1, <1>2

LEMMA DrainedStep ==
    ASSUME IInv, ~Lockfree, Drained, [Next]_vars
    PROVE  /\ Drained'
           /\ phase # "idle" /\ phase' = "idle"
                 => \A o \in Objects : queue'[o] = <<>>
<1>1. ASSUME NEW t \in Threads,
             pc[t] = "method" \/ (pc[t] = "client" /\ phase \in {"idle", "open"})
      PROVE  ~(phase = "joining" /\ \E w \in Workers : pc[w] = "stopped")
  <2>1. CASE pc[t] = "method"
    <3>1. cur[t] \in Objects /\ Held(cur[t])
      BY <2>1 DEF IInv, PlaceOK, TypeOK, Held
    <3> QED BY <3>1 DEF IInv, Duty, Drained
  <2> QED BY <1>1, <2>1
<1>2. ASSUME NEW t \in Threads, NEW o \in Objects, NEW m \in Messages, Send(t, o, m)
      PROVE  phase' = phase /\ Drained'
  <2>1. /\ phase' = phase
        /\ \A w \in Workers : pc'[w] = "stopped" => pc[w] = "stopped"
    <3>1. phase' = phase /\ (Goto(t, "signal") \/ UNCHANGED pc)
      BY <1>2 DEF Send
    <3> QED BY <3>1, NoNewStop DEF IInv
  <2> QED BY <1>1, <1>2, <2>1 DEF Send, CanSend, Drained
<1>3. ASSUME NEW t \in Threads, EndMethod(t) \/ Clear(t)
      PROVE  phase' = phase /\ Drained'
  <2>1. /\ phase' = phase /\ pc[t] = "method"
        /\ \A w \in Workers : pc'[w] = "stopped" => pc[w] = "stopped"
    <3>1. /\ phase' = phase /\ pc[t] = "method"
          /\ \/ UNCHANGED pc
             \/ \E place \in {"fetch", "method", "resched"} : Goto(t, place)
      BY <1>3 DEF EndMethod, RunLoop, Clear
    <3> QED BY <3>1, NoNewStop DEF IInv
  <2> QED BY <1>1, <2>1 DEF Drained
<1>4. ASSUME NEW t \in Threads, Signal(t) \/ Wake(t) \/ Begin(t) \/ Resched(t)
      PROVE  phase' = phase /\ Drained'
  <2>1. /\ phase' = phase /\ queue' = queue
        /\ \A w \in Workers : pc'[w] = "stopped" => pc[w] = "stopped"
    <3>1. /\ phase' = phase /\ queue' = queue
          /\ \E place \in {"client", "method", "managed", "fetch", "resched"} :
                Goto(t, place)
      BY <1>4 DEF Signal, Wake, Begin, Resched, RunLoop
    <3> QED BY <3>1, NoNewStop DEF IInv
  <2> QED BY <2>1 DEF Drained
<1>5. ASSUME NEW t \in Threads, Enter(t) \/ Fetch(t)
      PROVE  /\ Drained'
             /\ phase' = phase \/ \A o \in Objects : queue'[o] = <<>>
  <2>1. pc[t] \in {"managed", "fetch"} /\ TakeOrLeave(t, BusyWith(t))
    <3>1. CASE Enter(t)
      <4>1. pc[t] = "managed" /\ busy + 1 = BusyWith(t)
        BY <3>1, BusySizes DEF Enter, Counted, BusyWith
      <4> QED BY <3>1, <4>1 DEF Enter
    <3>2. CASE Fetch(t)
      <4>1. pc[t] = "fetch" /\ busy = BusyWith(t)
        BY <3>2, BusySizes DEF Fetch, Counted
      <4> QED BY <3>2, <4>1 DEF Fetch
    <3> QED BY <1>5, <3>1, <3>2
  <2> QED BY <2>1, LockedExit DEF Drained
<1>6. ASSUME NEW t \in Threads, Leave(t)
      PROVE  FALSE
  BY <1>6 DEF Leave, IInv, PlaceOK
<1>7. CASE RunCtor \/ RunInline
  BY <1>7 DEF RunCtor, RunInline, Drained
<1>8. CASE StopWork
  BY <1>8 DEF StopWork, Drained, IInv, PhaseOK
<1>9. CASE Join
  <2>1. \E w \in Workers : pc[w] = "stopped"
    BY <1>9, PoolAssumption DEF Join
  <2> QED BY <1>9, <2>1 DEF Join, Drained
<1>10. CASE UNCHANGED vars
  BY <1>10 DEF vars, Drained
<1> QED
  BY <1>2, <1>3, <1>4, <1>5, <1>6, <1>7, <1>8, <1>9, <1>10 DEF Next, Work

\* Without ACTIVE_USE_CXX11 the threads never leave a message behind, for any
\* number of them: the empty list and the last decrement are one critical section.
THEOREM LockedRunDrains ==
    ASSUME ~Lockfree
    PROVE  Spec => RunDrains
<1>1. Init => Drained
  BY DEF Init, Drained
<1>2. IInv /\ Drained /\ [Next]_vars => Drained'
  BY DrainedStep
<1>3. IInv /\ Drained /\ [Next]_vars
        => [phase # "idle" /\ phase' = "idle"
              => \A o \in Objects : queue'[o] = <<>>]_vars
  BY DrainedStep
<1> QED
  BY <1>1, <1>2, <1>3, SpecIInv, PTL DEF Spec, RunDrains

-----------------------------------------------------------------------------
(* Without the mutex, with two workers or more (the ACTIVE_USE_CXX11 build) *)

\* Once a worker has gone home, work that is left has another worker that is yet
\* to look at the list.  Main, alone in run(), leaves only when nothing is left.
Awake ==
    /\ phase = "joining" /\ (\E w \in Workers : pc[w] = "stopped")
          /\ (\E o \in Objects : queue[o] # <<>>)
       => \E w \in Workers : pc[w] \notin {"stopped", "leave"}
    /\ pc[Main] = "leave" => \A o \in Objects : queue[o] = <<>>

\* A thread that finds the list empty leaves work behind only with a worker that
\* is running an object or about to activate one.
LEMMA EmptyListHolder ==
    ASSUME IInv, phase \in {"joining", "inline"}, NEW t \in Threads,
           pc[t] = "fetch", activated = <<>>, NEW o \in Objects, queue[o] # <<>>
    PROVE  \E w \in Workers : w # t /\ pc[w] \notin {"stopped", "leave"}
<1> USE DEF IInv
<1>1. o # NoObject /\ o \notin Range(activated)
  BY PoolAssumption DEF Range
<1>2. PICK u \in Threads : cur[u] = o \/ target[u] = o
  BY <1>1 DEF Duty, Held
<1>3. pc[u] \notin {"stopped", "leave", "fetch", "client"}
  BY <1>1, <1>2 DEF PlaceOK
<1>4. u # t
  BY <1>3
<1>5. u # Main
  <2>1. CASE phase = "joining"
    BY <2>1, <1>3 DEF PhaseOK
  <2>2. CASE phase = "inline"
    <3>1. t = Main
      BY <2>2 DEF PhaseOK, Threads
    <3> QED BY <3>1, <1>4
  <2> QED BY <2>1, <2>2
<1> QED
  BY <1>3, <1>4, <1>5 DEF Threads

\* The last thread out of run_managed: every other worker is at home, in its
\* timed wait, or on its way from the wait to the list.
LEMMA OthersUncounted ==
    ASSUME IInv, NEW t \in Threads, pc[t] = "leave", busy = 1, phase # "open",
           NEW w \in Workers, w # t
    PROVE  pc[w] \in {"stopped", "managed", "pause"}
<1> USE DEF IInv
<1>1. CountedThreads \ {t} = {}
  <2>1. IsFiniteSet(CountedThreads \ {t})
    BY ThreadsFinite, FS_Subset DEF CountedThreads
  <2>2. Cardinality(CountedThreads \ {t}) = 0
    <3>1. /\ Cardinality(CountedThreads \ {t}) \in Nat
          /\ Counted(t)
      BY CountedSizes DEF Counted
    <3>2. busy = Cardinality(CountedThreads \ {t}) + 1
      BY <3>1, BusySizes DEF BusyWith, BusyWithout
    <3> QED BY <3>1, <3>2
  <2> QED BY <2>1, <2>2, FS_EmptySet
<1>2. ~Counted(w)
  BY <1>1 DEF CountedThreads, Threads
<1> QED
  BY <1>2 DEF Counted, PhaseOK, PlaceOK, TypeOK, Places, Threads

LEMMA AwakeLeave ==
    ASSUME IInv, Awake, NEW t \in Threads, Leave(t),
           \E v, w \in Workers : v # w
    PROVE  /\ Awake'
           /\ phase' = phase
                 \/ (phase = "inline" /\ \A o \in Objects : queue'[o] = <<>>)
<1> USE DEF IInv
<1>1. /\ queue' = queue /\ pc[t] = "leave" /\ pc \in [Threads -> Places]
      /\ Main \in Threads /\ Workers \subseteq Threads /\ Main \notin Workers
  BY PoolAssumption DEF Leave, GiveUp, TypeOK, Threads
<1>2. busy \in Nat /\ busy # 0
  <2>1. Counted(t) /\ BusyWithout(t) \in Nat
    BY <1>1, BusySizes DEF Counted
  <2> QED BY <2>1, BusySizes DEF BusyWith
<1>3. CASE busy - 1 # 0
  <2>1. pc' = [pc EXCEPT ![t] = "pause"] /\ phase' = phase
    BY <1>3 DEF Leave, GiveUp, Goto
  <2>2. CASE t = Main
    BY <2>1, <2>2, <1>1 DEF Awake, PhaseOK
  <2>3. CASE t # Main
    <3>1. t \in Workers
      BY <2>3 DEF Threads
    <3> QED BY <2>1, <2>3, <3>1, <1>1 DEF Awake
  <2> QED BY <2>2, <2>3
<1>4. CASE busy - 1 = 0 /\ t = Main
  <2>1. /\ pc' = [pc EXCEPT ![t] = "client"] /\ phase' = "idle"
        /\ phase = "inline"
    BY <1>1, <1>4 DEF Leave, GiveUp, Goto, PhaseOK, TypeOK, Phases
  <2> QED BY <2>1, <1>1, <1>4 DEF Awake
<1>5. CASE busy - 1 = 0 /\ t # Main
  <2>1. /\ pc' = [pc EXCEPT ![t] = "stopped"] /\ phase' = phase
        /\ t \in Workers /\ phase = "joining"
    <3>1. phase # "open"
      <4>1. Counted(t) /\ BusyWithout(t) \in Nat
        BY <1>1, BusySizes DEF Counted
      <4> QED BY <4>1, <1>5, BusySizes DEF BusyWith
    <3> QED BY <3>1, <1>1, <1>5 DEF Leave, GiveUp, Goto, PhaseOK, TypeOK, Phases, Threads
  <2>2. \A w \in Workers \ {t} : pc[w] \in {"stopped", "managed", "pause"}
    BY <1>1, <1>2, <1>5, <2>1, OthersUncounted
  <2>3. CASE \E w \in Workers : pc[w] = "stopped"
    <3>1. \A w \in Workers : w # t => pc'[w] = pc[w]
      BY <1>1, <2>1
    <3>2. pc'[Main] = pc[Main]
      BY <1>1, <1>5, <2>1
    <3> QED BY <2>1, <2>3, <3>1, <3>2, <1>1 DEF Awake
  <2>4. CASE \A w \in Workers : pc[w] # "stopped"
    <3>1. PICK v \in Workers : v # t
      OBVIOUS
    <3>2. pc[v] \in {"managed", "pause"} /\ pc'[v] = pc[v]
      BY <1>1, <2>1, <2>2, <2>4, <3>1
    <3>3. pc'[Main] = pc[Main]
      BY <1>1, <1>5, <2>1
    <3> QED BY <2>1, <3>2, <3>3, <1>1 DEF Awake
  <2> QED BY <2>1, <2>3, <2>4
<1> QED
  BY <1>3, <1>4, <1>5

LEMMA AwakeFetch ==
    ASSUME IInv, Awake, Lockfree, NEW t \in Threads, Enter(t) \/ Fetch(t)
    PROVE  Awake' /\ phase' = phase
<1> USE DEF IInv
<1>1. /\ queue' = queue /\ phase' = phase /\ pc \in [Threads -> Places]
      /\ Main \in Threads /\ Workers \subseteq Threads /\ Main \notin Workers
      /\ t = Main \/ t \in Workers
  BY PoolAssumption DEF Enter, Fetch, TakeOrLeave, TypeOK, Threads
<1>2. CASE \E place \in {"fetch", "loop"} : Goto(t, place)
  <2>1. PICK place \in {"fetch", "loop"} : pc' = [pc EXCEPT ![t] = place]
    BY <1>2 DEF Goto
  <2>2. CASE t = Main
    BY <1>1, <2>1, <2>2 DEF Awake
  <2>3. CASE t \in Workers
    BY <1>1, <2>1, <2>3 DEF Awake
  <2> QED BY <1>1, <2>2, <2>3
<1>3. CASE pc[t] = "fetch" /\ activated = <<>> /\ Goto(t, "leave")
  <2>1. pc' = [pc EXCEPT ![t] = "leave"]
    BY <1>3 DEF Goto
  <2>2. ASSUME phase \in {"joining", "inline"}, NEW o \in Objects, queue[o] # <<>>
        PROVE  \E w \in Workers : pc'[w] \notin {"stopped", "leave"}
    BY <1>1, <1>3, <2>1, <2>2, EmptyListHolder
  <2>3. t = Main => phase = "inline" /\ \A w \in Workers : pc'[w] = "stopped"
    BY <1>1, <1>3, <2>1 DEF PhaseOK, TypeOK, Phases
  <2>4. t # Main => pc'[Main] = pc[Main]
    BY <1>1, <2>1
  <2> QED BY <1>1, <2>2, <2>3, <2>4 DEF Awake
<1>4. \/ \E place \in {"fetch", "loop"} : Goto(t, place)
      \/ pc[t] = "fetch" /\ activated = <<>> /\ Goto(t, "leave")
  BY DEF Enter, Fetch, TakeOrLeave
<1> QED
  BY <1>1, <1>2, <1>3, <1>4

\* A step of a worker that ends where the worker is still to look at the list,
\* or of Main while it cannot be about to leave, keeps Awake.
LEMMA AwakeBusy ==
    ASSUME IInv, Awake, NEW t \in Threads, phase' = phase,
           NEW place \in {"client", "method", "managed", "fetch", "resched", "signal"},
           Goto(t, place) \/ (UNCHANGED pc /\ pc[t] = place),
           t = Main \/ place # "client",
           \/ queue' = queue
           \/ pc[t] = "method"
           \/ pc[t] = "client" /\ phase # "joining"
    PROVE  Awake'
<1> USE DEF IInv
<1>1. /\ pc \in [Threads -> Places] /\ pc'[t] = place
      /\ \A u \in Threads : u # t => pc'[u] = pc[u]
      /\ Main \in Threads /\ Workers \subseteq Threads /\ Main \notin Workers
  BY PoolAssumption DEF Goto, TypeOK, Threads
<1>2. CASE t \in Workers
  <2>1. pc'[t] \notin {"stopped", "leave"} /\ pc'[Main] = pc[Main]
    BY <1>1, <1>2
  <2>2. pc[Main] = "leave" => queue' = queue
    <3>1. pc[Main] = "leave" => pc[t] = "stopped"
      BY <1>1, <1>2 DEF PhaseOK, TypeOK, Phases
    <3> QED BY <3>1
  <2> QED BY <1>2, <2>1, <2>2 DEF Awake
<1>3. CASE t = Main
  <2>1. /\ pc'[Main] # "leave"
        /\ \A w \in Workers : pc'[w] = pc[w]
    BY <1>1, <1>3
  <2>2. phase = "joining" => queue' = queue
    BY <1>3 DEF PhaseOK
  <2> QED BY <2>1, <2>2 DEF Awake
<1> QED
  BY <1>2, <1>3 DEF Threads

LEMMA AwakeStep ==
    ASSUME IInv, Lockfree, \E v, w \in Workers : v # w, Awake, [Next]_vars
    PROVE  /\ Awake'
           /\ phase # "idle" /\ phase' = "idle"
                 => \A o \in Objects : queue'[o] = <<>>
<1> USE DEF IInv
<1>1. ASSUME NEW t \in Threads, NEW o \in Objects, NEW m \in Messages, Send(t, o, m)
      PROVE  phase' = phase /\ Awake'
  <2>1. /\ phase' = phase
        /\ pc[t] = "method" \/ (pc[t] = "client" /\ phase # "joining")
        /\ Goto(t, "signal") \/ UNCHANGED pc
    BY <1>1 DEF Send, CanSend
  <2>2. pc[t] = "client" => t = Main
    BY PoolAssumption DEF PhaseOK, Threads
  <2> QED BY <2>1, <2>2, AwakeBusy
<1>2. ASSUME NEW t \in Threads, EndMethod(t) \/ Clear(t)
      PROVE  phase' = phase /\ Awake'
  <2>1. /\ phase' = phase /\ pc[t] = "method"
        /\ \/ UNCHANGED pc
           \/ \E place \in {"fetch", "method", "resched"} : Goto(t, place)
    BY <1>2 DEF EndMethod, RunLoop, Clear
  <2> QED BY <2>1, AwakeBusy
<1>3. ASSUME NEW t \in Threads, Signal(t) \/ Wake(t) \/ Begin(t) \/ Resched(t)
      PROVE  phase' = phase /\ Awake'
  <2>1. /\ phase' = phase /\ queue' = queue
        /\ \E place \in {"client", "method", "managed", "fetch", "resched"} :
              Goto(t, place) /\ (place = "client" => pc[t] = "signal" /\ cur[t] = NoObject)
    BY <1>3 DEF Signal, Wake, Begin, Resched, RunLoop
  <2>2. pc[t] = "signal" /\ cur[t] = NoObject => t = Main
    BY DEF PhaseOK, Threads
  <2> QED BY <2>1, <2>2, AwakeBusy
<1>4. ASSUME NEW t \in Threads, Enter(t) \/ Fetch(t)
      PROVE  phase' = phase /\ Awake'
  BY <1>4, AwakeFetch
<1>5. ASSUME NEW t \in Threads, Leave(t)
      PROVE  /\ Awake'
             /\ phase' = phase \/ \A o \in Objects : queue'[o] = <<>>
  BY <1>5, AwakeLeave
<1>6. CASE RunCtor \/ StopWork \/ RunInline
  <2>1. phase' \notin {"idle"} /\ (phase' = "joining" => StopWork)
    BY <1>6 DEF RunCtor, StopWork, RunInline
  <2>2. pc'[Main] # "leave"
    BY <1>6, PoolAssumption DEF RunCtor, StopWork, RunInline, Goto, TypeOK, Threads
  <2>3. StopWork => \A w \in Workers : pc'[w] # "stopped"
    BY DEF StopWork, PhaseOK
  <2> QED BY <2>1, <2>2, <2>3 DEF Awake
<1>7. CASE Join
  <2>1. /\ phase = "joining" /\ \A w \in Workers : pc[w] = "stopped"
        /\ UNCHANGED <<queue, pc>> /\ phase' = "idle"
    BY <1>7 DEF Join
  <2> QED BY <2>1 DEF Awake
<1>8. CASE UNCHANGED vars
  BY <1>8 DEF vars, Awake
<1> QED
  BY <1>1, <1>2, <1>3, <1>4, <1>5, <1>6, <1>7, <1>8 DEF Next, Work

\* With ACTIVE_USE_CXX11 and two workers or more no message is left behind
\* either: the first worker to go home counts every other one as not busy, so
\* all of these look at the list again after anything that was activated.
THEOREM LockfreeRunDrains ==
    ASSUME Lockfree, \E v, w \in Workers : v # w
    PROVE  Spec => RunDrains
<1>1. Init => Awake
  BY PoolAssumption DEF Init, Awake, Threads
<1>2. IInv /\ Awake /\ [Next]_vars => Awake'
  BY AwakeStep
<1>3. IInv /\ Awake /\ [Next]_vars
        => [phase # "idle" /\ phase' = "idle"
              => \A o \in Objects : queue'[o] = <<>>]_vars
  BY AwakeStep
<1> QED
  BY <1>1, <1>2, <1>3, SpecIInv, PTL DEF Spec, RunDrains

-----------------------------------------------------------------------------
(* Pool implements Actors *)

\* t is in a method of o.
InMethod(t, o) == cur[t] = o /\ pc[t] \in {"method", "signal"}

LEMMA ExecutingDef ==
    /\ executing = [o \in Objects |-> \E t \in Threads : InMethod(t, o)]
    /\ executing' = [o \in Objects |-> \E t \in Threads : InMethod(t, o)']
BY DEF executing, Running, InMethod

\* A step that puts no thread in a method and takes none out of one.
LEMMA SameExecuting ==
    ASSUME NEW t \in Threads,
           \A u \in Threads : u # t => pc'[u] = pc[u] /\ cur'[u] = cur[u],
           \A o \in Objects : InMethod(t, o)' <=> InMethod(t, o)
    PROVE  executing' = executing
<1>1. \A u \in Threads, o \in Objects : InMethod(u, o)' <=> InMethod(u, o)
  BY DEF InMethod
<1> QED
  BY <1>1, ExecutingDef

LEMMA SendPosts ==
    ASSUME IInv, NEW t \in Threads, NEW o \in Objects, NEW m \in Messages,
           Send(t, o, m)
    PROVE  Mailbox!Post(o, m)
<1>1. /\ queue' = [queue EXCEPT ![o] = Append(@, m)]
      /\ cur' = cur
      /\ pc' = pc \/ pc' = [pc EXCEPT ![t] = "signal"]
      /\ pc[t] = "method" \/ cur[t] = NoObject
  BY DEF Send, Goto, CanSend, IInv, PlaceOK
<1>2. executing' = executing
  <2>1. \A p \in Objects : InMethod(t, p)' <=> InMethod(t, p)
    BY <1>1, PoolAssumption DEF InMethod, IInv, TypeOK
  <2> QED
    BY <1>1, <2>1, SameExecuting DEF IInv, TypeOK
<1> QED
  BY <1>1, <1>2 DEF Mailbox!Post

\* run_some's loop finds a message: the object takes it up.
LEMMA BeginBegins ==
    ASSUME IInv, NEW t \in Threads, Begin(t)
    PROVE  Mailbox!Begin(cur[t])
<1>1. PICK o \in Objects : o = cur[t] /\ pc[t] = "loop"
  BY DEF Begin, IInv, PlaceOK, TypeOK
<1>2. queue[o] # <<>>
  BY <1>1 DEF IInv, Duty, Held
<1>3. /\ pc' = [pc EXCEPT ![t] = "method"]
      /\ UNCHANGED <<queue, cur>>
  BY <1>1, <1>2, PoolAssumption DEF Begin, RunLoop, Goto
<1>4. ~executing[o]
  <2> SUFFICES ASSUME NEW u \in Threads, InMethod(u, o) PROVE FALSE
    BY ExecutingDef
  <2>1. u = t
    BY <1>1, PoolAssumption DEF InMethod, IInv, Alone
  <2> QED BY <1>1, <2>1 DEF InMethod
<1>5. executing' = [executing EXCEPT ![o] = TRUE]
  <2>1. InMethod(t, o)'
    BY <1>1, <1>3 DEF InMethod, IInv, TypeOK
  <2>2. \A p \in Objects : p # o =>
           \A u \in Threads : InMethod(u, p)' <=> InMethod(u, p)
    BY <1>1, <1>3 DEF InMethod, IInv, TypeOK
  <2>3. executing'[o] = TRUE
    BY <2>1, ExecutingDef
  <2>4. \A p \in Objects : p # o => executing'[p] = executing[p]
    BY <2>2, ExecutingDef
  <2> QED BY <2>3, <2>4, ExecutingDef
<1> QED
  BY <1>1, <1>2, <1>3, <1>4, <1>5 DEF Mailbox!Begin

\* A method ends: its message goes, and the object may start the next at once.
LEMMA EndMethodFinishes ==
    ASSUME IInv, NEW t \in Threads, EndMethod(t)
    PROVE  Mailbox!Finish(cur[t])
<1>1. PICK o \in Objects : o = cur[t] /\ o # NoObject /\ pc[t] = "method"
  BY DEF EndMethod, IInv, PlaceOK, TypeOK
<1>2. queue' = [queue EXCEPT ![o] = Tail(@)]
  BY <1>1 DEF EndMethod
<1>3. executing[o]
  BY <1>1, ExecutingDef DEF InMethod
<1>4. \A u \in Threads : u # t => cur[u] # o /\ cur'[u] = cur[u] /\ pc'[u] = pc[u]
  BY <1>1 DEF EndMethod, RunLoop, Goto, IInv, Alone, TypeOK
<1>5. \A p \in Objects : p # o =>
         \A u \in Threads : InMethod(u, p)' <=> InMethod(u, p)
  <2>1. \A p \in Objects : p # o => ~InMethod(t, p) /\ ~InMethod(t, p)'
    BY <1>1, PoolAssumption DEF InMethod, EndMethod, RunLoop, IInv, TypeOK
  <2> QED BY <1>4, <2>1 DEF InMethod
<1>6. \A p \in Objects : p # o => executing'[p] = executing[p]
  BY <1>5, ExecutingDef
<1>7. executing'[o] <=> InMethod(t, o)'
  BY <1>4, ExecutingDef DEF InMethod
<1>8. InMethod(t, o)' => queue'[o] # <<>>
  BY <1>1 DEF InMethod, EndMethod, RunLoop, Goto, IInv, TypeOK
<1>9. PICK again \in BOOLEAN : again <=> InMethod(t, o)'
  OBVIOUS
<1>10. executing' = [executing EXCEPT ![o] = again]
  <2>1. executing'[o] = again
    BY <1>7, <1>9, ExecutingDef
  <2> QED BY <1>6, <2>1, ExecutingDef
<1> QED
  BY <1>1, <1>2, <1>3, <1>8, <1>9, <1>10 DEF Mailbox!Finish

LEMMA ClearDiscards ==
    ASSUME IInv, NEW t \in Threads, Clear(t)
    PROVE  Mailbox!Discard(cur[t])
<1>1. cur[t] \in Objects /\ executing[cur[t]]
  BY ExecutingDef DEF Clear, IInv, PlaceOK, TypeOK, InMethod
<1>2. executing' = executing
  BY ExecutingDef DEF Clear, InMethod
<1> QED
  BY <1>1, <1>2 DEF Clear, Mailbox!Discard

\* Whatever threads do between messages is invisible to the mailboxes.
LEMMA ThreadStutters ==
    ASSUME IInv, NEW t \in Threads,
           Signal(t) \/ Enter(t) \/ Fetch(t) \/ Leave(t) \/ Wake(t) \/ Resched(t)
    PROVE  UNCHANGED <<queue, executing>>
<1>1. CASE Signal(t)
  <2>1. \A o \in Objects : InMethod(t, o)' <=> InMethod(t, o)
    BY <1>1, PoolAssumption DEF Signal, Goto, InMethod, IInv, TypeOK
  <2> QED
    BY <1>1, <2>1, SameExecuting DEF Signal, Goto, IInv, TypeOK
<1>2. CASE Wake(t) \/ Resched(t)
  <2>1. \A o \in Objects : ~InMethod(t, o)' /\ ~InMethod(t, o)
    BY <1>2 DEF Wake, Resched, Goto, InMethod, IInv, TypeOK
  <2> QED
    BY <1>2, <2>1, SameExecuting DEF Wake, Resched, Goto, IInv, TypeOK
<1>3. CASE Enter(t) \/ Fetch(t) \/ Leave(t)
  <2>1. /\ pc[t] \in {"managed", "fetch", "leave"}
        /\ queue' = queue
        /\ \E place \in {"loop", "fetch", "leave", "pause", "client", "stopped"} :
              Goto(t, place)
        /\ \A u \in Threads : u # t => cur'[u] = cur[u]
    BY <1>3 DEF Enter, Fetch, Leave, TakeOrLeave, GiveUp, IInv, TypeOK
  <2>2. \A o \in Objects : ~InMethod(t, o)' /\ ~InMethod(t, o)
    BY <2>1 DEF Goto, InMethod, IInv, TypeOK
  <2> QED
    BY <2>1, <2>2, SameExecuting DEF Goto, IInv, TypeOK
<1> QED
  BY <1>1, <1>2, <1>3

LEMMA MainStutters ==
    ASSUME IInv, RunCtor \/ StopWork \/ Join \/ RunInline
    PROVE  UNCHANGED <<queue, executing>>
<1>1. CASE StopWork \/ Join
  BY <1>1, ExecutingDef DEF StopWork, Join, InMethod
<1>2. CASE RunCtor \/ RunInline
  <2>1. \A t \in Threads : cur[t] = NoObject /\ cur' = cur
    BY <1>2 DEF RunCtor, RunInline, IInv, PlaceOK, PhaseOK, Threads
  <2>2. \A t \in Threads, o \in Objects : ~InMethod(t, o) /\ ~InMethod(t, o)'
    BY <2>1, PoolAssumption DEF InMethod
  <2> QED
    BY <1>2, <2>2, ExecutingDef DEF RunCtor, RunInline
<1> QED
  BY <1>1, <1>2

\* Any number of threads, senders and objects, in either build, look to callers
\* like mailboxes whose messages run one at a time, in order, each exactly once
\* unless discarded.
THEOREM PoolImplementsActors == Spec => Implements
<1>1. Init => Mailbox!Init
  BY PoolAssumption, ExecutingDef DEF Init, Mailbox!Init, InMethod
<1>2. IInv /\ [Next]_vars => [Mailbox!Next]_(Mailbox!vars)
  <2> SUFFICES ASSUME IInv, [Next]_vars
               PROVE  Mailbox!Next \/ UNCHANGED <<queue, executing>>
    BY DEF Mailbox!vars
  <2>1. ASSUME NEW t \in Threads, NEW o \in Objects, NEW m \in Messages,
               Send(t, o, m)
        PROVE  Mailbox!Next
    BY <2>1, SendPosts DEF Mailbox!Next
  <2>2. ASSUME NEW t \in Threads, Begin(t) \/ EndMethod(t) \/ Clear(t)
        PROVE  Mailbox!Next
    <3>1. cur[t] \in Objects
      BY <2>2 DEF Begin, EndMethod, Clear, IInv, PlaceOK, TypeOK
    <3> QED
      BY <2>2, <3>1, BeginBegins, EndMethodFinishes, ClearDiscards DEF Mailbox!Next
  <2>3. CASE UNCHANGED vars
    BY <2>3, ExecutingDef DEF vars, InMethod
  <2> QED
    BY <2>1, <2>2, <2>3, ThreadStutters, MainStutters DEF Next, Work
<1> QED
  BY <1>1, <1>2, SpecIInv, PTL DEF Spec, Implements, Mailbox!Spec
=============================================================================
