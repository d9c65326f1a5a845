-------------------------------- MODULE Pool --------------------------------
(***************************************************************************)
(* The default configuration of the library: active::basic objects on an   *)
(* active::scheduler, run by the threads of an active::run object or by    *)
(* the thread that calls scheduler::run().                                 *)
(*                                                                         *)
(* An object with messages is "activated": pushed on the scheduler's list, *)
(* from which a thread takes it to run at most Budget of its messages.     *)
(* The sender that makes a queue non-empty activates the object after it   *)
(* has released the queue's mutex; a thread that stops early activates it  *)
(* again.  A counter of busy threads, held up by the run object, tells the *)
(* threads when to go home.                                                *)
(*                                                                         *)
(* Lockfree is the ACTIVE_USE_CXX11 build: the activation list is an       *)
(* atomic FIFO, the counter an atomic, and no mutex joins the two.         *)
(* Otherwise (Boost) the list is a LIFO and m_mutex guards list and        *)
(* counter.  A section of code under one mutex is one action.              *)
(***************************************************************************)
EXTENDS Integers, Sequences, FiniteSets, Functions

CONSTANTS
    Objects,    \* the active objects, all on one scheduler
    NoObject,   \* "no object", a value that is not an object
    Workers,    \* the threads an active::run starts
    Main,       \* the thread that makes and destroys the active::run
    Messages,   \* message instances; one is sent again only after it has gone
    Budget,     \* messages run before an object goes back on the list (n=100)
    Lockfree    \* TRUE: the ACTIVE_USE_CXX11 build

ASSUME PoolAssumption ==
    /\ NoObject \notin Objects
    /\ Main \notin Workers
    /\ IsFiniteSet(Workers) /\ Workers # {}
    /\ Budget \in Nat \ {0}
    /\ Lockfree \in BOOLEAN

VARIABLES
    queue,      \* queue[o]: object o's m_queue, the running message first
    activated,  \* m_activated_objects, or the list from m_head
    busy,       \* m_busy_count
    pc,         \* pc[t]: where thread t is
    cur,        \* cur[t]: the object thread t is running
    left,       \* left[t]: n in t's call of run_some
    target,     \* target[t]: the object t is about to activate
    phase       \* what Main has done with the scheduler

vars == <<queue, activated, busy, pc, cur, left, target, phase>>

Threads == Workers \cup {Main}

(***************************************************************************)
(* client   Main, outside the scheduler                                    *)
(* stopped  a worker that has not been started or has returned             *)
(* managed  in scheduler::run, about to enter run_managed                  *)
(* fetch    in run_managed's loop, counted busy, about to take an object   *)
(* loop     has taken an object off the list                               *)
(* method   running a message of the object                                *)
(* signal   has made target's queue non-empty, has not activated it yet    *)
(* resched  run_some has used up its budget, the object is not back yet    *)
(* leave    found the list empty, still counted busy (Lockfree only)       *)
(* pause    in the timed wait of scheduler::run                            *)
(***************************************************************************)
Places == {"client", "stopped", "managed", "fetch", "loop", "method",
           "signal", "resched", "leave", "pause"}

(***************************************************************************)
(* idle     no threads, Main may send                                      *)
(* open     an active::run is alive, Main may send                         *)
(* joining  in ~run: stop_work done, waiting for the threads               *)
(* inline   Main itself is in scheduler::run()                             *)
(***************************************************************************)
Phases == {"idle", "open", "joining", "inline"}

TypeOK ==
    /\ queue \in [Objects -> Seq(Messages)]
    /\ activated \in Seq(Objects)
    /\ busy \in Nat
    /\ pc \in [Threads -> Places]
    /\ cur \in [Threads -> Objects \cup {NoObject}]
    /\ left \in [Threads -> 0 .. Budget]
    /\ target \in [Threads -> Objects \cup {NoObject}]
    /\ phase \in Phases

Init ==
    /\ queue = [o \in Objects |-> <<>>]
    /\ activated = <<>>
    /\ busy = 0
    /\ pc = [t \in Threads |-> IF t = Main THEN "client" ELSE "stopped"]
    /\ cur = [t \in Threads |-> NoObject]
    /\ left = [t \in Threads |-> 0]
    /\ target = [t \in Threads |-> NoObject]
    /\ phase = "idle"

-----------------------------------------------------------------------------
(* Sending a message *)

Goto(t, place) == pc' = [pc EXCEPT ![t] = place]

\* Messages in some queue, running or waiting.
InFlight == UNION {Range(queue[o]) : o \in Objects}

\* Code that calls active methods: a method, or Main when it is not blocked.
CanSend(t) ==
    \/ pc[t] = "method"
    \/ pc[t] = "client" /\ phase \in {"idle", "open"}

\* Mutant: enqueue_fn returns TRUE whatever the queue held.
SendAlwaysSignals(t, o, m) ==
    /\ CanSend(t)
    /\ m \notin InFlight
    /\ queue' = [queue EXCEPT ![o] = Append(@, m)]
    /\ Goto(t, "signal")
    /\ target' = [target EXCEPT ![t] = o]
    /\ UNCHANGED <<activated, busy, cur, left, phase>>

\* enqueue_fn: push under the queue's mutex, TRUE when the queue was empty.
Send(t, o, m) ==
    /\ CanSend(t)
    /\ m \notin InFlight
    /\ queue' = [queue EXCEPT ![o] = Append(@, m)]
    /\ IF Len(queue'[o]) = 1
         THEN Goto(t, "signal") /\ target' = [target EXCEPT ![t] = o]
         ELSE UNCHANGED <<pc, target>>
    /\ UNCHANGED <<activated, busy, cur, left, phase>>

\* Mutant: the lock-free list is last in, first out.
PushedInFront(o) == <<o>> \o activated

\* scheduler::activate appends to the atomic FIFO or pushes on m_head.
Pushed(o) == IF Lockfree THEN Append(activated, o) ELSE <<o>> \o activated

\* The rest of enqueue_fn2, outside the queue's mutex.
Signal(t) ==
    /\ pc[t] = "signal"
    /\ activated' = Pushed(target[t])
    /\ target' = [target EXCEPT ![t] = NoObject]
    /\ Goto(t, IF cur[t] = NoObject THEN "client" ELSE "method")
    /\ UNCHANGED <<queue, busy, cur, left, phase>>

-----------------------------------------------------------------------------
(* scheduler::run, run_managed and locked_run_one *)

\* Mutant: run_managed returns 1 < b.
GiveUpEarly(t, b) ==
    /\ busy' = b
    /\ IF b > 1
         THEN Goto(t, "pause") /\ UNCHANGED phase
         ELSE IF t = Main
                THEN Goto(t, "client") /\ phase' = "idle"
                ELSE Goto(t, "stopped") /\ UNCHANGED phase
    /\ UNCHANGED <<queue, activated, cur, left, target>>

\* run_managed returns 0 # b: go to the timed wait, or leave scheduler::run.
GiveUp(t, b) ==
    /\ busy' = b
    /\ IF b # 0
         THEN Goto(t, "pause") /\ UNCHANGED phase
         ELSE IF t = Main
                THEN Goto(t, "client") /\ phase' = "idle"
                ELSE Goto(t, "stopped") /\ UNCHANGED phase
    /\ UNCHANGED <<queue, activated, cur, left, target>>

\* locked_run_one with m_busy_count = b.  Under the mutex an empty list and
\* the decrement are one step; without it they are two.
TakeOrLeave(t, b) ==
    \/ /\ activated # <<>>
       /\ activated' = Tail(activated)
       /\ cur' = [cur EXCEPT ![t] = Head(activated)]
       /\ busy' = b
       /\ Goto(t, "loop")
       /\ UNCHANGED <<queue, left, target, phase>>
    \/ /\ activated = <<>>
       /\ Lockfree
       /\ busy' = b
       /\ Goto(t, "leave")
       /\ UNCHANGED <<queue, activated, cur, left, target, phase>>
    \/ /\ activated = <<>>
       /\ ~Lockfree
       /\ GiveUp(t, b - 1)

\* ++m_busy_count; the mutex, where there is one, is kept for the first look.
Enter(t) ==
    /\ pc[t] = "managed"
    /\ IF Lockfree
         THEN /\ busy' = busy + 1
              /\ Goto(t, "fetch")
              /\ UNCHANGED <<queue, activated, cur, left, target, phase>>
         ELSE TakeOrLeave(t, busy + 1)

Fetch(t) ==
    /\ pc[t] = "fetch"
    /\ TakeOrLeave(t, busy)

Leave(t) ==
    /\ pc[t] = "leave"
    /\ GiveUp(t, busy - 1)

\* The wait of scheduler::run is over: notified, or after its timeout.
Wake(t) ==
    /\ pc[t] = "pause"
    /\ Goto(t, "managed")
    /\ UNCHANGED <<queue, activated, busy, cur, left, target, phase>>

-----------------------------------------------------------------------------
(* any_object::run_some(n) *)

\* The test of run_some's loop with q queued and n messages left in the budget.
RunLoop(t, q, n) ==
    \/ /\ q = <<>>
       /\ cur' = [cur EXCEPT ![t] = NoObject]
       /\ Goto(t, "fetch")
       /\ UNCHANGED left
    \/ /\ q # <<>>
       /\ n > 0
       /\ left' = [left EXCEPT ![t] = n - 1]
       /\ Goto(t, "method")
       /\ UNCHANGED cur
    \/ /\ q # <<>>
       /\ n = 0
       /\ Goto(t, "resched")
       /\ UNCHANGED <<cur, left>>

\* Lock the queue and look for the first message.
Begin(t) ==
    /\ pc[t] = "loop"
    /\ RunLoop(t, queue[cur[t]], Budget)
    /\ UNCHANGED <<queue, activated, busy, target, phase>>

\* The method has returned, or thrown into exception_handler: lock, pop, test.
EndMethod(t) ==
    /\ pc[t] = "method"
    /\ queue' = [queue EXCEPT ![cur[t]] = Tail(@)]
    /\ RunLoop(t, queue'[cur[t]], left[t])
    /\ UNCHANGED <<activated, busy, target, phase>>

\* Mutant: run_some returns TRUE without activating the object again.
ReschedForgets(t) ==
    /\ pc[t] = "resched"
    /\ cur' = [cur EXCEPT ![t] = NoObject]
    /\ Goto(t, "fetch")
    /\ UNCHANGED <<queue, activated, busy, left, target, phase>>

\* run_some returned TRUE: the object goes back on the list.
Resched(t) ==
    /\ pc[t] = "resched"
    /\ activated' = Pushed(cur[t])
    /\ cur' = [cur EXCEPT ![t] = NoObject]
    /\ Goto(t, "fetch")
    /\ UNCHANGED <<queue, busy, left, target, phase>>

\* Mutant: clear() discards the running message too.
ClearAll(t) ==
    /\ pc[t] = "method"
    /\ queue' = [queue EXCEPT ![cur[t]] = <<>>]
    /\ UNCHANGED <<activated, busy, pc, cur, left, target, phase>>

\* A method calls clear(): everything goes but the message it is running.
Clear(t) ==
    /\ pc[t] = "method"
    /\ queue' = [queue EXCEPT ![cur[t]] = <<Head(@)>>]
    /\ UNCHANGED <<activated, busy, pc, cur, left, target, phase>>

-----------------------------------------------------------------------------
(* Main: active::run, or scheduler::run() *)

\* Mutant: the constructor of run forgets start_work.
RunCtorUncounted ==
    /\ pc[Main] = "client"
    /\ phase = "idle"
    /\ pc' = [t \in Threads |-> IF t = Main THEN "client" ELSE "managed"]
    /\ phase' = "open"
    /\ UNCHANGED <<queue, activated, busy, cur, left, target>>

\* run::run: start_work, then the threads.
RunCtor ==
    /\ pc[Main] = "client"
    /\ phase = "idle"
    /\ busy' = busy + 1
    /\ pc' = [t \in Threads |-> IF t = Main THEN "client" ELSE "managed"]
    /\ phase' = "open"
    /\ UNCHANGED <<queue, activated, cur, left, target>>

\* Mutant: ~run forgets stop_work.
StopWorkForgets ==
    /\ pc[Main] = "client"
    /\ phase = "open"
    /\ phase' = "joining"
    /\ UNCHANGED <<queue, activated, busy, pc, cur, left, target>>

\* run::~run, first half: stop_work.
StopWork ==
    /\ pc[Main] = "client"
    /\ phase = "open"
    /\ busy' = busy - 1
    /\ phase' = "joining"
    /\ UNCHANGED <<queue, activated, pc, cur, left, target>>

\* run::~run, second half: every thread has been joined.
Join ==
    /\ phase = "joining"
    /\ \A w \in Workers : pc[w] = "stopped"
    /\ phase' = "idle"
    /\ UNCHANGED <<queue, activated, busy, pc, cur, left, target>>

\* Main calls scheduler::run() itself.
RunInline ==
    /\ pc[Main] = "client"
    /\ phase = "idle"
    /\ phase' = "inline"
    /\ Goto(Main, "managed")
    /\ UNCHANGED <<queue, activated, busy, cur, left, target>>

-----------------------------------------------------------------------------
\* The steps a thread takes on its own, whatever the messages do.
Work(t) ==
    \/ Signal(t)
    \/ Enter(t)
    \/ Fetch(t)
    \/ Leave(t)
    \/ Wake(t)
    \/ Begin(t)
    \/ EndMethod(t)
    \/ Resched(t)

Next ==
    \/ \E t \in Threads :
          \/ \E o \in Objects, m \in Messages : Send(t, o, m)
          \/ Work(t)
          \/ Clear(t)
    \/ RunCtor
    \/ StopWork
    \/ Join
    \/ RunInline

Spec == Init /\ [][Next]_vars

(***************************************************************************)
(* Every thread keeps being scheduled, every method returns however many   *)
(* messages it sends, and ~run notices that the threads have ended.  Main  *)
(* need never stop the scheduler, and nobody need send anything.           *)
(***************************************************************************)
FairSpec ==
    /\ Spec
    /\ \A t \in Threads : WF_vars(Work(t)) /\ SF_vars(EndMethod(t))
    /\ WF_vars(Join)

(***************************************************************************)
(* A thread that is alone in looking at an empty list sooner or later gets *)
(* from the look to the decrement before another is back from its timed    *)
(* wait: the wait lasts 50 ms, the two steps far less than a microsecond.  *)
(***************************************************************************)
TimedSpec ==
    /\ FairSpec
    /\ \A t \in Threads :
          SF_vars(busy = 1 /\ Fetch(t)) /\ SF_vars(busy = 1 /\ Leave(t))

-----------------------------------------------------------------------------
(* Correctness *)

Positions(o) == {i \in 1 .. Len(activated) : activated[i] = o}
Running(o) == {t \in Threads : cur[t] = o}
Signalling(o) == {t \in Threads : target[t] = o}

\* Everything that will make o run: its places on the list, the threads running
\* it, the senders about to put it on the list.
Holders(o) ==
    {<<i, "list">> : i \in Positions(o)}
        \cup {<<t, "thread">> : t \in Running(o)}
        \cup {<<t, "sender">> : t \in Signalling(o)}

\* An object is on the list at most once, and while it is on the list no thread
\* is running it or about to activate it: no two threads ever run one object,
\* and the intrusive list node any_object::next is in one list position.
SingleActivation ==
    \A o \in Objects : \A x, y \in Holders(o) : x = y

\* An object with a message is on the list, on a thread, or about to be put on
\* the list by a sender; an object without one is on none of them.  Neither
\* enqueue_fn nor run_some may drop or invent the duty to activate.
NoLostActivation ==
    \A o \in Objects : queue[o] # <<>> <=> Holders(o) # {}

\* scheduler::run "Runs in current thread until there are no more messages in
\* the entire pool": when ~run or run() returns, no message is left behind.
RunDrains ==
    [][phase # "idle" /\ phase' = "idle"
         => \A o \in Objects : queue'[o] = <<>>]_vars

\* A message sent while threads are running is run, or discarded by its object,
\* even if other objects never cease to have messages.
Delivery ==
    \A m \in Messages :
        m \in InFlight /\ phase # "idle" ~> m \notin InFlight

\* If the methods cease to send messages, ~run and run() return.
Termination ==
    (<>[][\A o \in Objects, m \in Messages, t \in Threads : ~Send(t, o, m)]_vars)
        => (phase \in {"joining", "inline"} ~> phase = "idle")

\* The promise of Actors: a method of o is executing while a thread is in it.
executing == [o \in Objects |->
    \E t \in Running(o) : pc[t] \in {"method", "signal"}]

Mailbox == INSTANCE Actors WITH mailbox <- queue, executing <- executing

\* However many threads and whichever build: one message of an object at a time,
\* in the order sent, each exactly once unless the object discards it.
Implements == Mailbox!Spec
=============================================================================
