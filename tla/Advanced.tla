------------------------------ MODULE Advanced ------------------------------
(***************************************************************************)
(* active::advanced: objects with queueing::advanced, a message queue with *)
(* priorities, a capacity and a policy for a full queue, on a thread pool. *)
(*                                                                         *)
(* Under policy::block a sender that finds the queue full runs other       *)
(* objects while it waits (idle, scheduler::run_one).  That call nests: a  *)
(* thread is a stack of objects, of which the top one runs and the others  *)
(* wait, in the middle of a method, until it has finished.                 *)
(*                                                                         *)
(* An active::run is alive throughout, so a worker never goes home (how it *)
(* does is Pool's subject).  The list of activated objects is the FIFO of  *)
(* the lock-free build.  A step is one critical section of a queue's mutex *)
(* or one operation on that list.                                          *)
(***************************************************************************)
EXTENDS Integers, Sequences, FiniteSets, SequencesExt

CONSTANTS
    Objects,
    NoObject,
    Workers,    \* the threads of the active::run
    Main,       \* a thread that sends from outside any object
    Priorities,
    Sends,      \* Sends[o]: the calls of o's methods, <<object, priority>>; [NoObject]: Main's
    Capacity,   \* m_capacity of every object
    Policies,   \* the policies to look at
    Budget,     \* the n of run_some(n)
    MaxQueue    \* bound: the length of a queue that ignores its capacity

ASSUME AdvancedAssumption ==
    /\ NoObject \notin Objects
    /\ Main \notin Workers
    /\ Priorities \subseteq Int
    /\ Sends \in [Objects \cup {NoObject} -> SUBSET (Objects \X Priorities)]
    /\ Capacity \in Nat \ {0}
    /\ Policies \subseteq {"ignore", "discard", "block", "fail"}
    /\ Budget \in Nat \ {0}
    /\ MaxQueue \in Nat

VARIABLES
    policy,     \* m_queue_full_policy of every object; set once
    queue,      \* queue[o]: the priorities in m_messages, the next to run first
    active,     \* active[o]: m_activated
    list,       \* the scheduler's activated objects
    stack       \* stack[t]: thread t's calls of run_some, the innermost last

vars == <<policy, queue, active, list, stack>>

Threads == Workers \cup {Main}

(***************************************************************************)
(* loop     about to lock the queue and look for a message                 *)
(* method   running a message                                              *)
(* signal   has enqueued to an object that was not activated, not yet done *)
(* full     found the queue of "to" full, about to call idle               *)
(* check    idle has returned, about to look at that queue again           *)
(* resched  run_some has returned TRUE, the object is not on the list yet  *)
(***************************************************************************)
Places == {"loop", "method", "signal", "full", "check", "resched"}

\* left is what remains of n; to and prio are the call that is being made.
Frame == [obj : Objects \cup {NoObject}, at : Places, left : 0 .. Budget,
          to : Objects \cup {NoObject}, prio : Priorities \cup {0}]

TypeOK ==
    /\ policy \in Policies
    /\ queue \in [Objects -> Seq(Priorities)]
    /\ active \in [Objects -> BOOLEAN]
    /\ list \in Seq(Objects)
    /\ stack \in [Threads -> Seq(Frame)]

Called(o, place, n) ==
    [obj |-> o, at |-> place, left |-> n, to |-> NoObject, prio |-> 0]

\* Main's own code is a method of no object, which never ends.
Init ==
    /\ policy \in Policies
    /\ queue = [o \in Objects |-> <<>>]
    /\ active = [o \in Objects |-> FALSE]
    /\ list = <<>>
    /\ stack = [t \in Threads |->
                  IF t = Main THEN <<Called(NoObject, "method", 0)>> ELSE <<>>]

Top(t) == Last(stack[t])
At(t, place) == stack[t] # <<>> /\ Top(t).at = place
Replace(t, frame) == stack' = [stack EXCEPT ![t] = Append(Front(@), frame)]
Leave(t) == stack' = [stack EXCEPT ![t] = Front(@)]

\* The call that t's method makes is over, or goes on at another place.
Continue(t) == Replace(t, [Top(t) EXCEPT !.at = "method", !.to = NoObject, !.prio = 0])
Goto(t, place) == Replace(t, [Top(t) EXCEPT !.at = place])
-----------------------------------------------------------------------------
(* enqueue_fn *)

\* How many messages of q run before a new one of priority p, by msg_cmp: those
\* of its priority or a higher one.
Before(q, p) ==
    {k \in 0 .. Len(q) : \A i \in 1 .. Len(q) : q[i] >= p <=> i <= k}

\* Mutant: the object is activated whether it was or not.
EnqueueSignals(t, o, q, p) ==
    /\ \E k \in Before(q, p) :
          queue' = [queue EXCEPT ![o] = InsertAt(q, k + 1, p)]
    /\ active' = [active EXCEPT ![o] = TRUE]
    /\ Replace(t, [Top(t) EXCEPT !.at = "signal", !.to = o, !.prio = 0])

\* enqueue: the object must be activated unless it has been.
Enqueue(t, o, q, p) ==
    /\ \E k \in Before(q, p) :
          queue' = [queue EXCEPT ![o] = InsertAt(q, k + 1, p)]
    /\ active' = [active EXCEPT ![o] = TRUE]
    /\ IF active[o]
         THEN Continue(t)
         ELSE Replace(t, [Top(t) EXCEPT !.at = "signal", !.to = o, !.prio = 0])

\* Under policy::block a message of a higher priority than all is let in.
Room(o, p) ==
    Len(queue[o]) < Capacity \/ p > Head(queue[o])

Send(t, o, p) ==
    /\ At(t, "method")
    /\ <<o, p>> \in Sends[Top(t).obj]
    /\ \/ /\ \/ Len(queue[o]) < Capacity
             \/ policy = "ignore" /\ Len(queue[o]) < MaxQueue
          /\ Enqueue(t, o, queue[o], p)
       \/ /\ Len(queue[o]) >= Capacity /\ policy = "discard"
          /\ p > Head(queue[o])
          /\ Enqueue(t, o, Tail(queue[o]), p)
       \/ /\ Len(queue[o]) >= Capacity
          /\ \/ policy = "discard" /\ p <= Head(queue[o])
             \/ policy = "fail"     \* bad_alloc, which the method may catch
          /\ UNCHANGED <<queue, active, stack>>
       \/ /\ Len(queue[o]) >= Capacity /\ policy = "block"
          /\ Room(o, p)
          /\ Enqueue(t, o, queue[o], p)
       \/ /\ policy = "block"
          /\ ~Room(o, p)
          /\ Replace(t, [Top(t) EXCEPT !.at = "full", !.to = o, !.prio = p])
          /\ UNCHANGED <<queue, active>>
    /\ UNCHANGED <<policy, list>>

\* Mutant: the blocked sender waits and runs nothing.
OnlyWait(t) ==
    /\ At(t, "full")
    /\ Goto(t, "check")
    /\ UNCHANGED <<policy, queue, active, list>>

\* idle, unlocked: run the first object of the list, if there is one.
Idle(t) ==
    /\ At(t, "full")
    /\ \/ /\ list = <<>>
          /\ Goto(t, "check")
          /\ UNCHANGED list
       \/ /\ list # <<>>
          /\ list' = Tail(list)
          /\ stack' = [stack EXCEPT ![t] =
                         Append(Front(@), [Top(t) EXCEPT !.at = "check"])
                           \o <<Called(Head(list), "loop", Budget)>>]
    /\ UNCHANGED <<policy, queue, active>>

\* Mutant: the loops test once and not again.
CheckOnce(t) ==
    /\ At(t, "check")
    /\ Enqueue(t, Top(t).to, queue[Top(t).to], Top(t).prio)
    /\ UNCHANGED <<policy, list>>

\* Locked again: the conditions of both loops, and the timed wait between them.
Check(t) ==
    /\ At(t, "check")
    /\ IF Room(Top(t).to, Top(t).prio)
         THEN Enqueue(t, Top(t).to, queue[Top(t).to], Top(t).prio)
         ELSE Goto(t, "full") /\ UNCHANGED <<queue, active>>
    /\ UNCHANGED <<policy, list>>

\* The rest of enqueue_fn2.
Signal(t) ==
    /\ At(t, "signal")
    /\ list' = Append(list, Top(t).to)
    /\ Continue(t)
    /\ UNCHANGED <<policy, queue, active>>
-----------------------------------------------------------------------------
(* run_some *)

\* A worker's locked_run_one.
Take(t) ==
    /\ t \in Workers
    /\ stack[t] = <<>>
    /\ list # <<>>
    /\ list' = Tail(list)
    /\ stack' = [stack EXCEPT ![t] = <<Called(Head(list), "loop", Budget)>>]
    /\ UNCHANGED <<policy, queue, active>>

\* Mutant: the flag stays up when the queue has been emptied.
LoopStaysActive(t) ==
    LET o == Top(t).obj n == Top(t).left IN
    \/ /\ queue[o] # <<>> /\ n > 0
       /\ queue' = [queue EXCEPT ![o] = Tail(@)]
       /\ Replace(t, Called(o, "method", n - 1))
       /\ UNCHANGED active
    \/ /\ queue[o] # <<>> /\ n = 0
       /\ Goto(t, "resched")
       /\ UNCHANGED <<queue, active>>
    \/ /\ queue[o] = <<>>
       /\ Leave(t)
       /\ UNCHANGED <<queue, active>>

\* Mutant: n is counted down and not looked at.
LoopUnbounded(t) ==
    LET o == Top(t).obj n == Top(t).left IN
    \/ /\ queue[o] # <<>>
       /\ queue' = [queue EXCEPT ![o] = Tail(@)]
       /\ Replace(t, Called(o, "method", n - 1))
       /\ UNCHANGED active
    \/ /\ queue[o] = <<>>
       /\ active' = [active EXCEPT ![o] = FALSE]
       /\ Leave(t)
       /\ UNCHANGED queue

\* The test of run_some's loop, with what it does next under the same lock: pop
\* a message, or set m_activated and return.
Loop(t) ==
    LET o == Top(t).obj n == Top(t).left IN
    \/ /\ queue[o] # <<>> /\ n > 0
       /\ queue' = [queue EXCEPT ![o] = Tail(@)]
       /\ Replace(t, Called(o, "method", n - 1))
       /\ UNCHANGED active
    \/ /\ queue[o] # <<>> /\ n = 0
       /\ active' = [active EXCEPT ![o] = TRUE]
       /\ Goto(t, "resched")
       /\ UNCHANGED queue
    \/ /\ queue[o] = <<>>
       /\ active' = [active EXCEPT ![o] = FALSE]
       /\ Leave(t)
       /\ UNCHANGED queue

Begin(t) ==
    /\ At(t, "loop")
    /\ Loop(t)
    /\ UNCHANGED <<policy, list>>

\* The method has returned, or thrown.
EndMethod(t) ==
    /\ At(t, "method")
    /\ Top(t).obj # NoObject
    /\ Loop(t)
    /\ UNCHANGED <<policy, list>>

Resched(t) ==
    /\ At(t, "resched")
    /\ list' = Append(list, Top(t).obj)
    /\ Leave(t)
    /\ UNCHANGED <<policy, queue, active>>

\* A method calls clear().
Clear(t) ==
    /\ At(t, "method")
    /\ Top(t).obj # NoObject
    /\ queue' = [queue EXCEPT ![Top(t).obj] = <<>>]
    /\ UNCHANGED <<policy, active, list, stack>>
-----------------------------------------------------------------------------
Work(t) ==
    \/ Idle(t) \/ Check(t) \/ Signal(t)
    \/ Take(t) \/ Begin(t) \/ EndMethod(t) \/ Resched(t)

Next ==
    \E t \in Threads :
        \/ \E o \in Objects, p \in Priorities : Send(t, o, p)
        \/ Work(t)
        \/ Clear(t)

Spec == Init /\ [][Next]_vars

\* Threads keep running.  A method may make any number of calls, but it returns,
\* unless one of them blocks for ever; nobody stops Main and the methods of the
\* others from sending meanwhile.
Returns(o) == \E t \in Threads : At(t, "method") /\ Top(t).obj = o /\ EndMethod(t)

FairSpec ==
    /\ Spec
    /\ \A t \in Threads : WF_vars(Work(t))
    /\ \A o \in Objects : SF_vars(Returns(o))
-----------------------------------------------------------------------------
(* Properties *)

Frames(t) == {<<t, i>> : i \in DOMAIN stack[t]}
AllFrames == UNION {Frames(t) : t \in Threads}
FrameOf(x) == stack[x[1]][x[2]]

\* What will make o run: a place on the list, a call of its run_some on some
\* stack, or a sender about to activate it.
Holders(o) ==
    {<<"list", i>> : i \in {j \in DOMAIN list : list[j] = o}}
        \cup {<<"frame", x>> : x \in {y \in AllFrames : FrameOf(y).obj = o}}
        \cup {<<"sender", x>> : x \in {y \in AllFrames :
                FrameOf(y).at = "signal" /\ FrameOf(y).to = o}}

\* Safety: an object is on the list, in one run_some of one thread, or with one
\* sender, and in only one of these places: idle, which runs whatever is on the
\* list, never enters an object that is in the middle of a method, below it on
\* the same stack or on another (advanced.hpp:120, 212, 247-252).
SingleActivation == \A o \in Objects : \A x, y \in Holders(o) : x = y

\* Safety: m_activated says exactly whether the object is in one of those places,
\* and one with messages is: no message waits for an activation that never comes
\* (advanced.hpp:212-213, 247-251).
NoLostActivation ==
    \A o \in Objects :
        /\ active[o] <=> Holders(o) # {}
        /\ queue[o] # <<>> => active[o]

\* Safety: "higher priority messages get delivered anyway" lets a queue grow over
\* its capacity under block, but the messages in excess have each a higher
\* priority than the next, so there are fewer of them than priorities
\* (advanced.hpp:90-132, whatever happened while the sender was in idle).
NearCapacity ==
    policy # "ignore" =>
        \A o \in Objects : \A i \in 1 .. Len(queue[o]) - Capacity :
            queue[o][i] > queue[o][i + 1]

\* The queues that the calls of t's methods wait for.
WaitsFor(t) ==
    {stack[t][i].to : i \in {k \in DOMAIN stack[t] : stack[t][k].at \in {"full", "check"}}}

\* A queue that t waits for gets one more message, and not from the call that waits.
Overtaken(t) ==
    \E o \in WaitsFor(t) \cap WaitsFor(t)' : Len(queue'[o]) > Len(queue[o])

\* Liveness: where objects that are sent to do not send themselves, a sender that
\* blocks for ever is overtaken for ever: others put their messages where it waits
\* for a place, which the code does not prevent.  It does not wait for anything
\* else, even if every thread of the pool is blocked: it runs the receiver itself
\* (advanced.hpp:114-131).
Unblocks ==
    \A t \in Threads : <>[](WaitsFor(t) # {}) => []<><<Overtaken(t)>>_vars
=============================================================================
