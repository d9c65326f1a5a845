-------------------------------- MODULE Calls -------------------------------
(***************************************************************************)
(* What a call of an active method does for each kind of object, and what  *)
(* it means for the caller to wait for an answer.                          *)
(*                                                                         *)
(*   basic    queueing::shared: the call is queued                         *)
(*   eager    queueing::eager over shared (active::fast): the caller runs  *)
(*            the call itself if it gets the object's mutex at once, and   *)
(*            queues it otherwise                                          *)
(*   mutexed  queueing::mutexed_call (active::synchronous): the caller     *)
(*            waits for a recursive mutex and runs the call                *)
(*   direct   queueing::direct_call: the caller runs the call              *)
(*                                                                         *)
(* A message may carry a sink, where an answer goes: its method answers it *)
(* or hands it on.  promise::get waits for the answer; in the Boost build  *)
(* it runs other objects meanwhile (idle), on top of the waiting method.   *)
(* So a thread is a stack of calls, of which the innermost runs.           *)
(*                                                                         *)
(* An active::run is alive throughout.  The queue's mutex and the list are *)
(* held for one step, the mutexes of eager and mutexed as long as a call.  *)
(***************************************************************************)
EXTENDS Integers, Sequences, FiniteSets, SequencesExt

CONSTANTS
    Objects,
    NoObject,
    Kind,       \* Kind[o]: which of the four o is
    Workers,    \* the threads of the active::run
    Main,       \* a thread that calls methods from outside any object
    Promises,
    NoPromise,
    Sends,      \* Sends[o]: the objects o's methods call; of Main: [NoObject]
    Asks,       \* Asks[o]: those it calls with a promise and waits for
    Budget,     \* the n of run_some(n)
    MaxSends    \* bound: calls of active methods in a behaviour

ASSUME CallsAssumption ==
    /\ NoObject \notin Objects
    /\ NoPromise \notin Promises
    /\ Main \notin Workers
    /\ Kind \in [Objects -> {"basic", "eager", "mutexed", "direct"}]
    /\ Sends \in [Objects \cup {NoObject} -> SUBSET Objects]
    /\ Asks \in [Objects \cup {NoObject} -> SUBSET Objects]
    /\ Budget \in Nat \ {0}
    /\ MaxSends \in Nat

VARIABLES
    build,      \* "cxx11" or "boost"; chosen once
    queue,      \* queue[o]: the sinks of o's messages, the running one first
    list,       \* the scheduler's activated objects
    stack,      \* stack[t]: the calls thread t is in, the innermost last
    promise,    \* what each promise holds
    sent        \* how many calls have been made

vars == <<build, queue, list, stack, promise, sent>>

Threads == Workers \cup {Main}
Sinks == Promises \cup {NoPromise}

(***************************************************************************)
(* loop     in run_some of a queue, before its mutexes                     *)
(* method   running a message                                              *)
(* push     found to's mutex taken, about to queue msg                     *)
(* signal   has made to's queue non-empty, has not activated it yet        *)
(* lock     waiting for to's recursive mutex, to run msg                   *)
(* poll     in wait() of the Boost build, between two calls of idle        *)
(* get      in future::get                                                 *)
(* resched  run_some has returned TRUE, the object is not on the list yet  *)
(***************************************************************************)
Places == {"loop", "method", "push", "signal", "lock", "poll", "get", "resched"}

\* queued: run from the queue, not by the caller; left: the rest of n;
\* reply: the sink to answer; asks: the promise whose answer to wait for.
Frame == [obj : Objects \cup {NoObject}, at : Places, queued : BOOLEAN,
          left : 0 .. Budget, reply : Sinks, asks : Sinks,
          to : Objects \cup {NoObject}, msg : Sinks]

TypeOK ==
    /\ build \in {"cxx11", "boost"}
    /\ queue \in [Objects -> Seq(Sinks)]
    /\ list \in Seq(Objects)
    /\ stack \in [Threads -> Seq(Frame)]
    /\ promise \in [Promises -> {"unused", "asked", "set"}]
    /\ sent \in 0 .. MaxSends

Entered(o, place, queued, n, reply) ==
    [obj |-> o, at |-> place, queued |-> queued, left |-> n, reply |-> reply,
     asks |-> NoPromise, to |-> NoObject, msg |-> NoPromise]

\* Main's own code is a call of no object, which never ends.
Init ==
    /\ build \in {"cxx11", "boost"}
    /\ queue = [o \in Objects |-> <<>>]
    /\ list = <<>>
    /\ stack = [t \in Threads |->
                  IF t = Main
                    THEN <<Entered(NoObject, "method", FALSE, 0, NoPromise)>>
                    ELSE <<>>]
    /\ promise = [p \in Promises |-> "unused"]
    /\ sent = 0

Top(t) == Last(stack[t])
At(t, place) == stack[t] # <<>> /\ Top(t).at = place
Replace(t, frame) == stack' = [stack EXCEPT ![t] = Append(Front(@), frame)]
Push(t, below, frame) ==
    stack' = [stack EXCEPT ![t] = Append(Append(Front(@), below), frame)]
Leave(t) == stack' = [stack EXCEPT ![t] = Front(@)]
Goto(t, place) == Replace(t, [Top(t) EXCEPT !.at = place])

\* The calls of o that have begun: those with its mutex, where it has one.
AllFrames == UNION {{<<t, i>> : i \in DOMAIN stack[t]} : t \in Threads}
FrameOf(x) == stack[x[1]][x[2]]
Inside(o) ==
    {x \in AllFrames : FrameOf(x).obj = o /\ FrameOf(x).at \notin {"loop", "resched"}}

Activated(o) == IF build = "boost" THEN <<o>> \o list ELSE Append(list, o)
-----------------------------------------------------------------------------
(* enqueue_fn of the four queues; f is the caller, r the sink in the message *)

RunByCaller(t, f, o, r) ==
    /\ Push(t, f, Entered(o, "method", FALSE, 0, r))
    /\ UNCHANGED queue

Enqueue(t, f, o, r) ==
    /\ queue' = [queue EXCEPT ![o] = Append(@, r)]
    /\ Replace(t, IF Len(queue'[o]) = 1
                    THEN [f EXCEPT !.at = "signal", !.to = o]
                    ELSE f)

Pending(t, f, place, o, r) ==
    /\ Replace(t, [f EXCEPT !.at = place, !.to = o, !.msg = r])
    /\ UNCHANGED queue

\* try_lock of eager's mutex; a thread that has it fails like any other.
TryLock(o) == Kind[o] = "eager" /\ Inside(o) = {}

Call(t, f, o, r) ==
    /\ o \in Sends[f.obj]
    /\ sent < MaxSends
    /\ sent' = sent + 1
    /\ \/ Kind[o] = "direct" /\ RunByCaller(t, f, o, r)
       \/ TryLock(o) /\ RunByCaller(t, f, o, r)
       \/ Kind[o] = "eager" /\ ~TryLock(o) /\ Pending(t, f, "push", o, r)
       \/ Kind[o] = "basic" /\ Enqueue(t, f, o, r)
       \/ Kind[o] = "mutexed" /\ Pending(t, f, "lock", o, r)
    /\ UNCHANGED <<build, list>>

\* A call without a sink, or that hands on the one it has.
Send(t, o) ==
    /\ At(t, "method")
    /\ \/ Call(t, Top(t), o, NoPromise)
       \/ /\ Top(t).reply # NoPromise
          /\ Call(t, [Top(t) EXCEPT !.reply = NoPromise], o, Top(t).reply)
    /\ UNCHANGED promise

\* A call with a new promise, for whose answer the caller will wait.
Ask(t, o, p) ==
    /\ At(t, "method")
    /\ o \in Asks[Top(t).obj]
    /\ Top(t).asks = NoPromise
    /\ promise[p] = "unused"
    /\ promise' = [promise EXCEPT ![p] = "asked"]
    /\ Call(t, [Top(t) EXCEPT !.asks = p], o, p)

\* Back in the caller's method, with nothing pending.
Resumed(f) == [f EXCEPT !.at = "method", !.to = NoObject, !.msg = NoPromise]

\* eager hands the call to Queue::enqueue_fn, whoever has the mutex by now.
QueueInstead(t) ==
    /\ At(t, "push")
    /\ Enqueue(t, Resumed(Top(t)), Top(t).to, Top(t).msg)
    /\ UNCHANGED <<build, list, promise, sent>>

\* The rest of enqueue_fn2.
Signal(t) ==
    /\ At(t, "signal")
    /\ list' = Activated(Top(t).to)
    /\ Replace(t, Resumed(Top(t)))
    /\ UNCHANGED <<build, queue, promise, sent>>

\* Mutant: a mutex that its own thread cannot lock again.
LockOnce(t) ==
    /\ At(t, "lock")
    /\ Inside(Top(t).to) = {}
    /\ RunByCaller(t, Resumed(Top(t)), Top(t).to, Top(t).msg)
    /\ UNCHANGED <<build, list, promise, sent>>

\* The caller has the recursive mutex and runs the call.
Lock(t) ==
    /\ At(t, "lock")
    /\ \A x \in Inside(Top(t).to) : x[1] = t
    /\ RunByCaller(t, Resumed(Top(t)), Top(t).to, Top(t).msg)
    /\ UNCHANGED <<build, list, promise, sent>>
-----------------------------------------------------------------------------
(* sinks and promises *)

\* The method sends its result to the sink: promise::send.
Answer(t) ==
    /\ At(t, "method")
    /\ Top(t).reply # NoPromise
    /\ promise' = [promise EXCEPT ![Top(t).reply] = "set"]
    /\ Replace(t, [Top(t) EXCEPT !.reply = NoPromise])
    /\ UNCHANGED <<build, queue, list, sent>>

\* promise::get: valid() of a std::future is true, is_ready of Boost's is not yet.
Wait(t) ==
    /\ At(t, "method")
    /\ Top(t).asks # NoPromise
    /\ Goto(t, IF build = "boost" THEN "poll" ELSE "get")
    /\ UNCHANGED <<build, queue, list, promise, sent>>

\* The future is ready: the value is taken, the promise destroyed.
Get(t) ==
    /\ At(t, "poll") \/ At(t, "get")
    /\ promise[Top(t).asks] = "set"
    /\ promise' = [promise EXCEPT ![Top(t).asks] = "unused"]
    /\ Replace(t, [Top(t) EXCEPT !.at = "method", !.asks = NoPromise])
    /\ UNCHANGED <<build, queue, list, sent>>

\* idle: run the first object of the list, or find none and block in get.
Idle(t) ==
    /\ At(t, "poll")
    /\ promise[Top(t).asks] # "set"
    /\ \/ /\ list = <<>>
          /\ Goto(t, "get")
          /\ UNCHANGED list
       \/ /\ list # <<>>
          /\ list' = Tail(list)
          /\ Push(t, Top(t), Entered(Head(list), "loop", TRUE, Budget, NoPromise))
    /\ UNCHANGED <<build, queue, promise, sent>>
-----------------------------------------------------------------------------
(* run_some *)

\* A worker's locked_run_one.
Take(t) ==
    /\ t \in Workers
    /\ stack[t] = <<>>
    /\ list # <<>>
    /\ list' = Tail(list)
    /\ stack' = [stack EXCEPT ![t] =
                   <<Entered(Head(list), "loop", TRUE, Budget, NoPromise)>>]
    /\ UNCHANGED <<build, queue, promise, sent>>

\* Mutant: n is counted down and not looked at.
RunLoopUnbounded(t, q, n) ==
    \/ q = <<>> /\ Leave(t)
    \/ q # <<>>
       /\ Replace(t, Entered(Top(t).obj, "method", TRUE, n - 1, Head(q)))

\* The loop of shared::run_some with q queued and n left.
RunLoop(t, q, n) ==
    \/ q = <<>> /\ Leave(t)
    \/ q # <<>> /\ n > 0
       /\ Replace(t, Entered(Top(t).obj, "method", TRUE, n - 1, Head(q)))
    \/ q # <<>> /\ n = 0
       /\ Replace(t, Entered(Top(t).obj, "resched", TRUE, 0, NoPromise))

\* Mutant: eager::run_some waits for no mutex.
BeginUnlocked(t) ==
    /\ At(t, "loop")
    /\ RunLoop(t, queue[Top(t).obj], Top(t).left)
    /\ UNCHANGED <<build, queue, list, promise, sent>>

\* Mutant: eager::run_some returns FALSE when it does not get the mutex.
BeginGivesUp(t) ==
    /\ At(t, "loop")
    /\ \/ /\ Kind[Top(t).obj] = "eager" /\ ~TryLock(Top(t).obj)
          /\ Leave(t)
       \/ /\ Kind[Top(t).obj] = "eager" => TryLock(Top(t).obj)
          /\ RunLoop(t, queue[Top(t).obj], Top(t).left)
    /\ UNCHANGED <<build, queue, list, promise, sent>>

\* eager returns TRUE at once if it does not get its mutex.
Begin(t) ==
    /\ At(t, "loop")
    /\ \/ /\ Kind[Top(t).obj] = "eager" /\ ~TryLock(Top(t).obj)
          /\ Goto(t, "resched")
       \/ /\ Kind[Top(t).obj] = "eager" => TryLock(Top(t).obj)
          /\ RunLoop(t, queue[Top(t).obj], Top(t).left)
    /\ UNCHANGED <<build, queue, list, promise, sent>>

\* The method returns, or throws, having answered and got its answers.
EndMethod(t) ==
    /\ At(t, "method")
    /\ Top(t).obj # NoObject
    /\ Top(t).reply = NoPromise /\ Top(t).asks = NoPromise
    /\ \/ /\ Top(t).queued
          /\ queue' = [queue EXCEPT ![Top(t).obj] = Tail(@)]
          /\ RunLoop(t, queue'[Top(t).obj], Top(t).left)
       \/ /\ ~Top(t).queued
          /\ Leave(t)
          /\ UNCHANGED queue
    /\ UNCHANGED <<build, list, promise, sent>>

Resched(t) ==
    /\ At(t, "resched")
    /\ list' = Activated(Top(t).obj)
    /\ Leave(t)
    /\ UNCHANGED <<build, queue, promise, sent>>
-----------------------------------------------------------------------------
Work(t) ==
    \/ QueueInstead(t) \/ Signal(t) \/ Lock(t)
    \/ Answer(t) \/ Wait(t) \/ Get(t) \/ Idle(t)
    \/ Take(t) \/ Begin(t) \/ EndMethod(t) \/ Resched(t)

Next ==
    \E t \in Threads :
        \/ \E o \in Objects : Send(t, o) \/ \E p \in Promises : Ask(t, o, p)
        \/ Work(t)

Spec == Init /\ [][Next]_vars

\* Threads keep running; methods answer, wait for their answers and return.
FairSpec == Spec /\ \A t \in Threads : WF_vars(Work(t))
-----------------------------------------------------------------------------
(* Properties *)

\* Safety: at most one method of a basic or eager object is in progress, run by
\* a worker, by idle on top of a waiting method or by a caller of an eager
\* object, and not even the thread that is in it enters again; the methods of a
\* mutexed object are all in one thread (fast.hpp:25, 53; synchronous.hpp:23).
Exclusive ==
    \A o \in Objects : \A x, y \in Inside(o) :
        /\ Kind[o] \in {"basic", "eager"} => x = y
        /\ Kind[o] = "mutexed" => x[1] = y[1]

\* What will make o run its queue: a place on the list, a call of run_some, a
\* caller about to activate it.
Holders(o) ==
    {<<"list", i>> : i \in {j \in DOMAIN list : list[j] = o}}
        \cup {<<"frame", x>> : x \in {y \in AllFrames :
                FrameOf(y).obj = o /\ FrameOf(y).queued}}
        \cup {<<"sender", x>> : x \in {y \in AllFrames :
                FrameOf(y).at = "signal" /\ FrameOf(y).to = o}}

\* Safety: a queue has messages exactly while one holder answers for them, also
\* when eager's run_some fails to get the mutex from a caller that runs the
\* object itself (fast.hpp:54, object.hpp:312-339).
NoLostActivation ==
    \A o \in Objects :
        /\ queue[o] # <<>> <=> Holders(o) # {}
        /\ \A x, y \in Holders(o) : x = y

\* Liveness: objects that do not call each other in a circle come to rest when
\* the calls from outside cease: every lock is got, every message run, every
\* promise answered and every wait over (fast.hpp:54, synchronous.hpp:23,
\* promise.hpp:43-51).
Settled ==
    /\ \A o \in Objects : queue[o] = <<>>
    /\ \A w \in Workers : stack[w] = <<>>
    /\ Len(stack[Main]) = 1 /\ At(Main, "method") /\ Top(Main).asks = NoPromise
Settles == <>[]Settled
=============================================================================
