------------------------------ MODULE OwnThread -----------------------------
(***************************************************************************)
(* One object with a thread of its own: schedule::own_thread under         *)
(* queueing::shared (active::thread), and the same object behind shared_ptr*)
(* (active::shared<T, active::thread>).                                    *)
(*                                                                         *)
(* The difficulty is who frees the object.  Callers, the queue's pending   *)
(* activation (m_activated), the thread's mailbox (m_shared) and the thread *)
(* itself (the locals p and shared) all hold references, and whoever drops *)
(* the last one runs ~object_impl and ~own_thread: a caller joins the      *)
(* thread, the thread itself detaches and must not touch the object again. *)
(*                                                                         *)
(* A step is one critical section of m_mutex or of the queue's mutex, or   *)
(* one unlocked assignment of a shared_ptr.  Waiting on m_ready is Take    *)
(* and Exit not being enabled: both notifications are made under m_mutex.  *)
(***************************************************************************)
EXTENDS Naturals, FiniteSets

CONSTANTS
    Callers,    \* the client threads, each with a handle on the object
    MaxQueue,   \* bound: messages in the queue
    Budget      \* bound: messages the methods send to their own object

ASSUME OwnThreadAssumption ==
    Callers # {} /\ MaxQueue \in Nat \ {0} /\ Budget \in Nat

VARIABLES
    sharing,    \* sharing::enabled (TRUE) or sharing::disabled; never changes
    handle,     \* handle[c]: c has a shared_ptr (or a plain pointer) to it
    calls,      \* calls[c]: where c is in a send or in the destructor
    queue,      \* the number of messages in m_queue, the running one included
    mActivated, \* sharing::enabled::m_activated is not null
    mObject,    \* own_thread::m_object is not null
    mShared,    \* own_thread::m_shared is not null
    mShutdown,  \* own_thread::m_shutdown
    busy,       \* what start_work and stop_work have made of m_busy_count
    place,      \* where thread_fn is
    p,          \* the shared_ptr local to run() is not null
    held,       \* the shared_ptr local to thread_fn is not null
    life,       \* the object itself
    budget

client == <<handle, calls>>
members == <<mActivated, mObject, mShared, mShutdown, busy>>
thread == <<place, p, held>>
vars == <<sharing, client, queue, members, thread, life, budget>>

Places == {"top", "run", "loop", "method", "ran", "relock", "release",
           "expire", "exited", "dangling"}

TypeOK ==
    /\ sharing \in BOOLEAN
    /\ handle \in [Callers -> BOOLEAN]
    /\ calls \in [Callers -> {"idle", "share", "schedule", "joining", "done"}]
    /\ queue \in 0..MaxQueue
    /\ {mActivated, mObject, mShared, mShutdown, p, held} \subseteq BOOLEAN
    /\ busy \in Nat
    /\ place \in Places
    /\ life \in {"alive", "destroying", "destroyed"}
    /\ budget \in 0..Budget

Init ==
    /\ sharing \in BOOLEAN
    /\ handle = [c \in Callers |-> TRUE]
    /\ calls = [c \in Callers |-> "idle"]
    /\ queue = 0
    /\ mActivated = FALSE /\ mObject = FALSE /\ mShared = FALSE
    /\ mShutdown = FALSE
    /\ busy = 0
    /\ place = "top" /\ p = FALSE /\ held = FALSE
    /\ life = "alive"
    /\ budget = Budget

\* Some reference is left: for a plain object, only the callers' own.
Referenced ==
    (\E c \in Callers : handle[c]) \/ mActivated \/ mShared \/ p \/ held

Activating == \E c \in Callers : calls[c] \in {"share", "schedule"}
-----------------------------------------------------------------------------
(* The callers *)

\* enqueue_fn: the message that finds the queue empty must activate.
Send(c) ==
    /\ calls[c] = "idle" /\ handle[c]
    /\ queue < MaxQueue
    /\ queue' = queue + 1
    /\ calls' = IF queue = 0 THEN [calls EXCEPT ![c] = "share"] ELSE calls
    /\ UNCHANGED <<sharing, handle, members, thread, life, budget>>

\* m_share.activate(this), outside any lock.
ShareActivate(c) ==
    /\ calls[c] = "share"
    /\ mActivated' = (sharing \/ mActivated)
    /\ calls' = [calls EXCEPT ![c] = "schedule"]
    /\ UNCHANGED <<sharing, handle, queue, mObject, mShared, mShutdown, busy,
                   thread, life, budget>>

\* Mutant: start_work is forgotten.
ActivateUncounted(c) ==
    /\ calls[c] = "schedule"
    /\ mShared' = (sharing \/ mShared)
    /\ mObject' = TRUE
    /\ calls' = [calls EXCEPT ![c] = "idle"]
    /\ UNCHANGED <<sharing, handle, queue, mActivated, mShutdown, busy, thread,
                   life, budget>>

\* m_schedule.activate(...): both overloads of own_thread::activate.
Activate(c) ==
    /\ calls[c] = "schedule"
    /\ mShared' = (sharing \/ mShared)
    /\ mObject' = TRUE
    /\ busy' = busy + 1
    /\ calls' = [calls EXCEPT ![c] = "idle"]
    /\ UNCHANGED <<sharing, handle, queue, mActivated, mShutdown, thread, life,
                   budget>>

\* A caller forgets the object while somebody else keeps it.
Drop(c) ==
    /\ calls[c] = "idle" /\ handle[c]
    /\ handle' = [handle EXCEPT ![c] = FALSE]
    /\ UNCHANGED <<sharing, calls, queue, members, thread, life, budget>>
    /\ Referenced'

\* Mutant: ~own_thread joins without raising m_shutdown.
DestroySilently(c) ==
    /\ calls[c] = "idle" /\ handle[c]
    /\ ~sharing => busy = 0
    /\ handle' = [handle EXCEPT ![c] = FALSE]
    /\ life' = "destroying"
    /\ calls' = [calls EXCEPT ![c] = "joining"]
    /\ UNCHANGED <<sharing, queue, mActivated, mObject, mShared, mShutdown,
                   busy, thread, budget>>
    /\ ~Referenced'

\* A caller drops the last reference.  A plain object is destroyed by its
\* owner once active::run has returned, when nothing is counted as busy.
Destroy(c) ==
    /\ calls[c] = "idle" /\ handle[c]
    /\ ~sharing => busy = 0
    /\ handle' = [handle EXCEPT ![c] = FALSE]
    /\ mShutdown' = TRUE
    /\ life' = "destroying"
    /\ calls' = [calls EXCEPT ![c] = "joining"]
    /\ UNCHANGED <<sharing, queue, mActivated, mObject, mShared, busy, thread,
                   budget>>
    /\ ~Referenced'

\* m_thread.join() returns and the memory is freed.
Join(c) ==
    /\ calls[c] = "joining" /\ place = "exited"
    /\ life' = "destroyed"
    /\ calls' = [calls EXCEPT ![c] = "done"]
    /\ UNCHANGED <<sharing, handle, queue, members, thread, budget>>
-----------------------------------------------------------------------------
(* thread_fn *)

Take ==
    /\ place = "top" /\ ~mShutdown /\ mObject
    /\ mObject' = FALSE
    /\ place' = "run"
    /\ UNCHANGED <<sharing, client, queue, mActivated, mShared, mShutdown, busy,
                   p, held, life, budget>>

Exit ==
    /\ place = "top" /\ mShutdown
    /\ place' = "exited"
    /\ UNCHANGED <<sharing, client, queue, members, p, held, life, budget>>

\* Mutant: the pending activation is cleared, not kept while run() executes.
DeactivateClears ==
    /\ place = "run"
    /\ mActivated' = FALSE
    /\ place' = "loop"
    /\ UNCHANGED <<sharing, client, queue, mObject, mShared, mShutdown, busy,
                   p, held, life, budget>>

\* run() begins: m_share.deactivate(p) swaps m_activated with p, which is null.
Deactivate ==
    /\ place = "run"
    /\ p' = mActivated
    /\ mActivated' = p
    /\ place' = "loop"
    /\ UNCHANGED <<sharing, client, queue, mObject, mShared, mShutdown, busy,
                   held, life, budget>>

BeginMethod ==
    /\ place = "loop" /\ queue > 0
    /\ place' = "method"
    /\ UNCHANGED <<sharing, client, queue, members, p, held, life, budget>>

\* A method sends to its own object: never to an empty queue, for the message
\* that runs is popped after it returns.
SendSelf ==
    /\ place = "method"
    /\ queue < MaxQueue /\ budget > 0
    /\ queue' = queue + 1
    /\ budget' = budget - 1
    /\ UNCHANGED <<sharing, client, members, thread, life>>

\* pop, and the test of the loop in the same critical section.
EndMethod ==
    /\ place = "method"
    /\ queue' = queue - 1
    /\ place' = IF queue = 1 THEN "ran" ELSE "loop"
    /\ UNCHANGED <<sharing, client, members, p, held, life, budget>>

\* run() returns and destroys p.  If that was the last reference the object
\* goes, and thread_fn is left with a freed m_mutex to lock.
Ran ==
    /\ place = "ran"
    /\ p' = FALSE
    /\ UNCHANGED <<sharing, client, queue, members, held, budget>>
    /\ IF Referenced'
       THEN place' = "relock" /\ UNCHANGED life
       ELSE place' = "dangling" /\ life' = "destroyed"

\* Mutant: m_shared is copied where it should be swapped.
RelockCopies ==
    /\ place = "relock"
    /\ busy' = busy - 1
    /\ held' = mShared
    /\ place' = IF mShared THEN "release" ELSE "top"
    /\ UNCHANGED <<sharing, client, queue, mActivated, mObject, mShared,
                   mShutdown, p, life, budget>>

\* Mutant: stop_work is called again for the shared reference.
RelockTwice ==
    /\ place = "relock"
    /\ busy' = busy - (IF mShared THEN 2 ELSE 1)
    /\ held' = mShared
    /\ mShared' = FALSE
    /\ place' = IF mShared THEN "release" ELSE "top"
    /\ UNCHANGED <<sharing, client, queue, mActivated, mObject, mShutdown, p,
                   life, budget>>

\* stop_work, and the swap of m_shared into a local, under m_mutex.
Relock ==
    /\ place = "relock"
    /\ busy' = busy - 1
    /\ held' = mShared
    /\ mShared' = FALSE
    /\ place' = IF mShared THEN "release" ELSE "top"
    /\ UNCHANGED <<sharing, client, queue, mActivated, mObject, mShutdown, p,
                   life, budget>>

\* shared.reset(): detaches the thread if it destroys the object.
Release ==
    /\ place = "release"
    /\ held' = FALSE
    /\ place' = "expire"
    /\ UNCHANGED <<sharing, client, queue, members, p, budget>>
    /\ life' = IF Referenced' THEN life ELSE "destroyed"

\* wp.expired(), which a caller's Destroy may have made true meanwhile.
Expire ==
    /\ place = "expire"
    /\ place' = IF Referenced THEN "top" ELSE "exited"
    /\ UNCHANGED <<sharing, client, queue, members, p, held, life, budget>>
-----------------------------------------------------------------------------
Call(c) == ShareActivate(c) \/ Activate(c) \/ Join(c)

ThreadStep ==
    \/ Take \/ Exit \/ Deactivate \/ BeginMethod \/ EndMethod
    \/ Ran \/ Relock \/ Release \/ Expire

Next ==
    \/ \E c \in Callers : Send(c) \/ Call(c) \/ Drop(c) \/ Destroy(c)
    \/ SendSelf
    \/ ThreadStep

Spec == Init /\ [][Next]_vars

\* Threads keep running; nobody has to send or to give a handle up.
FairSpec ==
    /\ Spec
    /\ WF_vars(ThreadStep)
    /\ \A c \in Callers : WF_vars(Call(c))
-----------------------------------------------------------------------------
(* Properties *)

\* Safety: when ~object_impl begins, wherever the last reference was dropped,
\* the queue is empty (or it calls std::terminate), the thread is not in run()
\* and no activation is on its way (object.hpp:246-249).
DestroyedQuiet ==
    life # "alive" =>
        /\ queue = 0 /\ ~mObject /\ ~Activating
        /\ place \notin {"run", "loop", "method", "ran"}

\* Safety: the scheduler counts one busy object exactly from the activation of
\* this one to the return of its run(), so active::run waits for its thread
\* (active_object.cpp:203-218, 232): a second activation during run() counts
\* for itself, and a message nobody counts is a message whose sender is still
\* activating.  The one exception is the object freed under its own thread.
BusyExact ==
    place # "dangling" =>
        /\ busy = (IF mObject THEN 1 ELSE 0)
                + (IF place \in {"run", "loop", "method", "ran", "relock"}
                   THEN 1 ELSE 0)
        /\ queue > 0 => busy > 0 \/ Activating

\* Liveness: once no caller refers to a shared object it is freed: m_activated
\* and m_shared, references the object holds on itself, are always cleared
\* (shared.hpp:28-29, active_object.cpp:233-241).
Reclaimed ==
    (sharing /\ \A c \in Callers : ~handle[c]) ~> life = "destroyed"

\* Liveness: ~own_thread's join returns (active_object.cpp:265-280).
JoinEnds ==
    \A c \in Callers : calls[c] = "joining" ~> calls[c] = "done"

\* Safety the code means and misses: a thread whose object is freed notices,
\* and leaves without touching it ("Object destroyed", active_object.cpp:240).
ThreadNotices == place # "dangling"
=============================================================================
