---------------------------- MODULE BoundedQueue ----------------------------
(***************************************************************************)
(* The buffered queue of bench2.cpp.  Writers ask the queue to tell them   *)
(* when there is room, readers ask it for a value.  It is an active::      *)
(* synchronous object: its methods run in the caller's thread, one at a    *)
(* time, and call the objects they wake, which have queues of their own    *)
(* (active::basic, advanced or thread).  A source of the benchmark's other *)
(* kind, active::fast, may answer in the middle of the queue's method.     *)
(*                                                                         *)
(* There is one run; test::run_tests makes several, and leaves m_readers   *)
(* as the run before has left it.                                          *)
(***************************************************************************)
EXTENDS Runtime

CONSTANTS
    Writers,
    Readers,
    m_messages,     \* how many values each writer sends
    m_capacity

\* What the constants must be.
BoundedQueueAssumption ==
    /\ IsFiniteSet(Writers)
    /\ IsFiniteSet(Readers) /\ Readers # {}
    /\ m_messages \in Nat /\ m_messages % 2 = 0
    /\ m_capacity \in Nat

Source(w) == <<"test_source", w>>
Sink(r) == <<"test_sink", r>>
Queue == <<"queue">>
Sources == {Source(w) : w \in Writers}
Sinks == {Sink(r) : r \in Readers}

WaitSend(o) == To(Queue, [is |-> "wait_send", source |-> o])
SendReady(o) == To(Queue, [is |-> "send_ready", sink |-> o])
Value(o, v) == To(o, [is |-> "value", v |-> v])

\* run(): main has told the queue of every reader, and every source to send.
Init ==
    Starts([o \in Sources \cup Sinks \cup {Queue} |->
              CASE o \in Sources -> [m_remaining |-> 0]
                [] o \in Sinks -> [m_total |-> 0]
                [] OTHER -> [m_values |-> <<>>, m_writers |-> <<>>,
                             m_readers |-> SetToSeq(Sinks)]],
           [o \in Sources \cup Sinks |->
              IF o \in Sources THEN <<Plain("begin")>> ELSE <<>>])
-----------------------------------------------------------------------------
(* test_source, test_sink *)

SourceBegins(o) ==
    /\ Gets(o, "begin")
    /\ local' = [local EXCEPT ![o].m_remaining = m_messages]
    /\ Does(o, <<WaitSend(o)>>)

SourceSends(o) ==
    LET left == local[o].m_remaining
    IN  /\ Gets(o, "ready")
        /\ local' = [local EXCEPT ![o].m_remaining = IF left > 0 THEN left - 1 ELSE left]
        /\ Does(o, IF left > 0 THEN <<Value(Queue, left), WaitSend(o)>> ELSE <<>>)

SinkReceives(o) ==
    /\ Gets(o, "value")
    /\ local' = [local EXCEPT ![o].m_total = @ + First(o).v]
    /\ Does(o, <<SendReady(o)>>)
-----------------------------------------------------------------------------
(* queue: caller is in its method, with the mutex, until it comes to Unlock *)

Unlock == To(Queue, Plain("unlock"))
Free == \A o \in DOMAIN todo : Unlock \notin Range(todo[o])

Enters(caller, type) ==
    /\ todo[caller] # <<>>
    /\ Calling(caller).to = Queue
    /\ Calling(caller).msg.is = type
    /\ Free

Makes(caller, calls) ==
    /\ Continue(caller, calls \o <<Unlock>>)
    /\ UNCHANGED box

QueueWaitSend(caller) ==
    LET w == Calling(caller).msg.source
    IN  /\ Enters(caller, "wait_send")
        /\ \/ /\ Len(local[Queue].m_values) < m_capacity
              /\ Makes(caller, <<To(w, Plain("ready"))>>)
              /\ UNCHANGED local
           \/ /\ Len(local[Queue].m_values) >= m_capacity
              /\ local' = [local EXCEPT ![Queue].m_writers = Append(@, w)]
              /\ Makes(caller, <<>>)

MustWait(q) == q.m_readers = <<>> \/ q.m_values # <<>>

QueueValue(caller) ==
    LET v == Calling(caller).msg.v
        q == local[Queue]
    IN  /\ Enters(caller, "value")
        /\ \/ /\ MustWait(q)
              /\ local' = [local EXCEPT ![Queue].m_values = Append(@, v)]
              /\ Makes(caller, <<>>)
           \/ /\ ~MustWait(q)
              /\ local' = [local EXCEPT ![Queue].m_readers = Tail(@)]
              /\ Makes(caller, <<Value(Head(q.m_readers), v)>>)

\* The loop wakes every writer: the size does not change meanwhile, since writers
\* with a queue of their own send their values later.
QueueSendReady(caller) ==
    LET r == Calling(caller).msg.sink
        q == local[Queue]
        woken == IF Len(q.m_values) <= m_capacity THEN q.m_writers ELSE <<>>
        wake == [i \in DOMAIN woken |-> To(woken[i], Plain("ready"))]
        writers == IF Len(q.m_values) <= m_capacity THEN <<>> ELSE q.m_writers
    IN  /\ Enters(caller, "send_ready")
        /\ \/ /\ q.m_values = <<>>
              /\ local' = [local EXCEPT ![Queue].m_writers = writers,
                                        ![Queue].m_readers = Append(@, r)]
              /\ Makes(caller, wake)
           \/ /\ q.m_values # <<>>
              /\ local' = [local EXCEPT ![Queue].m_writers = writers,
                                        ![Queue].m_values = Tail(@)]
              /\ Makes(caller, Append(wake, Value(r, Head(q.m_values))))

QueueUnlock(caller) ==
    /\ todo[caller] # <<>>
    /\ Calling(caller) = Unlock
    /\ Continue(caller, <<>>)
    /\ UNCHANGED <<local, box>>

QueueStep(o) == \/ QueueWaitSend(o) \/ QueueValue(o)
                \/ QueueSendReady(o) \/ QueueUnlock(o)

Next ==
    \/ \E o \in Sources \cup Sinks : Call(o) \/ QueueStep(o)
    \/ \E o \in Sources : SourceBegins(o) \/ SourceSends(o)
    \/ \E o \in Sinks : SinkReceives(o)
-----------------------------------------------------------------------------
Total == MapThenSumSet(LAMBDA o : local[o].m_total, Sinks)

\* Safety: the queue holds at most one value of each writer more than its
\* capacity, for it wakes all of them for one place; and nothing stops before
\* every value has come to some reader (bench2.cpp:448, 457, 472, 638-646).
AllReceived ==
    /\ Len(local[Queue].m_values) <= m_capacity + Cardinality(Writers)
    /\ Quiet => Total = Cardinality(Writers) * (m_messages \div 2) * (m_messages + 1)
=============================================================================
