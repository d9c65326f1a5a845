------------------------------ MODULE FifoChain -----------------------------
(***************************************************************************)
(* active::fifo (include/active/fifo.hpp), the container under             *)
(* queueing::shared: messages of different sizes side by side in a list of *)
(* chunks of raw memory ("chains").                                        *)
(*                                                                         *)
(* Sizes and offsets are in words of 8 bytes, the alignment fifo rounds to,*)
(* on a 64-bit machine: a chain begins with its own four pointers and each *)
(* message with an "entry", the pointer to the next one.  Every operation  *)
(* runs under the mutex of the queue, and is one step.                     *)
(***************************************************************************)
EXTENDS Naturals, Sequences, FiniteSets, SequencesExt

CONSTANTS
    Messages,   \* the run_impl objects; also the bound on the queue's length
    Sizes       \* their sizes: aligned_size<U>::value, in words

ASSUME ChainAssumption == Sizes \subseteq Nat \ {0}

VARIABLES
    chains,     \* the list from m_head to m_tail
    size,       \* m_size
    built,      \* the messages constructed and not yet destroyed
    allocated   \* the number of chains allocated and not yet deallocated

vars == <<chains, size, built, allocated>>

ChainHeader == 4
EntryHeader == 1
MinChain == 25

\* A message in memory and the m_next of its entry: the offset behind it.
Item == [msg : Messages, next : Nat]

Chain == [items : Seq(Item), front : Nat, back : Nat, end : Nat]

Init ==
    /\ chains = <<>>
    /\ size = 0
    /\ built = {}
    /\ allocated = 0

\* What the memory holds, in the order pop takes it.
Contents == FlattenSeq([i \in DOMAIN chains |-> chains[i].items])
Order == [i \in DOMAIN Contents |-> Contents[i].msg]

EmptyChain(c) == c.front = c.back
IsEmpty == chains = <<>> \/ EmptyChain(Head(chains))
-----------------------------------------------------------------------------
NewChain(bytes) ==
    [items |-> <<>>, front |-> ChainHeader, back |-> ChainHeader, end |-> bytes]

ResetChain(c) ==
    [items |-> c.items, front |-> ChainHeader, back |-> ChainHeader, end |-> c.end]

PushInto(c, m, w) ==
    LET next == c.back + EntryHeader + w IN
    [items |-> Append(c.items, [msg |-> m, next |-> next]),
     front |-> c.front, back |-> next, end |-> c.end]

PopFrom(c) ==
    [items |-> Tail(c.items),
     front |-> Head(c.items).next, back |-> c.back, end |-> c.end]

Larger(a, b) == IF a >= b THEN a ELSE b

\* Mutant: a chain is taken to have room without counting the entry.
HasRoomForData(w) ==
    chains # <<>> /\ Last(chains).end - Last(chains).back >= w

HasRoom(w) ==
    chains # <<>> /\ Last(chains).end - Last(chains).back >= w + EntryHeader

\* Mutant: reserve frees the head without asking whether it is empty.
ReserveForgets(w) ==
    IF HasRoom(w) THEN chains
    ELSE <<NewChain(Larger(w + EntryHeader, MinChain))>>

\* The chains after reserve(w).  Where it makes a chain an empty head is freed
\* first, and with it the list forgotten.
Reserve(w) ==
    LET kept == IF chains # <<>> /\ EmptyChain(Head(chains)) THEN <<>> ELSE chains
    IN  IF HasRoom(w) THEN chains
        ELSE Append(kept, NewChain(Larger(w + EntryHeader, MinChain)))

\* How many chains reserve(w) allocates, less the one it may free.
Reserved(w) ==
    IF HasRoom(w) \/ (chains # <<>> /\ EmptyChain(Head(chains))) THEN 0 ELSE 1

Push(m, w) ==
    /\ m \notin built
    /\ LET cs == Reserve(w) IN
       chains' = [cs EXCEPT ![Len(cs)] = PushInto(@, m, w)]
    /\ allocated' = allocated + Reserved(w)
    /\ size' = size + 1
    /\ built' = built \cup {m}

\* The copy of the message throws: reserve has been done, and nothing else.
PushThrows(w) ==
    /\ chains' = Reserve(w)
    /\ allocated' = allocated + Reserved(w)
    /\ UNCHANGED <<size, built>>

\* Mutant: an emptied head stays in front of the other chains.
PopStays ==
    LET head == PopFrom(Head(chains)) IN
    /\ ~IsEmpty
    /\ chains' = [chains EXCEPT
                    ![1] = IF EmptyChain(head) THEN ResetChain(head) ELSE head]
    /\ size' = size - 1
    /\ built' = built \ {Head(Head(chains).items).msg}
    /\ UNCHANGED allocated

\* The callers pop the message they have just run.  An emptied head is freed,
\* or used from its beginning again when it is the only chain.
Pop ==
    LET head == PopFrom(Head(chains))
        next == EmptyChain(head) /\ Len(chains) > 1
    IN  /\ ~IsEmpty
        /\ chains' = IF next THEN Tail(chains)
                     ELSE [chains EXCEPT ![1] =
                             IF EmptyChain(head) THEN ResetChain(head) ELSE head]
        /\ allocated' = IF next THEN allocated - 1 ELSE allocated
        /\ size' = size - 1
        /\ built' = built \ {Head(Head(chains).items).msg}

\* What truncate leaves of the first chain: the front message.
OnlyFront(c) ==
    [items |-> <<Head(c.items)>>,
     front |-> c.front, back |-> Head(c.items).next, end |-> c.end]

\* Mutant: the chains behind the first are emptied and not freed.
TruncateKeeps ==
    /\ ~IsEmpty
    /\ chains' = <<OnlyFront(Head(chains))>>
    /\ built' = {Head(Head(chains).items).msg}
    /\ size' = 1
    /\ UNCHANGED allocated

\* Called by a method through clear(), so the front message is being run.
Truncate ==
    /\ ~IsEmpty
    /\ chains' = <<OnlyFront(Head(chains))>>
    /\ allocated' = allocated - (Len(chains) - 1)
    /\ built' = {Head(Head(chains).items).msg}
    /\ size' = 1

\* ~fifo: pop while it is not empty, then free the head.
Destroy ==
    /\ chains' = <<>>
    /\ allocated' = allocated - Len(chains)
    /\ built' = {}
    /\ size' = 0

Next ==
    \/ \E m \in Messages, w \in Sizes : Push(m, w)
    \/ \E w \in Sizes : PushThrows(w)
    \/ Pop \/ Truncate \/ Destroy

Spec == Init /\ [][Next]_vars
-----------------------------------------------------------------------------
(* Properties *)

\* Safety: no message is written past the end of the chain that reserve found
\* or made for it (fifo.hpp:29-41, 168-177).
InBounds == \A i \in DOMAIN chains : chains[i].back <= chains[i].end

\* Safety: empty(), which ends run_some's loop, agrees with size(), by which
\* enqueue_fn decides to activate the object, and both with the messages that
\* are there, over however many chains (fifo.hpp:93-96, 134).
EmptyAgrees ==
    /\ size = Len(Contents)
    /\ IsEmpty <=> size = 0

\* Safety: each message in the queue has been constructed and not destroyed,
\* and no other; each chain allocated is one of the list (fifo.hpp:72-91,
\* 104-132).
Balance ==
    /\ built = Range(Order)
    /\ allocated = Len(chains)

\* Refinement: for the queue above it the container is a sequence, whatever
\* chains its messages are in and however often a chain is reused.
MQ == INSTANCE MessageQueue WITH messages <- Order
Implements == MQ!Spec
=============================================================================
