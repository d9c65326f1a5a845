----------------------------- MODULE AtomicFifo -----------------------------
(***************************************************************************)
(* active::atomic_fifo (lib/atomic.cpp): the scheduler's activation list   *)
(* in the ACTIVE_USE_CXX11 build, pointer by pointer.                      *)
(*                                                                         *)
(* The queue is two intrusive lists.  push prepends to input by compare-   *)
(* and-swap.  pop owns output while it holds the node "busy", takes its    *)
(* first node, and when output is empty takes the whole of input, turns it *)
(* round in place, keeps the oldest node and publishes the rest.           *)
(*                                                                         *)
(* Here the store to n->next is visible to all before the compare-and-swap *)
(* that publishes n, as in an x86 build.  The code does not ask for that:  *)
(* see AtomicFifoRelaxed.                                                  *)
(***************************************************************************)
EXTENDS Integers, Sequences, FiniteSets, SequencesExt

CONSTANTS
    Threads,
    Nodes,      \* the atomic_nodes, in the scheduler one per active object
    Null,       \* nullptr
    Busy        \* the address of the node "busy"

ASSUME FifoAssumption ==
    /\ Null \notin Nodes /\ Busy \notin Nodes /\ Null # Busy
    /\ IsFiniteSet(Nodes)

VARIABLES
    next,       \* next[n]: n->next in memory
    input,      \* input_queue
    output,     \* output_queue
    pc,         \* pc[t]: where t is, "idle" outside push and pop
    at,         \* at[t]: n in push; t, or n and result, in pop
    old,        \* old[t]: i in push
    rest,       \* rest[t]: new_output in pop
    free        \* the nodes no list and no push or pop has

vars == <<next, input, output, pc, at, old, rest, free>>

Links == Nodes \cup {Null}

TypeOK ==
    /\ next \in [Nodes -> Links]
    /\ input \in Links
    /\ output \in Links \cup {Busy}
    /\ pc \in [Threads -> {"idle", "load", "swap", "acquire", "take",
                           "transfer", "turn", "publish"}]
    /\ at \in [Threads -> Links]
    /\ old \in [Threads -> Links]
    /\ rest \in [Threads -> Links]
    /\ free \subseteq Nodes

Init ==
    /\ next = [n \in Nodes |-> Null]
    /\ input = Null
    /\ output = Null
    /\ pc = [t \in Threads |-> "idle"]
    /\ at = [t \in Threads |-> Null]
    /\ old = [t \in Threads |-> Null]
    /\ rest = [t \in Threads |-> Null]
    /\ free = Nodes

Goto(t, place) == pc' = [pc EXCEPT ![t] = place]

-----------------------------------------------------------------------------
(* push *)

\* A caller pushes a node it holds.
CallPush(t, n) ==
    /\ pc[t] = "idle"
    /\ n \in free
    /\ free' = free \ {n}
    /\ at' = [at EXCEPT ![t] = n]
    /\ Goto(t, "load")
    /\ UNCHANGED <<next, input, output, old, rest>>

\* i = input_queue; n->next = i.
PushLoad(t) ==
    /\ pc[t] = "load"
    /\ old' = [old EXCEPT ![t] = input]
    /\ next' = [next EXCEPT ![at[t]] = input]
    /\ Goto(t, "swap")
    /\ UNCHANGED <<input, output, at, rest, free>>

\* Mutant: the swap does not compare.
PushStore(t) ==
    /\ pc[t] = "swap"
    /\ input' = at[t]
    /\ at' = [at EXCEPT ![t] = Null]
    /\ old' = [old EXCEPT ![t] = Null]
    /\ Goto(t, "idle")
    /\ UNCHANGED <<next, output, rest, free>>

\* The compare-and-swap succeeds, and push returns.
PushSwap(t) ==
    /\ pc[t] = "swap"
    /\ input = old[t]
    /\ input' = at[t]
    /\ at' = [at EXCEPT ![t] = Null]
    /\ old' = [old EXCEPT ![t] = Null]
    /\ Goto(t, "idle")
    /\ UNCHANGED <<next, output, rest, free>>

\* Mutant: the loop swaps again without loading input_queue again.
PushSpins(t) ==
    /\ pc[t] = "swap"
    /\ input # old[t]
    /\ UNCHANGED vars

\* Another thread changed input: round the loop.
PushRetry(t) ==
    /\ pc[t] = "swap"
    /\ input # old[t]
    /\ Goto(t, "load")
    /\ UNCHANGED <<next, input, output, at, old, rest, free>>

\* compare_exchange_weak may fail although nothing changed.
PushSpurious(t) ==
    /\ pc[t] = "swap"
    /\ input = old[t]
    /\ Goto(t, "load")
    /\ UNCHANGED <<next, input, output, at, old, rest, free>>

-----------------------------------------------------------------------------
(* pop *)

CallPop(t) ==
    /\ pc[t] = "idle"
    /\ Goto(t, "acquire")
    /\ UNCHANGED <<next, input, output, at, old, rest, free>>

\* Mutant: acquire returns whatever it finds, the busy node too.
AcquireAnything(t) ==
    /\ pc[t] = "acquire"
    /\ output' = Busy
    /\ at' = [at EXCEPT ![t] = output]
    /\ Goto(t, IF output = Null THEN "transfer" ELSE "take")
    /\ UNCHANGED <<next, input, old, rest, free>>

\* The exchange of acquire that does not return "busy"; those that do change
\* nothing.
Acquire(t) ==
    /\ pc[t] = "acquire"
    /\ output # Busy
    /\ output' = Busy
    /\ at' = [at EXCEPT ![t] = output]
    /\ Goto(t, IF output = Null THEN "transfer" ELSE "take")
    /\ UNCHANGED <<next, input, old, rest, free>>

\* Leave pop with the node at[t], or none, and a new output_queue.
Return(t, new_output) ==
    /\ output' = new_output
    /\ free' = free \cup ({at[t]} \ {Null})
    /\ at' = [at EXCEPT ![t] = Null]
    /\ rest' = [rest EXCEPT ![t] = Null]
    /\ Goto(t, "idle")
    /\ UNCHANGED <<next, input, old>>

\* There was an output list: release what follows its first node.
Take(t) ==
    /\ pc[t] = "take"
    /\ Return(t, next[at[t]])

\* Mutant: output_queue is released before the list is turned round.
TransferReleases(t) ==
    /\ pc[t] = "transfer"
    /\ at' = [at EXCEPT ![t] = input]
    /\ input' = Null
    /\ output' = Null
    /\ Goto(t, IF input = Null THEN "publish" ELSE "turn")
    /\ UNCHANGED <<next, old, rest, free>>

\* There was none: exchange the whole of input for an empty list.
Transfer(t) ==
    /\ pc[t] = "transfer"
    /\ at' = [at EXCEPT ![t] = input]
    /\ input' = Null
    /\ Goto(t, IF input = Null THEN "publish" ELSE "turn")
    /\ UNCHANGED <<next, output, old, rest, free>>

\* Mutant: the newest node is kept, the list stays as it is.
TurnNothing(t) ==
    /\ pc[t] = "turn"
    /\ rest' = [rest EXCEPT ![t] = next[at[t]]]
    /\ Goto(t, "publish")
    /\ UNCHANGED <<next, input, output, at, old, free>>

\* One round of the loop, or its break at the oldest node.
Turn(t) ==
    /\ pc[t] = "turn"
    /\ IF next[at[t]] # Null
         THEN /\ at' = [at EXCEPT ![t] = next[at[t]]]
              /\ next' = [next EXCEPT ![at[t]] = rest[t]]
              /\ rest' = [rest EXCEPT ![t] = at[t]]
              /\ UNCHANGED pc
         ELSE /\ Goto(t, "publish")
              /\ UNCHANGED <<next, at, rest>>
    /\ UNCHANGED <<input, output, old, free>>

\* Mutant: nothing found, nothing released.
PublishSome(t) ==
    /\ pc[t] = "publish"
    /\ Return(t, IF at[t] = Null THEN Busy ELSE rest[t])

Publish(t) ==
    /\ pc[t] = "publish"
    /\ Return(t, rest[t])

-----------------------------------------------------------------------------
\* The steps of a push or pop under way, without the failures of a weak swap.
Work(t) ==
    \/ PushLoad(t)
    \/ PushSwap(t)
    \/ PushRetry(t)
    \/ Acquire(t)
    \/ Take(t)
    \/ Transfer(t)
    \/ Turn(t)
    \/ Publish(t)

Next ==
    \E t \in Threads :
        \/ \E n \in Nodes : CallPush(t, n)
        \/ CallPop(t)
        \/ PushSpurious(t)
        \/ Work(t)

Spec == Init /\ [][Next]_vars

\* Threads in push or pop keep being scheduled.
FairSpec == Spec /\ \A t \in Threads : WF_vars(Work(t))

-----------------------------------------------------------------------------
(* Correctness *)

\* The nodes from h along next, cut off after as many as there are.
Chain(h) ==
    LET from[k \in 0 .. Cardinality(Nodes)] ==
            [n \in Links |->
               IF k = 0 \/ n = Null THEN <<>> ELSE <<n>> \o from[k - 1][next[n]]]
    IN  from[Cardinality(Nodes)][h]

\* Threads between acquire and release of output_queue.
Owners == {t \in Threads : pc[t] \in {"take", "transfer", "turn", "publish"}}

\* Only one thread at a time walks or turns round the lists pop works on, and
\* the busy mark is there exactly while it does.
OneOwner ==
    /\ \A t, u \in Owners : t = u
    /\ output = Busy <=> Owners # {}

\* The node a pop has in hand, from the moment no other can have it.
Popped(t) ==
    CASE pc[t] \in {"take", "publish"} -> at[t]
      [] pc[t] = "turn" -> Last(Chain(at[t]))
      [] OTHER -> Null

\* What t, owning output_queue, leaves in front of what is in input_queue.
Remainder(t) ==
    CASE pc[t] = "take" -> Chain(next[at[t]])
      [] pc[t] = "transfer" -> <<>>
      [] pc[t] = "turn" -> Reverse(Front(Chain(at[t]))) \o Chain(rest[t])
      [] pc[t] = "publish" -> Chain(rest[t])

\* The nodes in the queue, oldest first.
Queue ==
    LET front == IF Owners # {} THEN Remainder(CHOOSE t \in Owners : TRUE)
                 ELSE IF output = Busy THEN <<>> ELSE Chain(output)
    IN  front \o Reverse(Chain(input))

Pushers == {t \in Threads : pc[t] \in {"load", "swap"}}
Poppers == {t \in Threads : Popped(t) # Null}

\* Every node is in exactly one place: with the callers, in a push, in the queue
\* once, or in a pop.  The lists neither lose nodes, nor share them, nor loop.
NoNodeLost ==
    /\ Nodes = free \cup Range(Queue) \cup {at[t] : t \in Pushers}
                 \cup {Popped(t) : t \in Poppers}
    /\ Cardinality(Nodes) = Cardinality(free) + Len(Queue)
                 + Cardinality(Pushers) + Cardinality(Poppers)

Fifo == INSTANCE FifoQueue WITH
    q <- Queue,
    call <- [t \in Threads |->
        CASE pc[t] = "idle" -> [op |-> "none", node |-> Null]
          [] pc[t] \in {"load", "swap"} -> [op |-> "push", node |-> at[t]]
          [] pc[t] \in {"acquire", "transfer"} -> [op |-> "pop", node |-> Null]
          [] OTHER -> [op |-> "popped", node |-> Popped(t)]]

\* push and pop are atomic to their callers: push takes effect at its swap, pop
\* when it has output_queue or, if that was empty, when it takes input_queue.
\* In particular pop finds nothing only when nothing was there.
Linearizable == Fifo!Spec

\* acquire spins only for so long: whoever owns output_queue releases it.
BusyEnds == output = Busy ~> output # Busy

\* Unless weak swaps fail for no reason for ever, threads in push or pop get
\* somewhere: some call returns, again and again, while there are any.
LockFree ==
    <>[][\A t \in Threads : ~PushSpurious(t)]_vars
        => \/ []<>(\A t \in Threads : pc[t] = "idle")
           \/ []<><<\E t \in Threads : pc[t] # "idle" /\ pc'[t] = "idle">>_vars
=============================================================================
