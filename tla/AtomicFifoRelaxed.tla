-------------------------- MODULE AtomicFifoRelaxed -------------------------
(***************************************************************************)
(* AtomicFifo with the memory order the code asks for.  push stores to     *)
(* n->next plainly and publishes n by a relaxed compare-and-swap; pop      *)
(* takes the list by a relaxed exchange and reads n->next.  Nothing orders *)
(* the store before the read, so it may become visible at any later time,  *)
(* as on a weakly ordered machine or after a compiler has moved it.        *)
(***************************************************************************)
EXTENDS AtomicFifo

VARIABLE late   \* late[n]: <<t, value>>, t's store to n->next on its way, or <<>>

relaxedVars == <<vars, late>>

RelaxedInit == Init /\ late = [n \in Nodes |-> <<>>]

\* i = input_queue; n->next = i, the store on its way.
RelaxedLoad(t) ==
    /\ pc[t] = "load"
    /\ late[at[t]] = <<>>
    /\ old' = [old EXCEPT ![t] = input]
    /\ late' = [late EXCEPT ![at[t]] = <<t, input>>]
    /\ Goto(t, "swap")
    /\ UNCHANGED <<next, input, output, at, rest, free>>

\* The store arrives.
BecomeVisible(n) ==
    /\ late[n] # <<>>
    /\ next' = [next EXCEPT ![n] = late[n][2]]
    /\ late' = [late EXCEPT ![n] = <<>>]
    /\ UNCHANGED <<input, output, pc, at, old, rest, free>>

\* A thread sees its own stores: pop reads n->next after them.
SeesOwn(t) == late[at[t]] # <<>> => late[at[t]][1] # t

RelaxedNext ==
    \/ \E t \in Threads :
          \/ RelaxedLoad(t)
          \/ /\ UNCHANGED late
             /\ \/ \E n \in Nodes : CallPush(t, n)
                \/ CallPop(t)
                \/ PushSpurious(t) \/ PushSwap(t) \/ PushRetry(t)
                \/ Acquire(t) \/ Transfer(t) \/ Publish(t)
                \/ pc[t] \in {"take", "turn"} /\ SeesOwn(t) /\ (Take(t) \/ Turn(t))
    \/ \E n \in Nodes : BecomeVisible(n)

RelaxedSpec == RelaxedInit /\ [][RelaxedNext]_relaxedVars

\* What tests/bench_atomic.cpp asserts when its threads have finished ("Error in
\* node structure!"): every node pushed has been popped or is still in the queue.
NothingLostAtRest ==
    (\A t \in Threads : pc[t] = "idle") /\ (\A n \in Nodes : late[n] = <<>>)
        => NoNodeLost
=============================================================================
