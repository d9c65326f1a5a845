----------------------------- MODULE FifoQueue ------------------------------
(***************************************************************************)
(* A linearizable queue of nodes: every push and pop takes effect at one   *)
(* moment between its call and its return, pop takes the oldest node, and  *)
(* pop returns Null only when the queue was empty at that moment.          *)
(*                                                                         *)
(* The callers own the nodes: a node is pushed by whoever holds it, and    *)
(* whoever popped it holds it next.                                        *)
(***************************************************************************)
EXTENDS Sequences

CONSTANTS Threads, Nodes, Null

VARIABLES
    q,      \* the nodes in the queue, oldest first
    call,   \* call[t]: the operation t is in, and its argument or result
    free    \* the nodes the callers hold

vars == <<q, call, free>>

Call(op, n) == [op |-> op, node |-> n]

Idle == Call("none", Null)

Init ==
    /\ q = <<>>
    /\ call = [t \in Threads |-> Idle]
    /\ free = Nodes

CallPush(t, n) ==
    /\ call[t] = Idle
    /\ n \in free
    /\ call' = [call EXCEPT ![t] = Call("push", n)]
    /\ free' = free \ {n}
    /\ UNCHANGED q

DoPush(t) ==
    /\ call[t].op = "push"
    /\ q' = Append(q, call[t].node)
    /\ call' = [call EXCEPT ![t] = Idle]
    /\ UNCHANGED free

CallPop(t) ==
    /\ call[t] = Idle
    /\ call' = [call EXCEPT ![t] = Call("pop", Null)]
    /\ UNCHANGED <<q, free>>

DoPop(t) ==
    /\ call[t].op = "pop"
    /\ \/ /\ q = <<>>
          /\ call' = [call EXCEPT ![t] = Call("popped", Null)]
          /\ UNCHANGED q
       \/ /\ q # <<>>
          /\ call' = [call EXCEPT ![t] = Call("popped", Head(q))]
          /\ q' = Tail(q)
    /\ UNCHANGED free

ReturnPop(t) ==
    /\ call[t].op = "popped"
    /\ call' = [call EXCEPT ![t] = Idle]
    /\ free' = free \cup ({call[t].node} \ {Null})
    /\ UNCHANGED q

Next ==
    \E t \in Threads :
        \/ \E n \in Nodes : CallPush(t, n)
        \/ DoPush(t)
        \/ CallPop(t)
        \/ DoPop(t)
        \/ ReturnPop(t)

Spec == Init /\ [][Next]_vars
=============================================================================
