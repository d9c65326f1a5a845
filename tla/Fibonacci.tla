----------------------------- MODULE Fibonacci ------------------------------
(***************************************************************************)
(* The Fibonacci tree of bench2.cpp and samples/fib.cpp: a node asks two   *)
(* others for the numbers before its own, and sends their sum to whoever   *)
(* asked it.  One method receives both answers, in either order, and knows *)
(* from m_value which one it has.  The benchmark uses its nodes again and  *)
(* again; the sample makes new ones, and runs once.                        *)
(***************************************************************************)
EXTENDS Runtime

CONSTANTS
    N,
    Runs        \* how often the benchmark runs

\* What the constants must be.
FibonacciAssumption ==
    /\ N \in Nat \ {0}
    /\ Runs \in Nat \ {0}

\* A node is known by the way to it: at each step, how much less its number is.
Node(path) == <<"node", path>>
Root == Node(<<>>)
Child(o, less) == Node(Append(o[2], less))
Number(path) == N - FoldSeq(+, 0, path)
Paths == UNION {[1 .. k -> {1, 2}] : k \in 0 .. N}
Nodes == {Node(path) : path \in {q \in Paths :
            \A k \in 0 .. Len(q) - 1 : Number(SubSeq(q, 1, k)) > 2}}

\* The promise of each run; values are what it was given.
Promise == <<"promise">>

Calculate(n, result) == [is |-> "calculate", n |-> n, result |-> result]
Answer(o, v) == To(o, [is |-> "value", v |-> v])

\* m_value is not initialised.
Init ==
    \E m_value \in {0, 1} :
        Starts([o \in Nodes \cup {Promise} |->
                  IF o = Promise THEN [runs |-> 1, values |-> <<>>]
                                 ELSE [m_value |-> m_value, m_result |-> Promise]],
               [o \in Nodes |->
                  IF o = Root THEN <<Calculate(N, Promise)>> ELSE <<>>])

\* Mutant: m_value stays as it was.
AskBothAgain(o, m) == [local EXCEPT ![o].m_result = m.result]

AskBoth(o, m) == [local EXCEPT ![o] = [m_value |-> 0, m_result |-> m.result]]

NodeCalculate(o) ==
    LET m == First(o)
    IN  /\ Gets(o, "calculate")
        /\ \/ /\ m.n > 2
              /\ local' = AskBoth(o, m)
              /\ Does(o, <<To(Child(o, 1), Calculate(m.n - 1, o)),
                           To(Child(o, 2), Calculate(m.n - 2, o))>>)
           \/ /\ m.n <= 2
              /\ Does(o, <<Answer(m.result, 1)>>)
              /\ UNCHANGED local

NodeValue(o) ==
    LET m_value == local[o].m_value
        v == First(o).v
    IN  /\ Gets(o, "value")
        /\ \/ /\ m_value # 0
              /\ Does(o, <<Answer(local[o].m_result, m_value + v)>>)
              /\ UNCHANGED local
           \/ /\ m_value = 0
              /\ local' = [local EXCEPT ![o].m_value = v]
              /\ Does(o, <<>>)

\* A promise is no object; the caller sets its value.
SetPromise(o) ==
    /\ todo[o] # <<>>
    /\ Calling(o).to = Promise
    /\ local' = [local EXCEPT ![Promise].values = Append(@, Calling(o).msg.v)]
    /\ Continue(o, <<>>)
    /\ UNCHANGED box

\* active::run is over; the benchmark runs with another number of threads.
RunAgain ==
    /\ Quiet
    /\ local[Promise].runs < Runs
    /\ local' = [local EXCEPT ![Promise].runs = @ + 1]
    /\ box' = [box EXCEPT ![Root] = <<Calculate(N, Promise)>>]
    /\ UNCHANGED todo

Next ==
    \/ \E o \in Nodes :
          \/ Call(o) \/ SetPromise(o)
          \/ NodeCalculate(o) \/ NodeValue(o)
    \/ RunAgain
-----------------------------------------------------------------------------
Fib[n \in Nat] == IF n <= 2 THEN 1 ELSE Fib[n - 1] + Fib[n - 2]

\* Safety: when all is quiet each run has had one answer, the N-th Fibonacci
\* number, in whichever order the answers came and whatever the last run has
\* left in the nodes (bench2.cpp:349-364, 310; fib.cpp:23-45).
Answers ==
    /\ \A i \in DOMAIN local[Promise].values : local[Promise].values[i] = Fib[N]
    /\ Quiet => Len(local[Promise].values) = local[Promise].runs
=============================================================================
