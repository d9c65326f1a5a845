-------------------------------- MODULE Sieve -------------------------------
(***************************************************************************)
(* samples/sieve2.cpp and the sieve of bench2.cpp: a source counts to max  *)
(* and sends each number to a chain of primes, each of which passes on     *)
(* what it does not divide.  A number that gets to the end of the chain is *)
(* the next prime.  Behind the last number the sample sends destroy, which *)
(* takes the chain apart, link by link.                                    *)
(***************************************************************************)
EXTENDS Runtime

CONSTANT max

\* What the constants must be.
SieveAssumption == max \in Nat /\ max >= 2

\* Prime(0) is the source, whose next is called head; Prime(k) the k-th in the
\* chain.  made lists the primes constructed, in order.
Prime(k) == <<"prime", k>>
Source == Prime(0)
Primes == {Prime(k) : k \in 1 .. max}
Next(o) == Prime(o[2] + 1)
Printed == <<"cout">>

Filter(n) == [is |-> "number", n |-> n]
Destroy == Plain("destroy")

SieveInit ==
    Starts([o \in {Source, Printed} \cup Primes |->
              IF o = Printed THEN [made |-> <<>>] ELSE [prime |-> 1, next |-> FALSE]],
           [o \in {Source} \cup Primes |->
              IF o = Source THEN <<Filter(2)>> ELSE <<>>])

\* To the rest of the chain, or a new Prime(n) at its end; more are further calls.
PassOn(o, n, more) ==
    \/ /\ local[o].next
       /\ Does(o, <<To(Next(o), Filter(n))>> \o more)
       /\ UNCHANGED local
    \/ /\ ~local[o].next
       /\ local' = [local EXCEPT ![o].next = TRUE,
                                 ![Next(o)] = [prime |-> n, next |-> FALSE],
                                 ![Printed].made = Append(@, n)]
       /\ Does(o, more)

SourceNumber ==
    LET n == First(Source).n
    IN  /\ Gets(Source, "number")
        /\ PassOn(Source, n, IF n < max THEN <<To(Source, Filter(n + 1))>>
                                        ELSE <<To(Prime(1), Destroy)>>)

PrimeNumber(o) ==
    /\ Gets(o, "number")
    /\ \/ First(o).n % local[o].prime # 0 /\ PassOn(o, First(o).n, <<>>)
       \/ /\ First(o).n % local[o].prime = 0
          /\ Does(o, <<>>)
          /\ UNCHANGED local

PrimeDestroy(o) ==
    /\ Gets(o, "destroy")
    /\ local' = [local EXCEPT ![o].next = FALSE]
    /\ Does(o, IF local[o].next THEN <<To(Next(o), Destroy)>> ELSE <<>>)

SieveNext ==
    \/ \E o \in {Source} \cup Primes : Call(o)
    \/ SourceNumber
    \/ \E o \in Primes : PrimeNumber(o) \/ PrimeDestroy(o)
-----------------------------------------------------------------------------
IsPrime(n) == \A d \in 2 .. n - 1 : n % d # 0
PrimesUpTo(n) == SetToSortSeq({p \in 2 .. n : IsPrime(p)}, <)

\* Safety: the chain has the primes, in order and each once, and all of them when
\* the program ends; no number comes to a link of the chain behind destroy, where
\* it would count as a prime (sieve2.cpp:17-39, 53-61).
OnlyPrimes ==
    /\ IsPrefix(local[Printed].made, PrimesUpTo(max))
    /\ Quiet => local[Printed].made = PrimesUpTo(max)
=============================================================================
