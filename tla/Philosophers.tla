---------------------------- MODULE Philosophers ----------------------------
(***************************************************************************)
(* samples/philosophers.cpp: dining philosophers as active objects.  The   *)
(* program is meant to deadlock ("this is expected"); the question is      *)
(* whether it stops in any other way.  The report object, which prints, is *)
(* left out.                                                               *)
(***************************************************************************)
EXTENDS Runtime

CONSTANT N

\* What the constants must be.
ASSUME PhilosophersAssumption == RuntimeAssumption /\ N \in Nat \ {0}

Philosopher(i) == <<"philosopher", i>>
Fork(i) == <<"fork", i>>
Philosophers == {Philosopher(i) : i \in 1 .. N}
Forks == {Fork(i) : i \in 1 .. N}
Nobody == <<"nobody">>

Left(p) == Fork(p[2])
Right(p) == Fork(IF p[2] = N THEN 1 ELSE p[2] + 1)

Pickup(from) == [is |-> "pickup", from |-> from]
AskForForks(p) == <<To(Left(p), Pickup(p)), To(Right(p), Pickup(p))>>

PhilosophersInit ==
    Starts([o \in Philosophers \cup Forks |->
              IF o \in Forks THEN [available |-> TRUE, waiting |-> Nobody]
                             ELSE [m_forks |-> 0]],
           [o \in Philosophers \cup Forks |->
              IF o \in Forks THEN <<>> ELSE <<Plain("start")>>])

SitDown(p) ==
    /\ Gets(p, "start")
    /\ Does(p, AskForForks(p))
    /\ UNCHANGED local

\* The philosopher gets a fork; with both it eats, puts them down and asks again.
GetFork(p) ==
    /\ Gets(p, "pickup")
    /\ \/ /\ local[p].m_forks = 0
          /\ local' = [local EXCEPT ![p].m_forks = 1]
          /\ Does(p, <<>>)
       \/ /\ local[p].m_forks = 1
          /\ local' = [local EXCEPT ![p].m_forks = 0]
          /\ Does(p, <<To(Left(p), Plain("putdown")), To(Right(p), Plain("putdown"))>>
                        \o AskForForks(p))

ForkPickup(f) ==
    /\ Gets(f, "pickup")
    /\ \/ /\ local[f].available
          /\ local' = [local EXCEPT ![f].available = FALSE]
          /\ Does(f, <<To(First(f).from, Pickup(f))>>)
       \/ /\ ~local[f].available
          /\ local' = [local EXCEPT ![f].waiting = First(f).from]
          /\ Does(f, <<>>)

\* Mutant: the fork becomes available although it is handed on.
ForkPutdownTwice(f) ==
    /\ Gets(f, "putdown")
    /\ local' = [local EXCEPT ![f].available = TRUE, ![f].waiting = Nobody]
    /\ Does(f, IF local[f].waiting # Nobody THEN <<To(local[f].waiting, Pickup(f))>>
                                            ELSE <<>>)

ForkPutdown(f) ==
    /\ Gets(f, "putdown")
    /\ \/ /\ local[f].waiting # Nobody
          /\ local' = [local EXCEPT ![f].waiting = Nobody]
          /\ Does(f, <<To(local[f].waiting, Pickup(f))>>)
       \/ /\ local[f].waiting = Nobody
          /\ local' = [local EXCEPT ![f].available = TRUE]
          /\ Does(f, <<>>)

PhilosophersNext ==
    \/ \E o \in Philosophers \cup Forks : Call(o)
    \/ \E p \in Philosophers : SitDown(p) \/ GetFork(p)
    \/ \E f \in Forks : ForkPickup(f) \/ ForkPutdown(f)
-----------------------------------------------------------------------------
Given(f) == {x \in InFlight : Envelope(x).msg = Pickup(f)}
PutDown(f) == {x \in InFlight : Envelope(x) = To(f, Plain("putdown"))}

\* A fork is in one place: on the table, on its way to somebody or back, or taken
\* by a philosopher who has one.
ForksConserved ==
    Cardinality({f \in Forks : local[f].available})
      + Cardinality(UNION {Given(f) \cup PutDown(f) : f \in Forks})
      + Cardinality({p \in Philosophers : local[p].m_forks = 1}) = N

\* Safety, of any program with philosophers: no fork is lost or doubled, and all stops
\* only where every philosopher has one fork and every fork has somebody waiting for
\* it, though a fork remembers only one who waits (philosophers.cpp:105, 110, 128).
DeadlockExpected ==
    Forks \subseteq DOMAIN local =>
        /\ ForksConserved
        /\ Quiet => /\ \A p \in Philosophers : local[p].m_forks = 1
                    /\ \A f \in Forks : ~local[f].available /\ local[f].waiting # Nobody
=============================================================================
