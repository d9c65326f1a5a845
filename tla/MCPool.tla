------------------------------- MODULE MCPool -------------------------------
(***************************************************************************)
(* Both builds of Pool in one run: a behaviour is of the lock-free build,  *)
(* as Pool is configured, or of the Boost build from the start.            *)
(***************************************************************************)
EXTENDS Pool

VARIABLE boost

Boost == INSTANCE Pool WITH Lockfree <- FALSE

buildVars == <<vars, boost>>

BuildInit == Init /\ boost \in BOOLEAN

BuildNext ==
    /\ UNCHANGED boost
    /\ \/ ~boost /\ Next
       \/ boost /\ Boost!Next

BuildWork(t) ==
    /\ UNCHANGED boost
    /\ \/ ~boost /\ Work(t)
       \/ boost /\ Boost!Work(t)

\* TimedSpec of the lock-free build, FairSpec of the other.
BuildSpec ==
    /\ BuildInit /\ [][BuildNext]_buildVars
    /\ \A t \in Threads :
          /\ WF_buildVars(BuildWork(t))
          /\ SF_buildVars(EndMethod(t) /\ UNCHANGED boost)
          /\ SF_buildVars(~boost /\ busy = 1 /\ Fetch(t) /\ UNCHANGED boost)
          /\ SF_buildVars(~boost /\ busy = 1 /\ Leave(t) /\ UNCHANGED boost)
    /\ WF_buildVars(Join /\ UNCHANGED boost)

\* The lock-free build, whose list is first in, first out, delivers every
\* message; the Boost build need not, and nothing it says promises it.
LockfreeDelivery == ~boost => Delivery
=============================================================================
