------------------------------- MODULE Santa --------------------------------
(***************************************************************************)
(* samples/santa.cpp: Santa is an active::advanced object, whose queue has *)
(* the messages of reindeer before those of elves.  All reindeer together, *)
(* or any few elves, get his attention, and come again afterwards.         *)
(***************************************************************************)
EXTENDS Runtime

CONSTANTS
    Elves,          \* numbers
    Reindeer,
    min_elves

\* What the constants must be.
ASSUME SantaAssumption ==
    /\ RuntimeAssumption
    /\ IsFiniteSet(Elves)
    /\ IsFiniteSet(Reindeer) /\ Reindeer # {}
    /\ min_elves \in Nat \ {0}

SantaClaus == <<"santa">>
Elf(i) == <<"elf", i>>
Deer(i) == <<"deer", i>>
Helpers == {Elf(i) : i \in Elves} \cup {Deer(i) : i \in Reindeer}

\* A helper that turns up, and Santa's leave to go.
TurnsUp(h) == [is |-> h[1], who |-> h]
Leave == Plain("santa")

SantaInit ==
    Starts([o \in Helpers \cup {SantaClaus} |->
              IF o = SantaClaus THEN [m_elves_waiting |-> <<>>, m_deer_waiting |-> <<>>]
                                ELSE <<>>],
           [o \in Helpers \cup {SantaClaus} |->
              IF o = SantaClaus THEN <<>> ELSE <<Leave>>])

\* Mutant: the overload of priority for reindeer is not found.
NoPriority(m) == 0

priority(m) == IF m.is = "deer" THEN 1 ELSE 0

\* The advanced queue: behind the messages of the same or a higher priority.
VisitSanta(h) ==
    LET m == Calling(h).msg
        queue == box[SantaClaus]
        before == {n \in Range(queue) : priority(n) >= priority(m)}
    IN  /\ todo[h] # <<>>
        /\ box' = [box EXCEPT ![SantaClaus] =
                     Among(queue, before) \o <<m>> \o Among(queue, Range(queue) \ before)]
        /\ Continue(h, <<>>)
        /\ UNCHANGED local

\* Home from holiday, or back from work.
HelperGoes(h) ==
    /\ Gets(h, "santa")
    /\ Does(h, <<To(SantaClaus, TurnsUp(h))>>)
    /\ UNCHANGED local

\* Everybody in the group is told to go, and the group is empty.
Dismiss(group) == [i \in DOMAIN group |-> To(group[i], Leave)]

DeerTurnsUp ==
    LET group == Append(local[SantaClaus].m_deer_waiting, First(SantaClaus).who)
        full == Len(group) = Cardinality(Reindeer)
    IN  /\ Gets(SantaClaus, "deer")
        /\ local' = [local EXCEPT ![SantaClaus].m_deer_waiting =
                       IF full THEN <<>> ELSE group]
        /\ Does(SantaClaus, IF full THEN Dismiss(group) ELSE <<>>)

ElfTurnsUp ==
    LET group == Append(local[SantaClaus].m_elves_waiting, First(SantaClaus).who)
        full == Len(group) = min_elves
    IN  /\ Gets(SantaClaus, "elf")
        /\ local' = [local EXCEPT ![SantaClaus].m_elves_waiting =
                       IF full THEN <<>> ELSE group]
        /\ Does(SantaClaus, IF full THEN Dismiss(group) ELSE <<>>)

SantaNext ==
    \/ Call(SantaClaus)
    \/ \E h \in Helpers : HelperGoes(h) \/ VisitSanta(h)
    \/ DeerTurnsUp
    \/ ElfTurnsUp
-----------------------------------------------------------------------------
\* Safety, of any program with a Santa: he consults with elves only while some
\* reindeer has not come back, also when elves and reindeer were waiting together
\* (santa.cpp:8-10, 29-34).
AllDeerThere ==
    \A i \in Reindeer :
        \/ Deer(i) \in Range(local[SantaClaus].m_deer_waiting)
        \/ TurnsUp(Deer(i)) \in Range(box[SantaClaus])
Consults == /\ SantaClaus \in DOMAIN local
            /\ local[SantaClaus].m_elves_waiting # <<>>
            /\ local'[SantaClaus].m_elves_waiting = <<>>
ReindeerFirst == [][Consults => ~AllDeerThere]_state
=============================================================================
