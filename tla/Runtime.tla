------------------------------- MODULE Runtime ------------------------------
(***************************************************************************)
(* What a program built on active objects is made of.  An object takes the *)
(* oldest message of its mailbox and runs the method for it; the method    *)
(* changes the object's members and calls methods of other objects, one    *)
(* call after another, while other objects run.  That the scheduler gives  *)
(* the programs this is what Pool and Actors are about; here it is taken   *)
(* for granted, and every program below is a set of methods.               *)
(*                                                                         *)
(* A method is a step that takes the message and changes the members, and  *)
(* leaves in todo the calls that it still has to make: nobody else sees    *)
(* the members, so it does not matter when between its calls they change.  *)
(***************************************************************************)
EXTENDS Traffic, Integers, Sequences, FiniteSets, SequencesExt

CONSTANT Threads    \* the n of active::run(n)

\* What the constants must be.
RuntimeAssumption == Threads \in Nat \ {0}

VARIABLES
    local,      \* local[o]: the members of object o, a record
    box,        \* box[o]: the messages for o, the oldest first
    todo        \* todo[o]: the calls that o's running method has yet to make

state == <<local, box, todo>>

\* All objects at rest, with the messages that main has sent before active::run.
Starts(members, messages) ==
    /\ local = members
    /\ box = messages
    /\ todo = [o \in DOMAIN members |-> <<>>]

Running == {o \in DOMAIN todo : todo[o] # <<>>}

First(o) == Head(box[o])

\* A worker takes up the first message of o, of the given type.
Gets(o, type) ==
    /\ box[o] # <<>>
    /\ First(o).is = type
    /\ todo[o] = <<>>
    /\ Cardinality(Running) < Threads

\* The method for it, which makes these calls and returns.
Does(o, calls) ==
    /\ box' = [box EXCEPT ![o] = Tail(@)]
    /\ todo' = [todo EXCEPT ![o] = calls]

\* The call that the method of o makes next, and the rest of it.
Calling(o) == Head(todo[o])
Continue(o, calls) == todo' = [todo EXCEPT ![o] = calls \o Tail(@)]

\* A call of an object with a plain queue.
Call(o) ==
    /\ todo[o] # <<>>
    /\ Calling(o).to \in DOMAIN box
    /\ box' = [box EXCEPT ![Calling(o).to] = Append(@, Calling(o).msg)]
    /\ Continue(o, <<>>)
    /\ UNCHANGED local

\* Everything that is on its way: messages in mailboxes and calls to be made.
InFlight ==
    (UNION {{<<o, "box", i>> : i \in DOMAIN box[o]} : o \in DOMAIN box})
        \cup (UNION {{<<o, "todo", i>> : i \in DOMAIN todo[o]} : o \in DOMAIN todo})
Envelope(x) == IF x[2] = "box" THEN To(x[1], box[x[1]][x[3]]) ELSE todo[x[1]][x[3]]

\* The program has come to rest.
Quiet == Running = {} /\ \A o \in DOMAIN box : box[o] = <<>>
=============================================================================
