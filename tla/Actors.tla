------------------------------- MODULE Actors -------------------------------
(***************************************************************************)
(* What an active object promises to whoever calls its methods, with no    *)
(* thread, pool or lock in sight.  A call of an active method leaves a     *)
(* message in the object's mailbox; the object runs the messages one at a  *)
(* time, oldest first, and each of them once.  A message leaves the        *)
(* mailbox only after it has run, or when a running method of the same     *)
(* object discards what is waiting behind it.                              *)
(*                                                                         *)
(* Source: active::queueing::shared in include/active/object.hpp.          *)
(***************************************************************************)
EXTENDS Sequences

CONSTANTS Objects, Messages

VARIABLES
    mailbox,    \* mailbox[o]: the running message, then those waiting
    executing   \* executing[o]: a method of o is on some thread's stack

vars == <<mailbox, executing>>

TypeOK ==
    /\ mailbox \in [Objects -> Seq(Messages)]
    /\ executing \in [Objects -> BOOLEAN]

Init ==
    /\ mailbox = [o \in Objects |-> <<>>]
    /\ executing = [o \in Objects |-> FALSE]

\* An active method is called: the message goes to the back.
Post(o, m) ==
    /\ mailbox' = [mailbox EXCEPT ![o] = Append(@, m)]
    /\ UNCHANGED executing

\* The object takes up the message at the front, and leaves it there.
Begin(o) ==
    /\ mailbox[o] # <<>>
    /\ ~executing[o]
    /\ executing' = [executing EXCEPT ![o] = TRUE]
    /\ UNCHANGED mailbox

\* The method returns or throws: its message goes, the next may start at once.
Finish(o) ==
    /\ executing[o]
    /\ mailbox' = [mailbox EXCEPT ![o] = Tail(@)]
    /\ \E again \in BOOLEAN :
          /\ again => mailbox'[o] # <<>>
          /\ executing' = [executing EXCEPT ![o] = again]

\* A running method discards every message but its own.
Discard(o) ==
    /\ executing[o]
    /\ mailbox' = [mailbox EXCEPT ![o] = <<Head(@)>>]
    /\ UNCHANGED executing

Next ==
    \E o \in Objects :
        \/ \E m \in Messages : Post(o, m)
        \/ Begin(o)
        \/ Finish(o)
        \/ Discard(o)

Spec == Init /\ [][Next]_vars
=============================================================================
