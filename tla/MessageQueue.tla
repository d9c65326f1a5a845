---------------------------- MODULE MessageQueue ----------------------------
(***************************************************************************)
(* What active::fifo promises the message queue that is built on it: a     *)
(* sequence of messages, read and taken at the front, added to at the      *)
(* back, and cut down to the front one by truncate.                        *)
(***************************************************************************)
EXTENDS Sequences, Functions

CONSTANT Messages

VARIABLE messages

Init == messages = <<>>

Push(m) == m \notin Range(messages) /\ messages' = Append(messages, m)

Pop == messages # <<>> /\ messages' = Tail(messages)

Truncate == messages # <<>> /\ messages' = <<Head(messages)>>

Clear == messages' = <<>>

Next == (\E m \in Messages : Push(m)) \/ Pop \/ Truncate \/ Clear

Spec == Init /\ [][Next]_messages
=============================================================================
