------------------------------- MODULE Traffic ------------------------------
(***************************************************************************)
(* Messages and calls, and sequences of them: what the state of a program  *)
(* is made of, and nothing that has a state of its own.                    *)
(***************************************************************************)
EXTENDS Naturals, Sequences

\* A call of a method of o, with the message that it leaves in o's mailbox.
To(o, m) == [to |-> o, msg |-> m]

\* Messages are records; their type, which selects the method, is in "is".
Plain(type) == [is |-> type]

\* The members of a sequence that are in S, in their order.
Among(s, S) ==
    LET picked[i \in 0 .. Len(s)] ==
            IF i = 0 THEN <<>>
            ELSE IF s[i] \in S THEN Append(picked[i - 1], s[i]) ELSE picked[i - 1]
    IN  picked[Len(s)]
=============================================================================
