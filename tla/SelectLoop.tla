----------------------------- MODULE SelectLoop -----------------------------
(***************************************************************************)
(* select of the active sockets: whoever wants to know when a descriptor   *)
(* can be read or written sends a request to select, which passes it to    *)
(* select_loop and then writes to a kernel pipe, to wake a select_loop     *)
(* that sits in ::select.                                                  *)
(*                                                                         *)
(* Descriptors are the environment: bytes arrive, and one that is full may *)
(* have room again.  A ::select that fails, of which the code takes no     *)
(* notice, is left out.                                                    *)
(***************************************************************************)
EXTENDS Runtime

Select == <<"select">>
Loop == <<"select_loop">>
Wake == <<"m_pipe">>
Kernel == <<"kernel">>
Fd(f) == <<"fd", f>>

\* A request, and who is to be told.
Wait(type, f, o) == [is |-> type, fd |-> f, response |-> o]

EmptyLoop == [readers |-> <<>>, writers |-> <<>>]

-----------------------------------------------------------------------------
(* The kernel *)

\* A descriptor has the members coming (what has not arrived yet), input (what has
\* and was not read), output (what was written), room, failed, shut, server (whether
\* it is a server's socket and listens) and peer (whether the other end sends back
\* what it gets).  What arrives at a listening socket are connections.

\* End of file; a server's socket that does not listen counts as hung up.
Ended(f) ==
    \/ local[Fd(f)].server = "idle"
    \/ /\ local[Fd(f)].server = "none"
       /\ local[Fd(f)].coming = <<>>
       /\ local[Fd(f)].peer => "wr" \in local[Fd(f)].shut
Readable(f) == local[Fd(f)].input # <<>> \/ Ended(f)
Writable(f) == local[Fd(f)].room

Arrive(f) ==
    /\ local[Fd(f)].coming # <<>>
    /\ local[Fd(f)].server # "idle"
    /\ local' = [local EXCEPT ![Fd(f)].coming = Tail(@),
                              ![Fd(f)].input = Append(@, Head(local[Fd(f)].coming))]
    /\ UNCHANGED <<box, todo>>

Drain(f) ==
    /\ ~local[Fd(f)].room
    /\ local' = [local EXCEPT ![Fd(f)].room = TRUE]
    /\ UNCHANGED <<box, todo>>
-----------------------------------------------------------------------------
(* select and select_loop *)

\* The request goes to the loop before the loop is interrupted.
SelectForward ==
    \E type \in {"read", "write"} :
        /\ Gets(Select, type)
        /\ Does(Select, <<To(Loop, First(Select)), To(Wake, Plain("X"))>>)
        /\ UNCHANGED local

NobodyWaits == local[Loop].readers = <<>> /\ local[Loop].writers = <<>>
DoSelect == To(Loop, Plain("do_select"))

\* Mutant: asks itself for do_select once for every reader.
LoopReadAlways ==
    /\ Gets(Loop, "read")
    /\ local' = [local EXCEPT ![Loop].readers = Append(@, First(Loop))]
    /\ Does(Loop, <<DoSelect>>)

LoopRead ==
    /\ Gets(Loop, "read")
    /\ local' = [local EXCEPT ![Loop].readers = Append(@, First(Loop))]
    /\ Does(Loop, IF NobodyWaits THEN <<DoSelect>> ELSE <<>>)

LoopWrite ==
    /\ Gets(Loop, "write")
    /\ local' = [local EXCEPT ![Loop].writers = Append(@, First(Loop))]
    /\ Does(Loop, IF NobodyWaits THEN <<DoSelect>> ELSE <<>>)

\* The method blocks in ::select.
LoopSelect ==
    /\ Gets(Loop, "do_select")
    /\ Does(Loop, IF NobodyWaits THEN <<>> ELSE <<To(Kernel, Plain("select"))>>)
    /\ UNCHANGED local

InKernel(call) == todo[Loop] # <<>> /\ Calling(Loop) = To(Kernel, Plain(call))

\* The rest of do_select, with the iterator w at the i-th writer of the list;
\* ready are the writers in wfds.
Scan(i, ready, woken) ==
    To(Kernel, [is |-> "scan", w |-> i, ready |-> ready, woken |-> woken])

\* ::select returns with whatever is ready; the readers that are get their answer.
\* It does not fail here: the sets would all stay full, every waiter would get its
\* answer, and the read of the empty pipe (active_socket.cpp:270) would block.
SelectReturns ==
    LET waiting == Range(local[Loop].readers)
        readable == {r \in waiting : Readable(r.fd)}
        writable == {w \in Range(local[Loop].writers) : Writable(w.fd)}
        readers == Among(local[Loop].readers, readable)
        woken == box[Wake] # <<>>
    IN  /\ InKernel("select")
        /\ woken \/ writable # {} \/ readable # {}
        /\ local' = [local EXCEPT ![Loop].readers = Among(@, waiting \ readable)]
        /\ Continue(Loop,
              [i \in DOMAIN readers |-> To(readers[i].response, Plain("read_ready"))]
                  \o <<Scan(1, writable, woken)>>)
        /\ UNCHANGED box

Scanning == todo[Loop] # <<>> /\ Calling(Loop).msg.is = "scan"

\* ++w on a list of n writers: std::list is a ring, and end() is before begin().
After(i, n) == IF i = n + 1 THEN 1 ELSE i + 1

\* One round of the loop over the writers: w moves on once by itself, and once
\* in the loop's header.
ScanWriter ==
    LET s == Calling(Loop).msg
        ws == local[Loop].writers
    IN  /\ Scanning
        /\ s.w <= Len(ws)
        /\ \/ /\ ws[s.w] \in s.ready
              /\ local' = [local EXCEPT ![Loop].writers = RemoveAt(@, s.w)]
              /\ Continue(Loop, <<To(ws[s.w].response, Plain("write_ready")),
                                  Scan(After(s.w, Len(ws) - 1), s.ready, s.woken)>>)
           \/ /\ ws[s.w] \notin s.ready
              /\ Continue(Loop, <<Scan(After(After(s.w, Len(ws)), Len(ws)),
                                       s.ready, s.woken)>>)
              /\ UNCHANGED local
        /\ UNCHANGED box

\* Mutant: goes on for writers only.
LoopAgainWriters ==
    /\ Scanning
    /\ Calling(Loop).msg.w = Len(local[Loop].writers) + 1
    /\ box' = [box EXCEPT ![Wake] = IF Calling(Loop).msg.woken THEN <<>> ELSE @]
    /\ Continue(Loop, IF local[Loop].writers = <<>> THEN <<>> ELSE <<DoSelect>>)
    /\ UNCHANGED local

\* w is at end(): the pipe is read, and the loop goes on if somebody waits.
LoopAgain ==
    /\ Scanning
    /\ Calling(Loop).msg.w = Len(local[Loop].writers) + 1
    /\ box' = [box EXCEPT ![Wake] = IF Calling(Loop).msg.woken THEN <<>> ELSE @]
    /\ Continue(Loop, IF NobodyWaits THEN <<>> ELSE <<DoSelect>>)
    /\ UNCHANGED local

LoopStep == \/ LoopRead \/ LoopWrite \/ LoopSelect
            \/ SelectReturns \/ ScanWriter \/ LoopAgain
-----------------------------------------------------------------------------
\* Safety, of any program with a select_loop: while somebody waits it has exactly one
\* do_select before it or in progress, though it asks itself for it from three places
\* (active_socket.cpp:274, 281, 289).
Pending == {y \in InFlight : Envelope(y) = DoSelect \/ Envelope(y).to = Kernel}
OneSelect ==
    Loop \in DOMAIN local =>
        /\ Cardinality(Pending) <= 1
        /\ NobodyWaits \/ Pending # {}

\* What asks or answers for x: a message for x, a request that x will have the
\* answer to, or a place in select_loop's lists.
Asking(e, x) == e.to = x \/ ("response" \in DOMAIN e.msg /\ e.msg.response = x)
Listed(list, x) == {i \in DOMAIN list : list[i].response = x}
Tokens(x) ==
    {y \in InFlight : Asking(Envelope(y), x)}
        \cup {<<"reader", i>> : i \in Listed(local[Loop].readers, x)}
        \cup {<<"writer", i>> : i \in Listed(local[Loop].writers, x)}

\* Safety, of any program with pipes: a pipe asks for one thing at a time, so that
\* nothing is read into its buffer while the writer still writes from it
\* (active_socket.cpp:305-368).
OneRequest ==
    \A o \in DOMAIN local : o[1] = "pipe" => Cardinality(Tokens(o)) <= 1
=============================================================================
