------------------------------ MODULE Sockets -------------------------------
(***************************************************************************)
(* The active sockets of the samples: a pipe object copies what arrives at *)
(* one file descriptor to another.  It asks the select object to tell it   *)
(* when it can read, asks the input's socket to read, asks select to tell  *)
(* it when it can write, asks the output's socket to write, and so on.     *)
(* All of them share the buffer in the pipe, by address.                   *)
(*                                                                         *)
(* What is written to a descriptor in Stalls may fill it up until its      *)
(* reader catches up.                                                      *)
(*                                                                         *)
(* Init is the program echo.cpp: standard input is copied to output.       *)
(***************************************************************************)
EXTENDS SelectLoop

CONSTANTS
    Source,     \* Source[f]: what arrives at descriptor f, then end of file
    Origin,     \* Origin[f]: the descriptor whose input is to come out at f
    Peers,      \* descriptors whose other end sends back what it gets
    Stalls,
    MaxBuffer   \* the size of a pipe's buffer

\* What the constants must be.
SocketsAssumption == MaxBuffer \in Nat \ {0} /\ IsFiniteSet(DOMAIN Source)

Fds == DOMAIN Source

Socket(f) == <<"socket", f>>
Reader(f) == <<"reader", f>>
Writer(f) == <<"writer", f>>
Pipe(f) == <<"pipe", f>>        \* the pipe whose m_input is f's socket

Objects ==
    {Select, Loop, Wake}
        \cup UNION {{Fd(f), Socket(f), Reader(f), Writer(f), Pipe(f)} : f \in Fds}

\* Requests to a socket, and who is to be told.
Ask(type, o) == [is |-> type, response |-> o]
WriteFrom(o, at, left) == [is |-> "write", response |-> o, at |-> at, left |-> left]

Open(f) == [coming |-> Source[f], input |-> <<>>, output |-> <<>>, room |-> TRUE,
            server |-> "none", failed |-> FALSE, shut |-> {}, peer |-> f \in Peers]

NewPipe(out) == [m_output |-> out, m_buffer |-> <<>>, at |-> 0, left |-> 0]

Members ==
    [o \in Objects |->
        CASE o[1] = "fd" -> Open(o[2])
          [] o = Loop -> EmptyLoop
          [] OTHER -> <<>>]

NoMessages == [o \in Objects |-> <<>>]

\* echo.cpp
Init ==
    Starts([Members EXCEPT ![Pipe(0)] = NewPipe(1)],
           [NoMessages EXCEPT ![Pipe(0)] = <<Plain("start")>>])
-----------------------------------------------------------------------------
(* socket, its reader and its writer *)

\* Reads and writes may block; they do so in objects of their own.  One that blocks
\* is a step that is not enabled yet: the worker that it would keep is not counted.
SocketForward(f) ==
    /\ \/ Gets(Socket(f), "read") /\ Does(Socket(f), <<To(Reader(f), First(Socket(f)))>>)
       \/ Gets(Socket(f), "write") /\ Does(Socket(f), <<To(Writer(f), First(Socket(f)))>>)
    /\ UNCHANGED local

SocketShutdown(f) ==
    /\ Gets(Socket(f), "shutdown")
    /\ local' = [local EXCEPT ![Fd(f)].shut = @ \cup {First(Socket(f)).mode}]
    /\ Does(Socket(f), <<>>)

\* ::recv fills the buffer of the pipe that asked; no bytes are the end.
Recv(f) ==
    LET pipe == First(Reader(f)).response
        input == local[Fd(f)].input
    IN  /\ Gets(Reader(f), "read")
        /\ Readable(f)
        /\ \E n \in 0 .. MaxBuffer :
              /\ n = 0 <=> input = <<>>
              /\ n <= Len(input)
              /\ local' = [local EXCEPT
                    ![Fd(f)].input = SubSeq(@, n + 1, Len(@)),
                    ![pipe].m_buffer = IF n = 0 THEN @ ELSE SubSeq(input, 1, n)]
              /\ Does(Reader(f), <<To(pipe, [is |-> "read_response", bytes |-> n])>>)

\* A failure looks like the end to the pipe.
RecvFails(f) ==
    /\ Gets(Reader(f), "read")
    /\ local' = [local EXCEPT ![Fd(f)].failed = TRUE]
    /\ Does(Reader(f), <<To(First(Reader(f)).response,
                            [is |-> "read_response", bytes |-> 0])>>)

\* ::send takes some bytes of the buffer, as it is now, or fails.
SendBytes(f, n) ==
    LET m == First(Writer(f))
        bytes == SubSeq(local[m.response].m_buffer, m.at, m.at + n - 1)
    IN  /\ n \in 1 .. m.left
        /\ \E room \in IF f \in Stalls THEN BOOLEAN ELSE {TRUE} :
              local' = [local EXCEPT
                 ![Fd(f)].output = @ \o bytes,
                 ![Fd(f)].coming = IF local[Fd(f)].peer THEN @ \o bytes ELSE @,
                 ![Fd(f)].room = room]
        /\ Does(Writer(f), <<To(m.response, [is |-> "write_response", error |-> FALSE,
                                             at |-> m.at + n, left |-> m.left - n])>>)

SendFails(f) ==
    LET m == First(Writer(f))
    IN  /\ local' = [local EXCEPT ![Fd(f)].failed = TRUE]
        /\ Does(Writer(f), <<To(m.response, [is |-> "write_response", error |-> TRUE,
                                             at |-> m.at, left |-> m.left])>>)

Send(f) ==
    /\ Gets(Writer(f), "write")
    /\ Writable(f)
    /\ (\E n \in 1 .. MaxBuffer : SendBytes(f, n)) \/ SendFails(f)

Connect(f) ==
    /\ Gets(Socket(f), "connect_in")
    /\ \E error \in BOOLEAN :
          /\ local' = [local EXCEPT ![Fd(f)].failed = error]
          /\ Does(Socket(f), <<To(First(Socket(f)).response,
                                  [is |-> "connect_response", error |-> error])>>)

Bind(f) ==
    /\ Gets(Socket(f), "bind_in")
    /\ \E error \in BOOLEAN :
          /\ local' = [local EXCEPT ![Fd(f)].failed = error]
          /\ Does(Socket(f), <<To(First(Socket(f)).response,
                                  [is |-> "bind_response", error |-> error])>>)

\* errno is what an earlier call has left there, and the answer has it the wrong
\* way round: a failure is no error, a success has the error of the earlier call.
Listen(f) ==
    /\ Gets(Socket(f), "listen")
    /\ \E ok, errno \in BOOLEAN :
          /\ local' = [local EXCEPT ![Fd(f)].server = IF ok THEN "listening" ELSE @,
                                    ![Fd(f)].failed = ~ok \/ errno]
          /\ Does(Socket(f), <<To(First(Socket(f)).response,
                                  [is |-> "listen_result", error |-> ok /\ errno])>>)

\* ::accept, which fails if the socket does not listen.
Accept(f) ==
    LET answer(error, fd) == <<To(First(Socket(f)).response,
                                  [is |-> "accept_response", error |-> error, fd |-> fd])>>
    IN  /\ Gets(Socket(f), "accept")
        /\ \/ /\ local[Fd(f)].server = "idle"
              /\ Does(Socket(f), answer(TRUE, f))
              /\ UNCHANGED local
           \/ /\ local[Fd(f)].input # <<>>
              /\ Does(Socket(f), answer(FALSE, Head(local[Fd(f)].input)))
              /\ local' = [local EXCEPT ![Fd(f)].input = Tail(@)]

SocketStep(f) ==
    \/ SocketForward(f) \/ SocketShutdown(f)
    \/ Recv(f) \/ RecvFails(f) \/ Send(f)
    \/ Connect(f) \/ Bind(f) \/ Listen(f) \/ Accept(f)
-----------------------------------------------------------------------------
(* pipe *)

Input(p) == p[2]
Output(p) == local[p].m_output
AwaitInput(p) == To(Select, Wait("read", Input(p), p))
AwaitOutput(p) == To(Select, Wait("write", Output(p), p))

PipeStart(p) ==
    /\ Gets(p, "start")
    /\ Does(p, <<AwaitInput(p)>>)
    /\ UNCHANGED local

PipeReadReady(p) ==
    /\ Gets(p, "read_ready")
    /\ Does(p, <<To(Socket(Input(p)), Ask("read", p))>>)
    /\ UNCHANGED local

\* The end of the input, or an error, shuts both sockets; nobody is told (m_closed_response is 0).
PipeReadResponse(p) ==
    LET n == First(p).bytes
    IN  /\ Gets(p, "read_response")
        /\ \/ /\ n = 0
              /\ Does(p, <<To(Socket(Input(p)), [is |-> "shutdown", mode |-> "rd"]),
                           To(Socket(Output(p)), [is |-> "shutdown", mode |-> "wr"])>>)
              /\ UNCHANGED local
           \/ /\ n > 0
              /\ local' = [local EXCEPT ![p].at = 1, ![p].left = n]
              /\ Does(p, <<AwaitOutput(p)>>)

PipeWriteReady(p) ==
    /\ Gets(p, "write_ready")
    /\ Does(p, <<To(Socket(Output(p)), WriteFrom(p, local[p].at, local[p].left))>>)
    /\ UNCHANGED local

\* Mutant: the bytes that were not written are forgotten.
PipeWriteResponseOnce(p) ==
    /\ Gets(p, "write_response")
    /\ Does(p, IF First(p).error THEN <<>> ELSE <<AwaitInput(p)>>)
    /\ UNCHANGED local

PipeWriteResponse(p) ==
    LET m == First(p)
    IN  /\ Gets(p, "write_response")
        /\ \/ m.error /\ Does(p, <<>>) /\ UNCHANGED local
           \/ /\ ~m.error /\ m.left > 0
              /\ local' = [local EXCEPT ![p].at = m.at, ![p].left = m.left]
              /\ Does(p, <<AwaitOutput(p)>>)
           \/ /\ ~m.error /\ m.left = 0
              /\ Does(p, <<AwaitInput(p)>>)
              /\ UNCHANGED local

PipeStep(p) == \/ PipeStart(p) \/ PipeReadReady(p) \/ PipeReadResponse(p)
               \/ PipeWriteReady(p) \/ PipeWriteResponse(p)
-----------------------------------------------------------------------------
Environment == \E f \in Fds : Arrive(f) \/ Drain(f)

Next ==
    \/ \E o \in Objects : Call(o)
    \/ SelectForward \/ LoopStep
    \/ \E f \in Fds : SocketStep(f) \/ PipeStep(Pipe(f))
    \/ Environment

\* The pool runs every object that has messages, what is sent to a descriptor
\* arrives, and its reader catches up.
FairSpec ==
    /\ Init /\ [][Next]_state
    /\ \A o \in Objects : WF_state(Call(o))
    /\ WF_state(SelectForward) /\ WF_state(LoopStep)
    /\ \A f \in Fds : /\ WF_state(SocketStep(f)) /\ WF_state(PipeStep(Pipe(f)))
                      /\ WF_state(Arrive(f)) /\ WF_state(Drain(f))
-----------------------------------------------------------------------------
(* Properties *)

\* Safety: what comes out is what came in, in order and without loss, whatever
\* part of it each read and write takes; nothing is missing when the output is
\* shut down, unless a call failed (active_socket.cpp:98-113, :319-367).
SomeFailed == \E f \in Fds : local[Fd(f)].failed
Echoed(f) == Source[Origin[f]]
EchoesInOrder ==
    \A f \in DOMAIN Origin :
        LET output == local[Fd(f)].output
        IN  /\ output = SubSeq(Echoed(f), 1, Len(output))
            /\ "wr" \in local[Fd(f)].shut => output = Echoed(f) \/ SomeFailed

\* All that came in has come out and the output is shut down, or a call failed.
Complete ==
    \/ \A f \in DOMAIN Origin :
          local[Fd(f)].output = Echoed(f) /\ "wr" \in local[Fd(f)].shut
    \/ SomeFailed

\* Liveness: whoever waits to write to a descriptor that has room again is told so
\* (active_socket.hpp:38-42).
Waits(f) == \E w \in Range(local[Loop].writers) : w.fd = f
WritersServed == \A f \in Fds : (Waits(f) /\ Writable(f)) ~> ~Waits(f)
=============================================================================
