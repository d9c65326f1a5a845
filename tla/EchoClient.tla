----------------------------- MODULE EchoClient -----------------------------
(***************************************************************************)
(* echo_client.cpp: a chain of clients.  Each connects to an echo server   *)
(* and tells the client before it, which makes a pipe from its own socket  *)
(* to that one; standard input goes to the first and the last writes to    *)
(* standard output.  A client hears that its own connection is made and    *)
(* that its neighbour's is in either order, and starts its pipe at the     *)
(* later of the two.                                                       *)
(***************************************************************************)
EXTENDS Sockets

CONSTANT Clients    \* the clients, known by their sockets, from first to last

InputObject == <<"input">>
Client(f) == <<"echo_client", f>>
ClientObjects == {InputObject} \cup {Client(f) : f \in Range(Clients)}

StdIn == 0
StdOut == 1

\* What the constants must be: every client has a socket of its own.
ClientAssumption ==
    /\ Clients \in Seq(Fds \ {StdIn}) /\ Clients # <<>> /\ IsInjective(Clients)
    /\ StdIn \in Fds

Connected(f) == [is |-> "connected", sock |-> f]

\* init.response: the client before, or the input object.
Before(i) == IF i = 1 THEN InputObject ELSE Client(Clients[i - 1])

\* main: every client gets init, the last one standard output.
ClientInit ==
    Starts([o \in Objects \cup ClientObjects |->
              IF o[1] = "echo_client"
                THEN [m_connected |-> FALSE, m_pipe |-> FALSE, m_notify |-> InputObject]
                ELSE IF o \in Objects THEN Members[o] ELSE <<>>],
           [o \in Objects \cup ClientObjects |->
              IF o[1] # "echo_client" THEN <<>>
              ELSE LET i == CHOOSE j \in DOMAIN Clients : Clients[j] = o[2]
                   IN  <<Ask("init", Before(i))>>
                          \o IF i = Len(Clients) THEN <<Connected(StdOut)>> ELSE <<>>])

ClientSetsOff(f) ==
    /\ Gets(Client(f), "init")
    /\ local' = [local EXCEPT ![Client(f)].m_notify = First(Client(f)).response,
                              ![Client(f)].m_connected = FALSE]
    /\ Does(Client(f), <<To(Socket(f), Ask("connect_in", Client(f)))>>)

\* Mutant: whoever comes second starts the pipe, and so does the first.
StartPipeAlways(f, when) == <<To(Pipe(f), Plain("start"))>>

StartPipe(f, when) == IF when THEN <<To(Pipe(f), Plain("start"))>> ELSE <<>>

ConnectResponse(f) ==
    LET c == local[Client(f)]
    IN  /\ Gets(Client(f), "connect_response")
        /\ \/ First(Client(f)).error /\ Does(Client(f), <<>>) /\ UNCHANGED local
           \/ /\ ~First(Client(f)).error
              /\ local' = [local EXCEPT ![Client(f)].m_connected = TRUE]
              /\ Does(Client(f), <<To(c.m_notify, Connected(f))>> \o StartPipe(f, c.m_pipe))

\* The neighbour, or main, has a socket to write to.
NeighbourConnected(f) ==
    /\ Gets(Client(f), "connected")
    /\ local' = [local EXCEPT ![Client(f)].m_pipe = TRUE,
                              ![Pipe(f)] = NewPipe(First(Client(f)).sock)]
    /\ Does(Client(f), StartPipe(f, local[Client(f)].m_connected))

InputConnected ==
    /\ Gets(InputObject, "connected")
    /\ local' = [local EXCEPT ![Pipe(StdIn)] = NewPipe(First(InputObject).sock)]
    /\ Does(InputObject, <<To(Pipe(StdIn), Plain("start"))>>)

ClientStep(f) == ClientSetsOff(f) \/ ConnectResponse(f) \/ NeighbourConnected(f)

ClientNext ==
    \/ \E o \in ClientObjects : Call(o)
    \/ \E f \in Range(Clients) : ClientStep(f)
    \/ InputConnected
    \/ Next
=============================================================================
