----------------------------- MODULE EchoServer -----------------------------
(***************************************************************************)
(* echo_server.cpp: my_server accepts connections, one after another, and  *)
(* makes each of them a pipe from its socket back to its socket.  All wait *)
(* in one select.                                                          *)
(***************************************************************************)
EXTENDS Sockets

CONSTANT Listener   \* the descriptor of the server's m_sock

\* What the constants must be: what arrives at the listening socket are connections,
\* and each has a descriptor of its own.
ServerAssumption ==
    /\ Listener \in Fds \ Peers
    /\ Source[Listener] \in Seq(Fds) /\ IsInjective(Source[Listener])

Server == <<"my_server">>
Connection(f) == <<"connection", f>>

ServerObjects == {Server} \cup {Connection(f) : f \in Fds}

\* main: the server's socket exists, and start is sent.
ServerInit ==
    Starts([o \in Objects \cup ServerObjects |->
              CASE o = Fd(Listener) -> [Open(Listener) EXCEPT !.server = "idle"]
                [] o[1] = "pipe" -> NewPipe(o[2])
                [] o \in Objects \ {Fd(Listener)} -> Members[o]
                [] OTHER -> <<>>],
           [o \in Objects \cup ServerObjects |->
              IF o = Server THEN <<Plain("start")>> ELSE <<>>])

Start ==
    /\ Gets(Server, "start")
    /\ Does(Server, <<To(Socket(Listener), Ask("bind_in", Server))>>)
    /\ UNCHANGED local

BindResponse ==
    /\ Gets(Server, "bind_response")
    /\ Does(Server, IF First(Server).error THEN <<>>
                    ELSE <<To(Socket(Listener), Ask("listen", Server))>>)
    /\ UNCHANGED local

AwaitConnection == To(Select, Wait("read", Listener, Server))

ListenResult ==
    /\ Gets(Server, "listen_result")
    /\ Does(Server, IF First(Server).error THEN <<>> ELSE <<AwaitConnection>>)
    /\ UNCHANGED local

ReadReady ==
    /\ Gets(Server, "read_ready")
    /\ Does(Server, <<To(Socket(Listener), Ask("accept", Server))>>)
    /\ UNCHANGED local

\* A new connection object is told to start; the server waits for the next.
AcceptResponse ==
    LET m == First(Server)
    IN  /\ Gets(Server, "accept_response")
        /\ Does(Server, (IF m.error THEN <<>> ELSE <<To(Connection(m.fd), Plain("start"))>>)
                           \o <<AwaitConnection>>)
        /\ UNCHANGED local

ConnectionStart(f) ==
    /\ Gets(Connection(f), "start")
    /\ Does(Connection(f), <<To(Pipe(f), Plain("start"))>>)
    /\ UNCHANGED local

ServerStep ==
    \/ Start \/ BindResponse \/ ListenResult \/ ReadReady \/ AcceptResponse
    \/ \E f \in Fds : ConnectionStart(f)

ServerNext ==
    \/ \E o \in ServerObjects : Call(o)
    \/ ServerStep
    \/ Next
=============================================================================
