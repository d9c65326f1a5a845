----------------------------- MODULE MCPrograms -----------------------------
(***************************************************************************)
(* The sample programs and benchmarks, each a small instance, checked in   *)
(* one run: program says which of them a behaviour is of.  The constants   *)
(* are Santa's and the philosophers', the other programs are instances.    *)
(***************************************************************************)
EXTENDS SelectLoop, Santa, Philosophers, TLC

VARIABLE program

vars == <<program, state>>

\* Descriptors: 0 and 1 are standard input and output, 2 listens, 3 and 4 are
\* connections.  Bytes that arrive are numbers.
Echo == INSTANCE Sockets WITH
    Threads <- 3, Source <- (0 :> <<1, 2, 3>>) @@ (1 :> <<>>), Origin <- (1 :> 0),
    Peers <- {}, Stalls <- {1}, MaxBuffer <- 2

EchoServer == INSTANCE EchoServer WITH
    Threads <- 2, Source <- (2 :> <<3, 4>>) @@ (3 :> <<1>>) @@ (4 :> <<>>),
    Origin <- (3 :> 3) @@ (4 :> 4), Peers <- {}, Stalls <- {}, MaxBuffer <- 1,
    Listener <- 2

EchoClient == INSTANCE EchoClient WITH
    Threads <- 2, Source <- [f \in {0, 1, 3, 4} |-> <<>>],
    Origin <- (3 :> 0) @@ (4 :> 0) @@ (1 :> 0), Peers <- {3, 4}, Stalls <- {},
    MaxBuffer <- 1, Clients <- <<3, 4>>

EchoClient1 == INSTANCE EchoClient WITH
    Threads <- 2, Source <- (0 :> <<1>>) @@ (1 :> <<>>) @@ (3 :> <<>>),
    Origin <- (3 :> 0) @@ (1 :> 0), Peers <- {3}, Stalls <- {},
    MaxBuffer <- 1, Clients <- <<3>>

\* Two cells on a torus, with themselves as neighbours on one side.
Life == INSTANCE Life WITH
    Threads <- 3, num_cols <- 2, num_rows <- 1,
    Directions <- <<<<-1, 0>>, <<1, 0>>, <<1, 1>>>>,
    Seeds <- {[c \in {<<"cell", 0, 0>>, <<"cell", 1, 0>>} |-> c[2] = 0]},
    Iterations <- 2

Mandelbrot == INSTANCE Mandelbrot WITH
    Threads <- 2, Tiles <- {1}, MaxViews <- 3, MaxRounds <- 1

\* Two views with more tiles, or more iterations.
MandelbrotTiles == INSTANCE Mandelbrot WITH
    Threads <- 2, Tiles <- 1 .. 2, MaxViews <- 2, MaxRounds <- 1

MandelbrotRounds == INSTANCE Mandelbrot WITH
    Threads <- 2, Tiles <- {1}, MaxViews <- 2, MaxRounds <- 2

Fibonacci == INSTANCE Fibonacci WITH Threads <- 2, N <- 5, Runs <- 2

Sieve == INSTANCE Sieve WITH Threads <- 3, max <- 8

BoundedQueue == INSTANCE BoundedQueue WITH
    Threads <- 3, Writers <- 1 .. 2, Readers <- 1 .. 2, m_messages <- 2, m_capacity <- 1

\* The programs' assumptions about their constants.
ASSUME ProgramsAssumption ==
    /\ Echo!RuntimeAssumption /\ Echo!SocketsAssumption
    /\ EchoServer!RuntimeAssumption /\ EchoServer!SocketsAssumption
    /\ EchoServer!ServerAssumption
    /\ EchoClient!RuntimeAssumption /\ EchoClient!SocketsAssumption
    /\ EchoClient!ClientAssumption /\ EchoClient1!ClientAssumption
    /\ EchoClient1!RuntimeAssumption /\ EchoClient1!SocketsAssumption
    /\ Life!RuntimeAssumption /\ Life!LifeAssumption
    /\ Mandelbrot!RuntimeAssumption /\ Mandelbrot!MandelbrotAssumption
    /\ MandelbrotTiles!RuntimeAssumption /\ MandelbrotTiles!MandelbrotAssumption
    /\ MandelbrotRounds!RuntimeAssumption /\ MandelbrotRounds!MandelbrotAssumption
    /\ Fibonacci!RuntimeAssumption /\ Fibonacci!FibonacciAssumption
    /\ Sieve!RuntimeAssumption /\ Sieve!SieveAssumption
    /\ BoundedQueue!RuntimeAssumption /\ BoundedQueue!BoundedQueueAssumption

Init ==
    \/ program = "echo" /\ Echo!Init
    \/ program = "echo_server" /\ EchoServer!ServerInit
    \/ program = "echo_client" /\ EchoClient!ClientInit
    \/ program = "echo_client1" /\ EchoClient1!ClientInit
    \/ program = "philosophers" /\ PhilosophersInit
    \/ program = "santa" /\ SantaInit
    \/ program = "life" /\ Life!Init
    \/ program = "mandelbrot" /\ Mandelbrot!Init
    \/ program = "mandelbrot_tiles" /\ MandelbrotTiles!Init
    \/ program = "mandelbrot_rounds" /\ MandelbrotRounds!Init
    \/ program = "fib" /\ Fibonacci!Init
    \/ program = "sieve" /\ Sieve!SieveInit
    \/ program = "fifo" /\ BoundedQueue!Init

Next ==
    /\ \/ program = "echo" /\ Echo!Next
       \/ program = "echo_server" /\ EchoServer!ServerNext
       \/ program = "echo_client" /\ EchoClient!ClientNext
       \/ program = "echo_client1" /\ EchoClient1!ClientNext
       \/ program = "philosophers" /\ PhilosophersNext
       \/ program = "santa" /\ SantaNext
       \/ program = "life" /\ Life!Next
       \/ program = "mandelbrot" /\ Mandelbrot!Next
       \/ program = "mandelbrot_tiles" /\ MandelbrotTiles!Next
       \/ program = "mandelbrot_rounds" /\ MandelbrotRounds!Next
       \/ program = "fib" /\ Fibonacci!Next
       \/ program = "sieve" /\ Sieve!SieveNext
       \/ program = "fifo" /\ BoundedQueue!Next
    /\ UNCHANGED program

\* A program goes on while any of its objects or descriptors can.
Spec == Init /\ [][Next]_vars /\ WF_vars(Next)
-----------------------------------------------------------------------------
\* The properties are stated in the programs' modules, with the code they are
\* about; here each is asked of the programs that have it.  OneSelect and OneRequest of
\* SelectLoop, ReindeerFirst of Santa and DeadlockExpected of Philosophers say
\* themselves which programs they are about.

\* Safety: Sockets!EchoesInOrder, of the programs with sockets.
EchoesInOrder ==
    /\ program = "echo" => Echo!EchoesInOrder
    /\ program = "echo_server" => EchoServer!EchoesInOrder
    /\ program = "echo_client" => EchoClient!EchoesInOrder
    /\ program = "echo_client1" => EchoClient1!EchoesInOrder

\* Liveness: the programs with sockets come to Sockets!Complete, unless
\* select_loop goes round its list of writers for ever (active_socket.cpp:254).
Completed ==
    /\ program = "echo" => Echo!Complete
    /\ program = "echo_server" => EchoServer!Complete
    /\ program = "echo_client" => EchoClient!Complete
    /\ program = "echo_client1" => EchoClient1!Complete
AllEchoed == <>Completed \/ <>[](program = "echo" /\ Echo!Scanning)

\* Safety: Life!DrawsGenerations.
DrawsGenerations == program = "life" => Life!DrawsGenerations

\* Safety: Mandelbrot!CurrentViewFinished.
CurrentViewFinished ==
    /\ program = "mandelbrot" => Mandelbrot!CurrentViewFinished
    /\ program = "mandelbrot_tiles" => MandelbrotTiles!CurrentViewFinished
    /\ program = "mandelbrot_rounds" => MandelbrotRounds!CurrentViewFinished

\* Safety: Fibonacci!Answers, Sieve!OnlyPrimes and BoundedQueue!AllReceived: what
\* the benchmarks' validate() asks of a run, and what it does not ask of the sieve
\* (bench2.cpp:208, 310, 638).
Validates ==
    /\ program = "fib" => Fibonacci!Answers
    /\ program = "sieve" => Sieve!OnlyPrimes
    /\ program = "fifo" => BoundedQueue!AllReceived
=============================================================================
