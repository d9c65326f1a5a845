-------------------------- MODULE ProgramInvariants -------------------------
(***************************************************************************)
(* The inductive invariants of the programs, from which ProgramProofs gets *)
(* their properties.                                                       *)
(***************************************************************************)
EXTENDS EchoServer, EchoClient, Santa, Philosophers, SharedLemmas

-----------------------------------------------------------------------------
(* Santa: the queue has the reindeer before the elves *)

People == Helpers \cup {SantaClaus}
Visit == [is : {"elf", "deer"}, who : Helpers]

SantaTypeOK ==
    /\ local \in [People -> [m_elves_waiting : Seq(Helpers),
                             m_deer_waiting : Seq(Helpers)] \cup {<<>>}]
    /\ local[SantaClaus] \in [m_elves_waiting : Seq(Helpers),
                                    m_deer_waiting : Seq(Helpers)]
    /\ box \in [People -> Seq(Visit \cup {Leave})]
    /\ box[SantaClaus] \in Seq(Visit)
    /\ todo \in [People -> Seq([to : People, msg : Visit \cup {Leave}])]
    /\ todo[SantaClaus] \in Seq([to : Helpers, msg : {Leave}])
    /\ \A h \in Helpers : todo[h] \in Seq([to : {SantaClaus}, msg : Visit])

\* No reindeer stands behind an elf.
DeerBefore(queue) ==
    \A i, j \in 1 .. Len(queue) : i < j /\ queue[j].is = "deer" => queue[i].is = "deer"

\* Reindeer that are complete do not wait.
SantaInv ==
    /\ SantaTypeOK
    /\ DeerBefore(box[SantaClaus])
    /\ Len(local[SantaClaus].m_deer_waiting) < Cardinality(Reindeer)

-----------------------------------------------------------------------------
(* select_loop: one do_select, in a program with the objects D *)

\* Messages that are answered, and not to select_loop or the kernel.
Requests == {"read", "write", "connect_in", "bind_in", "listen", "accept", "init"}
Sane(m) ==
    m.is \in Requests => "response" \in DOMAIN m /\ m.response \notin {Loop, Kernel}

\* What objects other than select_loop send.
Polite(c) ==
    /\ Sane(c.msg)
    /\ c.to # Kernel
    /\ c.to = Loop => c.msg.is \in {"read", "write"}

\* D are the objects of the program.
Mail(D) ==
    /\ Objects \subseteq D /\ Kernel \notin D
    /\ DOMAIN local = D /\ DOMAIN box = D /\ DOMAIN todo = D
    /\ \A o \in D : /\ IsSequence(box[o]) /\ \A m \in Range(box[o]) : Sane(m)
                    /\ IsSequence(todo[o])
    /\ \A o \in D \ {Loop} : \A c \in Range(todo[o]) : Polite(c)

LoopLists ==
    /\ {"readers", "writers"} \subseteq DOMAIN local[Loop]
    /\ IsSequence(local[Loop].readers) /\ IsSequence(local[Loop].writers)
    /\ \A r \in Range(local[Loop].readers) \cup Range(local[Loop].writers) :
          r.response \notin {Loop, Kernel}

Again == Plain("do_select")

\* select_loop's mailbox, and its calls, of which that to go on is the last.
LoopMail(b) ==
    /\ \A m \in Range(b) : m.is \in {"read", "write"} \/ m = Again
    /\ \A i, j \in 1 .. Len(b) : b[i] = Again /\ b[j] = Again => i = j
LoopCalls(s) ==
    /\ \A i \in 1 .. Len(s) - 1 : s[i].to \notin {Loop, Kernel}
    /\ \A c \in Range(s) :
          \/ c.to \notin {Loop, Kernel} /\ c.msg.is \in {"read_ready", "write_ready"}
          \/ c = DoSelect
          \/ c = To(Kernel, Plain("select"))
          \/ c.to = Kernel /\ c.msg.is = "scan" /\ c.msg.w \in Nat \ {0}

Asked(b) == Again \in Range(b)
Asks(s) == DoSelect \in Range(s)
AtWork(s) == \E c \in Range(s) : c.to \in {Loop, Kernel}

SelectInv(D) ==
    /\ Mail(D)
    /\ LoopLists
    /\ LoopMail(box[Loop]) /\ LoopCalls(todo[Loop])
    /\ ~(Asked(box[Loop]) /\ AtWork(todo[Loop]))
    /\ Asked(box[Loop]) \/ Asks(todo[Loop]) => ~NobodyWaits
    /\ ~NobodyWaits => Asked(box[Loop]) \/ AtWork(todo[Loop])

-----------------------------------------------------------------------------
(* One do_select: echo_server.cpp and echo_client.cpp *)

AllServerObjects == Objects \cup ServerObjects

AllClientObjects == Objects \cup ClientObjects

\* Clients tell another client, or the input object, that they are connected.
Notifies == \A f \in Range(Clients) :
               /\ "m_notify" \in DOMAIN local[Client(f)]
               /\ local[Client(f)].m_notify \notin {Loop, Kernel}

ClientInv == SelectInv(AllClientObjects) /\ Notifies

-----------------------------------------------------------------------------
(* What is in flight for somebody *)

\* k is a kind of messages.  Of it are requests and answers for the objects k.of,
\* connections k.fd that were accepted, init for k.init and connected for k.connected,
\* and what has a type in k.type but is not in k.at.
About(e, k) ==
    \/ /\ e.msg.is \notin {"init", "connected"}
       /\ \/ e.to \in k.of
          \/ "response" \in DOMAIN e.msg /\ e.msg.response \in k.of
    \/ e.msg.is = "accept_response" /\ ~e.msg.error /\ e.msg.fd \in k.fd
    \/ e.msg.is = "init" /\ e.to \in k.init
    \/ e.msg.is = "connected" /\ e.to \in k.connected
    \/ e.msg.is \in k.type /\ To(e.to, e.msg) \notin k.at

Concerning(b, c, k) == {x \in Flight(b, c) : About(Enveloped(b, c, x), k)}
Load(b, c, k) == Cardinality(Concerning(b, c, k))

\* Those of a list of readers or writers that belong to the objects O.
Waiting(s, O) == Cardinality({i \in 1 .. Len(s) : s[i].response \in O})

\* What is in flight of the kind, and in select_loop's lists.
Lists(l, O) == Waiting(l[Loop].readers, O) + Waiting(l[Loop].writers, O)
Underway(l, b, c, k) == Load(b, c, k) + Lists(l, k.of)

\* What arrives at a descriptor whose other end is not a peer.
Descriptor(l, g) ==
    /\ {"input", "coming", "peer"} \subseteq DOMAIN l[Fd(g)]
    /\ IsSequence(l[Fd(g)].input) /\ IsSequence(l[Fd(g)].coming)
    /\ l[Fd(g)].peer = FALSE
Arrivals(l, g, S) == Occurs(l[Fd(g)].input, S) + Occurs(l[Fd(g)].coming, S)

\* And one with connections: those that have yet to be accepted count as well.
Weight(l, b, c, k) == Underway(l, b, c, k) + Arrivals(l, k.listener, k.fd)

-----------------------------------------------------------------------------
(* One request: echo.cpp *)

\* What asks for the objects O, and what is not as it should be.
KindOf(O) == [of |-> O, fd |-> {}, init |-> {}, connected |-> {},
              type |-> {}, at |-> {}, listener |-> <<>>]
Stray(at) == [of |-> {}, fd |-> {}, init |-> {}, connected |-> {},
              type |-> {"accept", "init", "connected"}, at |-> at, listener |-> <<>>]

EchoInv ==
    /\ SelectInv(Objects)
    /\ Underway(local, box, todo, Stray({})) = 0
    /\ \A f \in Fds : Underway(local, box, todo, KindOf({Pipe(f)})) <= 1

-----------------------------------------------------------------------------
(* One request: echo_server.cpp *)

\* What is there of connection f: it has yet to be accepted, its connection is to be
\* started, or something is asked for its pipe.  Accepts are the requests to accept.
ServerKind(f) == [of |-> {Pipe(f), Connection(f)}, fd |-> {f}, init |-> {}, connected |-> {},
                  type |-> {}, at |-> {}, listener |-> Listener]
Accepts == {To(Socket(Listener), Ask("accept", Server))}

ServerRequestInv ==
    /\ SelectInv(AllServerObjects)
    /\ Underway(local, box, todo, Stray(Accepts)) = 0
    /\ Descriptor(local, Listener)
    /\ \A f \in Fds : Weight(local, box, todo, ServerKind(f)) <= 1

-----------------------------------------------------------------------------
(* One request: echo_client.cpp *)

\* A kind without connections: what asks for the objects O, init for I and connected
\* for J.
ClientKind(O, I, J) == [of |-> O, fd |-> {}, init |-> I, connected |-> J,
                        type |-> {}, at |-> {}, listener |-> <<>>]

HeldOf(l, b, c, O, I, J) == Underway(l, b, c, ClientKind(O, I, J))

\* The clients by their places in the chain, and the one that is to tell the i-th that
\* it is connected.
Nth(i) == Client(Clients[i])
Following(i) == IF i < Len(Clients) THEN {Nth(i + 1)} ELSE {}

\* What is on its way of: the answer to the i-th client's connect_in, with and without
\* the init that comes before it; what makes its neighbour's socket known to it; what
\* its pipe asks for; and what the pipe of standard input does, from the first init on.
Dials(i) == HeldOf(local, box, todo, {Nth(i)}, {}, {})
Connecting(i) == HeldOf(local, box, todo, {Nth(i)}, {Nth(i)}, {})
Expecting(i) == HeldOf(local, box, todo, Following(i), Following(i), {Nth(i)})
Copying(i) == HeldOf(local, box, todo, {Pipe(Clients[i])}, {}, {})
Entering(f) == HeldOf(local, box, todo, {Pipe(f), Nth(1)}, {Nth(1)}, {InputObject})

IsConnected(i) == IF local[Nth(i)].m_connected THEN 1 ELSE 0
HasPipe(i) == IF local[Nth(i)].m_pipe THEN 1 ELSE 0

ClientMembers(i) ==
    /\ {"m_notify", "m_connected", "m_pipe"} \subseteq DOMAIN local[Nth(i)]
    /\ local[Nth(i)].m_connected \in BOOLEAN /\ local[Nth(i)].m_pipe \in BOOLEAN

ChainLink(i) ==
    /\ ClientMembers(i)
    /\ Dials(i) = 0 \/ local[Nth(i)].m_notify = Before(i)
    /\ Connecting(i) + IsConnected(i) <= 1
    /\ Expecting(i) + HasPipe(i) <= 1
    /\ Copying(i) <= IsConnected(i) /\ Copying(i) <= HasPipe(i)

Settled == {To(Nth(i), Ask("init", Before(i))) : i \in DOMAIN Clients}
              \cup {To(o, Connected(f)) : o \in ClientObjects, f \in Range(Clients) \cup {StdOut}}

ClientRequestInv ==
    /\ ClientInv
    /\ Underway(local, box, todo, Stray(Settled)) = 0
    /\ \A i \in DOMAIN Clients : ChainLink(i)
    /\ \A f \in Fds \ Range(Clients) : Entering(f) <= 1

-----------------------------------------------------------------------------
(* Philosophers: where the forks are *)

Table == Philosophers \cup Forks

\* The forks of a philosopher, and the philosophers of a fork.
Sides(p) == {Left(p), Right(p)}
Owner(f) == Philosopher(f[2])
Neighbour(f) == Philosopher(IF f[2] = 1 THEN N ELSE f[2] - 1)
Users(f) == {Owner(f), Neighbour(f)}

\* What they send each other.
Begins(p) == To(p, Plain("start"))
AsksFor(p, f) == To(f, Pickup(p))
Gives(p, f) == To(p, Pickup(f))
PutsDown(f) == To(f, Plain("putdown"))

TableOK ==
    /\ Lines(box, todo, Table) /\ DOMAIN local = Table
    /\ \A p \in Philosophers :
          /\ local[p] \in [m_forks : {0, 1}]
          /\ Range(box[p]) \subseteq {Plain("start")} \cup {Pickup(f) : f \in Sides(p)}
          /\ Range(todo[p]) \subseteq UNION {{AsksFor(p, f), PutsDown(f)} : f \in Sides(p)}
    /\ \A f \in Forks :
          /\ local[f] \in [available : BOOLEAN, waiting : Users(f) \cup {Nobody}]
          /\ Range(box[f]) \subseteq {Plain("putdown")} \cup {Pickup(p) : p \in Users(f)}
          /\ Range(todo[f]) \subseteq {Gives(p, f) : p \in Users(f)}

\* How often e is on its way, and whether p has yet to be given f: it has not
\* begun, or asks for it, or waits for it.
Count(e) == Flying(box, todo, {e})
IsWaiting(p, f) == IF local[f].waiting = p THEN 1 ELSE 0
Wants(p, f) == Count(Begins(p)) + Count(AsksFor(p, f)) + IsWaiting(p, f)
Lies(f) == IF local[f].available THEN 1 ELSE 0

\* A philosopher gets each of its forks once.
Served(p) ==
    /\ \A f \in Sides(p) : Wants(p, f) + Count(Gives(p, f)) <= 1
    /\ local[p].m_forks + Wants(p, Left(p)) + Count(Gives(p, Left(p)))
          + Wants(p, Right(p)) + Count(Gives(p, Right(p))) = 2

\* A fork lies on the table, or is put down, or one of its users does not want it.
Placed(f) == Lies(f) + Count(PutsDown(f)) + 1 = Wants(Owner(f), f) + Wants(Neighbour(f), f)

\* Who puts down a fork asks for it afterwards.
Returns(p, f) ==
    /\ local[f].waiting # p
    /\ \/ Ahead(todo[p], PutsDown(f), AsksFor(p, f)) /\ Pickup(p) \notin Range(box[f])
       \/ Ahead(box[f], Plain("putdown"), Pickup(p))
InTurn(f) == Count(PutsDown(f)) > 0 => \E p \in Users(f) : Returns(p, f)

\* Where the forks are that are not on the table, nor with somebody who has one.
Moving == {To(o, Pickup(f)) : o \in Table, f \in Forks} \cup {PutsDown(f) : f \in Forks}
OnTable == {f \in Forks : local[f].available}
Waiters == {p \in Philosophers : local[p].m_forks = 1}
AllThere == Cardinality(OnTable) + Flying(box, todo, Moving) + Cardinality(Waiters) = N

TableInv ==
    /\ TableOK
    /\ \A p \in Philosophers : Served(p)
    /\ \A f \in Forks : Placed(f) /\ InTurn(f)
    /\ AllThere
=============================================================================
