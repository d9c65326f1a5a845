# cppao in TLA+

cppao is a C++ library of *active objects*. A call of an active method
(`ACTIVE_METHOD`) does not run the method: it puts a message in the object's
queue, and some thread runs the object's messages later, one at a time and in
order. What makes an object "active" is put together from three template
parameters: a *queue* (what a call does with the message), a *schedule* (which
thread runs the messages) and a *sharing* policy (who keeps the object alive).

This directory holds TLA+ modules that model the library from its source, TLC
configurations that check them, and TLAPS proofs about them. `PROJECT.json` maps
each definition to the source lines it stands for, and lists for every property
a mutant of the model (a plausible mistake in the code) that violates it.

Contents: [1 the system](#1-the-system) - [2 the modules](#2-the-modules) -
[3 the runs](#3-the-runs) - [4 fairness](#4-fairness) -
[5 the proofs](#5-the-proofs) - [6 what was found](#6-what-was-found) -
[7 what is not modelled](#7-what-is-not-modelled) - [8 the plan](#8-the-plan) -
[9 how to run it](#9-how-to-run-it)

Paths below are relative to the repository's root; `object.hpp` and the other
headers are in `include/active/`, `active_object.cpp` and `atomic.cpp` in `lib/`.

## 1 The system

### 1.1 Components

| component | state | operations | modelled in |
|---|---|---|---|
| `scheduler`, `run` (scheduler.hpp, active_object.cpp:11-160) | list of activated objects, `m_busy_count`, mutex and condition variable | `activate`, `start_work`, `stop_work`, `run`, `run_managed`, `locked_run_one`, `run_one`; `run::run`, `run::~run` | `Pool` |
| `queueing::shared` + `object_impl` under `schedule::thread_pool` (object.hpp) | `m_queue` and its mutex | `enqueue_fn2`, `enqueue_fn`, `run_some`, `run`, `clear`, exception handler | `Pool` |
| `atomic_fifo` (atomic.cpp) | `input_queue`, `output_queue`, `next` of each node | `push`, `pop` | `AtomicFifo`, `AtomicFifoRelaxed` |
| `schedule::own_thread`, `sharing::enabled` (thread.hpp, shared.hpp, active_object.cpp:184-290) | `m_object`, `m_shared`, `m_shutdown`, the thread, `m_activated` | `activate`, `thread_fn`, `~own_thread`; `activate`, `deactivate` of the sharing policy | `OwnThread` |
| `fifo` (fifo.hpp) | list of memory chunks ("chains"), `m_size` | `push`, `pop`, `front`, `truncate`, `empty`, `size`, `~fifo` | `FifoChain` |
| `queueing::advanced`, `idle` (advanced.hpp, active_object.cpp:142) | priority queue, capacity, policy, `m_activated`, condition variable | `enqueue_fn`, `run_some`, `clear`, `idle`; `set_capacity`, `set_policy` | `Advanced` (not the two setters) |
| `queueing::eager` (fast.hpp) | a second mutex, tried and not waited for | `enqueue_fn` (may run the call at once), `run_some` | `Calls` |
| `queueing::mutexed_call`, `direct_call` (synchronous.hpp, direct.hpp) | a recursive mutex; nothing | `active_fn` calls the method | `Calls` |
| `promise`, `wait`, `sink` (promise.hpp, sink.hpp) | a `std::promise`/future | `send`, `get`; `wait` runs other objects until the future is ready (Boost) or blocks (C++11) | `Calls` |
| sockets and echo programs (samples/active_socket.*, echo*.cpp) | lists of readers and writers in `select_loop`, a wake-up pipe, a buffer per `pipe` | `select`, `do_select`, `read`, `write`, `accept`, `connect`, the `pipe` protocol | `SelectLoop`, `Sockets`, `EchoServer`, `EchoClient` |
| philosophers, santa, life, mandelbrot, fib, sieve2 (samples/) and the Fibonacci, sieve and buffered-queue benchmarks (bench2.cpp) | members of the objects | their active methods | `Philosophers`, `Santa`, `Life`, `Mandelbrot`, `Fibonacci`, `Sieve`, `BoundedQueue` |
| `atomic_lifo`, the other samples and benchmarks, tests, build files | - | - | not modelled, section 7 |

### 1.2 How they interact

A sender calls `enqueue_fn` on the queue policy, which pushes under the queue's own
mutex and, **after releasing it**, activates the object if the queue was empty.
`schedule::thread_pool` passes the activation on to the scheduler's list;
`own_thread` puts the object in its own thread's mailbox. A thread takes the
object and calls back `run_some` (pool) or `run` (own thread), which runs each
message with the queue's mutex released, so the methods and other senders push
meanwhile. Nobody but these few steps knows that an object has work: a lost
activation is a message that never runs, and a duplicated one lets two threads
into one object.

`m_busy_count` ties the parts together. It counts the threads that look for
work, the pending activations of own-thread objects and the `active::run` object
itself; a worker that finds the list empty and the count at zero goes home. The
lock-free build (`ACTIVE_USE_CXX11`) takes away the mutex that joins the list
and the count.

Three kinds of object do without the scheduler for some or all calls. An eager
object is run by its caller whenever nobody else is in it, and by a worker
otherwise, so two ways into one object meet at a mutex; a synchronous or direct
one is always run by its caller. A caller that waits for an answer blocks its
thread, or, in the Boost build, lets it run other objects *on top of* the
waiting method. From then on a thread is a stack of methods of different
objects, and "one message of an object at a time" is about stacks.

Shared objects keep themselves alive: `sharing::enabled::m_activated` and
`own_thread::m_shared` are references an object holds on itself while it has
work. Whoever drops the last one, a caller or the object's own thread, runs the
destructor.

### 1.3 What is hard, and the properties that make it correct

| part | hard behaviour | correctness |
|---|---|---|
| pool | activation decided under one lock and made outside it; a thread that stops after n messages; the decision to go home; two builds | `SingleActivation`, `NoLostActivation`, `Implements` (the promise to callers, `Actors`), `RunDrains`, `LockfreeDelivery`, `Termination` |
| atomic FIFO | two lists, one turned round in place while others push; spurious failures; memory order | `Linearizable` (the promise, `FifoQueue`), `NoNodeLost`, `OneOwner`, `BusyEnds`, `LockFree` |
| own thread | second activation during a run; last reference dropped anywhere; join or detach; count that must balance | `DestroyedQuiet`, `BusyExact`, `Reclaimed`, `JoinEnds`, `ThreadNotices` |
| advanced queue | `idle` nests calls of `run_some` on one stack; the mutex is given up between test and use; the whole pool may block | `SingleActivation`, `NoLostActivation`, `NearCapacity`, `Unblocks` |
| kinds of call, promises | two ways into an eager object; recursive locks; waits that run other objects or block a worker | `Exclusive`, `NoLostActivation`, `Settles` |
| container | messages of different sizes over several chains; a copy that throws half way; reuse of the last chain | `InBounds`, `EmptyAgrees`, `Balance`, `Implements` (the promise, `MessageQueue`) |
| sockets | a buffer shared by address between reader and writer; three places that ask for the next `do_select`; a wake-up byte that races with the request; short reads and writes | `OneRequest`, `OneSelect`, `EchoesInOrder`, `AllEchoed`, `WritersServed` |
| programs | answers in any order; a fork that remembers one waiter; generations that must not mix; views stopped before they are started; wake-ups of several for one place | `DeadlockExpected`, `ReindeerFirst`, `DrawsGenerations`, `CurrentViewFinished`, `Validates` |

`PROJECT.json` lists every hazard at its line, with the reason where no property
covers it.

## 2 The modules

    Actors <---------- Pool <---- MCPool, PoolProofs
    FifoQueue <------- AtomicFifo <---- MCAtomicFifo, AtomicFifoRelaxed, AtomicFifoProofs*
    MessageQueue <---- FifoChain <---- FifoChainProofs*
                       OwnThread <---- OwnThreadProofs
                       Advanced <---- MCAdvanced, AdvancedProofs*
                       Calls <---- MCCalls, CallsProofs*
    Runtime <--- SelectLoop <--- Sockets <--- EchoServer, EchoClient, MCSelectSpins
            <--- Philosophers, Santa, Life, Mandelbrot, Fibonacci, Sieve, BoundedQueue
                 all of them <--- MCPrograms
                 EchoServer, EchoClient, Santa, Philosophers <--- ProgramInvariants* <--- ProgramProofs

A star is for a module that also extends `SharedLemmas`, which like `Runtime` extends
`Traffic`. In the first three lines the left column says what a component promises, and
`<---` on its right is "implements" (an `INSTANCE ... WITH` and the abstract
`Spec` as a property); the others are `EXTENDS`, but for `MCPool` (which also
has `Pool` as an instance for the other build) and `MCPrograms` (which extends
`SelectLoop`, `Santa` and `Philosophers` for their properties, and has the other
programs as instances). The promises also say how the parts fit: `Pool` uses
the activation list as a sequence, which `Linearizable` shows `atomic_fifo` to
be, and the queue of an object as a sequence, which `FifoChain`'s `Implements`
shows `fifo` to be. The three are not model-checked as one state machine.
`Advanced` and `Calls` stand for `Pool` with other queues: they share the list's
part, which they keep short (no start, no end, no count), since what is new in
them is the nesting of calls. `Runtime` is the promise of `Actors` in executable
form, a mailbox for each object, first in, first out; the programs are built on it.
`Traffic` has what needs no state for that: a message, a call, and `Among`.

### 2.1 Pool

One step is one critical section, or the code between two accesses to shared
state. `pc[t]` says where thread `t` is between two steps; the comment in the
module explains each place.

| action | code |
|---|---|
| `Send`, `Signal` | `enqueue_fn` and `enqueue_fn2` (object.hpp:159-165, 331-339): push under the queue's mutex, then the activation outside it |
| `Enter`, `Fetch`, `Leave`, `Wake` | `run`, `run_managed` and `locked_run_one` (active_object.cpp:48-140). In the lock-free build `pop` and `--m_busy_count` are two steps (`Fetch`, `Leave`), in the Boost build one |
| `Begin`, `EndMethod`, `Resched` | `run_some(n)` (object.hpp:178-198, 312-329): test, method, pop and test in one critical section; activate again when n is used up |
| `Clear` | `clear()` called by a method: everything but the running message |
| `RunCtor`, `StopWork`, `Join` | `run::run` and `run::~run` |
| `RunInline` | the main thread calls `scheduler::run()` |

`Lockfree` selects the build: an atomic FIFO and an atomic counter, or a LIFO
list and a counter under `m_mutex`. A method that throws goes to
`exception_handler` and is popped like one that returns, so `EndMethod` stands
for both. Messages are a finite set of *instances*; one that has run may be sent
again, so behaviours are infinite though the state space is finite.

### 2.2 AtomicFifo and AtomicFifoRelaxed

Every load, store, exchange and compare-and-swap on shared memory is a step; the
exchanges of `acquire` that find `busy` change nothing and are stuttering.
`AtomicFifo` makes stores visible in program order, as an x86 build does.
`AtomicFifoRelaxed` reuses its actions and lets the plain store `n->next = i`
arrive at any later time, as `memory_order_relaxed` on the swap allows.
`FifoQueue` is the linearizable queue, with call, effect and return as separate
steps; the refinement maps the two lists, and the one that a `pop` has in hand,
to one sequence, so the *linearization point* is checked and not just the ends.

### 2.3 OwnThread

One object, plain or shared (`sharing` is chosen in `Init`), its thread and any
number of callers. References (`shared_ptr`) are Booleans per holder, and
`Referenced` is their disjunction: the object goes at the step that makes it
false, whoever takes that step. Both notifications of `m_ready` are made under
`m_mutex`, so a wait is the action not being enabled and no wake-up is lost.
`run()` runs `run_some` until the queue is empty, so the 100 of `run_some` does
not show. A plain object is destroyed by its owner after `active::run` has
returned, i.e. with `busy = 0`, as the tests do. Place `dangling` is where the
thread would lock a mutex that has been freed: what happens next is undefined,
so nothing is modelled after it.

### 2.4 FifoChain

Memory is counted in words of 8 bytes, the alignment that `aligned_size` rounds
to, on a 64-bit build (chain header 4 words, entry header 1, minimum chain 25).
A chain is its messages with the offset behind each, and its three offsets; the
addresses are left out. `PushThrows` is `push` with a copy constructor that
throws after `reserve` has changed the list. `swap`, which nothing calls, is
left out.

### 2.5 Advanced

`queue[o]` holds the priorities of the object's messages in the order in which
they will run; `m_sequence` makes that order total, so a heap is a sequence into
which `Enqueue` inserts behind the messages of the same or a higher priority
(`Before`). `stack[t]` is what thread `t` has on its call stack: one record for
each `run_some` that it is in, with the call its method is making. Only the top
one runs. `Main`, a thread outside the pool, has one record that never ends.

| action | code |
|---|---|
| `Send` | `enqueue_fn` up to the first time it returns, throws or unlocks: the switch over the policies (advanced.hpp:86-161) |
| `Idle` | `o->idle()`, i.e. `scheduler::run_one`: pop an object and call its `run_some` *on top of* the method that sends; nothing if the list is empty |
| `Check` | the tests of both loops after `lock.lock()` (advanced.hpp:121-131); a timed wait is the time a thread spends before it takes this step, which needs no notification since the wait ends after 50 ms |
| `Signal`, `Take` | the activation, and `locked_run_one` of a worker, as in `Pool` |
| `Begin`, `EndMethod`, `Resched` | `run_some(n)`: unlike `queueing::shared`, this queue pops a message *before* it runs it, so the queue of a running object may be empty and `m_activated` tells senders what to do |
| `Clear` | `clear()` called by a method |

`Sends` says which objects send to which, and with what priorities, so that the runs and the proofs can
ask about one shape of program or about all. `SingleActivation` is about calls
rather than threads: an object is never entered twice, not by another thread and
not by the thread that is in the middle of it.

### 2.6 Calls

Four objects' worth of `enqueue_fn`, selected by `Kind[o]`, on stacks of calls.
A message is the sink that it carries (`reply`), so that a method can answer it,
hand it on in a call of its own, or ask with a promise of its own and wait.

| action | code |
|---|---|
| `Send`, `Ask` | a call without or with a promise. `direct_call` and an eager object whose mutex is free run the method at once, pushing a frame; `shared` queues; `mutexed_call` and an eager object that is taken leave the caller between two steps |
| `QueueInstead` | eager's fall-back to `Queue::enqueue_fn`, whoever has the mutex by now (fast.hpp:41) |
| `Signal` | the activation, outside the queue's mutex |
| `Lock` | the caller has the recursive mutex, which its own thread may have already |
| `Answer`, `Wait`, `Get`, `Idle` | `promise::send`; `get`, which in the Boost build runs `idle` until the future is ready and in the C++11 build blocks at once, because `valid()` is true from the start (promise.hpp:43-51) |
| `Take`, `Begin`, `EndMethod`, `Resched` | `run_some`, which for an eager object returns TRUE at once, to be rescheduled, if it does not get the mutex (fast.hpp:53-54) |

`Inside(o)` is the set of calls that are between the lock and the unlock of `o`'s
mutexes; nothing else stands for the mutexes. A `try_lock` by the thread that
has the mutex is undefined behaviour of `std::mutex`; here it fails, as it does
with POSIX threads. `build` is chosen once and for all.

### 2.7 Runtime and the programs

`Runtime` gives a program objects with members (`local`), mailboxes (`box`) and,
for a method in progress, the calls it still has to make (`todo`). `Gets` and
`Does` take a message and leave the method's calls; `Call` makes one of them, so
the calls of a method interleave with everything else, as do the messages of
different senders. At most `Threads` methods are in progress.

- **SelectLoop**, **Sockets**: `select` and `select_loop` of active_socket.cpp;
  `socket`, `reader`, `writer` and `pipe` on top of them, with `echo.cpp` as the initial
  state. The kernel is an environment of its own: bytes arrive one at a time, a read takes any part of
  what there is and a write any part of what it is given, each may fail,
  descriptors in `Stalls` may be full for a time, and the other end of one in
  `Peers` sends back what it gets. The scan of the writers in `select_loop` goes one
  turn per step, with its two increments of the iterator as they stand.
- **EchoServer**, **EchoClient**: connections that are accepted and become pipes
  back to themselves; a chain of clients, each of which hears of its own and of
  its neighbour's connection in either order.
- **Philosophers**, **Santa**, **Life**, **Mandelbrot**: every method of the four
  programs. Santa's mailbox inserts by priority. `Life` has the torus, its
  `Directions` (neighbours, fewer on a small torus) and the first generation as
  constants; `add_neighbour`, sent before the start, is counted as received.
  `Mandelbrot` keeps which region a picture shows and which tiles and iterations
  are done, not the numbers; the GLUT thread, which changes the window's region
  without a lock, is an object of its own, and `NavigateTo` makes its writes to that region,
  and its copy of it, in steps of their own. What was chosen last is remembered (`chosen`).
- **Fibonacci**, **Sieve**, **BoundedQueue**: the sample and the benchmark of each
  name. Bench2 runs its tree of nodes again and again with what the last run left in
  them; its buffered queue is a synchronous object, so callers run it, with the
  calls it makes under the caller's name.

## 3 The runs

| run | what it shows | bounds |
|---|---|---|
| `pool` | `TypeOK`, `SingleActivation`, `NoLostActivation`, `RunDrains`, `Implements`, `LockfreeDelivery`, `Termination`, both builds | 2 workers, 2 objects, 3 messages, budget 1; 15,000 states |
| `pool_one_worker` | **violation** of `RunDrains` in the lock-free build with one worker (section 6) | 1 worker, 2 objects, 2 messages |
| `atomic_fifo` | `TypeOK`, `OneOwner`, `NoNodeLost`, `Linearizable`, `BusyEnds`, `LockFree` | 3 threads, 3 nodes; 34,000 states |
| `atomic_fifo_relaxed` | **violation** of `NothingLostAtRest` when stores may be late | 2 threads, 2 nodes |
| `own_thread` | `TypeOK`, `DestroyedQuiet`, `BusyExact`, `Reclaimed`, `JoinEnds`, plain and shared objects | 3 callers, 3 messages queued, budget 2; 3,800 states |
| `own_thread_destroyed` | **violation** of `ThreadNotices`: a shared object freed inside its own `run()` | 2 callers |
| `fifo_chain` | `InBounds`, `EmptyAgrees`, `Balance`, `Implements` | 4 messages of 2, 10 or 20 words; 58,000 states |
| `fifo_chain_large` | **violation** of `InBounds` by a message of 168 bytes | sizes 2, 20 and 21 words |
| `advanced` | `TypeOK`, `SingleActivation`, `NoLostActivation`, `NearCapacity`, `Unblocks` under all four policies | 2 sources and a sink, 2 workers, priorities 0 and 1, capacity 1, budget 1, any number of calls; 146,000 states |
| `calls` | `TypeOK`, `Exclusive`, `NoLostActivation`, `Settles`, both builds | one object of each kind, 2 workers and Main, 2 promises, budget 1, 5 calls; 261,000 states |
| `programs` | `OneRequest`, `OneSelect`, `EchoesInOrder`, `AllEchoed` of the socket programs; `DeadlockExpected`, `ReindeerFirst`, `DrawsGenerations`, `CurrentViewFinished`, `Validates` of the others | 13 programs, see `MCPrograms`; 468,000 states |
| `select_spins` | **violation** of `WritersServed`: `select_loop` goes round its list for ever | 2 bytes, one descriptor that stalls, 2 threads |

Why these bounds are enough to be interesting:

- *Pool.* Two objects let one object send to another while a second thread runs
  it; one worker can be about to go home while the other is on its way from the
  timed wait, and Main's inline `run()` is a third thread. With more messages
  than the budget `Resched` happens while senders push. The theorems are for any
  number of everything.
- *AtomicFifo.* One thread turning round a list of two nodes while another
  pushes and a third spins needs three of each. More nodes than threads in the
  lists occur since nodes stay in the queue.
- *OwnThread.* Two callers suffice for an activation during a run; the third
  drops its handle meanwhile. `CHECK_DEADLOCK FALSE` (both runs): when
  everybody has dropped the object and the thread has exited, the system has
  stopped.
- *FifoChain.* A chain of 25 words holds seven messages of 2 words, one of 10
  with others, or one of 20: four messages fill one chain, spread over up to
  four, and leave every one of them empty at some time. `Push` takes messages
  that are not in the queue, so the number of messages is also the bound on its
  length.
- *Advanced.* Two sources with a common sink can each block with the sink's queue
  full, on both workers at once, while `Main` blocks on the sources; so stacks of
  three calls occur. Two priorities let a message in that finds its queue full,
  once; one of the sources sends with both, so its calls may overtake those of the
  other. The number of calls has no bound, so nothing in the behaviours makes the
  sending cease; the queues are kept short by their capacity, and under
  `policy::ignore`, where nobody blocks, by `MaxQueue`, one above the capacity.
- *Calls.* Main asks the basic object, which asks the eager one, so a worker
  waits for an answer that another worker, or `idle` on top of it, has to bring;
  Main calls the eager object too, so a worker finds its mutex taken; the mutexed
  object calls itself, so its lock is taken twice by one thread, and is called by
  both of them. `MaxSends` ends behaviours (`CHECK_DEADLOCK FALSE`).
- *The programs.* Three bytes through a buffer of two make reads and writes
  partial; two connections make accept and echo overlap; three philosophers
  can each take one fork; three elves, in groups of two, leave one over;
  two generations are the least in which a message can belong to the wrong one;
  three views are the least in which one is stopped before it is started and
  itself starts a third. `CHECK_DEADLOCK FALSE`: the programs end, the philosophers by
  the deadlock they advertise.

## 4 Fairness

`FairSpec` everywhere means that the operating system keeps scheduling threads
that are in the middle of library code: weak fairness of each thread's own
steps. No caller is ever obliged to send, to drop a handle, to stop the
scheduler or to call `pop`. In `Calls` a thread's own steps include the end of a
method, and `MaxSends` bounds the calls, so methods return. Additions:

- `SF(EndMethod)` in `Pool`: a method that sends keeps changing between "in the
  method" and "activating the receiver", and returns at last. Methods that never
  return are outside what a scheduler can promise.
- `SF(Returns)` in `Advanced`, for every object: the same of its methods, which may
  make any number of calls and be blocked in any of them. It does not ask anybody
  to stop: `Main` and the methods of the other objects may send again each time
  there is room. Hence the form of `Unblocks`, next to which
  `WaitsFor(t) # {} ~> WaitsFor(t) = {}` is false (section 6).
- `TimedSpec` in `Pool`: in the lock-free build two workers can look at the
  empty list and each find the other busy for ever, if every time one is about
  to go home the other returns from its 50 ms wait (active_object.cpp:133). The
  strong fairness of `Fetch` and `Leave` *while `busy = 1`* says that this does
  not happen every time, because the steps take far less than the wait.
  `BuildSpec` of `MCPool` asks it of the lock-free build and not of the other.
- `LockFree` assumes nothing but that weak compare-and-swaps do not fail for no
  reason for ever (`PushSpurious`).
- `programs`: weak fairness of the whole next-state relation. A program goes on
  while anything in it can; which part goes on is not said. `AllEchoed` holds
  even so, because every step brings the echo nearer to its end, with the one
  exception that it names: the endless scan of finding 5.
- `select_spins`: weak fairness of every object and of the kernel
  (`Sockets!FairSpec`), so that the refutation is not a matter of scheduling. Its
  trace ends in a scan whose rounds lead back to the same state.

## 5 The proofs

Each theorem holds for every value of the constants under the module's
assumption (`PoolAssumption`, `FifoAssumption`, `OwnThreadAssumption`,
`ChainAssumption`, `AdvancedAssumption`, `CallsAssumption`, `SantaAssumption`; for
`OneRequest` of the socket programs `SocketsAssumption`, `ServerAssumption` and
`ClientAssumption`; `OneSelect` needs none, `DeadlockExpected` that `N` is not 0 or
1); the bounds of the
runs play no role in them. TLC evaluated each inductive invariant as an
invariant before it was proved.

**PoolProofs.** `TypeCorrect`, `SingleActivationHolds`,
`NoLostActivationHolds`, `LockedRunDrains` (`RunDrains` where `~Lockfree`),
`LockfreeRunDrains` (where `Lockfree`, with at least two workers),
`PoolImplementsActors`. The properties are about positions in a list and sets of
holders; none is inductive. `IInv` says the same in terms of `Range(activated)`,
`cur` and `target` (`Alone`, `Duty`) and adds what makes them inductive:
`PlaceOK` (a thread has an object exactly in the places where the code has one),
`PhaseOK` (where threads can be in each phase of the run object's life) and
`BusyOK` (`m_busy_count` is the number of threads in counted places, plus one
for the run object). Two lemmas turn `Alone` and `Duty` back into
`SingleActivation` and `NoLostActivation`. `LockedRunDrains` is the argument the
code relies on: when a thread finds the list empty *and* brings the count to
zero in one step, no thread is running an object and none is about to activate
one, so by `Duty` no queue has a message. In the lock-free build it is two
steps, and for one worker it is false. For two or more it is true for a reason
that the code does not state: a worker that finds the list empty leaves messages
behind only with another thread that holds their object, and the first worker to go
home does so at count zero, when every other worker is in its timed wait or on
its way to look at the list again (`OthersUncounted`). So while somebody has gone
home and messages are left, some worker has yet to look (`Awake`).

**AtomicFifoProofs.** `FifoTypeCorrect`, `OneOwnerHolds`, `NoNodeLostHolds` and
`FifoLinearizable`, for any threads and any finite set of nodes. The first two
(the busy node never gets into a list or a thread's hands; `output_queue` has one
owner) need each other: `IInv`, that is `TypeOK /\ HandOK /\ OneOwner`, is inductive,
as only the owner of `output_queue` may write something other than `Busy` there.
For the other two `LInv` adds the shape of the memory: what `input_queue`,
`output_queue` and the owner's two pointers point to are lists that end (`Lists`), a
pusher's node points to the head that it loaded (`Memory`), and the nodes with
the callers, in the queue, and in the hands of the threads are parts of `Nodes`
that do not meet (`Places`). The queue a caller sees is output list, what is left
to turn, reversed, and input list, reversed; that this is one sequence
without a node twice is what keeps the writes to `next` apart: whoever
writes to a node has it alone. A step is described by what it does to the queue,
to the thread's hand and to the free nodes (`Makes`); the five kinds of step there are keep
`Places`, and are the steps of `FifoQueue` or stutters. So a push
takes effect at the compare-and-swap that publishes its node, a pop where it takes
a node from the front or sees that there is none, and turning a list round is invisible.

**OwnThreadProofs.** `OwnThreadTypeCorrect`, `DestroyedQuietHolds`,
`BusyExactHolds`. The argument: the queue has messages exactly while *one*
holder answers for them, a caller about to activate, the mailbox `m_object` or
`run()` (`Holder`, `OneCaller`); the holder of a shared object has a reference
(`HolderRefers`); so the last reference goes only when the queue is empty.
`Unused` and `Ended` say what is null when, and that the object is alive exactly
while it is referred to. The theorem says that the object is at rest when it
goes. It does *not* say that its thread knows: see section 6.

**FifoChainProofs.** `ChainsHold`, `EmptyMeansNoMessages`, `EmptyAgreesHolds`,
`BalanceHolds` and `FifoImplementsQueue`, for messages of at most 160 bytes
(`SmallMessages`: without it the first is false, section 6) in any number and
mixture. `IInv`: the messages of a chain lie one behind another between its
offsets (`Laid`), and only the last chain may be empty (`Filled`). The second
part is why `empty()` may look at the first chain only, and why `reserve` never
forgets a list with messages in it: a new chain of 25 words always has room for
a message of 160 bytes, so an empty head is never found too small. `QInv` adds
the account of messages (`Accounted`): `m_size` is the number in the chains, the
messages built and not destroyed are those in the chains, none of them twice. With the lemmas
on concatenated chains (`ContentsAppend`, `ContentsHeadTail`) each operation then does
to the order of the messages what `MessageQueue` says, and a `push` that throws does
nothing to it although it may leave a new, empty chain behind.

**SharedLemmas.** What the other modules share. The handover of objects, stated of any threads
`T`, stack heights `N`, roles `R[t][i]` (the objects that call `i` of thread `t` has) and
list `L`: if no object is in two places (`Alone`) and a step changes one stack at
its top (`Step`) and lets objects pass between top and list, bringing in only
objects that nobody had (`Passed`), then no object is in two places afterwards,
and `Held` changes as one would expect (`Handover`). `HandoverShared` is the same for
roles that one thread may have twice. Then induction over the numbers, as a fact about
*sets* of numbers (`NatSetInduction`), and that a recursive function obeys its equation
(`Recursion`): the theorems of the library that say the same take an
operator, which the provers here cannot instantiate. With them come the facts about
`FlattenSeq` and `Reverse`, and about sequences that lists and stacks need.

**AdvancedProofs.** `AdvancedTypeCorrect`, `NearCapacityHolds`,
`AdvancedSingleActivation` and `AdvancedNoLostActivation`, for any objects,
senders, priorities and capacity of at least 1. `policy::block` lets a message of a high priority into a full
queue ("higher priority messages get delivered anyway"), so the capacity is no
bound; what is one is that the messages in excess, at the head of the queue,
have strictly falling priorities, so there are fewer of them than priorities.
That is inductive together with the order of the queue (`Decreasing`) and with
what the places of a stack say of the call in progress (`GoodFrame`): a message
let in above the capacity is higher than the head, and so becomes it. The proof
has one lemma for inserting and one for taking a message, and needs nothing of
what happened during `idle`, since the test is made again under the lock.
The activations are `AInv`: `Alone` of the calls and the list, and `Duty`, that
`m_activated` is set exactly for the objects that are held. An object is
entered only from the list, and one that is in a method is not on it.

**CallsProofs.** `CallsTypeCorrect`, `ExclusiveHolds` and
`CallsNoLostActivation`, for any objects of the four kinds, any program of calls
and waits, any number of threads, both builds. A call plays three roles, each a function from frames
to sets of objects: it answers for the messages of an object (`Duties`), it has
the mutex of an eager one (`Tried`), it has the recursive mutex of a mutexed one
(`Locked`). The invariant is `Alone` for the first two and `OnOneThread` for the
third, and `Duty`: a queue has messages exactly while somebody answers for them.
For basic objects `Exclusive` follows from `Duties`, since only `run_some` enters
them; for eager ones it does not, a caller may be inside while `run_some` is on
another stack, waiting or about to give up; there it follows from `Tried`. Every
action is one of four changes of one stack (`AfterReplace`, `AfterPush`,
`AfterLeave`, `AfterStart`), and most of them leave all duties where they are.

**ProgramProofs.** `ReindeerFirstHolds`, for any elves and reindeer;
`OneSelectHolds`, `ServerOneSelectHolds`, `ClientOneSelectHolds`, and
`OneRequestHolds`, `ServerOneRequestHolds`, `ClientOneRequestHolds`, for any
descriptors, connections and clients, any buffer size and number of threads;
`DeadlockExpectedHolds`, for any number of philosophers but one. The invariants
stand in `ProgramInvariants`; what the proofs know of sequences, and of how much is
in flight, is in `SharedLemmas`.

Santa's queue has its reindeer before its elves (`SantaInv`), and his group of
reindeer is never all of them between two messages, since the last one dismisses
it. So if all were there, one would be at the head of the queue, and the
message that Santa takes is not an elf's. The lemmas on `Among`, which selects
from a sequence, say that it keeps their order and loses nothing, so inserting
by priority does what it should.

`select_loop` asks itself for the next `do_select` when a request finds both
lists empty, and at the end of `do_select` when somebody still waits. Neither
place looks at its own mailbox; that there are not two is due to the lists being
empty exactly while nothing is asked. `SelectInv` has that relation in both
directions, and says *when*: between the call `do_select()` and its arrival
in the mailbox, in the mailbox, in `::select`, and in the scan, where the answers
go out one by one before the last call of the method decides. For it to be
inductive one has to know what can get into the mailbox at all (`LoopMail`): only
`select`, which passes on `read` and `write`, and `select_loop` itself send
there, and no request names `select_loop` as the one to be answered (`Sane`,
`Polite`). This part is about all objects of a program, so the proof is made for
any set `D` of objects that includes those of `Sockets`: the steps of `Sockets` keep
`SelectInv(D)` (`SocketsKeep`), and each program adds that its own objects send
politely. A client sends to whoever `init` named, so there the invariant
also says that this is neither `select_loop` nor the kernel (`Notifies`), and that
nothing else writes to it (`SocketsNotify`).

`OneRequest` says that a pipe has one thing under way: a request, a place in a list
of `select_loop`, or an answer. Its buffer is handed to reader and writer by
address, so this is what keeps a read from overwriting what is still to be sent.
The proof counts. A *kind* `k` of traffic is a set of objects `k.of` and what else leads
to them (a descriptor that is yet to be accepted, an `init`, a `connected`); `Underway(k)` is
the number of messages, calls and waiting entries that concern it. Every method of
`Sockets` makes at most as many calls of a kind as it has taken messages of it
(`Passes`), every step of `select_loop` moves entries between its lists and its
answers, and so no step of `Sockets` makes `Underway(k)` grow (`SocketsHold`). For
`echo.cpp` that is all: main starts each pipe once, so `Underway` is at most 1 at first.
The mailboxes are sequences in which positions shift, so beneath this is some
arithmetic of finite sets (`Occurs`, `Flying`).

In the server a connection comes into being when `accept` takes its descriptor from the
listening socket, and its pipe is made and started by the method that hears of it. So a
connection is counted from before it arrives: `Weight` is `Underway` plus the number of times the
descriptor is among those that arrive, and `accept` only exchanges the one for
the other (`AcceptWeighs`). It is at most 1 because each connection has a
descriptor of its own (`IsInjective` in `ServerAssumption`: the program closes none,
so the system hands out none twice).

A client starts its pipe from two places, when it hears that it is connected and when
its neighbour is, whichever comes last. `ChainLink` says, for each client, that what is on
its way to connect it (`init`, `connect_in`, the response) and `m_connected` are together at most
one; that the same holds of what is on its way from its neighbour (all that connects
the neighbour, and then `connected`) and of `m_pipe`; and that traffic of its pipe is
there only with both, and then once. A client's `connected` is part of what the next one
expects, so the links hang together along the chain and the invariant is about all of
them (`ClientRequestInv`). That nobody else sends `init` or `connected` is in it as
well (`Settled`). `IsInjective(Clients)` in `ClientAssumption`, that no two clients have
a socket in common, is what `new socket` in the constructor gives.

`DeadlockExpected` rests on `TableInv`, which counts the messages of
`philosophers.cpp` with the same arithmetic. A fork remembers one philosopher who waits, so a second
would be forgotten, and that there is none is not local to the fork: it follows from
where the fork is. A philosopher *wants* a fork when it has not begun, asks for it, or waits
for it. It wants or is given each of its two forks once (`Served`); and the fork lies on the
table, or is being put down, or one of its two users does not want it (`Placed`). So
when a user finds the fork taken and the other one waits, the fork is on its way
back, and somebody put it down. That is not who waits, and not who asks, because who
puts a fork down asks for it *afterwards*, and mailboxes keep their order (`InTurn`).
There is no third user, so nobody waited. At rest no message is under way, so by
`Placed` each fork is taken and somebody waits for it, and by `AllThere`, which says where the `N`
forks are, each philosopher has one. With a single philosopher its two forks are the
same one; the count of two users does not apply, and the theorem leaves that out.

Only model-checked, because the prover cannot do it: all liveness properties
(`Termination`, `LockfreeDelivery`, `BusyEnds`, `LockFree`, `Reclaimed`, `JoinEnds`,
`Unblocks`, `Settles`, `AllEchoed`). `DrawsGenerations` and `Validates` compare with
functions that are defined by recursion over data (the generations of the game, Fibonacci's
numbers), of which the same is true. Only model-checked, because nobody has written a proof:
`EchoesInOrder` and `CurrentViewFinished` of the programs.

## 6 What was found

Five places where the code does not do what its own words say; each has a run
whose trace shows it.

1. **A message can be left behind** (`pool_one_worker`). In the lock-free build
   with a single worker: `pop` finds nothing; the main thread sends, activates
   and destroys its `active::run`; the worker counts down to zero and leaves.
   `run()` "runs in current thread until there are no more messages in the
   entire pool" (scheduler.hpp:47). With two workers or more it does
   (`LockfreeRunDrains`).
2. **Nodes can be lost on a weakly ordered machine** (`atomic_fifo_relaxed`).
   The compare-and-swap that publishes a node is relaxed, and so is the exchange
   that takes the list, so `n->next` may be read before it is there
   (atomic.cpp:62-64, 76-84). An x86 build is not affected unless the compiler
   moves the store.
3. **A shared object can be freed under its own thread**
   (`own_thread_destroyed`). Two activations share one `m_shared`, which is
   cleared after the first `run()`; the second then holds only `m_activated`,
   and when it lets go `thread_fn` locks a freed mutex (active_object.cpp:231).
4. **Large messages are written past their chain** (`fifo_chain_large`).
   `reserve` sizes a new chain without the chain's header (fifo.hpp:29-41,
   217-227), so a message of more than 160 bytes does not fit.
5. **A writer can be forgotten, with the thread that looks for it**
   (`select_spins`). The scan of the writers advances its iterator twice after a
   writer that is not ready (active_socket.cpp:254, 263). With one such writer,
   which a wake-up for another request is enough to produce, it steps over the
   end of the list. That is undefined; with libstdc++, whose list is a ring
   through `end()`, it is back at the first element, and round it goes, with
   nothing changed by a round. The model has the ring. With two writers one of them may be skipped,
   which costs a round only.

More remarks.

- *Blocking senders.* `policy::block` is not fair: a sender that finds the queue full
  gives up the mutex, runs an object, and tests again, while whoever comes by takes
  the place that has become free (advanced.hpp:114-131). So it may starve with every thread
  running and every method returning. TLC has a trace of that: one worker is blocked
  in source a, the other runs source b, which `Main` keeps supplied and which fills the place
  in the sink each time before the first has looked. `Unblocks` says that this is the only way to wait for ever: somebody who stays
  blocked sees the queue filled by others again and again. It would also go wrong
  if the sender only waited, since then a pool whose threads are all blocked stands still.
  It holds for objects that do not send in turn, and no further. A method that sends to its own full queue waits for itself. With three
  objects in a row, b to a and a to the sink, a thread blocked in a can run b on top of
  it, which then waits for room in a: a cannot go on before b returns. The code
  does not promise otherwise, so this is no finding; a program that uses
  `policy::block` has to know it. At bench2.cpp:280 a comment, "?? Bug this should not
  deadlock", stands before the sieve on `active::advanced` objects, which are a
  chain of senders. Their policy is the default one, `ignore`, under which nobody
  blocks, and nothing in `Advanced` explains a deadlock there.
- *Waits.* `Settles` too has its limits, and `MCCalls` stays within them. In the C++11
  build a wait blocks its worker, so as many waits as workers stop the pool. In
  the Boost build `idle` may run, on top of a wait, a method whose own wait is only
  answered below it. A synchronous object keeps its mutex while one of its
  methods waits. Objects that call each other in a circle can wait for each other: two
  synchronous ones from two threads lock in opposite orders.
- *Order.* An eager object runs a call before those queued earlier (fast.hpp:25).
  The sieve of bench2 depends on the order of calls, and runs with
  `active::fast` too; its `validate()` always returns true. `Sieve` is about objects
  with a plain queue. So is `BoundedQueue`: with `active::fast` sources (bench2.cpp:769) the
  queue's loop may run a source's method, which sends the queue a value while it is in its own.
- *Starvation.* The Boost build activates objects last in, first out, so an
  object that keeps sending to itself starves the others, and so does an eager
  object whose `run_some` gives up, for as long as its caller is in it: hence `LockfreeDelivery` of the
  lock-free build only.
- *`push`* of the atomic FIFO is lock-free, not wait-free as the comment at
  atomic.cpp:9 has it: `LockFree` is what can be checked.
- *Mandelbrot.* A stopped view can still send its picture, after the new view's preview: the
  window may show an old region for a moment, until the new view's first
  round. `CurrentViewFinished` is about the state in which all has come to rest.
  It has an exception, which is a data race: `NavigateTo` writes to `m_region` in the
  pool and `OnMouse` in the main thread, both without a lock (mandelbrot.cpp:356-359,
  493-500). A click that comes while a `NavigateTo` waits or writes is overwritten, in
  whole or in part, and the `Navigate` it sends shows what is left: Home, or the scale of
  Home with the origin of the click, which nobody chose. TLC finds both when the exception
  (`early`) is left out. The first `NavigateTo` is sent by `main` before GLUT runs, so
  a click right after the start can meet it, and then also reads numbers that nobody has set.

## 7 What is not modelled

- In `Advanced`: `set_policy` and `set_capacity` while the pool runs, a capacity
  of 0 (the code then looks at the top of an empty queue), allocators that fail,
  the Boost build's order of the list.
- In `Calls`: `clear` of an eager object, exceptions sent through a promise, a
  promise that is destroyed unanswered, objects with their own thread, the end of
  `active::run`.
- `fifo::swap`, which nothing calls; `atomic_lifo`, used only by its own test.
- `bad_alloc` in `add_chain`, and threads that cannot be started.
- Objects created or destroyed while the pool runs: the objects of `Pool` exist
  throughout. `OwnThread` has the destruction.
- What methods compute, in the library's modules: a method is the messages it
  sends and `clear`.
- In the programs: printing, drawing and the report object of the philosophers;
  the numbers of the Mandelbrot set; closing of descriptors; Windows, which has
  no `select`; `accept` failing on a socket that listens. A read of the wake-up
  pipe takes up to 16 bytes; here it empties it.
- A `::select` that fails, say by EINTR. The code does not look at its result
  (active_socket.cpp:235): all the sets stay as they were, so every reader and writer is
  told that it can go on, and the read of the wake-up pipe (:270) may block.
- Reads and writes that block keep a worker in the code. In `Sockets` they are steps
  that are not enabled yet, and count for no thread.
- More than one run of the buffered queue: `run_tests` runs the same objects again
  (bench2.cpp:621-637), and `m_readers` is not reset, so readers that are left in it
  from the run before are in it twice.
- The samples sieve, queue_control, fifo, fifo2, ping_pong, round_robin,
  exception, object_types and future show one feature each, or are variants of
  a program that is modelled; shootout.cpp does not use the library. The thread
  ring and the unbuffered queue of bench2 have no state to go wrong.
- The tests, which were read for what they say of the code, and the platform
  layer, which only chooses a build.
- The Boost thread primitives and the C++11 ones, taken to be mutexes and
  condition variables as specified.

## 8 The plan

Done, in this order: `Pool` with `Actors` and its proofs; `AtomicFifo` with
`FifoQueue`, the relaxed variant and its proofs; `OwnThread` and its proofs;
`FifoChain` with `MessageQueue` and its proofs; `Advanced` and its proofs; `Calls`
and its proofs; `Runtime` and the programs, and the proofs about Santa,
`select_loop` and the pipes.

Left:

1. `set_policy` and `set_capacity` as actions of `Advanced`. `NearCapacity` then
   has to speak of the capacity at the time a message was let in.
2. `Calls` and `OwnThread` in one module, for objects with their own thread that
   wait for each other.
3. A refinement from `Calls` to `Actors` with stacks, i.e. the order in which one
   sender's calls of a basic object run.
4. Proofs about the programs: `EchoesInOrder`, for which `OneRequest` is the first
   step, and `CurrentViewFinished`.

## 9 How to run it

    cd tla
    tlc -workers 2 -config pool.cfg MCPool.tla
    tlc -workers 2 -config atomic_fifo.cfg MCAtomicFifo.tla
    tlc -workers 2 -config own_thread.cfg OwnThread.tla
    tlc -workers 2 -config fifo_chain.cfg FifoChain.tla
    tlc -workers 2 -config advanced.cfg MCAdvanced.tla
    tlc -workers 2 -config calls.cfg MCCalls.tla
    tlc -workers 2 -config programs.cfg MCPrograms.tla
    tlapm PoolProofs.tla

and `tlapm` likewise for the other `*Proofs` modules and `SharedLemmas`. `PROJECT.json` names the
module of each configuration. The community modules (`SequencesExt`,
`Functions`) and the TLAPS library must be on the path.
