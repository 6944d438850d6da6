# Formal models of cpp_case

This directory holds TLA+ models of the programs in this repository that keep
state across steps: the Pine network library (`src/network/demo_MainSubReactor`)
with its thread pool, echo server and echo clients, the file transfer, the select
and epoll servers, the sequential echo programs, and the small classes of
`coding`, `design_model` and `utils`. TLC checks the models on small instances.
TLAPS proves what the runs check, liveness apart, for every value of the constants:
any number of threads, clients, descriptors, keys and bytes.

Paths below are relative to the repository root, which `PROJECT.json` calls `src/`.

## 1. Inventory

| component | state it keeps | operations | interacts with |
|---|---|---|---|
| `Threadpool` (`network/demo_MainSubReactor/src/include/Threadpool.h`) | `tasks`, `isRunning`, `mtx`, `cv`, `workers` | constructor, `addTask`, worker loop, destructor | callers on any thread, tasks that call `addTask` themselves |
| `TcpServer`, `Eventloop`, `Epoll`, `Channel`, `Acceptor` (same directory) | the main reactor, the sub reactors, `connections_`, each channel's listen and ready events | `Start`, `NewConnection`, `DeleteConnection`, `loop`, `Poll`, `UpdateChannel`, `handleEvent` | the pool runs one `loop` per sub reactor; callbacks from channel to acceptor to server |
| `SignalHandler.h`, `test/echo_server.cpp` | the table of handlers | SIGINT handler that deletes the server | interrupts the main thread anywhere |
| `Connection`, `Socket`, `Buffer`; `test/echo_client.cpp`, `single_client.cpp` | descriptor, state, two buffers | `Read`, `Write`, `Send`, `Close`, destructors | the table of descriptors of the process, shared by ten client threads |
| file transfer (`network/demo/{server,client,test_server,test_client}.cpp`) | a socket on each side, byte counts, one child process per client | header, "ok", chunks, "ok"; `fork`; SIGTERM and SIGINT handlers | TCP stream, process group |
| select server (`network/demo/TcpSelect.cpp`) | `readfds`, `maxfd` | accept, echo, close | TCP |
| epoll server (`network/demo/TcpEpoll.cpp`) | the epoll set, the array of events | accept, echo, close | TCP |
| echo programs of `network/demo1_socket`, `demo2_errorif`, `demo3_epoll` | one connection, one buffer on each side | accept, echo, close | each other |
| cache (`coding/LRUCache.cc`) | doubly linked list and map | `get`, `put` | none |
| `coding/quick_sort.cc` | an array | `quick_sort` | none |
| singletons (`design_model/singleton.cc`, `coding/Single_instance.cc`) | the instance pointer | `getInstance`, `destroyInstance` | threads |
| logger and timer (`utils/`) | level, output flag, stream; start time, total | `Log`, setters; start, stop, elapsed | threads |
| exercises (`design_model/Factory.cpp`, `STL`, `os`, `Leetcode`, notes) | none | none | none |

### What is hard, and what makes each part correct

* **Thread pool.** Notification after the unlock, spurious wakeups, tasks that
  submit tasks, and a destructor that runs while tasks are queued and running.
  Correct means: no wakeup is lost, a task runs at most once and in the order
  of submission, nothing runs after the stop, the destructor returns.
* **Echo server.** As many endless tasks as workers, a signal that may come
  while the main thread holds the pool's mutex, and members destroyed while
  workers may still use them. Correct means: every reactor has a thread, no
  reactor is destroyed under its loop, clients get accepted.
* **Connection.** Partial and interrupted writes, an edge that is reported once,
  a peer that closes or resets in the middle. Correct means: the wire carries the
  messages in order and whole, and a reader misses nothing.
* **Clients.** Two objects own one descriptor, ten threads share the table.
  Correct means: a finished client leaves nothing open, and every client ends.
* **File transfer.** Partial `recv`, end of stream in the middle, coalesced
  acknowledgements, signals around `fork`. Correct means: a reported file is the
  client's, both sides end, no child outlives its parent.
* **Select and epoll servers.** State derived from the open connections, and
  answers of the kernel that may be stale when the loop gets to them. Correct
  means: everything open is watched, the loop never blocks, nobody starves.
* **Echo programs.** `read` knows no messages. Correct means: no byte is lost or
  repeated, and the two ends never wait for each other.
* **Cache, sort, singleton, logger, timer.** Long call sequences, boundaries,
  unlocked reads.

`PROJECT.json` lists the individual hazards with their lines.

## 2. Modules

| module | what it is |
|---|---|
| `TaskQueue` | the promise of a pool to its callers: an abstract queue of tasks |
| `Threadpool` | the pool, one step per access to shared state |
| `EchoServer` | `main()` of the echo server, its TcpServer and SIGINT; it extends `Threadpool` |
| `Connection` | one `Connection` on a blocking or non-blocking socket, its peer and the kernel |
| `EchoClient` | the threads of `echo_client` and the descriptors they share |
| `FileTransfer` | the client and one child of the server that exchange a file over TCP |
| `ForkServer` | the parent and the children of that server: signals, `fork`, descriptors |
| `SelectServer` | the echo server of `TcpSelect.cpp` and its clients |
| `EpollServer` | the echo server of `TcpEpoll.cpp` and its clients |
| `EchoPair` | the server and the client of `demo1_socket`, `demo2_errorif` and `demo3_epoll` |
| `RecencyCache` | the promise of an LRU cache: keys in the order of their use |
| `LRUCache` | the list and the map of `LRUCache.cc` |
| `QuickSort`, `Singleton`, `Logger`, `Timer` | the classes and the function of these names |
| `ThreadpoolProofs`, `EchoServerProofs`, `EchoClientProofs`, `FileTransferProofs`, `ForkServerProofs`, `SelectServerProofs`, `SocketProofs`, `SmallProgramsProofs` | theorems; `SocketProofs` about `Connection`, `EpollServer` and `EchoPair`, the last one about the small programs and all that `MCPrograms` puts side by side |
| `MCThreadpool`, `MCEchoServer`, `MCSelectServer` | instances of one module for TLC |
| `MCFileServer` | instances of `ForkServer` and `FileTransfer`; `half` says which one a behaviour runs |
| `MCReactorClient` | instances of `Connection` and `EchoClient`; `part` says which |
| `MCPrograms` | instances of the small programs, `EpollServer` and `EchoPair`; `program` says which |

The last three put modules side by side that share no state, and the variables of
those that do not run stay as they began. Nothing is composed there that the code
does not compose, and the number of states is the sum and not the product.

A definition named after another with an underscore (`NotifyOne_Dropped`) is a
mutant: the code with one plausible mistake. No specification uses it; it shows
which property would notice the mistake.

### Threadpool

Threads are the owner of the pool and its workers. `pc` says where each one is;
the strings name places in `Threadpool.h`. `locked` is `mtx`; `tasks` and
`isRunning` are the members of the same name; `arg` is the callable a thread is
passing to `addTask`; `current` is the local variable `task` of a worker;
`future` is the shared state of the `std::future` of each task. `cv` is the set
of workers whose `pc` is `"waiting"`. `freeSize`, `busySize` and `maxSize` are
never read by the code and are left out.

| code | actions |
|---|---|
| constructor (55-78) | `Spawn`, `Constructed` |
| `addTask` (38-53) | `CallAddTask`, `LockToAdd`, `Emplace` or `ThrowStopped`, `NotifyOne` |
| worker loop (59-75) | `LockToCheck`, `Block` or `Leave`, `Return`; `SpuriousWakeup` |
| destructor (80-93) | `Delete`, `LockToStop`, `Stop`, `NotifyAll`, `Join` |

`Leave` keeps the test of line 67 although the predicate of line 65 makes its
first branch unreachable. A task may submit other tasks (`Parent`) and may never
return (`Endless`). An exception of `addTask` ends the task that called it, as
`std::packaged_task` stores it. `Join` also destroys the members, so that tasks
still queued end with a broken promise; with the code as it is, only a pool of
size 0 (`hardware_concurrency()` may return 0) gets there.

Calls of `addTask` by threads that are neither the owner nor a worker are not
modelled: nothing would keep the pool alive during such a call.

### EchoServer

The tasks are the loops of the sub reactors. `main` follows `main()`,
`TcpServer::TcpServer`, `TcpServer::Start` and the handler. The constructor goes
call by call (`NewMainReactor`, `NewSocket`, `Bind`, `Listen`, `EnableReading`,
`Construct` for the pool, `NewSubReactor`, `ServerConstructed`), and `ErrorIf` ends
the process at any system call. `socket`, `channel` and `interest` are the
acceptor's socket, its `Channel` and what the main epoll reports for it; `backlog`
counts the connections that the kernel has completed, and `accepted` the calls of
`AcceptConnection`. `Sigint` may occur at any point: before the handler is
installed it kills the process, later it sets the program counter of the main
thread to the destructor, also while `addTask` holds the mutex, and the
interrupted code never goes on since the handler ends in `exit`. One signal is
modelled. A second one while the handler runs would go to a worker and delete the
server twice, which is undefined.

`Epoll::Poll` returns the acceptor's channel while a connection waits and does
not call `setReadyEvents`; `HandleEvent` therefore tests a `readyEvents` that
nothing writes. The sub reactors have no channels, so their `epoll_wait` never
returns. `AcceptConnect` stands for `AcceptConnection` and what is behind it, without
the calls of `ErrorIf` and the body of `NewConnection`: no step of the program gets
there.

### Connection

`pc` is the member function that runs, `sendBuffer` and `data_written` are the
message and the offset of the current `Write`, `wire` is all that was ever written
to the socket. A byte sent is the pair of its message and its position in it, so
that an order can be told; bytes received are counted. One step is one system
call with the code up to the next one: `writeNonBlocking`, `writeBlocking`,
`WriteFails`, `readNonBlocking`, `readBlocking`. The kernel takes any part of what
has room, and a signal may interrupt a call: `writeNonBlocking` goes on,
`writeBlocking` and `readBlocking` take it for an error if there was no byte yet. A
blocking `write` that a signal or a reset ends after some bytes (`Partial`) returns
their number, with which the code does nothing, and the state stays `Connected`. `edge` is what the edge-triggered
epoll has still to report, and the caller of `Read` on a non-blocking socket is
one that reads when told to. `BufferAppend` is `Buffer::Append` as it is: the test for
the end of the text is an empty statement, and the `break` after it ends the loop in
its first turn, so that nothing is stored.

### EchoClient

Each client is a thread that runs `OneClient`: `socket`, `connect`, the
`Connection`, `msgs` rounds, the two destructors. `table` is the process's table of
descriptors, `fd` is what the client's `Socket` and `Connection` both remember;
both close it. A connection bears the name of the client that opened it, so that
a descriptor that now belongs to somebody else shows. `Read` is four steps, between
which another thread may close the descriptor: `StartRead` asks for the mode, and
for a closed descriptor gets non-blocking (-1 has that bit); `SizeBuffer` asks
for the size of the buffer; `CallRead` begins to read and `AnswerRead` ends. A read
that has begun stays with its connection (`reading`). `Write` is one step. `Construct` takes both outcomes of the test of the
uninitialised `loop_`: no `Channel`, or a crash. The server answers, closes, resets
or does nothing.

### FileTransfer

`client` and `child` are the places of `main()` in `test_client.cpp` and, in the
child process, in `test_server.cpp`; each action is one call of `connect`, `send`
or `recv` with the code up to the next one. `toServer` is the stream of bytes; a
byte of the file is its position, a byte of `buffer` that `recv` has not written
is 0. The header is four bytes: two for the name and two for the `int`, of which the
low one comes first and has `Base` values. A `recv` may end before, between and inside
them; `SizeFrom` is the size that the child then reads, and the bytes that are left
are still in the stream when `recv_file` begins. `toClient` counts the acknowledgements,
each "ok" being delivered whole.

| code | actions |
|---|---|
| client `connect`, `main` 43-52, 58-67, 68-71, 73-83 | `Connect` or `ConnectFails`, `SendInfo`, `RecvInfoAck`, `SendChunk` (one turn of the loop of `sendfile`) or `SourceMissing`, `RecvFileAck`; `ClientSendFails`, `ClientRecvFails`, `KillClient` |
| child 128-139, 142-145, `recv_file`, 154-157 | `RecvInfo`, `SendInfoAck`, `OpenFile`, `RecvChunk` (one turn of the loop), `SendFileAck`; `ChildRecvFails`, `KillChild` |

`delivery` says whether `recv` returns all that it asked for or any part.
`RecvChunk` follows `recv_file`: the bytes received go to the front of the
buffer, the bytes asked for are written and counted, and a `recv` of 0 is not
an error. The client is assumed to be started with the file's true size.

### ForkServer

One `pc` per process. The parent follows `main()` of `test_server.cpp`:
`InitServer` or `InitFails`, then from `accept_client` to `close_client` for ever; a
child goes from `fork` through `close_listen`, the two calls of `signal` and the
transfer to its exit, and then its slot in `Children` is free again. `handler` and
`pending` are the dispositions and the pending signals of SIGTERM and SIGINT, all
others being ignored; `listen_fd` and `client_fd` are the members of each process's
copy of `TcpServer`, and `held` is what its table of descriptors really holds, so
that a stale number and a leaked descriptor can be told.

A signal may be sent to any process at any point, and `Deliver` may interrupt it
anywhere; the handler's two calls `signal(..., SIG_IGN)` are part of `Deliver`.
`accept` and `fork` may fail at any time. What the child does with its client
is one action (`Served`): the steps are in `FileTransfer`.

### SelectServer

`readfds`, `maxfd`, `tmpfds` and `i` are the variables of `main()`; `owner` is the
kernel's table of descriptors, `backlog` the queue of `listen`. `Select` is the
call of `select` and what follows up to the loop; then each turn of the loop is one
action, except that `recv` (`Receive`) and `send` (`Send`, `SendFails`, `SendKills`) of
a turn are two, with the clients moving in between. Clients connect, send, read
and leave whenever they like and come back over new connections. Messages
are counted; `recv` takes any number of those that are there. `Close` frees a
descriptor that the next `accept` may get again.

### EpollServer

Clients as in `SelectServer`. `watched` is the set of the epoll, `ready` its ready
list in order: `EpollWait` takes the first ones that are still ready, as many as
the array `events` holds, and since the epoll is level-triggered puts them at the
end again. A turn of the inner loop is `TakeVisitor` or `AcceptFailed`, or one of
`TakeMessages` with `SendBack`, and `TakeEnd`. `CloseConn` takes the descriptor out of
the epoll and frees its number. `main()` calls `initserver` twice; with a port as
argument the second `bind` fails and the server waits for ever on an empty set,
with port 0 it serves (`port`). `about` is history: which client was at each
descriptor when `epoll_wait` gave its answer.

### EchoPair

`demo` says which pair runs; `server` and `user` are the places of the two
`main()`, and each action is one system call with the code up to the next one
(`ListenOrFail`, `AcceptUser`, `EchoRead`, `EchoWrite`; `ConnectOrFail`, `SendText`,
`Show`), with an action of its own for each way to end. Bytes are counted: `c2s` and `s2c` on their way, `buf` with the server,
`sent` and `shown` by the client. `net` says which end has gone and how: an end
that leaves bytes unread resets. `port8888` is taken or free; only demo1 goes on
after a `bind` that failed. `AcceptFails` is the `errif` behind `accept`.

### Small programs

* `LRUCache`: a node is named by its key. `remove` and `push_front` are the private
  functions on the links; `get` and `put` are whole. `TooMany` compares as the code
  does, with `capacity` converted to an unsigned number. `RecencyCache` keeps the keys
  in a sequence; the mapping follows the links from `dummy`.
* `QuickSort`: one step per turn of an inner loop, `stack` holds the recursive calls
  that are left.
* `Singleton`: one step per access to the pointer or the mutex. The unlocked read
  races with the write; as the constructor is empty and the pointer is one word,
  a thread sees null or the address, and both are in the model.
* `Logger`: one step per access to the settings, which are read outside the mutex;
  `named` remembers where the settings pointed during a call.
* `Timer`: a clock finer than a millisecond; `measured` remembers the true time.

## 3. Runs

| run | bounds | shows |
|---|---|---|
| `threadpool` | pools of 0 to 3 workers, 4 tasks, one submitted by another, one endless | no lost wakeup, each task in one place, refinement of `TaskQueue`, queued tasks start |
| `threadpool_join` | pools of 0 to 3 workers, 2 tasks that return | the destructor does not return (finding) |
| `echo_server` | 0 to 3 sub reactors, 2 clients | no reactor destroyed under its loop, each reactor gets a thread, the pool's promise survives a signal |
| `echo_server_accept` | the same | a client that waits is never accepted (finding) |
| `file_server` | a parent, 2 children at a time, 2 clients, any number of signals; files of 0 to 7 bytes, chunks of 3, a header of 4, an `int` whose low byte has 4 values, both kinds of delivery | each connection in the right hands, no child survives a parent ended by a signal; both sides of a transfer end, acknowledgements do not merge once the header came whole, a reported file is intact under whole delivery |
| `file_transfer_content` | the transfers above | with a whole header, a file reported as received differs from the source (finding) |
| `select_server` | 3 clients that come and go, room for 2 connections, 1 message and 1 reply under way per client | the watched set is right, the loop never blocks in `recv` or `accept`, nobody starves |
| `reactor_client` | messages of 0, 1 and 3 bytes, room for 2, a read buffer of 2; 2 messages, 3 bytes received, 1 signal; 3 client threads, 2 descriptors, 1 message each | order on the wire, no lost edge, non-blocking calls return; finished clients hold nothing, every client ends or waits for a live server |
| `connection_sends_all` | the same messages | a message is given up half sent (finding) |
| `client_closes` | 2 client threads, 2 descriptors, 1 message each | a destructor closes another thread's connection (finding) |
| `programs` | 3 keys, capacities -1 to 2; 3 threads, 2 addresses; arrays of up to 4 of 3 values; 2 loggers, 2 files; 8 half milliseconds, 3 stops; 3 clients, 2 descriptors, an array of 2 events, 2 messages under way; buffers of 3 bytes, 7 bytes sent | the cache implements `RecencyCache`, one instance, indexes in range and an end of the sort, lines where the settings pointed, no time lost but cut milliseconds; with port 0 events stay fresh, nothing is overlooked, nobody starves; bytes accounted for, no mutual wait but after an empty text |
| `epoll_port_given` | 2 clients, either argument | with a port given nobody watches for the clients (finding) |

Three workers are enough for one that runs, one that waits and one that is on
its way; four tasks for a queue of length two behind a running one, a nested
submission and an endless task at once. `QueuedTaskStarts` excuses a pool whose
workers are all occupied by endless tasks, and the run has pools of both kinds:
one worker, which the endless task can occupy, and more.

A message longer than the room gives partial writes of every split, two messages
an order to be wrong about, and one signal an interruption before or after any
part. Two descriptors for three clients make every close free a number that
another client is about to get.

A chunk of 3 and sizes up to 7 give the empty file, a file shorter than a chunk,
one and two full chunks, and a rest of one byte; a chunk of 3 can arrive in
every split, and the client can die before, inside and after each. Four positions of
the header give a recv that ends in the name, after it and inside the `int`, and
with four values for its low byte a size that was cut (4 to 7 become 0 to 3) is
wrong without being zero.

Two children are enough for one in the window after `fork` and one that serves, and
slots are used again, so that many generations of children occur. Three clients
and two free descriptors give a full table, closes below and at `maxfd`, and
descriptors that are used again in every order; an array of two events with three
descriptors to watch gives batches that leave somebody out. The counters of messages
matter only as zero or more. Nothing limits how often clients of the two servers
return or how many signals arrive.

Three keys and a capacity of two give an eviction of either kind of key, arrays of
four elements of three values all patterns of equal and ordered neighbours. The
module `QuickSort` is checked for bounds, its end and its indexes, not for
sortedness: see section 6. That the array keeps its values and that every recursive
call gets a shorter part is proved.

Some type invariants that the proofs establish for every instance are not checked
again: those of `Threadpool`, `SelectServer`, `ForkServer` and `EchoClient`; nor
are `MutualExclusion`, `Bookkeeping` and `WithinCapacity`.

Deadlock checking is off in all runs. The programs do stop: an owner that has
deleted a pool of size 0, or a process that has exited, takes no further step.

**Fairness.** Each thread of the pool gets weak fairness on its own steps: the
operating system runs a thread that can run. A thread that waits for `mtx` is not
always able to go on, and `std::mutex` is not fair, but a task is kept waiting
only as long as some other thread keeps taking the mutex, and every such thread
either takes a task or goes to sleep; weak fairness is enough and the runs
confirm it. Calls that a user may or may not make (`addTask` and `delete` by the
owner), clients, signals and spurious wakeups have no fairness. A task that
submits others has fairness on doing so.

In `Connection` a call that can go on does (`WF_vars(Step)`); calls and the peer have
no fairness. In `EchoClient` each thread runs; the server owes nothing, which
`ThreadsEnd` excuses by name. In `FileTransfer` both processes have weak fairness;
signals, resets and failures have none, and neither has a `recv` of 0 bytes while
there are no bytes to read, because Linux may let it wait. In `ForkServer` processes
run, and a pending signal is delivered to a process that runs; signals, `accept`,
`fork` and the transfer have no fairness. In `SelectServer` and `EpollServer` the
server has weak fairness, and so has each client's reading of replies (a client
that neither reads nor leaves stops the blocking `send`, and everybody with it);
connecting, sending and leaving have none. In `EchoPair` both programs run, but
nobody has to type. `quick_sort` runs on. The side by side modules state the same
fairness under the condition that the module is the one that runs.

## 4. Proofs

All safety invariants that the runs check are proved, and so are the refinements:
`TaskQueue` by the pool alone and by the pool inside the echo server, `RecencyCache`
by `LRUCache`. An action property of the sort (`SplitsShrink`) is proved only. A named theorem states each result; a theorem
whose name ends in `Invariance` or `Invariant` says that the inductive invariant of a
module holds.

`ThreadpoolProofs`, for every finite set of workers (the empty one included), every
set of tasks and every `Parent` and `Endless`:

* `TypeCorrect`, `BookkeepingHolds`: types, and program counters that agree with
  what threads hold. The two are inductive together: the owner would leave its
  own program counters if `addTask` could throw in it, and it cannot because
  `isRunning` falls in the destructor, which the same thread runs.
* `Mutex`: mutual exclusion, inductive given the types.
* `OnePlace`: a task is queued once, or with one worker, or with one caller. The
  step that needs thought is `CallAddTask`: two threads are never submitting the
  same task, as a task has one parent and one thread executes that parent
  (`OneSubmitter`).
* `NoWakeupIsLost`: while a worker sleeps and the pool runs, the queue is no longer
  than the set of threads that will look at it or notify. The proof follows that
  set's cardinality: `Emplace` adds one task and one such thread, `Leave` removes
  one of each, `NotifyOne` replaces one thread by another, and a worker goes to
  sleep only with an empty queue.
* `PoolIsTaskQueue`: every behaviour is one of `TaskQueue`, with the tasks in
  `current` as the running ones.

The assumptions are `ThreadsAssumption` (finitely many workers, the owner is not
one of them) and `TasksAssumption` (shapes of the constants).

`EchoServerProofs`, for any number of workers, sub reactors and clients, proves
`ServerTyped` and `ReactorsOutliveLoops`. The invariants of the pool cannot be
reused, because the handler abandons a call of `addTask` with the mutex held and an
argument in hand. `OwnerPlaces` ties the place of `main()` to that of the owner inside
the pool; `Submitting` says that an argument has not been submitted before, which
holds because only the main thread submits; `Loops` says that what is queued or
running is a reactor that exists, in one place; `WorkerPlaces` that no worker runs a
loop once the pool is destroyed, since `Join` waits and a stopped pool starts nothing.
`ServerAssumption` adds that the tasks are endless and submit nothing.
`ServerPoolIsTaskQueue` uses the same invariant: although the handler cuts a call of
`addTask` off at any place and then runs the destructor, what happens to the queue
is something a `TaskQueue` may do. A call that was cut off has queued its task or
never will (`Submitting`), and what a worker takes was queued once (`Loops`).

`EchoClientProofs`, for every set of clients, limit of descriptors and number of
messages: `EndedClientsReleased`. The invariant needs `Progress`, that a client has a
descriptor exactly once it is past `socket`: it opens one only once, and its own
double close frees at least that one. What the property does not say, that nobody
else's is freed, is false (finding 5).

`FileTransferProofs`, for any size of file and chunk: `TransferTyped`, `AcksApart`,
`ReportIsTrue`. `Opening` says that nothing of the file moves before the header is
answered; `Acks` that the child's second "ok" finds the first one taken, unless the
header came in pieces; `Stream` that after a whole header what is on its way is a
piece of the file that ends where the client is; `Prefix` that
under whole delivery what is written is a beginning of the file; `Told` that a client
that reports success follows a child that is done.

`ForkServerProofs`, for any number of children and clients:

* `NoDescriptorStrays`: what each process holds is what its `TcpServer` says. `Fork`
  is the step that duplicates, and `ForkIsNext` says that at that moment nobody else
  has the client.
* `SignalFindsChildren`: when the parent has ended by a signal each child is on its
  way out or has a SIGTERM pending. It needs `Dispositions`: only a process on
  its way out ignores the signals, so `kill` misses no other, and nothing that is
  pending is ignored later.

`SelectServerProofs`, for any set of clients and any size of the table of
descriptors:

* `WatchesAlways`: `readfds` is exactly what is open, and `maxfd` bounds it. `SendFails`
  does not lower `maxfd`, so it is an upper bound and not the maximum.
* `NeverBlocksInLoop`: the answer of `select` is still true when the loop gets to a
  descriptor. The invariant behind it (`AnswerIsFresh`) speaks of the descriptors
  at `i` and above. A close at `i` cannot touch them; `accept` happens at `ListenFd`,
  below every connection, and takes a number that was free and so is not in
  `tmpfds`; a `recv` takes messages of one client, who has only one descriptor
  (`OneFdPerClient`, which needs `QueueHasNewClients`).

`SocketProofs`, one part for each of three modules:

* `Connection`, for messages of any length, any room in the socket and any read
  buffer: `BytesInOrder`, that the wire holds a beginning of each message that was
  written, in order (bytes received are only counted), and `EdgeNeverLost`, by
  `ConnInv`. `Counted` says that what a read
  has taken and what waits in the socket has been received; `EdgeKept` says that a reader at rest
  has taken everything or has an edge to come; `BufferIsMessage` that the buffer is
  one message, so that a byte of it knows its place; and `EndOfWire` ties the end of the
  wire to `data_written`. Without the last one a byte that is appended could
  follow anything.
* `EpollServer`, for any clients, descriptors and length of `events`: `NoStaleEvent` and
  `NobodyOverlooked`, by `EpollInv`. `Watching` says that with port 0 all that is open
  is watched, and with a port given nothing; `OnePlaceEach` that a client waits in
  the backlog or has one descriptor, and not both; `Fresh` that no descriptor is twice
  in an answer and that each one the loop has not come to can still be answered and
  has the client that `about` remembers, which holds because a turn closes only its
  own descriptor and `accept` takes a number that no event bears; `Listed` that whatever
  can be answered is in the ready list, also while the loop is busy.
* `EchoPair`, for every length of the buffers and number of bytes:
  `BytesAccountedFor` and `NoMutualWait`. The second follows from the first with `Owed`:
  a client that waits after a text that was not empty has been shown less than it sent.

`SmallProgramsProofs`:

* `LRUCache`, for every finite set of keys and any capacity: `ListAndMapInStep`,
  `CapacityKept` and `CacheTyped` by `CacheInv`, with lemmas on what `remove` and
  `push_front` do to a linked set of nodes. `CacheIsRecency`, the refinement, needs more:
  links may be consistent and yet form two rings, and the walk from `dummy`
  would miss one. `OrderInv` (`Chained`) says that they form one chain through the nodes of
  the map; `RemoveChain` and `PushChain` follow it through the two functions, and
  `OrderIsChain` says that the walk of the refinement mapping reads the chain.
* `QuickSort`, for arrays of any length: `SortStaysInRange`, where each scan is stopped
  by an element ahead of it (`StopsUp`, `StopsDown`), the first round by the pivot and
  later ones by what was just exchanged; `SortKeepsValues`, the array is always
  a permutation of the first one; `SplitsShrink`, no recursive call gets a part as
  long as its caller's.
* `Singleton`, for any number of threads: `AtMostOne` by `PointerInv`, which adds to the
  property who may be between the lock and the unlock.
* `Logger`, for any threads and files: `LinesGoWhereSaid` by `LoggerInv`. Settings are
  read without the mutex and may change in the middle of a call. `Recorded` says that
  the place where a line would go now is always among those of the call's history;
  `ReasonForConsole` that a caller without a file has seen the flag unset, or could
  not open `log.txt`.
* `Timer`, for any clock and number of stops: `TimerLosesLittle`. `Most` bounds the loss
  after a number of stops.
* `ProgramsTyped`: the types of all seven modules that `MCPrograms` puts side by side,
  composed as in the run. It uses the invariants of `SocketProofs` for the epoll
  server and the pairs.

Two parts of the proofs are not what one writes first. Recursive functions, such as
the walk along the links, are handled without an induction theorem: if the claim
failed for some number there would be a least one (`LeastElement`, from the
well-foundedness of the subsets of a finite set), and the step from its predecessor
refutes it. And no prover sees through `SelectSeq`, so that the models say in another
way which elements of a sequence remain (`Kept` in `EpollServer`, `MovedUp` in
`RecencyCache`).

The assumptions named in the modules are shapes of the constants: names that
differ, sizes that are positive, a listening descriptor inside the table, a table no
larger than an `fd_set`, more unsigned numbers than keys.

Only model-checked: the liveness properties (`QueuedTaskStarts`, that loops get threads,
that clients and transfers end, that nobody starves, that calls return, that the sort
ends), because fairness and `ENABLED` are beyond the prover. The six properties of
section 5 are violated and are stated nowhere as theorems.

## 5. Findings

Each is shown by a run.

1. `threadpool_join`: `~Threadpool` does not return when the pool has a worker. The
   predicate at `Threadpool.h:65` stays false once `isRunning` is false, so the exit
   branch at 67 is dead. Queued tasks are never run. `test/echo_client.cpp:42` deletes
   its pool this way, and the SIGINT handler of the echo server never reaches its
   `exit(0)`.
2. `echo_server_accept`: `Epoll::Poll` does not hand the ready events to the channels,
   so the server accepts no client.
3. `file_transfer_content`: `recv_file` writes and counts the bytes it asked for
   (`server.cpp:96-102`): when the client is gone, as in the run, or after a short
   `recv`, the child reports success for a file that is not the client's. The header
   came whole.
4. `connection_sends_all`: the comment at `Connection.cpp:95` says that the loop of
   `writeNonBlocking` sends until all the data has been sent. It ends at EAGAIN (104), and
   `Write` throws the rest away. `WireInOrder`, which the code does keep, therefore
   speaks of a beginning of each message.
5. `client_closes`: `~Socket` sets `fd_` to -1 "to prevent a repeated close"
   (`Socket.cpp:53`). A client has two such objects for one number, and the second close
   hits whatever the number refers to by then: in the run, the connection of another
   thread. `EndedClientReleased` is what remains true of the client's own.
6. `epoll_port_given`: with a port as its argument, as `TcpEpoll.cpp:40` asks, the server
   makes a second socket for the same port, fails and goes on to watch nothing, while
   line 58 says that the socket to watch is added. `NothingOverlooked` is what remains
   true with port 0.

## 6. Met while modelling

The models have the following behaviours, because the code has them; the
properties are stated so that they hold in spite of them.

* `test_server`: a child runs the parent's signal handler until it has installed its
  own, so that a signal meant for one child ends the whole server. `accept_client`
  answers a failed `accept` by forgetting the listening socket and returning true.
  After a failed `fork` the parent returns and leaves its children behind.
  A header in pieces gives a wrong size, also one that is not zero, and its rest
  becomes the beginning of the file; both "ok" may then arrive together. Of an empty
  file the client reports an error and the server that it was received.
* `TcpSelect` dies of SIGPIPE when it answers a client that has reset its connection;
  its own branch for a failed `send` would go on. A `send` that blocks waits for a client
  that does not read, for as long as it likes.
* `Connection`: `writeBlocking` does not look at how much was written; `Buffer::Append`
  ends its loop before it stores anything; the constructor tests `loop_` before
  anything assigns it; `Close` calls a callback that the clients never set, and
  `std::bad_function_call` leaves `OneClient` without its destructors.
* `echo_client`: `readBlocking` takes for the end of the stream that it read nothing into
  a buffer of no bytes, which it makes when the descriptor is closed before it asks
  for the size; the loop of `readNonBlocking`, entered because the descriptor was
  closed, reads a blocking socket if the number has been given out again.
* `demo2` client: at the end of its input it writes an empty text and waits for ever. It
  may show the end of an earlier reply as the answer to a later text.
  `demo3` server: ends after its first batch of events, before any message.
* `quick_sort` compares with a position and not with a value: it ends with, for
  example, 3 4 2 1 unsorted. No text of the repository claims more than the name
  does, so that the model states what does hold.
* `LRUCache`: `dummy` points nowhere in particular when the constructor writes through
  it (`LRUCache.cc:43-44`), so that it crashes or, by luck, goes on; a negative capacity never
  evicts. `Timer`: `total_time_` starts indeterminate.
* `Singleton3::getInstance` returns a static pointer that is null, and not the instance
  that its comment speaks of. `epoll_client.cpp:30` stores the outcome of a comparison
  instead of the socket.

## 7. Not modelled

* Message contents, apart from the file of `FileTransfer`; the wording of log lines.
* What the models take for granted. `LRUCache.cc` does not compile as it stands: the
  members of `Node` are private (4-10). The model is of the code with them public, and
  in it an uninitialised `dummy` that does not crash has memory of its own.
  `Singleton.NewInstance` allocates, constructs and publishes in one step, and reads of
  the pointer see the writes in order. `Timer` has a clock that never goes back,
  which `high_resolution_clock` need not be. In `EchoPair` what is on its way fits
  the buffers of the sockets, so that no `write` waits and two full buffers cannot
  block both ends. `SelectServer` assumes a table of descriptors no larger than an
  `fd_set` (1024), as `FD_SET` would write outside of it otherwise. The backlogs have
  no limit of 5. That a reported file has the right content (`ReportedFileIsIntact`)
  holds under whole delivery only, and is claimed for no other.
* `NewConnection`, `DeleteConnection` and the callbacks behind them: no path of the echo
  server reaches them (finding 2). A model of them would be of a program that does
  not exist.
* `Buffer::Getline` and the getters; `single_client.cpp`, whose calls are those of one
  client of `echo_client`.
* `duoxiancheng_main` of `test_server.cpp` and `test_client.cpp`, which nothing calls.
* `epoll_client.cpp`, which speaks to its standard input (section 6).
* `LRU.cc`, `Shared_ptr.cc`, `demo4_class`, `demo5_channel` and `demo6_eventloop`: they do
  not compile.
* `Single_instance.cc` and `Singleton2`: the language initialises them.
* The factories, `STL`, `os`, `Leetcode` and the notes: exercises without state.

## 8. What could follow

1. The safety half of the liveness properties as theorems of their own: that
   `QuickSort` has a measure that falls with every split (`SplitsShrink` is the first
   step), and that in `FileTransfer` no state but an end has both sides waiting.
2. Implications between modules: that the child of `FileTransfer` does to its
   descriptors what `Served` says in `ForkServer`.
3. `NewConnection` and `DeleteConnection`, once `Poll` hands over the ready events: the
   map `connections_` is then shared by all reactors without a lock.
