------------------------------ MODULE EchoServer ------------------------------
(***************************************************************************)
(* The echo server of network/demo_MainSubReactor: main() constructs a     *)
(* TcpServer, installs a SIGINT handler that deletes it, gives one event   *)
(* loop per sub reactor to the pool and runs the loop of the main reactor, *)
(* which watches the listening socket.                                     *)
(*                                                                         *)
(* The pool is module Threadpool: its owner is the main thread and its     *)
(* tasks are the loops of the sub reactors, none of which returns since    *)
(* nothing sets Eventloop::quit_.  The handler runs on the main thread,    *)
(* on top of whatever the thread was doing.                                *)
(***************************************************************************)
EXTENDS Threadpool

CONSTANT MaxClients     \* bound: clients that connect

ASSUME ServerAssumption ==
    /\ MaxClients \in Nat
    /\ Endless = Tasks
    /\ \A t \in Tasks : Parent[t] = NoTask

VARIABLES
    main,           \* where main() is, outside the pool's functions
    subReactors,    \* the loops whose Eventloop exists
    socket,         \* the state of the acceptor's socket
    channel,        \* listenEvents_, readyEvents_, inEpoll_ of its Channel
    interest,       \* the events the main reactor's epoll reports for it
    backlog,        \* connections completed by the kernel, not accepted
    accepted        \* the number of times AcceptConnection ran

acceptorVars == <<socket, channel, interest>>
serverVars == <<main, subReactors, acceptorVars, backlog, accepted>>

allVars == <<vars, serverVars>>

\* The places of main() before SIGINT has its handler.
Constructing == {"reactor", "socket", "bind", "listen", "watch", "construct",
                 "subs", "install"}

Alive == main \notin {"killed", "failed", "exited"}

Readable == {"EPOLLIN", "EPOLLPRI"}

ServerTypeOK ==
    /\ TypeOK
    /\ main \in Constructing \cup {"start", "poll", "handler", "killed",
                                   "failed", "exited"}
    /\ subReactors \subseteq Tasks
    /\ socket \in {"none", "made", "bound", "listening", "closed"}
    /\ channel \in [listenEvents : SUBSET Readable,
                    readyEvents : SUBSET Readable, inEpoll : BOOLEAN]
    /\ interest \subseteq Readable
    /\ backlog \in 0..MaxClients
    /\ accepted \in 0..MaxClients

ServerInit ==
    /\ Init
    /\ main = "reactor"
    /\ subReactors = {}
    /\ socket = "none"
    /\ channel = [listenEvents |-> {}, readyEvents |-> {}, inEpoll |-> FALSE]
    /\ interest = {}
    /\ backlog = 0
    /\ accepted = 0

-----------------------------------------------------------------------------
(* The threads of the pool, until the process ends.                        *)

Worker(w) ==
    /\ Alive
    /\ Work(w) \/ (main = "construct" /\ Spawn(w))
    /\ UNCHANGED serverVars

Spurious(w) ==
    /\ Alive
    /\ SpuriousWakeup(w)
    /\ UNCHANGED serverVars

-----------------------------------------------------------------------------
(* The constructor of TcpServer.  ErrorIf ends the process when a call of  *)
(* the system fails.                                                       *)

GoOn(place) == main' = place

ErrorIf == main' = "failed"

\* The main reactor: an Eventloop makes its Epoll, with epoll_create1.
NewMainReactor ==
    /\ main = "reactor"
    /\ GoOn("socket") \/ ErrorIf
    /\ UNCHANGED <<vars, subReactors, acceptorVars, backlog, accepted>>

\* The constructor of Acceptor: socket, bind and listen.
NewSocket ==
    /\ main = "socket"
    /\ \/ GoOn("bind") /\ socket' = "made"
       \/ ErrorIf /\ socket' = socket
    /\ UNCHANGED <<vars, subReactors, channel, interest, backlog, accepted>>

Bind ==
    /\ main = "bind"
    /\ \/ GoOn("listen") /\ socket' = "bound"
       \/ ErrorIf /\ socket' = socket
    /\ UNCHANGED <<vars, subReactors, channel, interest, backlog, accepted>>

Listen ==
    /\ main = "listen"
    /\ \/ GoOn("watch") /\ socket' = "listening"
       \/ ErrorIf /\ socket' = socket
    /\ UNCHANGED <<vars, subReactors, channel, interest, backlog, accepted>>

\* Epoll::UpdateChannel: EPOLL_CTL_ADD for a channel that is not in the epoll
\* instance yet, EPOLL_CTL_MOD for one that is.
UpdateChannel(events) ==
    /\ interest' = events
    /\ channel' = [channel EXCEPT !.listenEvents = events, !.inEpoll = TRUE]

\* The acceptor's Channel and its enableReading.
EnableReading ==
    /\ main = "watch"
    /\ \/ GoOn("construct") /\ UpdateChannel(channel.listenEvents \cup Readable)
       \/ ErrorIf /\ UNCHANGED <<channel, interest>>
    /\ UNCHANGED <<vars, subReactors, socket, backlog, accepted>>

\* The pool, whose threads are running when its constructor returns.
Construct ==
    /\ main = "construct"
    /\ Constructed
    /\ main' = "subs"
    /\ UNCHANGED <<subReactors, acceptorVars, backlog, accepted>>

\* The number of sub reactors, hardware_concurrency(): as many as the pool has
\* threads, perhaps 0.
\* Mutant: one more.
Wanted_OneMore == PoolSize + 1

Wanted == PoolSize

NewSubReactor ==
    /\ main = "subs"
    /\ Cardinality(subReactors) < Wanted
    /\ \/ \E t \in Tasks \ subReactors :
             subReactors' = subReactors \cup {t} /\ main' = main
       \/ ErrorIf /\ subReactors' = subReactors
    /\ UNCHANGED <<vars, acceptorVars, backlog, accepted>>

ServerConstructed ==
    /\ main = "subs"
    /\ Cardinality(subReactors) = Wanted
    /\ main' = "install"
    /\ UNCHANGED <<vars, subReactors, acceptorVars, backlog, accepted>>

-----------------------------------------------------------------------------
(* main() and TcpServer::Start.                                            *)

InstallHandler ==
    /\ main = "install"
    /\ main' = "start"
    /\ UNCHANGED <<vars, subReactors, acceptorVars, backlog, accepted>>

\* TcpServer::Start: one addTask per sub reactor, then the main loop.
StartSubReactor ==
    /\ main = "start"
    /\ \/ \E t \in subReactors : CallAddTask(Owner, t)
       \/ AddTask(Owner)
    /\ UNCHANGED serverVars

StartMainReactor ==
    /\ main = "start"
    /\ pc[Owner] = "idle"
    /\ \A t \in subReactors : future[t] # "none"
    /\ main' = "poll"
    /\ UNCHANGED <<vars, subReactors, acceptorVars, backlog, accepted>>

\* Acceptor::AcceptConnection, and TcpServer::NewConnection behind it.
AcceptConnection ==
    /\ accepted' = accepted + 1
    /\ backlog' = backlog - 1

\* Channel::handleEvent of the acceptor's channel.
HandleEvent ==
    IF channel.readyEvents \cap Readable # {} THEN AcceptConnection
    ELSE UNCHANGED <<accepted, backlog>>

\* What epoll_wait has to report, level-triggered.
Poll == backlog > 0 /\ "EPOLLIN" \in interest

\* One turn of Eventloop::loop.  Epoll::Poll returns the channels of the
\* ready descriptors; it does not store the events in them.
LoopMainReactor ==
    /\ main = "poll"
    /\ Poll
    /\ HandleEvent
    /\ UNCHANGED <<vars, main, subReactors, acceptorVars>>

-----------------------------------------------------------------------------
(* The environment: clients, and one SIGINT.                               *)

ClientConnects ==
    /\ Alive
    /\ socket = "listening"
    /\ backlog + accepted < MaxClients
    /\ backlog' = backlog + 1
    /\ UNCHANGED <<vars, main, subReactors, acceptorVars, accepted>>

\* SIGINT interrupts the main thread wherever it is, with the mutex of the
\* pool held too.  Before the handler is installed it kills the process.
Sigint ==
    /\ \/ /\ main \in Constructing
          /\ main' = "killed"
          /\ UNCHANGED vars
       \/ /\ main \in {"start", "poll"}
          /\ main' = "handler"
          /\ pc' = [pc EXCEPT ![Owner] = "deleting"]
          /\ UNCHANGED <<locked, tasks, isRunning, arg, current, future>>
    /\ UNCHANGED <<subReactors, acceptorVars, backlog, accepted>>

\* delete server: the pool is the first member destroyed that owns threads,
\* its destructor returns before the sub reactors are destroyed.
DeletePool ==
    /\ main = "handler"
    /\ Destroy
    /\ UNCHANGED serverVars

\* The sub reactors, the acceptor, whose Channel and Socket both close the
\* listening descriptor, and the main reactor.
DeleteReactors ==
    /\ main = "handler"
    /\ pc[Owner] = "destroyed"
    /\ main' = "exited"
    /\ subReactors' = {}
    /\ socket' = "closed"
    /\ interest' = {}
    /\ backlog' = 0
    /\ UNCHANGED <<vars, channel, accepted>>

-----------------------------------------------------------------------------

NewServer == \/ NewMainReactor \/ NewSocket \/ Bind \/ Listen \/ EnableReading
             \/ Construct \/ NewSubReactor \/ ServerConstructed

Main == \/ NewServer \/ InstallHandler \/ StartSubReactor \/ StartMainReactor
        \/ LoopMainReactor \/ DeletePool \/ DeleteReactors

ServerNext ==
    \/ \E w \in Workers : Worker(w) \/ Spurious(w)
    \/ Main
    \/ ClientConnects
    \/ Sigint

\* The scheduler runs every thread that can go on.  Clients, the signal and
\* spurious wakeups come or do not come.
ServerFairness ==
    /\ \A w \in Workers : WF_allVars(Worker(w))
    /\ WF_allVars(Main)

ServerSpec == ServerInit /\ [][ServerNext]_allVars /\ ServerFairness

-----------------------------------------------------------------------------
(* Properties.                                                             *)

\* A worker inside Eventloop::loop uses its reactor through a plain pointer:
\* the reactor is there as long as the worker is, in the destructor too, and
\* no other worker runs the same loop.
ReactorOutlivesItsLoop ==
    \A w \in Workers : current[w] # NoTask /\ Alive =>
        /\ current[w] \in subReactors
        /\ pc[Owner] # "destroyed"
        /\ \A v \in Workers : current[v] = current[w] => v = w

\* Every sub reactor gets a thread ("every sub Reactor is run by one thread",
\* says the readme), although each loop occupies its worker for ever: the pool
\* is as large as the set of sub reactors.  A SIGINT may come first.
EverySubReactorRuns ==
    \A t \in Tasks :
        (main = "poll" /\ t \in subReactors) ~>
            (main # "poll" \/ \E w \in Workers : current[w] = t)

\* The main reactor sets up new connections, says the readme: a connection
\* that waits is accepted, unless the server is interrupted.
WaitingClientAccepted ==
    (main = "poll" /\ backlog > 0) ~> (main # "poll" \/ accepted > 0)

=============================================================================
