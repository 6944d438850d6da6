----------------------------- MODULE EpollServer ----------------------------
(***************************************************************************)
(* The echo server of network/demo/TcpEpoll.cpp: one thread and a level-   *)
(* triggered epoll.  main calls initserver twice with the same port.  If   *)
(* that is a port, the second bind meets the first socket, which already   *)
(* listens; port 0 gives each socket a port of its own, and the clients    *)
(* connect to that of listensock.                                          *)
(*                                                                         *)
(* Messages are counted, not told apart.  They are texts shorter than the  *)
(* server's buffer of 1024 bytes.                                          *)
(***************************************************************************)
EXTENDS Integers, Sequences, SequencesExt

CONSTANTS
    Visitors,       \* the clients
    Nobody,         \* no client
    Listensock,     \* the descriptor of the second socket
    FdTop,          \* the highest descriptor the limit allows
    Batch,          \* the length of the array events, 10
    MaxWaiting,     \* bound: messages on their way to the server, in all
    ReplyRoom       \* replies that fit on their way to a client

ASSUME EpollAssumption ==
    /\ Nobody \notin Visitors
    /\ {Listensock, FdTop, Batch, MaxWaiting, ReplyRoom} \subseteq Nat
    /\ Listensock < FdTop /\ Batch > 0

\* The kernel gives the lowest free descriptor: connections are above.
Conns == (Listensock + 1)..FdTop

VARIABLES
    port,           \* the argument of the program: "given" or "zero"
    here,           \* the clients that have connected and not left
    queue,          \* connections that wait for accept
    unseen,         \* unseen[c]: messages of c that recv has not taken
    answers,        \* answers[c]: replies that c has not read
    rst,            \* connections that the client has reset
    client,         \* client[f]: who is at the other end of descriptor f
    watched,        \* what the epoll watches
    ready,          \* the ready list of the epoll, in order
    events,         \* what is left of the answer of epoll_wait
    about,          \* history: client when epoll_wait gave the answer
    main            \* where main is

visitorVars == <<here, queue, unseen, answers, rst>>
epollVars == <<port, visitorVars, client, watched, ready, events, about, main>>

OpenConns == {f \in Conns : client[f] # Nobody}
FreeConns == Conns \ OpenConns
Served(c) == \E f \in OpenConns : client[f] = c
Queued(c) == c \in ToSet(queue)

EpollTypeOK ==
    /\ port \in {"given", "zero"}
    /\ here \subseteq Visitors /\ rst \subseteq Visitors
    /\ queue \in Seq(Visitors)
    /\ unseen \in [Visitors -> Nat]
    /\ answers \in [Visitors -> 0..ReplyRoom]
    /\ client \in [Conns -> Visitors \cup {Nobody}]
    /\ watched \subseteq Conns \cup {Listensock}
    /\ ready \in Seq(watched) /\ IsInjective(ready)
    /\ events \in Seq(Conns \cup {Listensock}) /\ Len(events) <= Batch
    /\ about \in [Conns -> Visitors \cup {Nobody}]
    /\ main \in {"setup", "wait", "events", "send", "killed"}

EpollInit ==
    /\ port \in {"given", "zero"}
    /\ here = {} /\ queue = <<>> /\ rst = {}
    /\ unseen = [c \in Visitors |-> 0]
    /\ answers = [c \in Visitors |-> 0]
    /\ client = [f \in Conns |-> Nobody]
    /\ about = [f \in Conns |-> Nobody]
    /\ watched = {} /\ ready = <<>> /\ events = <<>>
    /\ main = "setup"

-----------------------------------------------------------------------------
(* epoll: a descriptor on which something happens joins the ready list.    *)

\* Who is told when something of client c arrives.
Of(c) == IF Queued(c) THEN {Listensock} ELSE {f \in OpenConns : client[f] = c}

Roused(list, fds) == list \o SetToSeq((fds \cap watched) \ ToSet(list))

\* What is left of a list of descriptors, in its order, when only those of a
\* set stay.
Kept(list, fds) ==
    LET kept[n \in 0..Len(list)] ==
            IF n = 0 THEN <<>>
            ELSE IF list[n] \in fds THEN Append(kept[n - 1], list[n]) ELSE kept[n - 1]
    IN  kept[Len(list)]

\* A call of recv or accept would return at once.
Answerable(f) ==
    \/ f = Listensock /\ queue # <<>>
    \/ f \in OpenConns /\ (unseen[client[f]] > 0 \/ client[f] \notin here)

ReadyNow == Kept(ready, {f \in watched : Answerable(f)})

-----------------------------------------------------------------------------
(* The clients.                                                            *)

Visit(c) ==
    /\ main # "setup"
    /\ c \notin here /\ ~Queued(c) /\ ~Served(c)
    /\ here' = here \cup {c}
    /\ queue' = Append(queue, c)
    /\ unseen' = [unseen EXCEPT ![c] = 0]
    /\ answers' = [answers EXCEPT ![c] = 0]
    /\ rst' = rst \ {c}
    /\ ready' = Roused(ready, {Listensock})
    /\ UNCHANGED <<port, client, watched, events, about, main>>

Ask(c) ==
    /\ c \in here /\ FoldFunction(+, 0, unseen) < MaxWaiting
    /\ unseen' = [unseen EXCEPT ![c] = @ + 1]
    /\ ready' = Roused(ready, Of(c))
    /\ UNCHANGED <<port, here, queue, answers, rst, client, watched, events, about, main>>

TakeAnswer(c) ==
    /\ c \in here /\ answers[c] > 0
    /\ answers' = [answers EXCEPT ![c] = @ - 1]
    /\ UNCHANGED <<port, here, queue, unseen, rst, client, watched, ready,
                   events, about, main>>

\* To close with replies unread drops them and resets the connection.
Leave(c) ==
    /\ c \in here
    /\ here' = here \ {c}
    /\ rst' = IF answers[c] > 0 THEN rst \cup {c} ELSE rst
    /\ answers' = [answers EXCEPT ![c] = 0]
    /\ ready' = Roused(ready, Of(c))
    /\ UNCHANGED <<port, queue, unseen, client, watched, events, about, main>>

-----------------------------------------------------------------------------
(* The server.                                                             *)

\* Both calls of initserver, epoll_create and the first epoll_ctl, which
\* fails on a listensock of -1; nobody looks at its result.
Setup ==
    /\ main = "setup"
    /\ main' = "wait"
    /\ watched' = IF port = "zero" THEN {Listensock} ELSE {}
    /\ UNCHANGED <<port, visitorVars, client, ready, events, about>>

\* Mutant: the registration asks for EPOLLET.
EpollWait_Edge ==
    /\ main = "wait"
    /\ LET live == ReadyNow
           n == IF Len(live) < Batch THEN Len(live) ELSE Batch
       IN  /\ n > 0
           /\ events' = SubSeq(live, 1, n)
           /\ ready' = SubSeq(live, n + 1, Len(live))
    /\ about' = client
    /\ main' = "events"
    /\ UNCHANGED <<port, visitorVars, client, watched>>

\* The first of the ready list that are still answerable, as many as fit in
\* the array.  Level-triggered: they go to the end of the list.
EpollWait ==
    /\ main = "wait"
    /\ LET live == ReadyNow
           n == IF Len(live) < Batch THEN Len(live) ELSE Batch
       IN  /\ n > 0
           /\ events' = SubSeq(live, 1, n)
           /\ ready' = SubSeq(live, n + 1, Len(live)) \o events'
    /\ about' = client
    /\ main' = "events"
    /\ UNCHANGED <<port, visitorVars, client, watched>>

EventsDone ==
    /\ main = "events" /\ events = <<>>
    /\ main' = "wait" /\ about' = [f \in Conns |-> Nobody]
    /\ UNCHANGED <<port, visitorVars, client, watched, ready, events>>

\* The loop is at the event of descriptor f.
AtEvent(f) == main = "events" /\ events # <<>> /\ Head(events) = f

\* Mutant: the new connection is not given to epoll_ctl.
TakeVisitor_Unwatched ==
    /\ AtEvent(Listensock) /\ queue # <<>> /\ FreeConns # {}
    /\ LET f == CHOOSE f \in FreeConns : \A g \in FreeConns : f <= g
       IN  client' = [client EXCEPT ![f] = Head(queue)]
    /\ queue' = Tail(queue)
    /\ events' = Tail(events)
    /\ UNCHANGED <<port, here, unseen, answers, rst, watched, ready, about, main>>

\* accept gives the lowest free descriptor; epoll_ctl finds it ready if the
\* client has already sent something, or left.
TakeVisitor ==
    /\ AtEvent(Listensock) /\ queue # <<>> /\ FreeConns # {}
    /\ LET f == CHOOSE f \in FreeConns : \A g \in FreeConns : f <= g
           c == Head(queue)
       IN  /\ client' = [client EXCEPT ![f] = c]
           /\ watched' = watched \cup {f}
           /\ ready' = IF unseen[c] > 0 \/ c \notin here THEN Append(ready, f) ELSE ready
    /\ queue' = Tail(queue)
    /\ events' = Tail(events)
    /\ UNCHANGED <<port, here, unseen, answers, rst, about, main>>

\* accept fails with EMFILE.
AcceptFailed ==
    /\ AtEvent(Listensock) /\ queue # <<>> /\ FreeConns = {}
    /\ events' = Tail(events)
    /\ UNCHANGED <<port, visitorVars, client, watched, ready, about, main>>

\* recv takes some of the messages that are there.
TakeMessages ==
    /\ main = "events" /\ events # <<>> /\ Head(events) \in OpenConns
    /\ LET c == client[Head(events)]
       IN  \E left \in 0..(unseen[c] - 1) : unseen' = [unseen EXCEPT ![c] = left]
    /\ main' = "send"
    /\ UNCHANGED <<port, here, queue, answers, rst, client, watched, ready,
                   events, about>>

\* close takes the descriptor out of the epoll; what was unread is lost.
CloseConn(f) ==
    /\ watched' = watched \ {f}
    /\ ready' = Kept(ready, watched')
    /\ client' = [client EXCEPT ![f] = Nobody]
    /\ unseen' = [unseen EXCEPT ![client[f]] = 0]

\* recv returns 0, or -1 on a connection that was reset.
TakeEnd ==
    /\ main = "events" /\ events # <<>> /\ Head(events) \in OpenConns
    /\ LET c == client[Head(events)]
       IN  c \notin here /\ (unseen[c] = 0 \/ c \in rst)
    /\ CloseConn(Head(events))
    /\ events' = Tail(events)
    /\ UNCHANGED <<port, here, queue, answers, rst, about, main>>

\* Mutant: the event is kept, and recv called again for it.
SendBack_Again ==
    /\ main = "send"
    /\ LET c == client[Head(events)]
       IN  \/ /\ c \in here /\ answers[c] < ReplyRoom
              /\ answers' = [answers EXCEPT ![c] = @ + 1]
              /\ main' = "events" /\ UNCHANGED rst
           \/ /\ c \notin here /\ main' = "events"
              /\ rst' = rst \cup {c} /\ UNCHANGED answers
    /\ UNCHANGED <<port, here, queue, unseen, client, watched, ready, events, about>>

\* send waits for room, and its result is not looked at.  To a client that
\* has left it succeeds and is answered by a reset; on a connection that was
\* reset already it fails or raises SIGPIPE, which nobody handles.
SendBack ==
    /\ main = "send"
    /\ LET c == client[Head(events)]
       IN  \/ /\ c \in here /\ answers[c] < ReplyRoom
              /\ answers' = [answers EXCEPT ![c] = @ + 1]
              /\ main' = "events" /\ UNCHANGED rst
           \/ /\ c \notin here /\ main' = "events"
              /\ rst' = rst \cup {c} /\ UNCHANGED answers
           \/ /\ c \in rst /\ main' = "killed" /\ UNCHANGED <<answers, rst>>
    /\ events' = Tail(events)
    /\ UNCHANGED <<port, here, queue, unseen, client, watched, ready, about>>

EpollLoop == \/ Setup \/ EpollWait \/ EventsDone \/ TakeVisitor
             \/ AcceptFailed \/ TakeMessages \/ TakeEnd \/ SendBack

EpollNext == EpollLoop \/ \E c \in Visitors : Visit(c) \/ Ask(c) \/ TakeAnswer(c) \/ Leave(c)

\* The server runs, and clients read their replies.
EpollFairness ==
    /\ WF_epollVars(EpollLoop)
    /\ \A c \in Visitors : WF_epollVars(TakeAnswer(c))

EpollSpec == EpollInit /\ [][EpollNext]_epollVars /\ EpollFairness

-----------------------------------------------------------------------------
(* Properties.                                                             *)

\* When the loop comes to an event, accept or recv does not block, and the
\* connection is the one it was reported for: what was done for the earlier
\* events of the answer, closed connections and new ones that may take their
\* numbers, has not made it stale.
EventsStayFresh ==
    main = "events" /\ events # <<>> =>
        /\ Answerable(Head(events))
        /\ Head(events) # Listensock => client[Head(events)] = about[Head(events)]

\* If the second socket could be made, it and every open connection are
\* watched, and what accept or recv could answer is in the ready list of the
\* epoll at every moment: no message and no client is overlooked.
NothingOverlooked ==
    port = "zero" /\ main # "setup" =>
        /\ watched = OpenConns \cup {Listensock}
        /\ \A f \in watched : Answerable(f) => f \in ToSet(ready)

\* What the usage line (:40) and the comment at epoll_ctl (:58) promise: called
\* with a port, the server watches the socket that its clients connect to.
ClientsAreAwaited == main = "wait" /\ queue # <<>> => Listensock \in watched

\* A client that is served and has sent something gets an answer, even if
\* more descriptors are ready than the array holds.
EveryAskAnswered ==
    \A c \in Visitors :
        (Served(c) /\ unseen[c] > 0) ~>
            (~Served(c) \/ main = "killed"
             \/ (main = "send" /\ client[Head(events)] = c))

=============================================================================
