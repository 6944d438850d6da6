----------------------------- MODULE SelectServer -----------------------------
(***************************************************************************)
(* The echo server of network/demo/TcpSelect.cpp: one thread, one set of   *)
(* watched descriptors, and clients that connect, send, read and leave in  *)
(* any order.  What the server knows of the connections (readfds, maxfd,   *)
(* tmpfds) is a copy of what the kernel knows of them (owner), and the two *)
(* change at different times.                                              *)
(*                                                                         *)
(* Messages are counted, not told apart.  They are texts shorter than the  *)
(* server's buffer of 1024 bytes.                                          *)
(***************************************************************************)
EXTENDS Naturals, Sequences

CONSTANTS
    Clients,    \* the clients
    None,       \* no client
    ListenFd,   \* listenfd: the lowest descriptor free at the start
    FdLimit,    \* the size of the process's table of descriptors
    MaxUnread,  \* bound: messages on their way to the server, per client
    Room        \* replies that fit in the buffers on their way to a client

\* What an fd_set has room for.  FD_SET of a larger connfd would write outside
\* of it; the server does not look (:86), so the process's limit has to.
FdSetSize == 1024

ASSUME SelectAssumption ==
    /\ None \notin Clients
    /\ ListenFd \in Nat
    /\ FdLimit \in Nat /\ ListenFd < FdLimit /\ FdLimit <= FdSetSize
    /\ MaxUnread \in Nat \ {0}
    /\ Room \in Nat \ {0}

VARIABLES
    present,    \* the clients that have connected and not left
    backlog,    \* connections that wait for accept
    owner,      \* the client at the other end of each descriptor
    unread,     \* messages of a client that recv has not taken
    replies,    \* replies that a client has not read
    reset,      \* connections that the other end has reset
    pc,         \* where main() is
    readfds,    \* the watched descriptors
    maxfd,      \* the largest of them
    tmpfds,     \* what select returned
    i           \* the loop's descriptor

clientVars == <<present, backlog, unread, replies, reset>>
serverVars == <<owner, pc, readfds, maxfd, tmpfds, i>>
vars == <<clientVars, serverVars>>

Fds == 0..(FdLimit - 1)

\* The lower descriptors are never closed, and the kernel gives the lowest
\* free one: a connection's descriptor is above the listening one.
ConnFds == (ListenFd + 1)..(FdLimit - 1)

Open == {f \in ConnFds : owner[f] # None}
Free == ConnFds \ Open
Connected(c) == \E f \in Open : owner[f] = c

TypeOK ==
    /\ present \subseteq Clients
    /\ backlog \in Seq(Clients)
    /\ owner \in [ConnFds -> Clients \cup {None}]
    /\ unread \in [Clients -> 0..MaxUnread]
    /\ replies \in [Clients -> 0..Room]
    /\ reset \subseteq Clients
    /\ pc \in {"select", "scan", "send", "stopped", "killed"}
    /\ readfds \subseteq Fds
    /\ maxfd \in Fds
    /\ tmpfds \subseteq Fds
    /\ i \in 0..FdLimit

Init ==
    /\ present = {}
    /\ backlog = <<>>
    /\ owner = [f \in ConnFds |-> None]
    /\ unread = [c \in Clients |-> 0]
    /\ replies = [c \in Clients |-> 0]
    /\ reset = {}
    /\ pc = "select"
    /\ readfds = {ListenFd}
    /\ maxfd = ListenFd
    /\ tmpfds = {}
    /\ i = 0

-----------------------------------------------------------------------------
(* The clients.                                                            *)

Waiting(c) == \E k \in 1..Len(backlog) : backlog[k] = c

\* A client that has left may come back over a new connection.
Connect(c) ==
    /\ c \notin present
    /\ ~Waiting(c)
    /\ ~Connected(c)
    /\ present' = present \cup {c}
    /\ backlog' = Append(backlog, c)
    /\ unread' = [unread EXCEPT ![c] = 0]
    /\ replies' = [replies EXCEPT ![c] = 0]
    /\ reset' = reset \ {c}
    /\ UNCHANGED serverVars

Request(c) ==
    /\ c \in present
    /\ unread[c] < MaxUnread
    /\ unread' = [unread EXCEPT ![c] = @ + 1]
    /\ UNCHANGED <<present, backlog, replies, reset, serverVars>>

ReadReply(c) ==
    /\ c \in present
    /\ replies[c] > 0
    /\ replies' = [replies EXCEPT ![c] = @ - 1]
    /\ UNCHANGED <<present, backlog, unread, reset, serverVars>>

\* To close with replies unread resets the connection.
Depart(c) ==
    /\ c \in present
    /\ present' = present \ {c}
    /\ reset' = IF replies[c] > 0 THEN reset \cup {c} ELSE reset
    /\ UNCHANGED <<backlog, unread, replies, serverVars>>

-----------------------------------------------------------------------------
(* The server.                                                             *)

\* recv would return: there are bytes, or the end, or an error.
Ready(c) == unread[c] > 0 \/ c \notin present

Readable(f) ==
    \/ f = ListenFd /\ backlog # <<>>
    \/ f \in Open /\ Ready(owner[f])

\* What select looks at.
Watched == {f \in readfds : f <= maxfd}

\* A closed descriptor among the watched ones: select fails with EBADF.
Closed == Watched \ (Open \cup {ListenFd})

\* What main does with the answer of select.
AfterSelect == pc' = IF Closed = {} THEN "scan" ELSE "stopped"

\* Mutant: select works on readfds, without the temporary copy.
Select_InPlace ==
    /\ pc = "select"
    /\ Closed # {} \/ \E f \in Watched : Readable(f)
    /\ tmpfds' = {f \in Watched : Readable(f)}
    /\ readfds' = tmpfds'
    /\ i' = 0
    /\ AfterSelect
    /\ UNCHANGED <<clientVars, owner, maxfd>>

\* A timeout only calls select again; a failure makes main return.
Select ==
    /\ pc = "select"
    /\ Closed # {} \/ \E f \in Watched : Readable(f)
    /\ tmpfds' = {f \in Watched : Readable(f)}
    /\ i' = 0
    /\ AfterSelect
    /\ UNCHANGED <<clientVars, owner, readfds, maxfd>>

Skip ==
    /\ pc = "scan"
    /\ i <= maxfd
    /\ i \notin tmpfds
    /\ i' = i + 1
    /\ UNCHANGED <<clientVars, owner, pc, readfds, maxfd, tmpfds>>

EndOfScan ==
    /\ pc = "scan"
    /\ i > maxfd
    /\ pc' = "select"
    /\ UNCHANGED <<clientVars, owner, readfds, maxfd, tmpfds, i>>

\* The loop is at a descriptor that select has returned.
At(f) == pc = "scan" /\ i = f /\ f <= maxfd /\ f \in tmpfds

\* The first waiting connection gets the lowest free descriptor.
Accept ==
    /\ At(ListenFd)
    /\ backlog # <<>>
    /\ \E f \in Free :
          /\ \A g \in Free : f <= g
          /\ owner' = [owner EXCEPT ![f] = Head(backlog)]
          /\ readfds' = readfds \cup {f}
          /\ maxfd' = IF f > maxfd THEN f ELSE maxfd
    /\ backlog' = Tail(backlog)
    /\ i' = i + 1
    /\ UNCHANGED <<present, unread, replies, reset, pc, tmpfds>>

\* EMFILE: the connection stays where it is.
AcceptFails ==
    /\ At(ListenFd)
    /\ backlog # <<>>
    /\ Free = {}
    /\ i' = i + 1
    /\ UNCHANGED <<clientVars, owner, pc, readfds, maxfd, tmpfds>>

\* recv takes some of the messages that are there.
Receive ==
    /\ \E f \in Open :
          /\ At(f)
          /\ \E left \in 0..MaxUnread :
                /\ left < unread[owner[f]]
                /\ unread' = [unread EXCEPT ![owner[f]] = left]
    /\ pc' = "send"
    /\ UNCHANGED <<present, backlog, replies, reset, owner, readfds, maxfd,
                   tmpfds, i>>

\* close(f): its messages go with the connection.
Close(f) == owner' = [owner EXCEPT ![f] = None]

\* Mutant: the loop that looks for the new maximum goes on after the first.
MaxfdFollows_NoBreak(f) ==
    LET candidates == {g \in readfds' : 0 < g /\ g <= maxfd}
    IN  IF f = maxfd /\ candidates # {}
        THEN \E m \in candidates :
                maxfd' = m /\ \A g \in candidates : m <= g
        ELSE maxfd' = maxfd

\* The new maximum: the loop that looks for it stops above 0, and leaves
\* maxfd alone when it finds nothing.
MaxfdFollows(f) ==
    LET candidates == {g \in readfds' : 0 < g /\ g <= maxfd}
    IN  IF f = maxfd /\ candidates # {}
        THEN \E m \in candidates :
                maxfd' = m /\ \A g \in candidates : g <= m
        ELSE maxfd' = maxfd

\* recv returns 0 or -1: the client has left and there is nothing to read,
\* or has reset the connection.
EndOfInput(c) == c \notin present /\ (unread[c] = 0 \/ c \in reset)

\* Mutant: FD_CLR is forgotten.
ReceiveEnd_StillWatched ==
    /\ \E f \in Open :
          /\ At(f)
          /\ EndOfInput(owner[f])
          /\ Close(f)
          /\ readfds' = readfds
          /\ MaxfdFollows(f)
    /\ i' = i + 1
    /\ UNCHANGED <<clientVars, pc, tmpfds>>

ReceiveEnd ==
    /\ \E f \in Open :
          /\ At(f)
          /\ EndOfInput(owner[f])
          /\ Close(f)
          /\ readfds' = readfds \ {f}
          /\ MaxfdFollows(f)
    /\ i' = i + 1
    /\ UNCHANGED <<clientVars, pc, tmpfds>>

\* Mutant: the connection is read again until recv fails.
Send_ReadsAgain ==
    /\ pc = "send"
    /\ \E f \in Open :
          /\ i = f
          /\ \/ /\ owner[f] \in present
                /\ replies[owner[f]] < Room
                /\ replies' = [replies EXCEPT ![owner[f]] = @ + 1]
                /\ UNCHANGED reset
             \/ /\ owner[f] \notin present \cup reset
                /\ reset' = reset \cup {owner[f]}
                /\ UNCHANGED replies
    /\ pc' = "scan"
    /\ UNCHANGED <<present, backlog, unread, owner, readfds, maxfd, tmpfds, i>>

\* send waits for room.  To a client that has left it succeeds once, and the
\* answer is a reset.
Send ==
    /\ pc = "send"
    /\ \E f \in Open :
          /\ i = f
          /\ \/ /\ owner[f] \in present
                /\ replies[owner[f]] < Room
                /\ replies' = [replies EXCEPT ![owner[f]] = @ + 1]
                /\ UNCHANGED reset
             \/ /\ owner[f] \notin present \cup reset
                /\ reset' = reset \cup {owner[f]}
                /\ UNCHANGED replies
    /\ pc' = "scan"
    /\ i' = i + 1
    /\ UNCHANGED <<present, backlog, unread, owner, readfds, maxfd, tmpfds>>

\* send returns -1.  maxfd stays as it is.
SendFails ==
    /\ pc = "send"
    /\ \E f \in Open :
          /\ i = f
          /\ owner[f] \in reset
          /\ Close(f)
          /\ readfds' = readfds \ {f}
    /\ pc' = "scan"
    /\ i' = i + 1
    /\ UNCHANGED <<clientVars, maxfd, tmpfds>>

\* The other outcome of a send on a connection that has been reset: SIGPIPE,
\* whose default action nobody has changed.
SendKills ==
    /\ pc = "send"
    /\ \E f \in Open : i = f /\ owner[f] \in reset
    /\ pc' = "killed"
    /\ UNCHANGED <<clientVars, owner, readfds, maxfd, tmpfds, i>>

-----------------------------------------------------------------------------

Client(c) == Connect(c) \/ Request(c) \/ ReadReply(c) \/ Depart(c)

Server ==
    \/ Select
    \/ Skip \/ EndOfScan
    \/ Accept \/ AcceptFails
    \/ Receive \/ ReceiveEnd
    \/ Send \/ SendFails \/ SendKills

Next == Server \/ \E c \in Clients : Client(c)

\* The server runs, and clients read their replies or leave.
Fairness ==
    /\ WF_vars(Server)
    /\ \A c \in Clients : WF_vars(ReadReply(c))

Spec == Init /\ [][Next]_vars /\ Fairness

-----------------------------------------------------------------------------
(* Properties.                                                             *)

\* The server watches the listening socket and every open connection, and
\* nothing else: no connection is forgotten and select is never given a
\* descriptor that is closed.  maxfd is large enough for all of them.
WatchesWhatIsOpen ==
    /\ readfds = {ListenFd} \cup Open
    /\ Watched = readfds

\* When the loop comes to a descriptor that select has returned, recv or
\* accept on it does not block: what happened at the smaller descriptors of
\* the same round, closed connections and new ones with their numbers, has
\* not made the answer of select stale.
NeverBlocks == (pc = "scan" /\ i <= maxfd /\ i \in tmpfds) => Readable(i)

Over == pc \in {"stopped", "killed"}

\* A connected client that has sent something gets an answer, whatever the
\* others do, as long as they read their replies.
EveryRequestAnswered ==
    \A c \in Clients :
        (Connected(c) /\ unread[c] > 0) ~>
            (~Connected(c) \/ (pc = "send" /\ i \in Open /\ owner[i] = c)
             \/ Over)

\* A client that waits is accepted, unless the table of descriptors is full.
EveryClientAccepted ==
    \A c \in Clients : Waiting(c) ~> (~Waiting(c) \/ Free = {} \/ Over)

=============================================================================
