----------------------------- MODULE EchoClient -----------------------------
(***************************************************************************)
(* test/echo_client.cpp of network/demo_MainSubReactor: threads of one     *)
(* process that each run OneClient.  They share the table of descriptors,  *)
(* and in each of them a Socket and a Connection own the same descriptor.  *)
(*                                                                         *)
(* A client opens one connection, which bears the client's name.  Requests *)
(* and replies are counted.  The server is any program on port 1234 that   *)
(* may answer, close or reset.                                             *)
(***************************************************************************)
EXTENDS Integers

CONSTANTS
    Clients,    \* the threads that run OneClient
    Free,       \* what an unused descriptor refers to
    MaxFd,      \* the descriptors 1..MaxFd are those the limit leaves
    MaxMsgs     \* the parameter msgs of OneClient

ASSUME ClientAssumption ==
    /\ Free \notin Clients
    /\ {MaxFd, MaxMsgs} \subseteq Nat \ {0}

Fds == 1..MaxFd

VARIABLES
    process,    \* "running", or how the process ended
    table,      \* table[f]: the connection that descriptor f refers to
    place,      \* where OneClient is
    fd,         \* fd_ of the client's Socket and of its Connection
    state_,     \* member of its Connection
    mode,       \* how Connection::Read calls read: in the "loop" of
                \* readNonBlocking, "once" in readBlocking, or once for an
                \* "empty" buffer
    count,      \* the local variable of the same name
    reading,    \* the connection in which a read of the client waits
    farEnd,     \* the other end: "none" before connect, "open", "closed", "reset"
    requests,   \* messages that the server has not answered
    replies     \* answers that nobody has read

netVars == <<farEnd, requests, replies>>
vars == <<process, table, place, fd, state_, mode, count, reading, netVars>>

Ended == {"done", "threw"}

TypeOK ==
    /\ process \in {"running", "exited", "killed", "crashed"}
    /\ table \in [Fds -> Clients \cup {Free}]
    /\ place \in [Clients -> {"socket", "connect", "construct", "write", "close",
                              "read", "size", "call", "reading", "deleteConn",
                              "deleteSock"} \cup Ended]
    /\ fd \in [Clients -> Fds \cup {-1}]
    /\ state_ \in [Clients -> {"Connected", "Closed"}]
    /\ mode \in [Clients -> {"loop", "once", "empty"}]
    /\ count \in [Clients -> 0..MaxMsgs]
    /\ reading \in [Clients -> Clients \cup {Free}]
    /\ farEnd \in [Clients -> {"none", "open", "closed", "reset"}]
    /\ requests \in [Clients -> Nat]
    /\ replies \in [Clients -> Nat]

Init ==
    /\ process = "running"
    /\ table = [f \in Fds |-> Free]
    /\ place = [c \in Clients |-> "socket"]
    /\ fd = [c \in Clients |-> -1]
    /\ state_ = [c \in Clients |-> "Connected"]
    /\ mode = [c \in Clients |-> "once"]
    /\ count = [c \in Clients |-> 0]
    /\ reading = [c \in Clients |-> Free]
    /\ farEnd = [c \in Clients |-> "none"]
    /\ requests = [c \in Clients |-> 0]
    /\ replies = [c \in Clients |-> 0]

\* What the descriptor of c refers to.
File(c) == table[fd[c]]

PeerOf(c) == IF File(c) = Free THEN "badFd" ELSE farEnd[File(c)]

\* Reached(c, at): c runs and is at that place; Goto moves it.
Reached(c, at) == process = "running" /\ place[c] = at

Goto(c, to) == place' = [place EXCEPT ![c] = to]

\* exit in ErrorIf, a signal, or a wild pointer ends all threads.
ProcessEnds(how) ==
    /\ process' = how
    /\ UNCHANGED <<table, place, fd, state_, mode, count, reading, netVars>>

-----------------------------------------------------------------------------
(* OneClient.                                                              *)

\* Socket::Socket: the kernel gives the lowest free descriptor.
NewSocket(c) ==
    /\ Reached(c, "socket")
    /\ \/ \E f \in Fds :
             /\ table[f] = Free
             /\ \A g \in 1..(f - 1) : table[g] # Free
             /\ table' = [table EXCEPT ![f] = c]
             /\ fd' = [fd EXCEPT ![c] = f]
             /\ Goto(c, "connect")
             /\ UNCHANGED <<process, state_, mode, count, reading, netVars>>
       \/ /\ \A f \in Fds : table[f] # Free
          /\ ProcessEnds("exited")

\* Socket::Connect: fails if nobody listens, or on a descriptor that another
\* thread closed or already connected.
Connect(c) ==
    /\ Reached(c, "connect")
    /\ \/ /\ PeerOf(c) = "none"
          /\ farEnd' = [farEnd EXCEPT ![File(c)] = "open"]
          /\ Goto(c, "construct")
          /\ UNCHANGED <<process, table, fd, state_, mode, count, reading, requests, replies>>
       \/ ProcessEnds("exited")

\* Connection::Connection tests its member loop_, which nothing has set.  If
\* that is not null there is a Channel, which calls through the pointer.
Construct(c) ==
    /\ Reached(c, "construct")
    /\ \/ /\ Goto(c, "write")
          /\ UNCHANGED <<process, table, fd, state_, mode, count, reading, netVars>>
       \/ ProcessEnds("crashed")

\* Connection::Write on a blocking socket: the kernel takes the message, or
\* knows no such descriptor, or raises SIGPIPE, or reports the reset.  Whether
\* writeNonBlocking or writeBlocking calls write makes no difference: there is
\* room for the few bytes of a message, and both end Closed on an error.
Write(c) ==
    /\ Reached(c, "write")
    /\ \/ /\ state_[c] = "Connected" /\ PeerOf(c) \in {"open", "closed"}
          /\ requests' = [requests EXCEPT ![File(c)] = @ + 1]
          /\ Goto(c, "read")
          /\ UNCHANGED <<process, table, fd, state_, mode, count, reading, farEnd, replies>>
       \/ /\ state_[c] = "Closed" \/ PeerOf(c) \in {"badFd", "reset"}
          /\ state_' = [state_ EXCEPT ![c] = "Closed"]
          /\ Goto(c, "close")
          /\ UNCHANGED <<process, table, fd, mode, count, reading, netVars>>
       \/ /\ state_[c] = "Connected" /\ PeerOf(c) \in {"none", "reset"}
          /\ ProcessEnds("killed")

\* Connection::Close calls delete_connection_callback_, which is empty in a
\* client: std::bad_function_call leaves OneClient, the pool swallows it.
Close(c) ==
    /\ Reached(c, "close")
    /\ Goto(c, "threw")
    /\ UNCHANGED <<process, table, fd, state_, mode, count, reading, netVars>>

\* After Read, whatever it found: the next turn of the loop or its end.
Counted(c) ==
    /\ mode' = [mode EXCEPT ![c] = "once"]
    /\ count' = [count EXCEPT ![c] = @ + 1]
    /\ Goto(c, IF count[c] + 1 < MaxMsgs THEN "write" ELSE "deleteConn")

ReadFails(c) ==
    /\ state_' = [state_ EXCEPT ![c] = "Closed"]
    /\ Counted(c)
    /\ UNCHANGED replies

\* Connection::Read asks for the mode.  For a descriptor that is closed fcntl
\* returns -1, a number with the bit O_NONBLOCK, and the loop begins.
StartRead(c) ==
    /\ Reached(c, "read")
    /\ mode' = [mode EXCEPT ![c] = IF File(c) = Free THEN "loop" ELSE "once"]
    /\ Goto(c, IF File(c) = Free THEN "call" ELSE "size")
    /\ UNCHANGED <<process, table, fd, state_, count, reading, netVars>>

\* readBlocking asks for the size of the kernel's buffer and makes its own as
\* large: of 0 bytes if the descriptor has been closed meanwhile.
SizeBuffer(c) ==
    /\ Reached(c, "size")
    /\ mode' = [mode EXCEPT ![c] = IF File(c) = Free THEN "empty" ELSE "once"]
    /\ Goto(c, "call")
    /\ UNCHANGED <<process, table, fd, state_, count, reading, netVars>>

\* read keeps the open file, not the descriptor.  It fails on a descriptor that
\* is closed, and for 0 bytes it returns 0.
CallRead(c) ==
    /\ Reached(c, "call")
    /\ UNCHANGED <<process, table, fd, farEnd, requests>>
    /\ \/ /\ File(c) # Free /\ mode[c] # "empty"
          /\ reading' = [reading EXCEPT ![c] = File(c)]
          /\ Goto(c, "reading")
          /\ UNCHANGED <<state_, mode, count, replies>>
       \/ /\ File(c) = Free \/ mode[c] = "empty"
          /\ ReadFails(c)
          /\ UNCHANGED reading

\* Mutant: a read of 0 bytes is tried again.
AnswerRead_TriesAgain(c) ==
    /\ Reached(c, "reading")
    /\ reading' = [reading EXCEPT ![c] = Free]
    /\ UNCHANGED <<process, table, fd, farEnd, requests>>
    /\ \/ /\ replies[reading[c]] > 0
          /\ replies' = [replies EXCEPT ![reading[c]] = 0]
          /\ UNCHANGED state_
          /\ IF mode[c] = "loop" THEN Goto(c, "call") /\ UNCHANGED <<mode, count>>
                                 ELSE Counted(c)
       \/ /\ replies[reading[c]] = 0 /\ farEnd[reading[c]] = "closed"
          /\ Goto(c, "call")
          /\ UNCHANGED <<state_, mode, count, replies>>
       \/ /\ replies[reading[c]] = 0 /\ farEnd[reading[c]] \notin {"open", "closed"}
          /\ ReadFails(c)

\* All the answers that are there, or else 0 or an error once the other end is
\* gone.  The loop, on a socket that is after all blocking, goes on.
AnswerRead(c) ==
    /\ Reached(c, "reading")
    /\ reading' = [reading EXCEPT ![c] = Free]
    /\ UNCHANGED <<process, table, fd, farEnd, requests>>
    /\ \/ /\ replies[reading[c]] > 0
          /\ replies' = [replies EXCEPT ![reading[c]] = 0]
          /\ UNCHANGED state_
          /\ IF mode[c] = "loop" THEN Goto(c, "call") /\ UNCHANGED <<mode, count>>
                                 ELSE Counted(c)
       \/ /\ replies[reading[c]] = 0 /\ farEnd[reading[c]] # "open"
          /\ ReadFails(c)

\* ~Socket, first of the Connection's Socket and then of OneClient's: each
\* closes whatever the number refers to by then.
\* Mutant: the destructor forgets the descriptor without closing it.
CloseFd_Forgets(c) == table' = table

CloseFd(c) == table' = [table EXCEPT ![fd[c]] = Free]

Delete(c) ==
    /\ \/ Reached(c, "deleteConn") /\ Goto(c, "deleteSock")
       \/ Reached(c, "deleteSock") /\ Goto(c, "done")
    /\ CloseFd(c)
    /\ UNCHANGED <<process, fd, state_, mode, count, reading, netVars>>

OneClient(c) == \/ NewSocket(c) \/ Connect(c) \/ Construct(c) \/ Write(c)
                \/ Close(c) \/ StartRead(c) \/ SizeBuffer(c) \/ CallRead(c)
                \/ AnswerRead(c) \/ Delete(c)

-----------------------------------------------------------------------------
(* The server.                                                             *)

Answer(c) ==
    /\ farEnd[c] = "open" /\ requests[c] > 0
    /\ requests' = [requests EXCEPT ![c] = @ - 1]
    /\ replies' = [replies EXCEPT ![c] = @ + 1]
    /\ UNCHANGED <<process, table, place, fd, state_, mode, count, reading, farEnd>>

ServerEnds(c) ==
    /\ \/ farEnd[c] = "open" /\ farEnd' = [farEnd EXCEPT ![c] = "closed"]
       \/ farEnd[c] \in {"open", "closed"} /\ farEnd' = [farEnd EXCEPT ![c] = "reset"]
    /\ UNCHANGED <<process, table, place, fd, state_, mode, count, reading, requests, replies>>

Next == \E c \in Clients : OneClient(c) \/ Answer(c) \/ ServerEnds(c)

\* Every thread that can go on does; the server owes nothing.
Spec == Init /\ [][Next]_vars /\ \A c \in Clients : WF_vars(OneClient(c))

-----------------------------------------------------------------------------
(* Properties.                                                             *)

\* A client that has deleted its Connection leaves no descriptor of its own
\* open, whatever the double closes did to the numbers, and until then it has
\* at most the one it remembers.
EndedClientReleased ==
    \A c \in Clients, f \in Fds :
        table[f] = c => f = fd[c] /\ place[c] \notin {"deleteSock", "done"}

\* "To prevent repeated closing", says ~Socket of the -1 that it assigns: a
\* destructor closes the client's own connection, or finds it closed.
ClosesOnlyItsOwn ==
    \A c \in Clients :
        place[c] \in {"deleteConn", "deleteSock"} => table[fd[c]] \in {c, Free}

\* In the end every client is through, unless the process ended before or the
\* server keeps it waiting: a read never outlasts the connection.
ClientsEnd ==
    \A c \in Clients :
        <>[](place[c] \in Ended \/ process # "running"
                \/ (place[c] = "reading" /\ farEnd[reading[c]] = "open"))

=============================================================================
