----------------------------- MODULE Connection -----------------------------
(***************************************************************************)
(* One object of class Connection (network/demo_MainSubReactor), driven by *)
(* a program that calls Send and Read, against a peer and a kernel.        *)
(*                                                                         *)
(* The socket is blocking, as in the clients, or non-blocking, as Acceptor *)
(* makes it.  With a non-blocking socket the caller reads when the edge-   *)
(* triggered epoll has reported something, which is what UseET asks for.   *)
(* A byte sent is <<its message, its position>>; bytes received are        *)
(* counted.                                                                *)
(***************************************************************************)
EXTENDS Integers, Sequences

CONSTANTS
    Lens,         \* the lengths of the messages
    Capacity,     \* bytes in flight to the peer before write has no room
    Buf,          \* the 1024 bytes of the buffer of readNonBlocking
    MaxMessages,  \* bound: calls of Send
    MaxReceived,  \* bound: bytes the peer sends
    MaxSignals    \* bound: system calls that a signal interrupts

ASSUME ConnectionAssumption ==
    /\ Lens \subseteq Nat
    /\ {Capacity, Buf} \subseteq Nat \ {0}
    /\ {MaxMessages, MaxReceived, MaxSignals} \subseteq Nat

VARIABLES
    nonBlocking,  \* the flag O_NONBLOCK of the socket
    state,        \* state_
    pc,           \* the member function that is running, if any
    messages,     \* the number of calls of Send
    sendBuffer,   \* sendBuffer_, and data_written: the bytes still to write
    data_written,
    wire,         \* all that was written to the socket
    drained,      \* how much of it the peer has read
    readBuffer,   \* the length of readBuffer_
    taken,        \* bytes that this call of Read took from the socket
    inbox,        \* bytes from the peer that wait in the socket
    received,     \* bytes the peer has sent so far
    peer,         \* "open", "closed" after its FIN, "reset" after its RST
    edge,         \* epoll has an event of this socket to report
    signals       \* interrupted system calls so far

callerVars == <<state, pc, messages, sendBuffer, data_written, readBuffer, taken>>
peerVars == <<drained, received, peer>>
connectionVars == <<nonBlocking, callerVars, wire, inbox, peerVars, edge, signals>>

Lesser(m, n) == IF m < n THEN m ELSE n

Room == Capacity - (Len(wire) - drained)

ConnectionTypeOK ==
    /\ nonBlocking \in BOOLEAN
    /\ state \in {"Connected", "Closed"}
    /\ pc \in {"idle", "reading", "writing", "killed"}
    /\ messages \in 0..MaxMessages
    /\ sendBuffer \in Seq(Nat \X Nat)
    /\ data_written \in 0..Len(sendBuffer)
    /\ wire \in Seq(Nat \X Nat)
    /\ drained \in 0..Len(wire)
    /\ Room \in 0..Capacity
    /\ readBuffer \in 0..taken
    /\ received \in 0..MaxReceived
    /\ inbox \in 0..received
    /\ taken \in 0..received
    /\ peer \in {"open", "closed", "reset"}
    /\ edge \in BOOLEAN
    /\ signals \in 0..MaxSignals

ConnectionInit ==
    /\ nonBlocking \in BOOLEAN
    /\ state = "Connected" /\ pc = "idle" /\ messages = 0
    /\ sendBuffer = <<>> /\ data_written = 0
    /\ readBuffer = 0 /\ taken = 0
    /\ wire = <<>> /\ drained = 0 /\ inbox = 0 /\ received = 0
    /\ peer = "open" /\ edge = FALSE /\ signals = 0

-----------------------------------------------------------------------------
(* Send: setSendBuffer, then Write, which returns at once if the state is  *)
(* not Connected.                                                          *)

Send(len) ==
    /\ pc = "idle"
    /\ messages < MaxMessages
    /\ messages' = messages + 1
    /\ sendBuffer' = [i \in 1..len |-> <<messages', i>>]
    /\ IF state = "Connected"
       THEN pc' = "writing" /\ data_written' = len
       ELSE pc' = "idle" /\ data_written' = 0
    /\ UNCHANGED <<nonBlocking, state, readBuffer, taken, wire, inbox,
                   peerVars, edge, signals>>

\* write takes n bytes from where the last one stopped.
\* Mutant: always from the front of the buffer.
Written_FromTheFront(n) ==
    /\ wire' = wire \o SubSeq(sendBuffer, 1, n)
    /\ data_written' = data_written - n
    /\ UNCHANGED <<nonBlocking, state, pc, messages, sendBuffer, readBuffer,
                   taken, inbox, peerVars, edge, signals>>

Written(n) ==
    /\ LET from == Len(sendBuffer) - data_written
       IN  wire' = wire \o SubSeq(sendBuffer, from + 1, from + n)
    /\ data_written' = data_written - n
    /\ UNCHANGED <<nonBlocking, state, pc, messages, sendBuffer, readBuffer,
                   taken, inbox, peerVars, edge, signals>>

\* Mutant: the count of what is left outlives the buffer.
WriteReturns_KeepsRest(newState) ==
    /\ pc' = "idle"
    /\ state' = newState
    /\ sendBuffer' = <<>>
    /\ UNCHANGED <<nonBlocking, messages, data_written, readBuffer, taken, wire,
                   inbox, peerVars, edge>>

\* The end of Write, which clears sendBuffer_ whatever became of it.
WriteReturns(newState) ==
    /\ pc' = "idle"
    /\ state' = newState
    /\ sendBuffer' = <<>>
    /\ data_written' = 0
    /\ UNCHANGED <<nonBlocking, messages, readBuffer, taken, wire, inbox,
                   peerVars, edge>>

\* The one write of writeBlocking is under way and has taken some bytes.
Partial == ~nonBlocking /\ data_written < Len(sendBuffer)

\* write on a connection that was reset returns the count of the bytes it has
\* taken.  If there are none it fails, or raises SIGPIPE, which nothing handles.
WriteFails ==
    /\ pc = "writing" /\ data_written > 0 /\ peer = "reset"
    /\ UNCHANGED signals
    /\ \/ WriteReturns(IF Partial THEN state ELSE "Closed")
       \/ /\ ~Partial
          /\ pc' = "killed"
          /\ UNCHANGED <<nonBlocking, state, messages, sendBuffer, data_written,
                         readBuffer, taken, wire, inbox, peerVars, edge>>

\* Mutant: tries again when there is no room.
writeNonBlocking_Retries ==
    /\ pc = "writing" /\ nonBlocking
    /\ \/ /\ data_written = 0
          /\ WriteReturns(state)
          /\ UNCHANGED signals
       \/ /\ peer # "reset"
          /\ \E n \in 1..Lesser(data_written, Room) : Written(n)

writeNonBlocking ==
    /\ pc = "writing" /\ nonBlocking
    /\ \/ /\ data_written = 0 \/ (Room = 0 /\ peer # "reset")    \* EAGAIN
          /\ WriteReturns(state)
          /\ UNCHANGED signals
       \/ /\ peer # "reset"
          /\ \E n \in 1..Lesser(data_written, Room) : Written(n)
       \/ /\ data_written > 0 /\ signals < MaxSignals            \* EINTR
          /\ signals' = signals + 1
          /\ UNCHANGED <<nonBlocking, callerVars, wire, inbox, peerVars, edge>>

\* One call of write: the kernel takes bytes as there is room.  A signal ends
\* it early, with a count that nobody looks at, or with an error if no byte
\* was taken yet.
writeBlocking ==
    /\ pc = "writing" /\ ~nonBlocking
    /\ \/ /\ data_written = 0
          /\ WriteReturns(state)
          /\ UNCHANGED signals
       \/ /\ peer # "reset"
          /\ \E n \in 1..Lesser(data_written, Room) : Written(n)
       \/ /\ data_written > 0 /\ signals < MaxSignals
          /\ signals' = signals + 1
          /\ WriteReturns(IF Partial THEN state ELSE "Closed")

-----------------------------------------------------------------------------
(* Read.                                                                   *)

\* A caller that waits for the edge calls Read once per report of epoll.
Read ==
    /\ pc = "idle" /\ state = "Connected"
    /\ nonBlocking => edge
    /\ edge' = FALSE
    /\ pc' = "reading"
    /\ readBuffer' = 0 /\ taken' = 0
    /\ UNCHANGED <<nonBlocking, state, messages, sendBuffer, data_written, wire,
                   inbox, peerVars, signals>>

\* Buffer::Append: the test for the end of the string is an empty statement,
\* and the break after it ends the loop in its first turn.
BufferAppend(buffer, len) == buffer

ReadsOn(n) ==
    /\ inbox' = inbox - n
    /\ taken' = taken + n
    /\ readBuffer' = BufferAppend(readBuffer, n)
    /\ UNCHANGED <<nonBlocking, messages, sendBuffer, data_written, wire, peerVars,
                   edge, signals>>

\* read with no byte left: the end of the stream, an error, or EAGAIN.
StateAtEnd == IF peer = "open" THEN state ELSE "Closed"

ReadReturns ==
    /\ pc' = "idle"
    /\ state' = StateAtEnd
    /\ UNCHANGED <<nonBlocking, messages, sendBuffer, data_written, readBuffer,
                   taken, wire, inbox, peerVars, edge>>

\* Mutant: a short read is taken for the last one.
readNonBlocking_UntilShort ==
    /\ pc = "reading" /\ nonBlocking
    /\ \/ /\ inbox > 0
          /\ ReadsOn(Lesser(inbox, Buf))
          /\ pc' = (IF inbox < Buf THEN "idle" ELSE pc)
          /\ UNCHANGED state
       \/ /\ inbox = 0
          /\ ReadReturns
          /\ UNCHANGED signals

\* The loop of readNonBlocking; a read that a signal interrupts is a stutter.
readNonBlocking ==
    /\ pc = "reading" /\ nonBlocking
    /\ \/ /\ inbox > 0
          /\ ReadsOn(Lesser(inbox, Buf))
          /\ UNCHANGED <<pc, state>>
       \/ /\ inbox = 0
          /\ ReadReturns
          /\ UNCHANGED signals

\* One call of read with a buffer as large as the kernel's, SO_RCVBUF.  It
\* waits while there is neither a byte nor an end, and a signal that ends the
\* wait is an error like any other.
readBlocking ==
    /\ pc = "reading" /\ ~nonBlocking
    /\ \/ /\ inbox > 0
          /\ ReadsOn(inbox)
          /\ pc' = "idle"
          /\ UNCHANGED state
       \/ /\ inbox = 0 /\ peer # "open"
          /\ ReadReturns
          /\ UNCHANGED signals
       \/ /\ inbox = 0 /\ signals < MaxSignals
          /\ signals' = signals + 1
          /\ pc' = "idle"
          /\ state' = "Closed"
          /\ UNCHANGED <<nonBlocking, messages, sendBuffer, data_written, readBuffer,
                         taken, wire, inbox, peerVars, edge>>

-----------------------------------------------------------------------------
(* The peer.  An RST discards what waits in both directions.               *)

PeerSends ==
    /\ peer = "open" /\ received < MaxReceived
    /\ \E n \in 1..(MaxReceived - received) :
          /\ received' = received + n
          /\ inbox' = inbox + n
    /\ edge' = TRUE
    /\ UNCHANGED <<nonBlocking, callerVars, wire, drained, peer, signals>>

PeerReads ==
    /\ peer # "reset" /\ drained < Len(wire)
    /\ drained' = Len(wire)
    /\ UNCHANGED <<nonBlocking, callerVars, wire, inbox, received, peer, edge,
                   signals>>

PeerEnds ==
    /\ \/ peer = "open" /\ peer' = "closed" /\ inbox' = inbox
       \/ peer # "reset" /\ peer' = "reset" /\ inbox' = 0
    /\ edge' = TRUE
    /\ UNCHANGED <<nonBlocking, callerVars, wire, drained, received, signals>>

-----------------------------------------------------------------------------

Step == writeNonBlocking \/ writeBlocking \/ WriteFails
            \/ readNonBlocking \/ readBlocking

ConnectionNext ==
    \/ \E len \in Lens : Send(len)
    \/ Read
    \/ Step
    \/ PeerSends \/ PeerReads \/ PeerEnds

\* A call that can go on does so.  Nobody has to call, and the peer may stop.
ConnectionSpec == ConnectionInit /\ [][ConnectionNext]_connectionVars /\ WF_connectionVars(Step)

-----------------------------------------------------------------------------
(* Properties.                                                             *)

\* Of each message a beginning reaches the wire, in the order of the calls:
\* partial writes and interrupted ones neither skip nor repeat a byte.
WireInOrder ==
    \A i \in 1..Len(wire) :
        \/ wire[i][2] = 1 /\ (i > 1 => wire[i - 1][1] < wire[i][1])
        \/ /\ i > 1
           /\ wire[i] = <<wire[i - 1][1], wire[i - 1][2] + 1>>

\* "Send in a loop until all the data has been sent", says writeNonBlocking: a
\* call of Write that leaves the connection open has sent the message.
LoopSendsAll ==
    [][nonBlocking /\ pc = "writing" /\ pc' = "idle" /\ state' = "Connected"
          => data_written = 0]_connectionVars

\* A caller that reads once per edge misses nothing: between calls, with no
\* report outstanding, the socket holds no byte and no end of the stream.
NoLostEdge ==
    nonBlocking /\ pc = "idle" /\ state = "Connected" /\ ~edge =>
        inbox = 0 /\ peer = "open"

\* On a non-blocking socket every call returns, even if the peer never reads;
\* one that sent without end could keep readNonBlocking in its loop.
NonBlockingCallsReturn ==
    (nonBlocking /\ pc \in {"reading", "writing"}) ~> (pc \in {"idle", "killed"})

=============================================================================
