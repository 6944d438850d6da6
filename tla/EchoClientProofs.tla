-------------------------- MODULE EchoClientProofs --------------------------
(***************************************************************************)
(* Theorems about EchoClient, for every set of clients, every limit of     *)
(* descriptors and every number of messages.                               *)
(***************************************************************************)
EXTENDS EchoClient, TLAPS

\* A client has a descriptor once it is past socket(), and turns of the loop
\* left while it is in the loop.
InLoop(c) == place[c] \notin {"deleteConn", "deleteSock"} \cup Ended

Progress ==
    \A c \in Clients :
        /\ place[c] = "socket" <=> fd[c] = -1
        /\ InLoop(c) => count[c] < MaxMsgs

IInv == TypeOK /\ Progress /\ EndedClientReleased

\* The initial state_ satisfies the invariant.
LEMMA InitIInv == Init => IInv
  BY ClientAssumption DEF Init, IInv, TypeOK, Progress, InLoop, Ended,
     EndedClientReleased, Fds

\* Steps that end the process or leave alone all that the invariant is about.
LEMMA ProcessEndsIInv ==
  ASSUME IInv, NEW how \in {"exited", "killed", "crashed"}, ProcessEnds(how)
  PROVE  IInv'
  BY DEF IInv, TypeOK, Progress, InLoop, Ended, EndedClientReleased, Fds,
     ProcessEnds, netVars

\* socket(): the descriptor was free and the client has no other.
LEMMA NewSocketIInv ==
  ASSUME IInv, NEW c \in Clients, NewSocket(c)
  PROVE  IInv'
<1>1. CASE ProcessEnds("exited")
  BY <1>1, ProcessEndsIInv
<1>2. CASE /\ \E f \in Fds : /\ table[f] = Free
                             /\ table' = [table EXCEPT ![f] = c]
                             /\ fd' = [fd EXCEPT ![c] = f]
           /\ place' = [place EXCEPT ![c] = "connect"]
           /\ UNCHANGED <<process, state_, mode, count, reading, netVars>>
  <2>1. PICK f \in Fds : /\ table[f] = Free
                         /\ table' = [table EXCEPT ![f] = c]
                         /\ fd' = [fd EXCEPT ![c] = f]
    BY <1>2
  <2>2. f # -1 /\ place[c] = "socket" /\ fd[c] = -1
    BY ClientAssumption DEF Fds, NewSocket, Reached, IInv, Progress
  <2>3. TypeOK'
    BY <1>2, <2>1 DEF IInv, TypeOK, netVars, Ended
  <2>4. Progress'
    BY <1>2, <2>1, <2>2 DEF IInv, TypeOK, Progress, InLoop, Ended
  <2>5. \A g \in Fds : table[g] # c
    BY <2>2 DEF IInv, EndedClientReleased, Fds
  <2>6. EndedClientReleased'
    BY <1>2, <2>1, <2>5, ClientAssumption
       DEF IInv, TypeOK, EndedClientReleased, Ended
  <2>7. QED
    BY <2>3, <2>4, <2>6 DEF IInv
<1>3. QED
  BY <1>1, <1>2 DEF NewSocket, Reached, Goto

\* Steps of a client that open and close nothing.
LEMMA QuietIInv ==
  ASSUME IInv, NEW c \in Clients,
         Connect(c) \/ Construct(c) \/ Write(c) \/ Close(c)
  PROVE  IInv'
<1>1. CASE \E how \in {"exited", "killed", "crashed"} : ProcessEnds(how)
  BY <1>1, ProcessEndsIInv
<1>2. CASE Connect(c) /\ ~ ProcessEnds("exited")
  <2>1. TypeOK'
    BY <1>2 DEF Connect, Reached, Goto, IInv, TypeOK, Ended
  <2>2. Progress' /\ EndedClientReleased'
    BY <1>2 DEF Connect, Reached, Goto, IInv, TypeOK, Progress, InLoop, Ended,
       EndedClientReleased
  <2>3. QED
    BY <2>1, <2>2 DEF IInv
<1>3. CASE Construct(c) /\ ~ ProcessEnds("crashed")
  BY <1>3 DEF Construct, Reached, Goto, IInv, TypeOK, Progress, InLoop, Ended,
     EndedClientReleased, netVars
<1>4. CASE Write(c) /\ ~ ProcessEnds("killed")
  <2>1. TypeOK'
    BY <1>4 DEF Write, Reached, Goto, IInv, TypeOK, Ended, netVars
  <2>2. Progress' /\ EndedClientReleased'
    BY <1>4 DEF Write, Reached, Goto, IInv, TypeOK, Progress, InLoop, Ended,
       EndedClientReleased
  <2>3. QED
    BY <2>1, <2>2 DEF IInv
<1>5. CASE Close(c)
  BY <1>5 DEF Close, Reached, Goto, IInv, TypeOK, Progress, InLoop, Ended,
     EndedClientReleased, netVars
<1>6. QED
  BY <1>1, <1>2, <1>3, <1>4, <1>5

\* Connection::Read, whose end counts a turn of the loop.
LEMMA ReadIInv ==
  ASSUME IInv, NEW c \in Clients,
         StartRead(c) \/ SizeBuffer(c) \/ CallRead(c) \/ AnswerRead(c)
  PROVE  IInv'
<1>1. /\ place[c] \in {"read", "size", "call", "reading"}
      /\ count[c] \in 0..MaxMsgs /\ count[c] < MaxMsgs
  BY DEF StartRead, SizeBuffer, CallRead, AnswerRead, Reached, IInv, TypeOK,
     Progress, InLoop, Ended
<1>2. count[c] + 1 \in 0..MaxMsgs
  BY <1>1, ClientAssumption
<1>3. ASSUME Counted(c), UNCHANGED <<process, table, fd, farEnd, requests>>,
             state_' \in [Clients -> {"Connected", "Closed"}],
             reading' \in [Clients -> Clients \cup {Free}],
             replies' \in [Clients -> Nat]
      PROVE  IInv'
  <2>1. /\ count' = [count EXCEPT ![c] = count[c] + 1]
        /\ mode' = [mode EXCEPT ![c] = "once"]
        /\ place' = [place EXCEPT ![c] = IF count[c] + 1 < MaxMsgs THEN "write"
                                                             ELSE "deleteConn"]
    BY <1>3 DEF Counted, Goto
  <2>2. TypeOK'
    BY <1>2, <1>3, <2>1 DEF IInv, TypeOK, Ended
  <2>3. Progress' /\ EndedClientReleased'
    BY <1>1, <1>2, <1>3, <2>1 DEF IInv, TypeOK, Progress, InLoop, Ended,
       EndedClientReleased
  <2>4. QED
    BY <2>2, <2>3 DEF IInv
<1>4. ASSUME NEW to \in {"size", "call", "reading"}, Goto(c, to),
             UNCHANGED <<process, table, fd, count, farEnd, requests>>,
             state_' \in [Clients -> {"Connected", "Closed"}],
             mode' \in [Clients -> {"loop", "once", "empty"}],
             reading' \in [Clients -> Clients \cup {Free}],
             replies' \in [Clients -> Nat]
      PROVE  IInv'
  <2>1. place' = [place EXCEPT ![c] = to]
    BY <1>4 DEF Goto
  <2>2. TypeOK'
    BY <1>4, <2>1 DEF IInv, TypeOK, Ended
  <2>3. Progress' /\ EndedClientReleased'
    BY <1>1, <1>4, <2>1 DEF IInv, TypeOK, Progress, InLoop, Ended,
       EndedClientReleased
  <2>4. QED
    BY <2>2, <2>3 DEF IInv
<1>5. CASE StartRead(c) \/ SizeBuffer(c)
  <2>1. /\ \E to \in {"size", "call"} : Goto(c, to)
        /\ mode' \in [Clients -> {"loop", "once", "empty"}]
    BY <1>5 DEF StartRead, SizeBuffer, IInv, TypeOK
  <2>2. /\ UNCHANGED <<process, table, fd, count, farEnd, requests>>
        /\ state_' \in [Clients -> {"Connected", "Closed"}]
        /\ reading' \in [Clients -> Clients \cup {Free}]
        /\ replies' \in [Clients -> Nat]
    BY <1>5 DEF StartRead, SizeBuffer, IInv, TypeOK, netVars
  <2>3. QED
    BY <1>4, <2>1, <2>2
<1>6. ASSUME ReadFails(c), UNCHANGED <<process, table, fd, farEnd, requests>>,
             reading' \in [Clients -> Clients \cup {Free}]
      PROVE  IInv'
  <2>1. /\ state_' \in [Clients -> {"Connected", "Closed"}]
        /\ replies' \in [Clients -> Nat] /\ Counted(c)
    BY <1>6 DEF ReadFails, IInv, TypeOK
  <2>2. QED
    BY <1>3, <1>6, <2>1
<1>7. CASE CallRead(c)
  <2>1. /\ reading' \in [Clients -> Clients \cup {Free}]
        /\ UNCHANGED <<process, table, fd, farEnd, requests>>
    <3>1. fd[c] \in Fds
      BY <1>1 DEF IInv, TypeOK, Progress
    <3>2. File(c) \in Clients \cup {Free}
      BY <3>1 DEF File, IInv, TypeOK
    <3>3. QED
      BY <1>7, <3>2 DEF CallRead, IInv, TypeOK
  <2>2. \/ ReadFails(c)
        \/ Goto(c, "reading") /\ UNCHANGED <<state_, mode, count, replies>>
    BY <1>7 DEF CallRead
  <2>3. CASE Goto(c, "reading") /\ UNCHANGED <<state_, mode, count, replies>>
    <3>1. /\ state_' \in [Clients -> {"Connected", "Closed"}]
          /\ mode' \in [Clients -> {"loop", "once", "empty"}]
          /\ replies' \in [Clients -> Nat]
      BY <2>3 DEF IInv, TypeOK
    <3>2. QED
      BY <1>4, <2>1, <2>3, <3>1
  <2>4. QED
    BY <1>6, <2>1, <2>2, <2>3
<1>8. CASE AnswerRead(c)
  <2>1. /\ reading' \in [Clients -> Clients \cup {Free}]
        /\ UNCHANGED <<process, table, fd, farEnd, requests>>
    BY <1>8 DEF AnswerRead, IInv, TypeOK
  <2>2. CASE /\ replies' = [replies EXCEPT ![reading[c]] = 0]
             /\ UNCHANGED state_
             /\ \/ Goto(c, "call") /\ UNCHANGED <<mode, count>>
                \/ Counted(c)
    <3>1. /\ state_' \in [Clients -> {"Connected", "Closed"}]
          /\ replies' \in [Clients -> Nat]
          /\ UNCHANGED mode => mode' \in [Clients -> {"loop", "once", "empty"}]
      BY <2>2 DEF IInv, TypeOK
    <3>2. QED
      BY <1>3, <1>4, <2>1, <2>2, <3>1
  <2>3. QED
    BY <1>6, <1>8, <2>1, <2>2 DEF AnswerRead
<1>9. QED
  BY <1>5, <1>7, <1>8

\* A close frees the descriptor the client remembers, its own or another's.
LEMMA DeleteIInv ==
  ASSUME IInv, NEW c \in Clients, Delete(c)
  PROVE  IInv'
<1>1. /\ table' = [table EXCEPT ![fd[c]] = Free]
      /\ \/ place[c] = "deleteConn" /\ place' = [place EXCEPT ![c] = "deleteSock"]
         \/ place[c] = "deleteSock" /\ place' = [place EXCEPT ![c] = "done"]
      /\ UNCHANGED <<process, fd, state_, mode, count, reading, netVars>>
  BY DEF Delete, Reached, Goto, CloseFd
<1>2. fd[c] \in Fds
  BY <1>1 DEF IInv, TypeOK, Progress
<1>3. TypeOK'
  BY <1>1, <1>2 DEF IInv, TypeOK, Ended, netVars
<1>4. Progress'
  BY <1>1 DEF IInv, TypeOK, Progress, InLoop, Ended
<1>5. \A f \in Fds : table'[f] # c
  BY <1>1, <1>2, ClientAssumption DEF IInv, TypeOK, EndedClientReleased
<1>6. EndedClientReleased'
  BY <1>1, <1>2, <1>5, ClientAssumption DEF IInv, TypeOK, EndedClientReleased, Ended
<1>7. QED
  BY <1>3, <1>4, <1>6 DEF IInv

\* The server changes only its ends of the connections.
LEMMA ServerIInv ==
  ASSUME IInv, NEW c \in Clients, Answer(c) \/ ServerEnds(c)
  PROVE  IInv'
  BY DEF Answer, ServerEnds, IInv, TypeOK, Progress, InLoop, Ended,
     EndedClientReleased

\* Every step preserves the invariant.
LEMMA NextIInv == IInv /\ [Next]_vars => IInv'
<1> SUFFICES ASSUME IInv, [Next]_vars PROVE IInv'
  OBVIOUS
<1>1. CASE UNCHANGED vars
  BY <1>1 DEF vars, netVars, IInv, TypeOK, Progress, InLoop, Ended,
     EndedClientReleased
<1>2. CASE Next
  <2>1. PICK c \in Clients : OneClient(c) \/ Answer(c) \/ ServerEnds(c)
    BY <1>2 DEF Next
  <2>2. QED
    BY <2>1, NewSocketIInv, QuietIInv, ReadIInv, DeleteIInv, ServerIInv
       DEF OneClient
<1>3. QED
  BY <1>1, <1>2

\* The invariant holds always.
THEOREM Invariance == Spec => []IInv
  BY InitIInv, NextIInv, PTL DEF Spec

\* The variables of EchoClient keep their types.
THEOREM ClientTyped == Spec => []TypeOK
<1>1. IInv => TypeOK
  BY DEF IInv
<1>2. QED
  BY <1>1, Invariance, PTL

\* A client that has run to its end leaves no descriptor of its own open, in
\* spite of the double closes of all the others.
THEOREM EndedClientsReleased == Spec => []EndedClientReleased
<1>1. IInv => EndedClientReleased
  BY DEF IInv
<1>2. QED
  BY <1>1, Invariance, PTL

=============================================================================
