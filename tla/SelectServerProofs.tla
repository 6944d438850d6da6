-------------------------- MODULE SelectServerProofs --------------------------
(***************************************************************************)
(* Theorems about SelectServer, for every number of clients and every size *)
(* of the table of descriptors.                                            *)
(***************************************************************************)
EXTENDS SelectServer, TLAPS

-----------------------------------------------------------------------------
(* The parts of the inductive invariant that are not properties.           *)

\* One descriptor per client.
OneFdPerClient ==
    \A f, g \in ConnFds : owner[f] = owner[g] /\ owner[f] # None => f = g

\* A client waits in one place, and not while the server still has its
\* connection.
QueueHasNewClients ==
    /\ \A j, k \in 1..Len(backlog) : backlog[j] = backlog[k] => j = k
    /\ \A k \in 1..Len(backlog), f \in ConnFds : owner[f] # backlog[k]

\* What select said of the descriptors that the loop has not come to yet is
\* still true.
AnswerIsFresh ==
    /\ pc = "scan" => \A f \in tmpfds : f >= i => Readable(f)
    /\ pc = "send" => \A f \in tmpfds : f > i => Readable(f)

IInv ==
    /\ TypeOK
    /\ OneFdPerClient
    /\ QueueHasNewClients
    /\ WatchesWhatIsOpen
    /\ AnswerIsFresh

-----------------------------------------------------------------------------

LEMMA InitTyped == Init => TypeOK
  BY SelectAssumption DEF Init, TypeOK, Fds, ConnFds

LEMMA InitHolds == Init => IInv
<1> SUFFICES ASSUME Init PROVE IInv
  OBVIOUS
<1>1. TypeOK
  BY InitTyped
<1>2. OneFdPerClient /\ QueueHasNewClients /\ AnswerIsFresh
  BY SelectAssumption DEF Init, OneFdPerClient, QueueHasNewClients, AnswerIsFresh
<1>3. Open = {}
  BY DEF Init, Open
<1>4. WatchesWhatIsOpen
  BY <1>3, SelectAssumption DEF Init, WatchesWhatIsOpen, Watched
<1>5. QED
  BY <1>1, <1>2, <1>4 DEF IInv

-----------------------------------------------------------------------------
(* Types.                                                                  *)

LEMMA TypedStep == TypeOK /\ [Next]_vars => TypeOK'
<1> SUFFICES ASSUME TypeOK, [Next]_vars PROVE TypeOK'
  OBVIOUS
<1> USE SelectAssumption
<1>1. ASSUME NEW c \in Clients, Client(c) PROVE TypeOK'
  <2>1. CASE Connect(c)
    BY <2>1 DEF TypeOK, Connect, serverVars
  <2>2. CASE Request(c)
    BY <2>2 DEF TypeOK, Request, serverVars
  <2>3. CASE ReadReply(c)
    BY <2>3 DEF TypeOK, ReadReply, serverVars
  <2>4. CASE Depart(c)
    BY <2>4 DEF TypeOK, Depart, serverVars
  <2>5. QED
    BY <1>1, <2>1, <2>2, <2>3, <2>4 DEF Client
<1>2. CASE Select
  <2>1. tmpfds' \subseteq Fds
    BY <1>2 DEF Select, Watched, TypeOK
  <2>2. i' \in 0..FdLimit
    BY <1>2 DEF Select
  <2>3. QED
    BY <1>2, <2>1, <2>2 DEF Select, AfterSelect, TypeOK, clientVars
<1>3. CASE Skip
  BY <1>3 DEF TypeOK, Skip, clientVars, Fds
<1>4. CASE EndOfScan
  BY <1>4 DEF TypeOK, EndOfScan, clientVars
<1>5. CASE Accept
  <2>1. Head(backlog) \in Clients /\ backlog' \in Seq(Clients)
    BY <1>5 DEF Accept, TypeOK
  <2>2. PICK f \in Free :
          /\ owner' = [owner EXCEPT ![f] = Head(backlog)]
          /\ readfds' = readfds \cup {f}
          /\ maxfd' = IF f > maxfd THEN f ELSE maxfd
    BY <1>5 DEF Accept
  <2>3. f \in ConnFds /\ f \in Fds
    BY <2>2 DEF Free, ConnFds, Fds
  <2>4. owner' \in [ConnFds -> Clients \cup {None}]
    BY <2>1, <2>2, <2>3 DEF TypeOK
  <2>5. readfds' \subseteq Fds /\ maxfd' \in Fds
    BY <2>2, <2>3 DEF TypeOK
  <2>6. i' \in 0..FdLimit
    BY <1>5 DEF Accept, At, TypeOK, Fds
  <2>7. QED
    BY <1>5, <2>1, <2>4, <2>5, <2>6 DEF Accept, TypeOK
<1>6. CASE AcceptFails
  BY <1>6 DEF TypeOK, AcceptFails, At, clientVars, Fds
<1>7. CASE Receive
  <2>1. PICK f \in Open, left \in 0..MaxUnread :
          unread' = [unread EXCEPT ![owner[f]] = left]
    BY <1>7 DEF Receive
  <2>2. unread' \in [Clients -> 0..MaxUnread]
    BY <2>1 DEF TypeOK, Open
  <2>3. QED
    BY <1>7, <2>2 DEF Receive, TypeOK
<1>8. CASE ReceiveEnd
  <2>1. PICK f \in Open :
          At(f) /\ Close(f) /\ readfds' = readfds \ {f} /\ MaxfdFollows(f)
    BY <1>8 DEF ReceiveEnd
  <2>2. owner' \in [ConnFds -> Clients \cup {None}]
    BY <2>1 DEF TypeOK, Close, Open
  <2>3. readfds' \subseteq Fds /\ maxfd' \in Fds
    BY <2>1 DEF TypeOK, MaxfdFollows
  <2>4. i' \in 0..FdLimit
    BY <1>8, <2>1 DEF ReceiveEnd, At, TypeOK, Fds
  <2>5. QED
    BY <1>8, <2>2, <2>3, <2>4 DEF ReceiveEnd, TypeOK, clientVars
<1>9. CASE Send
  <2>1. PICK f \in Open :
          /\ i = f
          /\ \/ /\ replies[owner[f]] < Room
                /\ replies' = [replies EXCEPT ![owner[f]] = @ + 1]
                /\ UNCHANGED reset
             \/ /\ reset' = reset \cup {owner[f]}
                /\ UNCHANGED replies
    BY <1>9 DEF Send
  <2>2. owner[f] \in Clients /\ i \in 0..(FdLimit - 1)
    BY <2>1 DEF TypeOK, Open, ConnFds
  <2>3. replies' \in [Clients -> 0..Room] /\ reset' \subseteq Clients
    <3>1. replies \in [Clients -> 0..Room] /\ replies[owner[f]] \in 0..Room
      BY <2>2 DEF TypeOK
    <3>2. replies[owner[f]] < Room => replies[owner[f]] + 1 \in 0..Room
      BY <3>1
    <3>3. QED
      BY <2>1, <2>2, <3>1, <3>2 DEF TypeOK
  <2>4. i' \in 0..FdLimit
    BY <1>9, <2>2 DEF Send
  <2>5. QED
    BY <1>9, <2>3, <2>4 DEF Send, TypeOK
<1>10. CASE SendFails
  <2>1. PICK f \in Open : i = f /\ Close(f) /\ readfds' = readfds \ {f}
    BY <1>10 DEF SendFails
  <2>2. owner' \in [ConnFds -> Clients \cup {None}]
    BY <2>1 DEF TypeOK, Close, Open
  <2>3. i' \in 0..FdLimit
    BY <1>10, <2>1 DEF SendFails, Open, ConnFds
  <2>4. QED
    BY <1>10, <2>1, <2>2, <2>3 DEF SendFails, TypeOK, clientVars
<1>11. CASE SendKills
  BY <1>11 DEF TypeOK, SendKills, clientVars
<1>12. CASE UNCHANGED vars
  BY <1>12 DEF TypeOK, vars, clientVars, serverVars
<1>13. QED
  BY <1>1, <1>2, <1>3, <1>4, <1>5, <1>6, <1>7, <1>8, <1>9, <1>10,
     <1>11, <1>12 DEF Next, Server

-----------------------------------------------------------------------------
(* How Open follows owner.                                                 *)

LEMMA OpenAfterAccept ==
  ASSUME TypeOK, Head(backlog) \in Clients, NEW f \in Free,
         owner' = [owner EXCEPT ![f] = Head(backlog)]
  PROVE  Open' = Open \cup {f}
  BY SelectAssumption DEF TypeOK, Open, Free

LEMMA OpenAfterClose ==
  ASSUME TypeOK, NEW f \in Open, Close(f)
  PROVE  Open' = Open \ {f}
  BY DEF TypeOK, Open, Close

-----------------------------------------------------------------------------
(* The clients' steps.                                                     *)

LEMMA ClientStep ==
  ASSUME IInv, TypeOK', NEW c \in Clients, Client(c)
  PROVE  IInv'
<1> USE SelectAssumption
<1>1. UNCHANGED serverVars /\ Open' = Open
  BY DEF Client, Connect, Request, ReadReply, Depart, serverVars, Open
<1>2. OneFdPerClient' /\ WatchesWhatIsOpen'
  BY <1>1 DEF IInv, OneFdPerClient, WatchesWhatIsOpen, Watched, serverVars
<1>3. QueueHasNewClients'
  <2>1. CASE Connect(c)
    <3>1. backlog' = Append(backlog, c) /\ ~Waiting(c) /\ ~Connected(c)
      BY <2>1 DEF Connect
    <3>2. \A k \in 1..Len(backlog) : backlog[k] # c
      BY <3>1 DEF Waiting
    <3>3. \A f \in ConnFds : owner[f] # c
      BY <3>1 DEF Connected, Open
    <3>4. /\ Len(backlog') = Len(backlog) + 1 /\ Len(backlog) \in Nat
          /\ backlog'[Len(backlog) + 1] = c
          /\ \A k \in 1..Len(backlog) : backlog'[k] = backlog[k]
      BY <3>1 DEF IInv, TypeOK
    <3>5. ASSUME NEW j \in 1..Len(backlog'), NEW k \in 1..Len(backlog'),
                 backlog'[j] = backlog'[k]
          PROVE  j = k
      BY <3>2, <3>4, <3>5 DEF IInv, QueueHasNewClients
    <3>6. ASSUME NEW k \in 1..Len(backlog'), NEW f \in ConnFds
          PROVE  owner'[f] # backlog'[k]
      BY <1>1, <3>3, <3>4 DEF IInv, QueueHasNewClients, serverVars
    <3>7. QED
      BY <3>5, <3>6 DEF QueueHasNewClients
  <2>2. CASE Request(c) \/ ReadReply(c) \/ Depart(c)
    BY <1>1, <2>2
    DEF IInv, QueueHasNewClients, Request, ReadReply, Depart, serverVars
  <2>3. QED
    BY <2>1, <2>2 DEF Client
<1>4. ASSUME NEW f, Readable(f) PROVE Readable(f)'
  <2>1. CASE Connect(c)
    <3>1. backlog' # <<>>
      <4>1. backlog \in Seq(Clients) /\ backlog' = Append(backlog, c)
        BY <2>1 DEF Connect, IInv, TypeOK
      <4>2. Len(backlog') = Len(backlog) + 1 /\ Len(backlog) \in Nat
        BY <4>1
      <4>3. Len(<<>>) = 0
        OBVIOUS
      <4>4. QED
        BY <4>2, <4>3
    <3>2. ASSUME f \in Open PROVE owner[f] # c
      BY <2>1, <3>2 DEF Connect, Connected
    <3>3. ASSUME f \in Open PROVE owner[f] \in Clients
      BY <3>3 DEF IInv, TypeOK, Open
    <3>4. QED
      BY <1>1, <1>4, <2>1, <3>1, <3>2, <3>3
      DEF Connect, Readable, Ready, serverVars, IInv, TypeOK
  <2>2. CASE Request(c)
    <3>1. ASSUME NEW d \in Clients, unread[d] > 0 PROVE unread'[d] > 0
      BY <2>2, <3>1 DEF Request, IInv, TypeOK
    <3>2. ASSUME f \in Open PROVE owner[f] \in Clients
      BY <3>2 DEF IInv, TypeOK, Open
    <3>3. QED
      BY <1>1, <1>4, <2>2, <3>1, <3>2 DEF Request, Readable, Ready, serverVars
  <2>3. CASE ReadReply(c) \/ Depart(c)
    BY <1>1, <1>4, <2>3 DEF ReadReply, Depart, Readable, Ready, serverVars
  <2>4. QED
    BY <2>1, <2>2, <2>3 DEF Client
<1>5. AnswerIsFresh'
  BY <1>1, <1>4 DEF IInv, AnswerIsFresh, serverVars
<1>6. QED
  BY <1>2, <1>3, <1>5 DEF IInv

-----------------------------------------------------------------------------
(* The server's steps.                                                     *)

\* Steps that only move the loop, or answer a client.
LEMMA LoopStep ==
  ASSUME IInv, TypeOK',
         \/ Select \/ Skip \/ EndOfScan \/ AcceptFails
         \/ Send \/ SendKills
  PROVE  IInv'
<1> USE SelectAssumption
<1>1. UNCHANGED <<backlog, owner, readfds, maxfd, present, unread>>
  BY DEF Select, Skip, EndOfScan, AcceptFails, Send, SendKills, clientVars
<1>2. Open' = Open
  BY <1>1 DEF Open
<1>3. OneFdPerClient' /\ QueueHasNewClients' /\ WatchesWhatIsOpen'
  BY <1>1, <1>2
  DEF IInv, OneFdPerClient, QueueHasNewClients, WatchesWhatIsOpen, Watched
<1>4. \A f : Readable(f)' <=> Readable(f)
  BY <1>1, <1>2 DEF Readable, Ready
<1>5. AnswerIsFresh'
  <2>1. CASE Select
    BY <1>4, <2>1 DEF Select, AfterSelect, AnswerIsFresh
  <2>2. CASE EndOfScan \/ SendKills
    BY <2>2 DEF EndOfScan, SendKills, AnswerIsFresh
  <2>3. CASE Skip \/ AcceptFails
    <3>1. pc = "scan" /\ pc' = "scan" /\ tmpfds' = tmpfds /\ i' = i + 1
      BY <2>3 DEF Skip, AcceptFails, At
    <3>2. ASSUME NEW f \in tmpfds, f >= i + 1 PROVE f >= i
      BY <3>2 DEF IInv, TypeOK, Fds
    <3>3. QED
      BY <1>4, <3>1, <3>2 DEF IInv, AnswerIsFresh
  <2>4. CASE Send
    <3>1. pc = "send" /\ pc' = "scan" /\ tmpfds' = tmpfds /\ i' = i + 1
      BY <2>4 DEF Send
    <3>2. ASSUME NEW f \in tmpfds, f >= i + 1 PROVE f > i
      BY <3>2 DEF IInv, TypeOK, Fds
    <3>3. QED
      BY <1>4, <3>1, <3>2 DEF IInv, AnswerIsFresh
  <2>5. QED
    BY <2>1, <2>2, <2>3, <2>4
<1>6. QED
  BY <1>3, <1>5 DEF IInv

\* A new connection gets a descriptor above i, but none that the loop is
\* still going to look at: tmpfds has no descriptor that was free.
LEMMA AcceptStep == ASSUME IInv, TypeOK', Accept PROVE IInv'
<1> USE SelectAssumption
<1>1. PICK f \in Free :
        /\ owner' = [owner EXCEPT ![f] = Head(backlog)]
        /\ readfds' = readfds \cup {f}
        /\ maxfd' = IF f > maxfd THEN f ELSE maxfd
  BY DEF Accept
<1>2. /\ f \in ConnFds /\ owner[f] = None /\ f \in Fds /\ f # ListenFd
      /\ Head(backlog) = backlog[1] /\ 1 \in 1..Len(backlog)
      /\ Head(backlog) \in Clients
  BY <1>1 DEF Free, Open, ConnFds, Fds, Accept, IInv, TypeOK
<1>3. Open' = Open \cup {f}
  BY <1>1, <1>2, OpenAfterAccept DEF IInv
<1>4. \A g \in ConnFds : owner'[g] = IF g = f THEN backlog[1] ELSE owner[g]
  BY <1>1, <1>2 DEF IInv, TypeOK
<1>5. OneFdPerClient'
  BY <1>2, <1>4 DEF IInv, OneFdPerClient, QueueHasNewClients
<1>6. QueueHasNewClients'
  <2>1. backlog' = Tail(backlog) /\ backlog # <<>> /\ backlog \in Seq(Clients)
    BY DEF Accept, IInv, TypeOK
  <2>2. /\ Len(backlog) \in Nat /\ Len(backlog') = Len(backlog) - 1
        /\ \A k \in 1..Len(backlog') : backlog'[k] = backlog[k + 1]
    BY <2>1
  <2>3. QED
    BY <1>4, <2>2 DEF IInv, QueueHasNewClients
<1>7. WatchesWhatIsOpen'
  <2>1. readfds' = {ListenFd} \cup Open'
    BY <1>1, <1>3 DEF IInv, WatchesWhatIsOpen
  <2>2. \A g \in readfds' : g <= maxfd'
    BY <1>1, <1>2 DEF IInv, WatchesWhatIsOpen, Watched, TypeOK, Fds
  <2>3. QED
    BY <2>1, <2>2 DEF WatchesWhatIsOpen, Watched
<1>8. AnswerIsFresh'
  <2>1. /\ pc = "scan" /\ pc' = "scan" /\ i = ListenFd
        /\ i' = i + 1 /\ tmpfds' = tmpfds
    BY DEF Accept, At
  <2>2. ASSUME NEW g \in tmpfds, g >= i + 1 PROVE Readable(g)'
    <3>1. g # ListenFd /\ g >= i
      BY <2>1, <2>2 DEF IInv, TypeOK, Fds
    <3>2. g \in Open /\ Ready(owner[g])
      BY <2>1, <3>1 DEF IInv, AnswerIsFresh, Readable
    <3>3. g \in Open' /\ owner'[g] = owner[g]
      BY <1>2, <1>3, <1>4, <3>2 DEF Open
    <3>4. QED
      BY <3>2, <3>3 DEF Readable, Ready, Accept
  <2>3. QED
    BY <2>1, <2>2 DEF AnswerIsFresh
<1>9. QED
  BY <1>5, <1>6, <1>7, <1>8 DEF IInv

\* recv takes messages of the client at i, who has no other descriptor.
LEMMA ReceiveStep == ASSUME IInv, TypeOK', Receive PROVE IInv'
<1> USE SelectAssumption
<1>1. PICK f \in Open, left \in 0..MaxUnread :
        At(f) /\ unread' = [unread EXCEPT ![owner[f]] = left]
  BY DEF Receive
<1>2. UNCHANGED <<present, backlog, owner, readfds, maxfd, tmpfds, i>>
  BY DEF Receive
<1>3. Open' = Open
  BY <1>2 DEF Open
<1>4. OneFdPerClient' /\ QueueHasNewClients' /\ WatchesWhatIsOpen'
  BY <1>2, <1>3
  DEF IInv, OneFdPerClient, QueueHasNewClients, WatchesWhatIsOpen, Watched
<1>5. AnswerIsFresh'
  <2>1. pc = "scan" /\ pc' = "send" /\ i = f
    BY <1>1 DEF Receive, At
  <2>2. ASSUME NEW g \in tmpfds, g > i PROVE Readable(g)'
    <3>1. g >= i /\ g # f /\ Readable(g)
      BY <2>1, <2>2 DEF IInv, AnswerIsFresh, TypeOK, Fds
    <3>2. ASSUME g \in Open PROVE unread'[owner[g]] = unread[owner[g]]
      <4>1. g \in ConnFds /\ f \in ConnFds /\ owner[g] # None
        BY <3>2 DEF Open
      <4>2. owner[g] # owner[f] /\ owner[g] \in Clients
        BY <3>1, <4>1 DEF IInv, OneFdPerClient, TypeOK
      <4>3. QED
        BY <1>1, <4>2 DEF IInv, TypeOK
    <3>3. QED
      BY <1>2, <1>3, <3>1, <3>2 DEF Readable, Ready
  <2>3. QED
    BY <1>2, <2>1, <2>2 DEF AnswerIsFresh
<1>6. QED
  BY <1>4, <1>5 DEF IInv

\* The connection at i is closed, and the loop goes on behind it.
LEMMA CloseStep ==
  ASSUME IInv, TypeOK', NEW f \in Open, Close(f), readfds' = readfds \ {f},
         MaxfdFollows(f) \/ maxfd' = maxfd,
         pc \in {"scan", "send"}, pc' = "scan", i = f, i' = i + 1,
         UNCHANGED <<clientVars, tmpfds>>
  PROVE  IInv'
<1> USE SelectAssumption
<1>1. Open' = Open \ {f}
  BY OpenAfterClose DEF IInv
<1>2. \A g \in ConnFds : owner'[g] = IF g = f THEN None ELSE owner[g]
  BY DEF Close, IInv, TypeOK
<1>3. f \in ConnFds /\ f # ListenFd
  BY DEF Open, ConnFds
<1>4. OneFdPerClient'
  BY <1>2 DEF IInv, OneFdPerClient
<1>5. QueueHasNewClients'
  <2>1. \A k \in 1..Len(backlog) : backlog[k] # None
    BY DEF IInv, TypeOK
  <2>2. QED
    BY <1>2, <2>1 DEF IInv, QueueHasNewClients, clientVars
<1>6. WatchesWhatIsOpen'
  <2>1. readfds' = {ListenFd} \cup Open'
    BY <1>1, <1>3 DEF IInv, WatchesWhatIsOpen
  <2>2. \A g \in readfds' : g <= maxfd /\ g \in Nat
    BY DEF IInv, WatchesWhatIsOpen, Watched, TypeOK, Fds
  <2>3. \A g \in readfds' : g <= maxfd'
    <3>1. CASE maxfd' = maxfd
      BY <2>2, <3>1
    <3>2. CASE maxfd' # maxfd
      <4>1. PICK m \in {g \in readfds' : 0 < g /\ g <= maxfd} :
              /\ maxfd' = m
              /\ \A g \in {h \in readfds' : 0 < h /\ h <= maxfd} : g <= m
        BY <3>2 DEF MaxfdFollows
      <4>2. ASSUME NEW g \in readfds' PROVE g <= m
        <5>1. g <= maxfd /\ g \in Nat /\ m \in Nat /\ 0 < m
          BY <2>2, <4>1
        <5>2. QED
          BY <4>1, <5>1
      <4>3. QED
        BY <4>1, <4>2
    <3>3. QED
      BY <3>1, <3>2
  <2>4. QED
    BY <2>1, <2>3 DEF WatchesWhatIsOpen, Watched
<1>7. AnswerIsFresh'
  <2>1. ASSUME NEW g \in tmpfds, g >= i + 1 PROVE Readable(g)'
    <3>1. g >= i /\ g > i /\ g # f
      BY <2>1, <1>3 DEF IInv, TypeOK, Fds, ConnFds
    <3>2. Readable(g)
      BY <3>1 DEF IInv, AnswerIsFresh
    <3>3. ASSUME g \in Open PROVE g \in Open' /\ owner'[g] = owner[g]
      BY <1>1, <1>2, <3>1, <3>3 DEF Open
    <3>4. QED
      BY <3>2, <3>3 DEF Readable, Ready, clientVars
  <2>2. QED
    BY <2>1 DEF AnswerIsFresh
<1>8. QED
  BY <1>4, <1>5, <1>6, <1>7 DEF IInv

LEMMA Step == IInv /\ [Next]_vars => IInv'
<1> SUFFICES ASSUME IInv, [Next]_vars PROVE IInv'
  OBVIOUS
<1>1. TypeOK'
  BY TypedStep DEF IInv
<1>2. CASE \E c \in Clients : Client(c)
  BY <1>1, <1>2, ClientStep
<1>3. CASE \/ Select \/ Skip \/ EndOfScan \/ AcceptFails
           \/ Send \/ SendKills
  BY <1>1, <1>3, LoopStep
<1>4. CASE Accept
  BY <1>1, <1>4, AcceptStep
<1>5. CASE Receive
  BY <1>1, <1>5, ReceiveStep
<1>6. CASE ReceiveEnd
  <2>1. PICK f \in Open :
          At(f) /\ Close(f) /\ readfds' = readfds \ {f} /\ MaxfdFollows(f)
    BY <1>6 DEF ReceiveEnd
  <2>2. /\ pc = "scan" /\ pc' = "scan" /\ i = f /\ i' = i + 1
        /\ UNCHANGED <<clientVars, tmpfds>>
    BY <1>6, <2>1 DEF ReceiveEnd, At
  <2>3. QED
    BY <1>1, <2>1, <2>2, CloseStep
<1>7. CASE SendFails
  <2>1. PICK f \in Open : i = f /\ Close(f) /\ readfds' = readfds \ {f}
    BY <1>7 DEF SendFails
  <2>2. /\ pc = "send" /\ pc' = "scan" /\ i' = i + 1 /\ maxfd' = maxfd
        /\ UNCHANGED <<clientVars, tmpfds>>
    BY <1>7 DEF SendFails
  <2>3. QED
    BY <1>1, <2>1, <2>2, CloseStep
<1>8. CASE UNCHANGED vars
  <2>1. Open' = Open
    BY <1>8 DEF vars, serverVars, Open
  <2>2. \A f : Readable(f)' <=> Readable(f)
    BY <1>8, <2>1 DEF vars, serverVars, clientVars, Readable, Ready
  <2>3. QED
    BY <1>1, <1>8, <2>1, <2>2
    DEF IInv, OneFdPerClient, QueueHasNewClients, WatchesWhatIsOpen, Watched,
        AnswerIsFresh, vars, serverVars, clientVars
<1>9. QED
  BY <1>2, <1>3, <1>4, <1>5, <1>6, <1>7, <1>8 DEF Next, Server

-----------------------------------------------------------------------------
(* Theorems.                                                               *)

\* The inductive invariant holds always: through every accept, answer and
\* close, in any order of the descriptors.
THEOREM Invariant == Spec => []IInv
  BY InitHolds, Step, PTL DEF Spec

\* Every variable of the clients and of the server keeps its type, for any
\* number of clients and any size of the table of descriptors.
THEOREM TypesHold == Spec => []TypeOK
<1>1. IInv => TypeOK
  BY DEF IInv
<1>2. QED
  BY Invariant, <1>1, PTL

\* The server never gives select a closed descriptor, and never overlooks an
\* open one, whatever clients do and however many there are.
THEOREM WatchesAlways == Spec => []WatchesWhatIsOpen
<1>1. IInv => WatchesWhatIsOpen
  BY DEF IInv
<1>2. QED
  BY Invariant, <1>1, PTL

\* The answer of select is still true of a descriptor when the loop reaches
\* it: recv and accept return at once.
THEOREM NeverBlocksInLoop == Spec => []NeverBlocks
<1>1. IInv => NeverBlocks
  BY DEF IInv, AnswerIsFresh, NeverBlocks, TypeOK, Fds
<1>2. QED
  BY Invariant, <1>1, PTL

=============================================================================
