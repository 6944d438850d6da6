------------------------------- MODULE EchoPair -----------------------------
(***************************************************************************)
(* The servers and clients of network/demo1_socket, demo2_errorif and      *)
(* demo3_epoll: one server, one client, one connection.  Bytes are         *)
(* counted.                                                                *)
(*                                                                         *)
(*   demo1   connects and accepts, and both programs end                   *)
(*   demo2   the server echoes what it reads until the client is gone      *)
(*   demo3   the server sends nothing: its close and return stand inside   *)
(*           the loop, so it ends after the first answer of epoll_wait,    *)
(*           which can only be that of the listening socket                *)
(*                                                                         *)
(* write never waits: the bytes the client sends in all, MaxSent, are      *)
(* taken to fit the socket's buffers, which hold thousands of texts.       *)
(***************************************************************************)
EXTENDS Integers

CONSTANTS
    Size,       \* the length of the buffers, 1024 bytes
    MaxSent     \* bound: bytes the client sends

ASSUME PairAssumption == {Size, MaxSent} \subseteq Nat /\ Size > 0

Demos == {"demo1", "demo2", "demo3"}

VARIABLES
    demo,       \* the pair of programs
    port8888,   \* "free", "taken" by others, or "ours": the server listens
    server,     \* where its main is
    user,       \* where the client's main is
    net,        \* the connection: "none", "open", or which end closed it
    c2s, s2c,   \* bytes on their way
    buf,        \* bytes the server has read and not written
    sent, shown,    \* bytes the client has written and read so far
    empty       \* the last input was empty: scanf met the end of its file

counts == <<c2s, s2c, buf, sent, shown, empty>>
pairVars == <<demo, port8888, server, user, net, counts>>

Ended == {"ended", "failed", "killed"}

PairTypeOK ==
    /\ demo \in Demos
    /\ port8888 \in {"free", "taken", "ours"}
    /\ server \in {"start", "accept", "read", "write"} \cup Ended
    /\ user \in {"start", "input", "read"} \cup Ended
    /\ net \in {"none", "queued", "open", "userClosed", "userReset",
                "serverClosed", "serverReset"}
    /\ {c2s, s2c, buf, sent, shown} \subseteq Nat
    /\ buf <= Size
    /\ empty \in BOOLEAN

PairInit ==
    /\ demo \in Demos /\ port8888 \in {"free", "taken"}
    /\ server = "start" /\ user = "start" /\ net = "none"
    /\ c2s = 0 /\ s2c = 0 /\ buf = 0 /\ sent = 0 /\ shown = 0
    /\ empty = FALSE

-----------------------------------------------------------------------------
(* The servers.                                                            *)

\* socket, bind and listen.  demo1 looks at no result: after a bind that
\* failed it listens on some other port.
ListenAnyway ==
    /\ demo = "demo1" /\ server = "start"
    /\ port8888' = IF port8888 = "free" THEN "ours" ELSE port8888
    /\ server' = "accept"
    /\ UNCHANGED <<demo, user, net, counts>>

ListenOrFail ==
    /\ demo = "demo2" /\ server = "start"
    /\ IF port8888 = "free"
       THEN port8888' = "ours" /\ server' = "accept"
       ELSE port8888' = port8888 /\ server' = "failed"
    /\ UNCHANGED <<demo, user, net, counts>>

\* demo3 also makes an epoll to watch the socket.  If it cannot, it ends, and
\* the port is free again.
ListenAndWatch ==
    /\ demo = "demo3" /\ server = "start"
    /\ \/ port8888 = "free" /\ port8888' = "ours" /\ server' = "accept"
       \/ port8888' = port8888 /\ server' = "failed"
    /\ UNCHANGED <<demo, user, net, counts>>

\* The end of the server closes the connection: with bytes unread it resets.
ServerEnds(how) ==
    /\ server' = how
    /\ net' = IF net \in {"queued", "open"}
              THEN IF c2s > 0 THEN "serverReset" ELSE "serverClosed"
              ELSE net

AcceptUser ==
    /\ demo = "demo2" /\ server = "accept" /\ net # "none"
    /\ server' = "read"
    /\ net' = IF net = "queued" THEN "open" ELSE net
    /\ UNCHANGED <<demo, port8888, user, counts>>

\* demo1 accepts and returns; so does demo3 behind epoll_wait.
AcceptAndEnd ==
    /\ demo # "demo2" /\ server = "accept" /\ net # "none"
    /\ ServerEnds("ended")
    /\ UNCHANGED <<demo, port8888, user, counts>>

\* accept fails, for want of a descriptor say, and errif ends the program.
AcceptFails ==
    /\ demo # "demo1" /\ server = "accept" /\ net # "none"
    /\ ServerEnds("failed")
    /\ UNCHANGED <<demo, port8888, user, counts>>

\* Mutant: reads all there is.
EchoRead_WholeStream ==
    /\ server = "read" /\ c2s > 0
    /\ \E n \in 1..c2s : c2s' = c2s - n /\ buf' = n
    /\ server' = "write"
    /\ UNCHANGED <<demo, port8888, user, net, s2c, sent, shown, empty>>

EchoRead ==
    /\ server = "read" /\ c2s > 0
    /\ \E n \in 1..(IF c2s < Size THEN c2s ELSE Size) : c2s' = c2s - n /\ buf' = n
    /\ server' = "write"
    /\ UNCHANGED <<demo, port8888, user, net, s2c, sent, shown, empty>>

\* Mutant: 0 bytes are taken for nothing to do.
EchoReadEnds_GoesOn ==
    /\ server = "read" /\ net = "userReset"
    /\ server' = "failed"
    /\ UNCHANGED <<demo, port8888, user, net, counts>>

\* read returns 0, or -1 after a reset.
EchoReadEnds ==
    /\ server = "read"
    /\ \/ c2s = 0 /\ net = "userClosed" /\ server' = "ended"
       \/ net = "userReset" /\ server' = "failed"
    /\ UNCHANGED <<demo, port8888, user, net, counts>>

\* The result of write is not looked at.  On a connection that was reset it
\* raises SIGPIPE, or fails if it is the first to meet the reset; to a client
\* that has closed it succeeds, and is answered by a reset.
EchoWrite ==
    /\ server = "write"
    /\ buf' = 0
    /\ \/ /\ net = "open" /\ s2c' = s2c + buf
          /\ server' = "read" /\ net' = net
       \/ /\ net = "userClosed" /\ s2c' = s2c
          /\ server' = "read" /\ net' = "userReset"
       \/ /\ net = "userReset" /\ s2c' = s2c /\ net' = net
          /\ server' \in {"read", "killed"}
    /\ UNCHANGED <<demo, port8888, user, c2s, sent, shown, empty>>

-----------------------------------------------------------------------------
(* The clients.                                                            *)

\* The end of the client: with bytes unread it resets.
UserEnds(how) ==
    /\ user' = how
    /\ net' = IF net \in {"queued", "open"}
              THEN IF s2c > 0 THEN "userReset" ELSE "userClosed"
              ELSE net
    /\ UNCHANGED <<demo, port8888, server, counts>>

\* The server's socket takes the connection.
Heard == port8888 = "ours" /\ server = "accept"

\* demo1 looks at no result of connect and returns.
ConnectAnyway ==
    /\ demo = "demo1" /\ user = "start"
    /\ user' = "ended"
    /\ net' = IF Heard THEN "userClosed" ELSE net
    /\ UNCHANGED <<demo, port8888, server, counts>>

ConnectOrFail ==
    /\ demo # "demo1" /\ user = "start"
    /\ IF Heard THEN user' = "input" /\ net' = "queued"
                ELSE user' = "failed" /\ net' = net
    /\ UNCHANGED <<demo, port8888, server, counts>>

\* What write is given: the text that was read, or in demo3 the whole buffer.
Lengths == IF demo = "demo3" THEN {Size} ELSE 0..(Size - 1)

\* Mutant: write is given no byte.
SendText_Nothing(n) ==
    /\ user = "input" /\ n \in Lengths /\ sent + n <= MaxSent
    /\ net \in {"queued", "open"}
    /\ c2s' = c2s
    /\ sent' = sent + n
    /\ empty' = (n = 0)
    /\ user' = "read"
    /\ UNCHANGED <<demo, port8888, server, net, s2c, buf, shown>>

\* scanf and write.  The kernel takes the bytes also when the server has
\* closed, and the server's host answers with a reset.
SendText(n) ==
    /\ user = "input" /\ n \in Lengths /\ sent + n <= MaxSent
    /\ net \in {"queued", "open", "serverClosed"}
    /\ net' = IF net = "serverClosed" /\ n > 0 THEN "serverReset" ELSE net
    /\ c2s' = IF net = "serverClosed" THEN c2s ELSE c2s + n
    /\ sent' = sent + n
    /\ empty' = (n = 0)
    /\ user' = "read"
    /\ UNCHANGED <<demo, port8888, server, s2c, buf, shown>>

\* write on a connection that was reset: it fails and the client ends, or
\* SIGPIPE ends it.
SendFails ==
    /\ user = "input" /\ net = "serverReset"
    /\ \E how \in {"ended", "killed"} : UserEnds(how)

\* The user ends the client.
Quit == user = "input" /\ UserEnds("killed")

\* Mutant: bytes that were read are read again.
Show_Twice ==
    /\ user = "read" /\ s2c > 0
    /\ \E n \in 1..(IF s2c < Size THEN s2c ELSE Size) : s2c' = s2c /\ shown' = shown + n
    /\ user' = "input"
    /\ UNCHANGED <<demo, port8888, server, net, c2s, buf, sent, empty>>

\* read returns some of the bytes that have come.
Show ==
    /\ user = "read" /\ s2c > 0
    /\ \E n \in 1..(IF s2c < Size THEN s2c ELSE Size) : s2c' = s2c - n /\ shown' = shown + n
    /\ user' = "input"
    /\ UNCHANGED <<demo, port8888, server, net, c2s, buf, sent, empty>>

\* read returns 0, or -1 after a reset, which demo3 takes for an error.
UserReadEnds ==
    /\ user = "read" /\ s2c = 0
    /\ \/ net \in {"serverClosed", "serverReset"} /\ UserEnds("ended")
       \/ net = "serverReset" /\ demo = "demo3" /\ UserEnds("failed")

-----------------------------------------------------------------------------

PairServer == \/ ListenAnyway \/ ListenOrFail \/ ListenAndWatch
              \/ AcceptUser \/ AcceptAndEnd \/ AcceptFails
              \/ EchoRead \/ EchoReadEnds \/ EchoWrite

PairUser == ConnectAnyway \/ ConnectOrFail \/ Show \/ UserReadEnds \/ SendFails

PairNext == PairServer \/ PairUser \/ Quit \/ \E n \in 0..Size : SendText(n)

PairSpec == PairInit /\ [][PairNext]_pairVars

-----------------------------------------------------------------------------
(* Properties.                                                             *)

\* While both ends hold the connection of demo2 every byte sent is on its
\* way, with the server, or shown: partial reads lose and repeat nothing.
EveryByteAccountedFor ==
    demo = "demo2" /\ net \in {"queued", "open"} => sent = c2s + buf + s2c + shown

\* Client and server wait for each other only if the client has written an
\* empty text, which the server never sees; a client that reads its replies
\* in pieces cannot get there.
WaitMeansEmptyInput ==
    (user = "read" /\ server = "read" /\ net = "open" /\ c2s = 0 /\ s2c = 0) => empty

\* A client that waits for a reply is answered or ends, also when the server
\* is gone, unless its input was empty; the server of demo2 ends when its
\* client has.
NobodyWaitsForever ==
    /\ (user = "read") ~> (user # "read" \/ (demo = "demo2" /\ empty))
    /\ (demo = "demo2" /\ server = "read" /\ user \in Ended) ~> (server \in Ended)

=============================================================================
