----------------------------- MODULE FileTransfer -----------------------------
(***************************************************************************)
(* The file transfer of network/demo: test_client.cpp sends the name and   *)
(* the size of a file, waits for "ok", sends the file in chunks and waits  *)
(* for a second "ok"; a child process of test_server.cpp does the reverse. *)
(*                                                                         *)
(* TCP is two byte streams.  A recv gets some of the bytes that are there: *)
(* all it asks for when delivery is "whole", any positive number of them   *)
(* when it is "segmented".  The client may be killed at any time, and so   *)
(* may the child, whose handler closes the connection.                     *)
(***************************************************************************)
EXTENDS Naturals, Sequences, SequencesExt

CONSTANTS
    Chunk,      \* the 4096 bytes of the buffers
    MaxSize,    \* bound: the size of the file
    Base,       \* the values that the low byte of an int takes, 256
    Deliveries  \* subset of {"whole", "segmented"}: how recv may behave

ASSUME TransferAssumption ==
    /\ {Chunk, Base} \subseteq Nat \ {0}
    /\ MaxSize \in Nat
    /\ Deliveries \subseteq {"whole", "segmented"}

VARIABLES
    delivery,   \* how recv behaves on this connection
    size,       \* the size argument of the client, also the file's length
    client,     \* where main() of the client is
    sent,       \* totalbytes of client::sendfile
    told,       \* what the client printed about the file
    toServer,   \* bytes on their way to the server
    toClient,   \* acknowledgements on their way to the client
    child,      \* where the child of the server is
    info,       \* file_info: how many bytes of it were received, and the size
    buffer,     \* the buffer of server::recv_file
    total,      \* totalbytes of server::recv_file
    file        \* what the child has written

senderVars == <<client, sent, told>>
childVars == <<child, info, buffer, total, file>>
transferVars == <<delivery, size, senderVars, toServer, toClient, childVars>>

\* The bytes of the file are told apart by their position.
Source == [i \in 1..size |-> i]

\* What a byte of the buffer is before recv writes it.
Junk == 0

\* The header, file_info: two bytes stand for those of the name and two, the
\* low one and the high one, for those of the int filesize.
Header == [n \in 1..4 |-> MaxSize + n]

\* The int filesize of a structure that was zeroed, when got bytes of the
\* header have been written to it.
SizeFrom(got) ==
    IF got = Len(Header) THEN size ELSE IF got = 3 THEN size % Base ELSE 0

\* A byte as the child finds it in the stream: one of the file, or of the
\* header if an earlier recv has left some.
Byte == 1..(MaxSize + Len(Header))

ClientEnded == {"done", "failed", "killed"}
ChildEnded == {"done", "failed", "killed"}

TransferTypeOK ==
    /\ delivery \in Deliveries
    /\ size \in 0..MaxSize
    /\ client \in {"connect", "sendInfo", "recvInfoAck", "sendFile",
                     "recvFileAck"} \cup ClientEnded
    /\ sent \in 0..size
    /\ told \in {"nothing", "sent", "noReply"}
    /\ toServer \in Seq(Byte)
    /\ toClient \in Seq({"ok"}) /\ Len(toClient) <= 2
    /\ child \in {"unborn", "recvInfo", "sendInfoAck", "openFile", "recvFile",
                     "sendFileAck"} \cup ChildEnded
    /\ info \in [got : 0..Len(Header), size : 0..size]
    /\ buffer \in [1..Chunk -> {Junk} \cup Byte]
    /\ total \in 0..info.size
    /\ file \in Seq({Junk} \cup Byte) /\ Len(file) = total

TransferInit ==
    /\ delivery \in Deliveries
    /\ size \in 0..MaxSize
    /\ client = "connect"
    /\ sent = 0
    /\ told = "nothing"
    /\ toServer = <<>>
    /\ toClient = <<>>
    /\ child = "unborn"
    /\ info = [got |-> 0, size |-> 0]
    /\ buffer = [i \in 1..Chunk |-> Junk]
    /\ total = 0
    /\ file = <<>>

ClientClosed == client \in ClientEnded
ChildClosed == child \in ChildEnded \cup {"unborn"}

Smaller(a, b) == IF a < b THEN a ELSE b

-----------------------------------------------------------------------------
(* The client.                                                             *)

\* client::connect: no socket, no such host, or nobody who listens.
ConnectFails ==
    /\ client = "connect"
    /\ client' = "failed"
    /\ UNCHANGED <<delivery, size, sent, told, toServer, toClient, childVars>>

\* The parent of module ForkServer accepts and forks; if it cannot fork it
\* ends, and the connection with it.
Connect ==
    /\ client = "connect"
    /\ client' = "sendInfo"
    /\ child' \in {"recvInfo", "failed"}
    /\ UNCHANGED <<delivery, size, sent, told, toServer, toClient, info, buffer,
                   total, file>>

\* send on a connection that the peer has closed: the first bytes are lost,
\* the next ones raise SIGPIPE, which the client does not ignore.
ClientSends(bytes) ==
    \/ ~ChildClosed /\ toServer' = toServer \o bytes
    \/ ChildClosed /\ UNCHANGED toServer

\* Mutant: the file is sent without waiting for the first "ok".
SendInfo_NoWait ==
    /\ client = "sendInfo"
    /\ ClientSends(Header)
    /\ client' = "sendFile"
    /\ UNCHANGED <<delivery, size, sent, told, toClient, childVars>>

SendInfo ==
    /\ client = "sendInfo"
    /\ ClientSends(Header)
    /\ client' = "recvInfoAck"
    /\ UNCHANGED <<delivery, size, sent, told, toClient, childVars>>

\* client::recv of up to 1024 bytes gets all the acknowledgements there are.
\* The first reply is compared with "ok", and main goes on in either case.
RecvInfoAck ==
    /\ client = "recvInfoAck"
    /\ toClient # <<>>
    /\ toClient' = <<>>
    /\ client' = "sendFile"
    /\ UNCHANGED <<delivery, size, sent, told, toServer, childVars>>

\* How much of what is left the next chunk takes, on both sides.
ChunkSize(left) == Smaller(left, Chunk)

\* One turn of the loop of client::sendfile: read a chunk, send it.  A send
\* of 0 bytes returns 0, which client::send takes for an error.
SendChunk ==
    /\ client = "sendFile"
    /\ LET onread == ChunkSize(size - sent)
       IN  IF onread = 0
           THEN /\ client' = "failed"
                /\ UNCHANGED <<toServer, sent>>
           ELSE /\ ClientSends(SubSeq(Source, sent + 1, sent + onread))
                /\ sent' = sent + onread
                /\ client' = IF sent' = size THEN "recvFileAck" ELSE "sendFile"
    /\ UNCHANGED <<delivery, size, told, toClient, childVars>>

\* client::sendfile cannot open the file.
SourceMissing ==
    /\ client = "sendFile"
    /\ sent = 0
    /\ client' = "failed"
    /\ UNCHANGED <<delivery, size, sent, told, toServer, toClient, childVars>>

RecvFileAck ==
    /\ client = "recvFileAck"
    /\ toClient # <<>>
    /\ told' = IF toClient = <<"ok">> THEN "sent" ELSE "noReply"
    /\ toClient' = <<>>
    /\ client' = "done"
    /\ UNCHANGED <<delivery, size, sent, toServer, childVars>>

\* recv returns 0, or an error if the child closed with bytes unread.
ClientRecvFails ==
    /\ client \in {"recvInfoAck", "recvFileAck"}
    /\ ChildClosed
    /\ toClient = <<>> \/ toServer # <<>>
    /\ client' = "failed"
    /\ UNCHANGED <<delivery, size, sent, told, toServer, toClient, childVars>>

\* send returns -1 once the reset of the closed connection is there.
ClientSendFails ==
    /\ client \in {"sendInfo", "sendFile"}
    /\ ChildClosed
    /\ client' = "failed"
    /\ UNCHANGED <<delivery, size, sent, told, toServer, toClient, childVars>>

\* A signal, SIGPIPE included.
KillClient ==
    /\ ~ClientClosed
    /\ client' = "killed"
    /\ UNCHANGED <<delivery, size, sent, told, toServer, toClient, childVars>>

-----------------------------------------------------------------------------
(* The child of the server.                                                *)

\* How many bytes a recv of n may return: 0 at the end of the stream.
Received(n) ==
    {k \in 0..Smaller(n, Len(toServer)) :
        \/ n = 0
        \/ k = n
        \/ delivery = "segmented" /\ k > 0
        \/ ClientClosed /\ k = Len(toServer)}

\* A reset by the peer makes recv return -1, with bytes unread or not.
ChildRecvFails ==
    /\ child \in {"recvInfo", "recvFile"}
    /\ ClientClosed
    /\ child' = "failed"
    /\ UNCHANGED <<delivery, size, senderVars, toServer, toClient, info,
                   buffer, total, file>>

\* Mutant: file_info is not zeroed before recv.
RecvInfo_NotZeroed ==
    /\ child = "recvInfo"
    /\ \E k \in Received(Len(Header)), garbage \in 0..(MaxSize + 1) :
          /\ info' = [got |-> k, size |-> IF k = Len(Header) THEN size ELSE garbage]
          /\ toServer' = SubSeq(toServer, k + 1, Len(toServer))
    /\ child' = "sendInfoAck"
    /\ UNCHANGED <<delivery, size, senderVars, toClient, buffer, total, file>>

\* The header is used whatever recv returned but -1: memset has zeroed it.
\* What is left of the header is read later, as the front of the file.
RecvInfo ==
    /\ child = "recvInfo"
    /\ \E k \in Received(Len(Header)) :
          /\ info' = [got |-> k, size |-> SizeFrom(k)]
          /\ toServer' = SubSeq(toServer, k + 1, Len(toServer))
    /\ child' = "sendInfoAck"
    /\ UNCHANGED <<delivery, size, senderVars, toClient, buffer, total, file>>

\* SIGPIPE is ignored on this side: a send to a client that is gone is lost
\* or returns -1.
ChildSendsOk(next) ==
    \/ /\ ~ClientClosed
       /\ toClient' = Append(toClient, "ok")
       /\ child' = next
    \/ /\ ClientClosed
       /\ child' \in {next, "failed"}
       /\ UNCHANGED toClient

SendInfoAck ==
    /\ child = "sendInfoAck"
    /\ ChildSendsOk("openFile")
    /\ UNCHANGED <<delivery, size, senderVars, toServer, info, buffer, total,
                   file>>

\* fout.open may fail: no directory, no permission, or no name.
OpenFile ==
    /\ child = "openFile"
    /\ \/ info.got > 0 /\ child' = "recvFile"
       \/ child' = "failed"
    /\ UNCHANGED <<delivery, size, senderVars, toServer, toClient, info,
                   buffer, total, file>>

\* Mutant: the whole buffer is written.
RecvChunk_WholeBuffer ==
    /\ child = "recvFile"
    /\ LET onread == ChunkSize(info.size - total)
       IN  \E k \in Received(onread) :
              /\ buffer' = [i \in 1..Chunk |->
                              IF i <= k THEN toServer[i] ELSE buffer[i]]
              /\ toServer' = SubSeq(toServer, k + 1, Len(toServer))
              /\ total' = total + onread
              /\ file' = file \o buffer'
    /\ child' = IF total' = info.size THEN "sendFileAck" ELSE "recvFile"
    /\ UNCHANGED <<delivery, size, senderVars, toClient, info>>

\* Mutant: the loop counts and writes what recv returned.
RecvChunk_Counted ==
    /\ child = "recvFile"
    /\ \E k \in Received(ChunkSize(info.size - total)) :
          /\ buffer' = [i \in 1..Chunk |->
                          IF i <= k THEN toServer[i] ELSE buffer[i]]
          /\ toServer' = SubSeq(toServer, k + 1, Len(toServer))
          /\ total' = total + k
          /\ file' = file \o SubSeq(buffer', 1, k)
    /\ child' = IF total' = info.size THEN "sendFileAck" ELSE "recvFile"
    /\ UNCHANGED <<delivery, size, senderVars, toClient, info>>

\* One turn of the loop of server::recv_file: the bytes received go to the
\* front of the buffer; the bytes asked for are written and counted.
RecvChunk ==
    /\ child = "recvFile"
    /\ LET onread == ChunkSize(info.size - total)
       IN  \E k \in Received(onread) :
              /\ buffer' = [i \in 1..Chunk |->
                              IF i <= k THEN toServer[i] ELSE buffer[i]]
              /\ toServer' = SubSeq(toServer, k + 1, Len(toServer))
              /\ total' = total + onread
              /\ file' = file \o SubSeq(buffer', 1, onread)
    /\ child' = IF total' = info.size THEN "sendFileAck" ELSE "recvFile"
    /\ UNCHANGED <<delivery, size, senderVars, toClient, info>>

SendFileAck ==
    /\ child = "sendFileAck"
    /\ ChildSendsOk("done")
    /\ UNCHANGED <<delivery, size, senderVars, toServer, info, buffer, total,
                   file>>

\* SIGTERM or SIGINT: ChldEXIT closes the connection and exits.
KillChild ==
    /\ ~ChildClosed
    /\ child' = "killed"
    /\ UNCHANGED <<delivery, size, senderVars, toServer, toClient, info,
                   buffer, total, file>>

-----------------------------------------------------------------------------

Client == \/ Connect \/ SendInfo \/ RecvInfoAck \/ SendChunk \/ RecvFileAck
          \/ ConnectFails \/ ClientRecvFails

Child == RecvInfo \/ SendInfoAck \/ OpenFile \/ RecvChunk \/ SendFileAck

TransferNext ==
    \/ Client
    \/ ClientSendFails
    \/ SourceMissing
    \/ KillClient
    \/ Child
    \/ ChildRecvFails
    \/ KillChild

\* A recv of 0 bytes, the only one for an empty file, need not return before
\* there are bytes or the end of the stream: on Linux it waits for them.
ChildMustMove ==
    Child /\ (child = "recvFile" => toServer # <<>> \/ ClientClosed)

\* Both processes run and TCP delivers; nobody has to kill them, and a
\* connection need not be reset.
TransferSpec ==
    TransferInit /\ [][TransferNext]_transferVars
                 /\ WF_transferVars(Client) /\ WF_transferVars(ChildMustMove)

-----------------------------------------------------------------------------
(* Properties.                                                             *)

\* Neither side waits for the other for ever, whatever recv returns and
\* whoever dies: recv_file counts the bytes it asked for, so that the end of
\* the stream does not make it loop.
BothSidesEnd == <>(ClientClosed /\ ChildClosed)

\* The client compares what one recv returns with "ok", so the two
\* acknowledgements must not arrive together: they cannot when one recv has
\* taken the whole header and the file is not empty, however the chunks are
\* delivered.  Of a header in pieces the rest is the first chunk, for which
\* the child need not wait: there they can.
OneAckAtATime == info.got = Len(Header) /\ size > 0 => Len(toClient) <= 1

\* When recv returns all that it asked for, a client that reports success
\* has its file on the server, byte for byte, wherever the chunks end.
ReportedFileIsIntact ==
    told = "sent" /\ delivery = "whole" => file = Source

\* "Received the file successfully", prints the child after recv_file, and
\* the second acknowledgement makes the client print that the content was
\* sent.  The header, and the size with it, has arrived whole.
ReceivedFileIsIntact == child = "done" /\ info.got = Len(Header) => file = Source

=============================================================================
