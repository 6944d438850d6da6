-------------------------- MODULE FileTransferProofs --------------------------
(***************************************************************************)
(* Theorems about FileTransfer, for any size of the file and of a chunk.   *)
(***************************************************************************)
EXTENDS FileTransfer, TLAPS, SequenceTheorems

\* The client before and after it has taken the first "ok".
Early == {"connect", "sendInfo", "recvInfoAck"}
Late == {"sendFile", "recvFileAck"}

\* Before the child has answered the header there is no byte of the file, and
\* nothing has been acknowledged or received.
Opening ==
    /\ client = "connect" => child = "unborn"
    /\ client \in {"connect", "sendInfo"} =>
         toServer = <<>> /\ child \in {"unborn", "recvInfo", "failed", "killed"}
    /\ client \in Early => sent = 0
    /\ child \in {"unborn", "recvInfo"} =>
         toServer \in {<<>>, Header} /\ info = [got |-> 0, size |-> 0]
    /\ child = "unborn" => client \in {"connect"} \cup ClientEnded
    /\ child \in {"unborn", "recvInfo", "sendInfoAck"} =>
         /\ sent = 0 /\ total = 0 /\ toClient = <<>>
         /\ client \in Early \cup {"failed", "killed"}
    /\ child = "openFile" => total = 0

\* The child's second "ok" finds the first one taken, unless the child has
\* read nothing, or the rest of a header that came in pieces.
Acks ==
    /\ child \in {"openFile", "recvFile", "sendFileAck"} => Len(toClient) <= 1
    /\ client \in Late /\ toClient # <<>> => child = "done"
    /\ child \in {"recvFile", "sendFileAck"} /\ total > 0
         /\ info.got = Len(Header) =>
         client \in Late \cup ClientEnded
    /\ child \in {"sendFileAck", "done"} => total = info.size

\* When the child has read all of the header, it knows the size, and what is
\* on its way to it is a piece of the file that ends where the client is.
Stream ==
    child \in {"sendInfoAck", "openFile", "recvFile", "sendFileAck"}
        /\ info.got = Len(Header) =>
            /\ info.size = size
            /\ Len(toServer) <= sent
            /\ \A i \in 1..Len(toServer) : toServer[i] = sent - Len(toServer) + i

\* When recv returns what it is asked for, what the child has written is the
\* beginning of the file, as long as the client is there.
Prefix ==
    delivery = "whole" /\ ~ClientClosed
      /\ child \in {"sendInfoAck", "openFile", "recvFile", "sendFileAck", "done"} =>
        /\ info.got = Len(Header) /\ info.size = size
        /\ child # "done" => total + Len(toServer) = sent
        /\ \A i \in 1..total : file[i] = i

\* A client that reports success has ended, and so has the child.
Told ==
    /\ client # "done" => told = "nothing"
    /\ told = "sent" => child = "done"

IInv ==
    /\ TransferTypeOK
    /\ Opening
    /\ Acks
    /\ Stream
    /\ Prefix
    /\ Told
    /\ OneAckAtATime
    /\ ReportedFileIsIntact

-----------------------------------------------------------------------------
(* Facts about the data.                                                   *)

LEMMA HeaderFacts == Header \in Seq(Byte) /\ Len(Header) = 4
<1>1. \A n \in 1..4 : MaxSize + n \in Byte
  <2>1. Len(Header) = 4
    BY DEF Header
  <2>2. QED
    BY <2>1, TransferAssumption DEF Byte
<1>2. QED
  BY <1>1 DEF Header

LEMMA SizeFromFacts ==
  ASSUME TransferTypeOK, NEW k \in 0..Len(Header)
  PROVE  SizeFrom(k) \in 0..size
<1>1. size \in Nat /\ Base \in Nat \ {0}
  BY TransferAssumption DEF TransferTypeOK
<1>2. size % Base \in 0..size
  BY <1>1
<1>3. QED
  BY <1>1, <1>2 DEF SizeFrom

\* A piece of the file.
LEMMA PieceFacts ==
  ASSUME TransferTypeOK, NEW n \in Nat, sent + n <= size
  PROVE  LET piece == SubSeq(Source, sent + 1, sent + n)
         IN  /\ piece \in Seq(Byte)
             /\ Len(piece) = n
             /\ \A i \in 1..n : piece[i] = sent + i
<1> DEFINE piece == SubSeq(Source, sent + 1, sent + n)
<1>1. /\ Source \in Seq(Byte) /\ Len(Source) = size
      /\ sent \in Nat /\ size \in Nat
  BY TransferAssumption, HeaderFacts DEF Source, TransferTypeOK, Byte
<1>2. \A i \in (sent + 1)..(sent + n) : Source[i] \in Byte
  <2>1. \A i \in 1..size : Source[i] = i
    BY DEF Source
  <2>2. \A i \in (sent + 1)..(sent + n) : i \in 1..size
    BY <1>1
  <2>3. 1..size \subseteq Byte
    BY TransferAssumption, HeaderFacts DEF TransferTypeOK, Byte
  <2>4. QED
    BY <1>1, <2>1, <2>2, <2>3
<1>3. piece \in Seq(Byte) /\ Len(piece) = n
  BY <1>1, <1>2, SubSeqProperties
<1>4. \A i \in 1..n : piece[i] = Source[sent + i]
  BY <1>1, <1>2, SubSeqProperties
<1>5. \A i \in 1..n : piece[i] = sent + i
  BY <1>1, <1>4 DEF Source
<1>6. QED
  BY <1>3, <1>5

\* A stream that ends at e grows by a piece that begins there.
LEMMA SentOn ==
  ASSUME NEW s \in Seq(Byte), NEW p \in Seq(Byte), NEW e \in Nat,
         Len(s) <= e,
         \A i \in 1..Len(s) : s[i] = e - Len(s) + i,
         \A i \in 1..Len(p) : p[i] = e + i,
         NEW t, t = s \o p, NEW f, f = e + Len(p)
  PROVE  /\ Len(t) <= f
         /\ \A i \in 1..Len(t) : t[i] = f - Len(t) + i
<1>1. Len(s) \in Nat /\ Len(p) \in Nat /\ Len(s \o p) = Len(s) + Len(p)
  OBVIOUS
<1>2. ASSUME NEW i \in 1..Len(t) PROVE t[i] = f - Len(t) + i
  <2>1. CASE i <= Len(s)
    <3>1. (s \o p)[i] = s[i] /\ i \in 1..Len(s)
      BY <1>1, <2>1
    <3>2. QED
      BY <1>1, <3>1
  <2>2. CASE i > Len(s)
    <3>1. (s \o p)[i] = p[i - Len(s)] /\ i - Len(s) \in 1..Len(p)
      BY <1>1, <2>2
    <3>2. QED
      BY <1>1, <3>1
  <2>3. QED
    BY <1>1, <2>1, <2>2
<1>3. QED
  BY <1>1, <1>2

\* What is left of a stream when k of it have been taken.
LEMMA RestOf ==
  ASSUME NEW S, NEW s \in Seq(S), NEW k \in 0..Len(s),
         NEW t, t = SubSeq(s, k + 1, Len(s))
  PROVE  /\ t \in Seq(S) /\ Len(t) = Len(s) - k
         /\ \A i \in 1..Len(t) : t[i] = s[k + i]
<1>1. Len(s) \in Nat /\ k \in Nat /\ k + 1 \in Int /\ k <= Len(s)
  OBVIOUS
<1>2. \A i \in (k + 1)..Len(s) : s[i] \in S
  BY <1>1, ElementOfSeq
<1>3. /\ t \in Seq(S)
      /\ Len(t) = IF k + 1 <= Len(s) THEN Len(s) - (k + 1) + 1 ELSE 0
      /\ \A i \in 1..(Len(s) - (k + 1) + 1) : t[i] = s[(k + 1) + i - 1]
  BY <1>1, <1>2, SubSeqProperties
<1>4. Len(t) = Len(s) - k
  BY <1>1, <1>3
<1>5. ASSUME NEW i \in 1..Len(t) PROVE t[i] = s[k + i]
  <2>1. i \in 1..(Len(s) - (k + 1) + 1) /\ (k + 1) + i - 1 = k + i
    BY <1>1, <1>4
  <2>2. t[i] = s[(k + 1) + i - 1]
    BY <1>3, <2>1
  <2>3. QED
    BY <2>1, <2>2
<1>6. QED
  BY <1>3, <1>4, <1>5

\* The first n elements of a buffer.
LEMMA FrontOf ==
  ASSUME NEW S, NEW c \in Nat, NEW b \in [1..c -> S], NEW n \in 0..c,
         NEW t, t = SubSeq(b, 1, n)
  PROVE  /\ t \in Seq(S) /\ Len(t) = n
         /\ \A i \in 1..n : t[i] = b[i]
<1>1. n \in Nat /\ n <= c
  OBVIOUS
<1>2. \A i \in 1..n : b[i] \in S
  BY <1>1
<1>3. /\ t \in Seq(S)
      /\ Len(t) = IF 1 <= n THEN n - 1 + 1 ELSE 0
      /\ \A i \in 1..(n - 1 + 1) : t[i] = b[1 + i - 1]
  BY <1>1, <1>2, SubSeqProperties
<1>4. Len(t) = n /\ n - 1 + 1 = n
  BY <1>1, <1>3
<1>5. ASSUME NEW i \in 1..n PROVE t[i] = b[i]
  <2>1. 1 + i - 1 = i /\ i \in 1..(n - 1 + 1)
    BY <1>1
  <2>2. QED
    BY <1>3, <2>1
<1>6. QED
  BY <1>3, <1>4, <1>5

LEMMA ChunkFacts ==
  ASSUME NEW n \in Nat
  PROVE  /\ ChunkSize(n) \in 0..Chunk /\ ChunkSize(n) <= n
         /\ ChunkSize(n) = 0 => n = 0
BY TransferAssumption DEF ChunkSize, Smaller

-----------------------------------------------------------------------------
(* The steps of the client.                                                *)

LEMMA InitHolds == TransferInit => IInv
<1> SUFFICES ASSUME TransferInit PROVE IInv
  OBVIOUS
<1> USE TransferAssumption DEF TransferInit
<1>1. TransferTypeOK
  BY DEF TransferTypeOK, Junk
<1>2. Opening
  BY DEF Opening, Early
<1>3. Acks /\ Stream /\ Prefix
  BY DEF Acks, Stream, Prefix, Late
<1>4. Told /\ OneAckAtATime /\ ReportedFileIsIntact
  BY DEF Told, OneAckAtATime, ReportedFileIsIntact
<1>5. QED
  BY <1>1, <1>2, <1>3, <1>4 DEF IInv

\* Whatever ends the client leaves the rest as it was.
LEMMA ClientGone ==
  ASSUME IInv, client \notin ClientEnded, client' \in {"failed", "killed"},
         UNCHANGED <<delivery, size, sent, told, toServer, toClient, childVars>>
  PROVE  IInv'
<1>1. TransferTypeOK'
  BY DEF IInv, TransferTypeOK, childVars, ClientEnded
<1>2. Opening'
  BY DEF IInv, Opening, childVars, Early, Header, ClientEnded
<1>3. Acks' /\ Stream'
  BY DEF IInv, Acks, Stream, childVars, Late, ClientEnded
<1>4. Prefix' /\ Told'
  BY DEF IInv, Prefix, Told, childVars, ClientClosed, ClientEnded
<1>5. OneAckAtATime' /\ ReportedFileIsIntact'
  BY DEF IInv, OneAckAtATime, ReportedFileIsIntact, childVars, Source
<1>6. QED
  BY <1>1, <1>2, <1>3, <1>4, <1>5 DEF IInv

LEMMA ClientEnds ==
  ASSUME IInv, ConnectFails \/ ClientRecvFails \/ ClientSendFails
                 \/ SourceMissing \/ KillClient
  PROVE  IInv'
BY ClientGone DEF ConnectFails, ClientRecvFails, ClientSendFails, SourceMissing,
                  KillClient, ClientClosed, ClientEnded

LEMMA ConnectStep ==
  ASSUME IInv, Connect
  PROVE  IInv'
<1> USE DEF Connect
<1>1. TransferTypeOK'
  BY DEF IInv, TransferTypeOK, ChildEnded
<1>2. Opening'
  BY DEF IInv, Opening, Early, Header
<1>3. Acks' /\ Stream' /\ Prefix'
  BY DEF Acks, Stream, Prefix, Late
<1>4. Told' /\ OneAckAtATime' /\ ReportedFileIsIntact'
  BY DEF IInv, Told, Opening, OneAckAtATime, ReportedFileIsIntact
<1>5. QED
  BY <1>1, <1>2, <1>3, <1>4 DEF IInv

LEMMA SendInfoStep ==
  ASSUME IInv, SendInfo
  PROVE  IInv'
<1> USE DEF SendInfo, childVars
<1>1. toServer = <<>> /\ child \in {"recvInfo", "failed", "killed"}
  BY DEF IInv, Opening, ClientEnded
<1>2. Header \in Seq(Byte)
  BY HeaderFacts
<1>3. toServer' \in {<<>>, Header}
  BY <1>1, <1>2 DEF ClientSends
<1>4. TransferTypeOK'
  <2>1. toServer' \in Seq(Byte)
    <3>1. <<>> \in Seq(Byte)
      OBVIOUS
    <3>2. QED
      BY <1>2, <1>3, <3>1
  <2>2. QED
    BY <2>1 DEF IInv, TransferTypeOK
<1>5. Opening'
  BY <1>1, <1>3 DEF IInv, Opening, Early, Header
<1>6. Acks' /\ Stream' /\ Prefix'
  BY <1>1 DEF Acks, Stream, Prefix, Late
<1>7. Told' /\ OneAckAtATime' /\ ReportedFileIsIntact'
  BY DEF IInv, Told, OneAckAtATime, ReportedFileIsIntact
<1>8. QED
  BY <1>4, <1>5, <1>6, <1>7 DEF IInv

LEMMA RecvInfoAckStep ==
  ASSUME IInv, RecvInfoAck
  PROVE  IInv'
<1> USE DEF RecvInfoAck, childVars
<1>1. child \notin {"unborn", "recvInfo", "sendInfoAck"}
  BY DEF IInv, Opening
<1>2. TransferTypeOK'
  BY DEF IInv, TransferTypeOK
<1>3. Opening'
  BY <1>1 DEF IInv, Opening, Early
<1>4. Acks' /\ Stream'
  BY DEF IInv, Acks, Stream, Late
<1>5. Prefix'
  BY DEF IInv, Prefix, ClientClosed, ClientEnded
<1>6. Told' /\ OneAckAtATime' /\ ReportedFileIsIntact'
  BY DEF IInv, Told, OneAckAtATime, ReportedFileIsIntact
<1>7. QED
  BY <1>2, <1>3, <1>4, <1>5, <1>6 DEF IInv

\* A turn of sendfile that finds something to send.
LEMMA SendChunkStep ==
  ASSUME IInv, SendChunk
  PROVE  IInv'
<1> DEFINE onread == ChunkSize(size - sent)
           piece == SubSeq(Source, sent + 1, sent + onread)
<1>1. /\ client = "sendFile" /\ sent \in Nat /\ size \in Nat /\ sent <= size
      /\ child \notin {"unborn", "recvInfo", "sendInfoAck"}
  BY DEF SendChunk, IInv, TransferTypeOK, Opening, Early
<1>2. onread \in 0..Chunk /\ sent + onread <= size
  BY <1>1, ChunkFacts
<1>3. CASE onread = 0
  <2>1. client' = "failed"
    BY <1>3 DEF SendChunk
  <2>2. UNCHANGED <<delivery, size, sent, told, toServer, toClient, childVars>>
    BY <1>3 DEF SendChunk
  <2>3. QED
    BY <1>1, <2>1, <2>2, ClientGone DEF ClientEnded
<1>4. CASE onread # 0
  <2>1. /\ ClientSends(piece)
        /\ sent' = sent + onread
        /\ client' = IF sent' = size THEN "recvFileAck" ELSE "sendFile"
        /\ UNCHANGED <<delivery, size, told, toClient, childVars>>
    BY <1>4 DEF SendChunk
  <2>2. /\ onread \in Nat /\ piece \in Seq(Byte) /\ Len(piece) = onread
        /\ \A i \in 1..onread : piece[i] = sent + i
    BY <1>2, PieceFacts, TransferAssumption DEF IInv
  <2>3. toServer \in Seq(Byte) /\ Len(toServer) \in Nat
    BY DEF IInv, TransferTypeOK
  <2>4. TransferTypeOK'
    <3>1. toServer' \in {toServer \o piece, toServer}
      BY <2>1 DEF ClientSends
    <3>2. toServer \o piece \in Seq(Byte)
      BY <2>2, <2>3
    <3>3. sent' \in 0..size'
      BY <1>1, <1>2, <2>1, <2>2
    <3>4. QED
      BY <2>1, <2>3, <3>1, <3>2, <3>3 DEF IInv, TransferTypeOK, childVars
  <2>5. Opening'
    BY <1>1, <2>1 DEF IInv, Opening, Early, childVars
  <2>6. Acks'
    BY <1>1, <2>1 DEF IInv, Acks, Late, childVars
  <2> HIDE DEF piece, onread
  <2>7. ~ChildClosed => toServer' = toServer \o piece
    BY <2>1 DEF ClientSends
  <2>8. Stream'
    <3> SUFFICES ASSUME child \in {"sendInfoAck", "openFile", "recvFile", "sendFileAck"},
                        info.got = Len(Header)
                 PROVE  /\ info.size = size
                        /\ Len(toServer') <= sent'
                        /\ \A i \in 1..Len(toServer') :
                              toServer'[i] = sent' - Len(toServer') + i
      BY <2>1 DEF Stream, childVars
    <3>1. /\ ~ChildClosed
          /\ info.size = size
          /\ Len(toServer) <= sent
          /\ \A i \in 1..Len(toServer) : toServer[i] = sent - Len(toServer) + i
      BY DEF IInv, Stream, ChildClosed, ChildEnded
    <3>2. toServer' = toServer \o piece /\ sent' = sent + Len(piece)
      BY <2>1, <2>2, <2>7, <3>1
    <3>3. \A j \in 1..Len(piece) : piece[j] = sent + j
      BY <2>2
    <3>4. /\ Len(toServer') <= sent'
          /\ \A i \in 1..Len(toServer') :
                toServer'[i] = sent' - Len(toServer') + i
      <4> DEFINE t == toServer' f == sent'
      <4>1. t = toServer \o piece /\ f = sent + Len(piece)
        BY <3>2
      <4>2. piece \in Seq(Byte)
        BY <2>2
      <4> HIDE DEF t, f
      <4>3. Len(t) <= f /\ \A i \in 1..Len(t) : t[i] = f - Len(t) + i
        BY <1>1, <2>3, <3>1, <3>3, <4>1, <4>2, SentOn
      <4>4. QED
        BY <4>3 DEF t, f
    <3>5. QED
      BY <3>1, <3>4
  <2>9. Prefix'
    <3> SUFFICES ASSUME delivery = "whole",
                        child \in {"sendInfoAck", "openFile", "recvFile",
                                   "sendFileAck", "done"}
                 PROVE  /\ info.got = Len(Header) /\ info.size = size
                        /\ child # "done" => total + Len(toServer') = sent'
                        /\ \A i \in 1..total : file[i] = i
      BY <2>1 DEF Prefix, childVars
    <3>1. /\ info.got = Len(Header) /\ info.size = size
          /\ child # "done" => total + Len(toServer) = sent
          /\ \A i \in 1..total : file[i] = i
      BY <1>1 DEF IInv, Prefix, ClientClosed, ClientEnded
    <3>2. ASSUME child # "done" PROVE total + Len(toServer') = sent'
      <4>1. Len(toServer') = Len(toServer) + onread
        BY <2>2, <2>3, <2>7, <3>2 DEF ChildClosed, ChildEnded
      <4>2. total \in Nat
        BY DEF IInv, TransferTypeOK
      <4>3. sent' = sent + onread /\ onread \in Nat /\ Len(toServer) \in Nat
        BY <2>1, <2>2, <2>3
      <4>4. total + Len(toServer) = sent
        BY <3>1, <3>2
      <4>5. QED
        BY <1>1, <4>1, <4>2, <4>3, <4>4
    <3>3. QED
      BY <3>1, <3>2
  <2>10. Told' /\ OneAckAtATime' /\ ReportedFileIsIntact'
    BY <1>1, <2>1 DEF IInv, Told, OneAckAtATime, ReportedFileIsIntact, childVars
  <2>11. QED
    BY <2>4, <2>5, <2>6, <2>8, <2>9, <2>10 DEF IInv
<1>5. QED
  BY <1>3, <1>4

\* The second "ok" is there: the child is done, and with whole delivery it has
\* all of the file.
LEMMA RecvFileAckStep ==
  ASSUME IInv, RecvFileAck
  PROVE  IInv'
<1> USE DEF RecvFileAck, childVars
<1>1. child = "done" /\ total = info.size
  BY DEF IInv, Acks, Late
<1>2. TransferTypeOK'
  BY DEF IInv, TransferTypeOK, ClientEnded
<1>3. Opening'
  BY <1>1 DEF IInv, Opening, Early
<1>4. Acks' /\ Stream' /\ Prefix'
  BY <1>1 DEF IInv, Acks, Stream, Prefix, Late, ClientClosed, ClientEnded
<1>5. Told' /\ OneAckAtATime'
  BY <1>1 DEF IInv, Told, OneAckAtATime
<1>6. delivery = "whole" => file = Source
  <2> SUFFICES ASSUME delivery = "whole" PROVE file = Source
    OBVIOUS
  <2>1. /\ info.size = size /\ \A i \in 1..total : file[i] = i
        /\ file \in Seq({Junk} \cup Byte) /\ Len(file) = total
    BY <1>1 DEF IInv, Prefix, TransferTypeOK, ClientClosed, ClientEnded
  <2>2. file = [i \in 1..size |-> file[i]]
    BY <1>1, <2>1
  <2>3. QED
    BY <1>1, <2>1, <2>2 DEF Source
<1>7. ReportedFileIsIntact'
  BY <1>6 DEF ReportedFileIsIntact, Source
<1>8. QED
  BY <1>2, <1>3, <1>4, <1>5, <1>7 DEF IInv

-----------------------------------------------------------------------------
(* The steps of the child.                                                 *)

\* Whatever ends the child leaves the rest as it was.
LEMMA ChildGone ==
  ASSUME IInv, child \notin {"unborn", "done"}, child' \in {"failed", "killed"},
         UNCHANGED <<delivery, size, senderVars, toServer, toClient, info,
                     buffer, total, file>>
  PROVE  IInv'
<1> USE DEF senderVars
<1>1. TransferTypeOK'
  BY DEF IInv, TransferTypeOK, ChildEnded
<1>2. Opening'
  BY DEF IInv, Opening
<1>3. Acks' /\ Stream' /\ Prefix'
  BY DEF IInv, Acks, Stream, Prefix, Late
<1>4. Told' /\ OneAckAtATime' /\ ReportedFileIsIntact'
  BY DEF IInv, Told, OneAckAtATime, ReportedFileIsIntact, Source
<1>5. QED
  BY <1>1, <1>2, <1>3, <1>4 DEF IInv

LEMMA ChildEnds ==
  ASSUME IInv, ChildRecvFails \/ KillChild
  PROVE  IInv'
BY ChildGone DEF ChildRecvFails, KillChild, ChildClosed, ChildEnded

\* What the first recv makes of the header.
LEMMA HeaderRead ==
  ASSUME IInv, RecvInfo
  PROVE  /\ toServer' \in Seq(Byte)
         /\ info' \in [got : 0..Len(Header), size : 0..size]
         /\ info'.got = Len(Header) => info'.size = size /\ toServer' = <<>>
         /\ delivery = "whole" /\ ~ClientClosed => info'.got = Len(Header)
         /\ toServer = <<>> => ClientClosed
<1>1. PICK k \in Received(Len(Header)) :
         /\ info' = [got |-> k, size |-> SizeFrom(k)]
         /\ toServer' = SubSeq(toServer, k + 1, Len(toServer))
  BY DEF RecvInfo
<1>2. toServer \in {<<>>, Header} /\ delivery \in {"whole", "segmented"}
  BY TransferAssumption DEF RecvInfo, IInv, Opening, TransferTypeOK
<1>3. /\ toServer \in Seq(Byte) /\ Len(toServer) \in {0, 4}
      /\ toServer = <<>> <=> Len(toServer) = 0
  <2>1. CASE toServer = <<>>
    BY <2>1
  <2>2. CASE toServer = Header
    BY <2>2, HeaderFacts
  <2>3. QED
    BY <1>2, <2>1, <2>2
<1>4. k \in 0..Len(toServer) /\ k \in 0..Len(Header)
  BY <1>3, HeaderFacts DEF Received, Smaller
<1>5. /\ toServer' \in Seq(Byte)
      /\ Len(toServer') = Len(toServer) - k
  <2> DEFINE t == toServer' bytes == Byte
  <2>1. t = SubSeq(toServer, k + 1, Len(toServer)) /\ toServer \in Seq(bytes)
    BY <1>1, <1>3
  <2> HIDE DEF t, bytes
  <2>2. t \in Seq(bytes) /\ Len(t) = Len(toServer) - k
    BY <1>4, <2>1, RestOf
  <2>3. QED
    BY <2>2 DEF t, bytes
<1>6. info' \in [got : 0..Len(Header), size : 0..size]
  BY <1>1, <1>4, SizeFromFacts DEF IInv
<1>7. info'.got = Len(Header) => info'.size = size /\ toServer' = <<>>
  <2> SUFFICES ASSUME info'.got = Len(Header)
               PROVE  info'.size = size /\ toServer' = <<>>
    OBVIOUS
  <2>1. k = Len(Header) /\ info'.size = SizeFrom(k)
    BY <1>1
  <2>2. Len(toServer') = 0
    BY <1>3, <1>4, <1>5, <2>1, HeaderFacts
  <2>3. toServer' = <<>>
    BY <1>5, <2>2
  <2>4. QED
    BY <2>1, <2>3 DEF SizeFrom
<1>8. delivery = "whole" /\ ~ClientClosed => info'.got = Len(Header)
  BY <1>1, HeaderFacts DEF Received
<1>9. toServer = <<>> => ClientClosed
  BY <1>1, <1>3, <1>4, HeaderFacts DEF Received
<1>10. QED
  BY <1>5, <1>6, <1>7, <1>8, <1>9

LEMMA RecvInfoStep ==
  ASSUME IInv, RecvInfo
  PROVE  IInv'
<1>1. /\ child = "recvInfo" /\ child' = "sendInfoAck"
      /\ UNCHANGED <<delivery, size, client, sent, told, toClient, buffer, total, file>>
  BY DEF RecvInfo, senderVars
<1>2. /\ sent = 0 /\ total = 0 /\ toClient = <<>>
      /\ client \in Early \cup {"failed", "killed"}
      /\ client \in {"connect", "sendInfo"} => toServer = <<>>
      /\ client # "connect"
  BY <1>1 DEF IInv, Opening
<1>3. size \in 0..MaxSize /\ file \in Seq({Junk} \cup Byte) /\ Len(file) = 0
  BY <1>2 DEF IInv, TransferTypeOK
<1>4. TransferTypeOK'
  BY <1>1, <1>2, <1>3, HeaderRead, TransferAssumption DEF IInv, TransferTypeOK
<1>5. client # "sendInfo"
  BY <1>2, HeaderRead DEF ClientClosed, ClientEnded
<1>6. Opening'
  BY <1>1, <1>2, <1>5 DEF Opening
<1>7. Acks'
  BY <1>1, <1>2 DEF Acks, Early, Late
<1>8. Stream'
  BY <1>1, <1>2, <1>3, HeaderRead DEF Stream
<1>9. Prefix'
  BY <1>1, <1>2, <1>3, HeaderRead DEF Prefix, ClientClosed
<1>10. Told' /\ OneAckAtATime' /\ ReportedFileIsIntact'
  BY <1>1, <1>2 DEF IInv, Told, OneAckAtATime, ReportedFileIsIntact, Source
<1>11. QED
  BY <1>4, <1>6, <1>7, <1>8, <1>9, <1>10 DEF IInv

LEMMA SendInfoAckStep ==
  ASSUME IInv, SendInfoAck
  PROVE  IInv'
<1> USE DEF SendInfoAck, senderVars
<1>1. /\ toClient = <<>> /\ sent = 0 /\ total = 0
      /\ client \in Early \cup {"failed", "killed"}
  BY DEF IInv, Opening
<1>2. /\ toClient' \in {<<>>, <<"ok">>}
      /\ child' \in {"openFile", "failed"}
  BY <1>1 DEF ChildSendsOk
<1>3. toClient' \in Seq({"ok"}) /\ Len(toClient') <= 1
  <2>1. <<>> \in Seq({"ok"}) /\ Len(<<>>) = 0
    OBVIOUS
  <2>2. <<"ok">> \in Seq({"ok"}) /\ Len(<<"ok">>) = 1
    OBVIOUS
  <2>3. CASE toClient' = <<>>
    BY <2>1, <2>3
  <2>4. CASE toClient' = <<"ok">>
    BY <2>2, <2>4
  <2>5. QED
    BY <1>2, <2>3, <2>4
<1>4. TransferTypeOK'
  BY <1>2, <1>3 DEF IInv, TransferTypeOK, ChildEnded
<1>5. Opening'
  BY <1>1, <1>2 DEF IInv, Opening
<1>6. Acks' /\ Stream' /\ Prefix'
  BY <1>1, <1>2, <1>3 DEF IInv, Acks, Stream, Prefix, Early, Late, ClientClosed
<1>7. Told' /\ OneAckAtATime' /\ ReportedFileIsIntact'
  BY <1>1, <1>3 DEF IInv, Told, OneAckAtATime, ReportedFileIsIntact, Source, Early
<1>8. QED
  BY <1>4, <1>5, <1>6, <1>7 DEF IInv

LEMMA OpenFileStep ==
  ASSUME IInv, OpenFile
  PROVE  IInv'
<1>1. CASE child' = "failed"
  BY <1>1, ChildGone DEF OpenFile
<1>2. CASE child' = "recvFile"
  <2> USE <1>2 DEF OpenFile, senderVars
  <2>1. total = 0
    BY DEF IInv, Opening
  <2>2. TransferTypeOK'
    BY DEF IInv, TransferTypeOK
  <2>3. Opening' /\ Acks'
    BY <2>1 DEF IInv, Opening, Acks, Late
  <2>4. Stream' /\ Prefix'
    BY DEF IInv, Stream, Prefix, ClientClosed
  <2>5. Told' /\ OneAckAtATime' /\ ReportedFileIsIntact'
    BY DEF IInv, Told, OneAckAtATime, ReportedFileIsIntact, Source
  <2>6. QED
    BY <2>2, <2>3, <2>4, <2>5 DEF IInv
<1>3. QED
  BY <1>1, <1>2 DEF OpenFile

\* A turn of recv_file: how many bytes it asks for, how many it gets, and what
\* they are.
LEMMA ChunkRead ==
  ASSUME IInv, child = "recvFile", NEW n, n = ChunkSize(info.size - total),
         NEW k \in Received(n)
  PROVE  /\ n \in 0..Chunk /\ total + n <= info.size
         /\ k \in 0..n /\ k <= Len(toServer)
         /\ info.got = Len(Header) /\ k > 0 => sent > 0
         /\ delivery = "whole" /\ ~ClientClosed => k = n
         /\ n > 0 /\ ~ClientClosed => k > 0
         /\ info.got = Len(Header) =>
              \A i \in 1..k : toServer[i] = sent - Len(toServer) + i
         /\ \A i \in 1..k : toServer[i] \in {Junk} \cup Byte
<1>1. /\ total \in Nat /\ info.size \in Nat /\ total <= info.size
      /\ Len(toServer) \in Nat /\ sent \in Nat /\ size \in Nat
      /\ sent <= MaxSize /\ MaxSize \in Nat
  BY TransferAssumption DEF IInv, TransferTypeOK
<1>2. n \in 0..Chunk /\ total + n <= info.size
  BY <1>1, ChunkFacts
<1>3. n \in Nat
  BY <1>2, TransferAssumption
<1>4. k \in 0..n /\ k <= Len(toServer)
  BY <1>1, <1>3 DEF Received, Smaller
<1>5. \/ n = 0
      \/ k = n
      \/ delivery = "segmented" /\ k > 0
      \/ ClientClosed /\ k = Len(toServer)
  BY DEF Received
<1>6. info.got = Len(Header) =>
        /\ Len(toServer) <= sent
        /\ \A i \in 1..Len(toServer) : toServer[i] = sent - Len(toServer) + i
  BY DEF IInv, Stream
<1>7. info.got = Len(Header) /\ k > 0 => sent > 0
  BY <1>1, <1>3, <1>4, <1>6
<1>8. ASSUME NEW i \in 1..k
      PROVE  /\ info.got = Len(Header) => toServer[i] = sent - Len(toServer) + i
             /\ toServer[i] \in {Junk} \cup Byte
  <2>1. i \in 1..Len(toServer)
    BY <1>1, <1>3, <1>4
  <2>2. toServer[i] \in Byte
    BY <2>1 DEF IInv, TransferTypeOK
  <2>3. QED
    BY <1>6, <2>1, <2>2
<1>9. delivery = "whole" /\ ~ClientClosed => k = n
  BY <1>3, <1>4, <1>5
<1>10. n > 0 /\ ~ClientClosed => k > 0
  BY <1>3, <1>4, <1>5
<1>11. QED
  BY <1>2, <1>4, <1>7, <1>8, <1>9, <1>10

LEMMA RecvChunkStep ==
  ASSUME IInv, RecvChunk
  PROVE  IInv'
<1> DEFINE n == ChunkSize(info.size - total)
           chunk == SubSeq(buffer', 1, n)
<1>1. /\ child = "recvFile"
      /\ child' = IF total' = info.size THEN "sendFileAck" ELSE "recvFile"
      /\ UNCHANGED <<delivery, size, client, sent, told, toClient, info>>
  BY DEF RecvChunk, senderVars
<1>2. PICK k \in Received(n) :
        /\ buffer' = [i \in 1..Chunk |-> IF i <= k THEN toServer[i] ELSE buffer[i]]
        /\ toServer' = SubSeq(toServer, k + 1, Len(toServer))
        /\ total' = total + n
        /\ file' = file \o chunk
  BY DEF RecvChunk
<1>3. /\ n \in 0..Chunk /\ total + n <= info.size
      /\ k \in 0..n /\ k <= Len(toServer)
      /\ info.got = Len(Header) /\ k > 0 => sent > 0
      /\ delivery = "whole" /\ ~ClientClosed => k = n
      /\ n > 0 /\ ~ClientClosed => k > 0
      /\ info.got = Len(Header) =>
           \A i \in 1..k : toServer[i] = sent - Len(toServer) + i
      /\ \A i \in 1..k : toServer[i] \in {Junk} \cup Byte
  <2> DEFINE a == n
  <2>1. a = ChunkSize(info.size - total) /\ k \in Received(a)
    BY <1>2
  <2> HIDE DEF a
  <2>2. /\ a \in 0..Chunk /\ total + a <= info.size
        /\ k \in 0..a /\ k <= Len(toServer)
        /\ info.got = Len(Header) /\ k > 0 => sent > 0
        /\ delivery = "whole" /\ ~ClientClosed => k = a
        /\ a > 0 /\ ~ClientClosed => k > 0
        /\ info.got = Len(Header) =>
             \A i \in 1..k : toServer[i] = sent - Len(toServer) + i
        /\ \A i \in 1..k : toServer[i] \in {Junk} \cup Byte
    BY <1>1, <2>1, ChunkRead
  <2>3. QED
    BY <2>2 DEF a
<1> HIDE DEF n
<1>4. /\ toServer \in Seq(Byte) /\ Len(toServer) \in Nat
      /\ total \in Nat /\ info.size \in Nat /\ sent \in Nat /\ Chunk \in Nat
      /\ n \in Nat /\ k \in Nat
      /\ buffer \in [1..Chunk -> {Junk} \cup Byte]
      /\ file \in Seq({Junk} \cup Byte) /\ Len(file) = total
  BY <1>3, TransferAssumption DEF IInv, TransferTypeOK
<1>5. buffer' \in [1..Chunk -> {Junk} \cup Byte]
  <2>1. ASSUME NEW i \in 1..Chunk
        PROVE  (IF i <= k THEN toServer[i] ELSE buffer[i]) \in {Junk} \cup Byte
    BY <1>3, <1>4
  <2>2. QED
    BY <1>2, <2>1
<1>6. /\ chunk \in Seq({Junk} \cup Byte) /\ Len(chunk) = n
      /\ \A i \in 1..n : chunk[i] = buffer'[i]
  <2> DEFINE b == buffer'
  <2>1. b \in [1..Chunk -> {Junk} \cup Byte] /\ chunk = SubSeq(b, 1, n)
    BY <1>5
  <2> HIDE DEF b, chunk
  <2>2. /\ chunk \in Seq({Junk} \cup Byte) /\ Len(chunk) = n
        /\ \A i \in 1..n : chunk[i] = b[i]
    BY <1>3, <1>4, <2>1, FrontOf
  <2>3. QED
    BY <2>2 DEF b
<1> HIDE DEF chunk
<1>7. /\ toServer' \in Seq(Byte) /\ Len(toServer') = Len(toServer) - k
      /\ \A i \in 1..Len(toServer') : toServer'[i] = toServer[k + i]
  <2> DEFINE t == toServer' bytes == Byte
  <2>1. t = SubSeq(toServer, k + 1, Len(toServer))
    BY <1>2
  <2>2. k \in 0..Len(toServer)
    BY <1>3, <1>4
  <2>3. /\ t \in Seq(bytes) /\ Len(t) = Len(toServer) - k
        /\ \A i \in 1..Len(t) : t[i] = toServer[k + i]
    <3>1. toServer \in Seq(bytes)
      BY <1>4
    <3> HIDE DEF bytes, t
    <3>2. QED
      BY <2>1, <2>2, <3>1, RestOf
  <2>4. QED
    BY <2>3 DEF t, bytes
<1>8. /\ file' \in Seq({Junk} \cup Byte) /\ Len(file') = total'
      /\ \A i \in 1..total' :
            file'[i] = IF i <= total THEN file[i] ELSE buffer'[i - total]
  <2> DEFINE g == file' b == buffer'
  <2>1. g = file \o chunk /\ \A i \in 1..n : chunk[i] = b[i]
    BY <1>2, <1>6
  <2> HIDE DEF g, b
  <2>2. /\ g \in Seq({Junk} \cup Byte) /\ Len(g) = total + n
        /\ \A i \in 1..(total + n) :
              g[i] = IF i <= total THEN file[i] ELSE chunk[i - total]
    BY <1>4, <1>6, <2>1, ConcatProperties
  <2>3. \A i \in 1..(total + n) : i > total => i - total \in 1..n
    BY <1>4
  <2>4. \A i \in 1..(total + n) :
           g[i] = IF i <= total THEN file[i] ELSE b[i - total]
    <3> TAKE i \in 1..(total + n)
    <3>1. g[i] = IF i <= total THEN file[i] ELSE chunk[i - total]
      BY <2>2
    <3>2. CASE i <= total
      BY <3>1, <3>2
    <3>3. CASE ~(i <= total)
      <4>1. i > total
        BY <1>4, <3>3
      <4>2. chunk[i - total] = b[i - total]
        BY <2>1, <2>3, <4>1
      <4>3. QED
        BY <3>1, <3>3, <4>2
    <3>4. QED
      BY <3>2, <3>3
  <2>5. total' = total + n
    BY <1>2
  <2>6. QED
    BY <2>2, <2>4, <2>5 DEF g, b
<1>9. total' \in 0..info.size
  BY <1>2, <1>3, <1>4
<1>10. TransferTypeOK'
  BY <1>1, <1>5, <1>7, <1>8, <1>9 DEF IInv, TransferTypeOK
<1>11. Opening'
  BY <1>1 DEF IInv, Opening
<1>12. Acks'
  <2>1. info.got = Len(Header) /\ total' > 0 => client \in Late \cup ClientEnded
    <3>1. info.got = Len(Header) /\ total > 0 => client \in Late \cup ClientEnded
      BY <1>1 DEF IInv, Acks
    <3>2. info.got = Len(Header) /\ n > 0 => ClientClosed \/ sent > 0
      BY <1>3
    <3>3. sent > 0 => client \in Late \cup ClientEnded
      BY <1>4 DEF IInv, Opening, TransferTypeOK, Early, Late
    <3>4. total' > 0 => total > 0 \/ n > 0
      BY <1>2, <1>4
    <3>5. QED
      BY <3>1, <3>2, <3>3, <3>4 DEF ClientClosed
  <2>2. QED
    BY <1>1, <2>1 DEF IInv, Acks
<1>13. Stream'
  <2> SUFFICES ASSUME info.got = Len(Header)
               PROVE  /\ info.size = size
                      /\ Len(toServer') <= sent
                      /\ \A i \in 1..Len(toServer') :
                            toServer'[i] = sent - Len(toServer') + i
    BY <1>1 DEF Stream
  <2>1. /\ info.size = size
        /\ Len(toServer) <= sent
        /\ \A i \in 1..Len(toServer) : toServer[i] = sent - Len(toServer) + i
    BY <1>1 DEF IInv, Stream
  <2>2. ASSUME NEW i \in 1..Len(toServer')
        PROVE  toServer'[i] = sent - Len(toServer') + i
    <3>1. k + i \in 1..Len(toServer) /\ toServer'[i] = toServer[k + i]
      BY <1>3, <1>4, <1>7
    <3>2. toServer'[i] = sent - Len(toServer) + (k + i)
      BY <2>1, <3>1
    <3>3. Len(toServer') = Len(toServer) - k
      BY <1>7
    <3>4. QED
      BY <1>4, <3>2, <3>3
  <2>3. Len(toServer') <= sent
    BY <1>4, <1>7, <2>1
  <2>4. QED
    BY <2>1, <2>2, <2>3
<1>14. Prefix'
  <2> SUFFICES ASSUME delivery = "whole", ~ClientClosed
               PROVE  /\ info.got = Len(Header) /\ info.size = size
                      /\ total' + Len(toServer') = sent
                      /\ \A i \in 1..total' : file'[i] = i
    BY <1>1 DEF Prefix, ClientClosed
  <2>1. /\ info.got = Len(Header) /\ info.size = size
        /\ total + Len(toServer) = sent
        /\ \A i \in 1..total : file[i] = i
    BY <1>1 DEF IInv, Prefix
  <2>2. k = n
    BY <1>3
  <2>3. total' + Len(toServer') = sent
    <3>1. total' = total + n /\ Len(toServer') = Len(toServer) - n
      BY <1>2, <1>7, <2>2
    <3>2. total + Len(toServer) = sent
      BY <2>1
    <3>3. QED
      BY <1>4, <3>1, <3>2
  <2>4. ASSUME NEW i \in 1..total' PROVE file'[i] = i
    <3>1. CASE i <= total
      BY <1>4, <1>8, <2>1, <3>1
    <3>2. CASE i > total
      <4>1. i - total \in 1..k /\ i - total \in 1..Chunk
        BY <1>2, <1>3, <1>4, <2>2, <3>2
      <4>2. file'[i] = buffer'[i - total]
        BY <1>4, <1>8, <3>2
      <4>3. buffer'[i - total] = toServer[i - total]
        BY <1>2, <1>4, <4>1
      <4>4. toServer[i - total] = sent - Len(toServer) + (i - total)
        BY <1>3, <2>1, <4>1
      <4>5. sent - Len(toServer) = total /\ i \in Nat
        BY <1>2, <1>4, <2>1
      <4>6. file'[i] = total + (i - total)
        BY <4>2, <4>3, <4>4, <4>5
      <4>7. QED
        BY <1>4, <4>5, <4>6
    <3>3. QED
      BY <1>4, <3>1, <3>2
  <2>5. QED
    BY <2>1, <2>3, <2>4
<1>15. Told' /\ OneAckAtATime' /\ ReportedFileIsIntact'
  BY <1>1 DEF IInv, Told, OneAckAtATime, ReportedFileIsIntact
<1>16. QED
  BY <1>10, <1>11, <1>12, <1>13, <1>14, <1>15 DEF IInv

\* The second "ok": a client that is still there has taken the first one,
\* when the file is not empty.
LEMMA SendFileAckStep ==
  ASSUME IInv, SendFileAck
  PROVE  IInv'
<1>1. /\ child = "sendFileAck" /\ child' \in {"done", "failed"}
      /\ child' = "failed" => ClientClosed
      /\ toClient' \in {toClient, Append(toClient, "ok")}
      /\ ClientClosed => toClient' = toClient
      /\ UNCHANGED <<delivery, size, client, sent, told, toServer, info, buffer,
                     total, file>>
  BY DEF SendFileAck, ChildSendsOk, senderVars
<1>2. /\ total = info.size /\ Len(toClient) <= 1 /\ toClient \in Seq({"ok"})
      /\ client \in Late => toClient = <<>>
      /\ total > 0 /\ info.got = Len(Header) => client \in Late \cup ClientEnded
      /\ info.got = Len(Header) => info.size = size
  BY <1>1 DEF IInv, Acks, Stream, TransferTypeOK
<1>3. /\ Append(toClient, "ok") \in Seq({"ok"})
      /\ Len(Append(toClient, "ok")) = Len(toClient) + 1
      /\ Len(toClient) \in Nat
  BY <1>2
<1>4. toClient' \in Seq({"ok"}) /\ Len(toClient') <= 2
  BY <1>1, <1>2, <1>3
<1>5. TransferTypeOK'
  BY <1>1, <1>4 DEF IInv, TransferTypeOK, ChildEnded
<1>6. Opening'
  BY <1>1 DEF IInv, Opening
<1>7. Acks'
  BY <1>1, <1>2 DEF Acks, Late, ClientClosed, ClientEnded
<1>8. Stream' /\ Prefix'
  BY <1>1 DEF IInv, Stream, Prefix, ClientClosed
<1>9. Told' /\ ReportedFileIsIntact'
  BY <1>1 DEF IInv, Told, ReportedFileIsIntact, Source
<1>10. OneAckAtATime'
  <2> SUFFICES ASSUME info.got = Len(Header), size > 0 PROVE Len(toClient') <= 1
    BY <1>1 DEF OneAckAtATime
  <2>1. CASE ClientClosed
    BY <1>1, <1>2, <2>1
  <2>2. CASE ~ClientClosed
    <3>1. toClient = <<>>
      BY <1>2, <2>2 DEF ClientClosed
    <3>2. Len(toClient) = 0 /\ Len(Append(toClient, "ok")) = 1
      BY <1>3, <3>1
    <3>3. CASE toClient' = toClient
      BY <3>2, <3>3
    <3>4. CASE toClient' = Append(toClient, "ok")
      BY <3>2, <3>4
    <3>5. QED
      BY <1>1, <3>3, <3>4
  <2>3. QED
    BY <2>1, <2>2
<1>11. QED
  BY <1>5, <1>6, <1>7, <1>8, <1>9, <1>10 DEF IInv

-----------------------------------------------------------------------------

LEMMA StepHolds == IInv /\ [TransferNext]_transferVars => IInv'
<1> SUFFICES ASSUME IInv, [TransferNext]_transferVars PROVE IInv'
  OBVIOUS
<1>1. CASE Client
  BY <1>1, ConnectStep, SendInfoStep, RecvInfoAckStep, SendChunkStep,
     RecvFileAckStep, ClientEnds DEF Client
<1>2. CASE ClientSendFails \/ SourceMissing \/ KillClient
  BY <1>2, ClientEnds
<1>3. CASE Child
  BY <1>3, RecvInfoStep, SendInfoAckStep, OpenFileStep, RecvChunkStep,
     SendFileAckStep DEF Child
<1>4. CASE ChildRecvFails \/ KillChild
  BY <1>4, ChildEnds
<1>5. CASE UNCHANGED transferVars
  <2> USE <1>5 DEF transferVars, senderVars, childVars
  <2>1. TransferTypeOK'
    BY DEF IInv, TransferTypeOK
  <2>2. Opening' /\ Acks'
    BY DEF IInv, Opening, Acks
  <2>3. Stream' /\ Prefix'
    BY DEF IInv, Stream, Prefix, ClientClosed
  <2>4. Told' /\ OneAckAtATime' /\ ReportedFileIsIntact'
    BY DEF IInv, Told, OneAckAtATime, ReportedFileIsIntact, Source
  <2>5. QED
    BY <2>1, <2>2, <2>3, <2>4 DEF IInv
<1>6. QED
  BY <1>1, <1>2, <1>3, <1>4, <1>5 DEF TransferNext

\* The inductive invariant holds always: whatever recv returns and whoever is
\* killed.
THEOREM Invariance == TransferSpec => []IInv
<1>1. TransferInit => IInv
  BY InitHolds
<1>2. IInv /\ [TransferNext]_transferVars => IInv'
  BY StepHolds
<1>3. QED
  BY <1>1, <1>2, PTL DEF TransferSpec

\* Every variable of the two processes and of the streams keeps its type; the
\* child never counts more bytes than the header announced, and writes as many
\* as it counts.
THEOREM TransferTyped == TransferSpec => []TransferTypeOK
<1>1. IInv => TransferTypeOK
  BY DEF IInv
<1>2. QED
  BY <1>1, Invariance, PTL

\* The two acknowledgements of the child are never on their way together when
\* one recv has taken the whole header and the file is not empty, however the
\* chunks come, so that client::recv finds exactly "ok".
THEOREM AcksApart == TransferSpec => []OneAckAtATime
<1>1. IInv => OneAckAtATime
  BY DEF IInv
<1>2. QED
  BY <1>1, Invariance, PTL

\* A client told that its file arrived is right when every recv of the server
\* returns what it asked for, for any size of the file and of the buffer.
THEOREM ReportIsTrue == TransferSpec => []ReportedFileIsIntact
<1>1. IInv => ReportedFileIsIntact
  BY DEF IInv
<1>2. QED
  BY <1>1, Invariance, PTL

=============================================================================
