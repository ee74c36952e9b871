-------------------------- MODULE SdoTransferProofs --------------------------
(***************************************************************************)
(* Proofs about whole transfers.  A channel goes through phases: who holds *)
(* the transfer's one frame, how far the two proxies are, which bytes they *)
(* agree on.  Every step of a client or a server leads from one phase to   *)
(* another; what the other channels and the application do changes none,   *)
(* because the entry of a transfer is locked.                              *)
(*                                                                         *)
(* The theorems are about expedited and segmented transfers (ShortWrites)  *)
(* on a bus without late frames (TimelyBus): with late frames, or with     *)
(* leftover block segments that are read as requests, the code does not    *)
(* keep the properties, as neither side looks at what a frame belongs to.  *)
(***************************************************************************)
EXTENDS SdoProofs

\* Every write is short enough to go in segments.
ShortWrites == \A var \in WriteVars : Len(var.data) < BlockModeThreshold

\* A queue that holds one abort; bytes that agree so far; a write that fits one frame.
ErrorsOnly == Errors \ {"Success"}
IsAbort(q) == \E e \in ErrorsOnly : q = <<AbortFrame(e)>>
Agree(a, b, k) == \A n \in 1 .. k : a[n] = b[n]
Expedites(c) == ~job[c].read /\ IsExpedited(Len(job[c].val))

\* The request a transfer starts with, and the offset it leaves the client.
Opening(c) ==
  IF job[c].read THEN UploadRequest(job[c].idx)
  ELSE IF Expedites(c) THEN ExpeditedDownload(job[c].idx, job[c].val)
  ELSE DownloadRequest(job[c].idx, Len(job[c].val))

\* No transfer, or one that failed: aborts may be under way.
Idle(c) ==
  /\ ~cli[c].active /\ job[c].result # "Success"
  /\ toSrv[c] = <<>> \/ IsAbort(toSrv[c])
  /\ toCli[c] = <<>> \/ IsAbort(toCli[c])

\* A transfer that succeeded.
Done(c) ==
  /\ ~cli[c].active /\ job[c].result = "Success"
  /\ Quiet(c) /\ srv[c].mode = "none"
  /\ witness[c].idx = job[c].idx
  /\ IF job[c].read THEN cli[c].buf = witness[c].carried
     ELSE witness[c].carried = job[c].val /\ witness[c].stored = job[c].val

\* The opening request is under way, an abort of an earlier transfer before it.
Asking(c) ==
  /\ cli[c].active /\ toCli[c] = <<>>
  /\ \/ toSrv[c] = <<Opening(c)>>
     \/ \E e \in ErrorsOnly : toSrv[c] = <<AbortFrame(e), Opening(c)>>
  /\ cli[c].off = IF Expedites(c) THEN Len(job[c].val) ELSE 0
  /\ ~job[c].read => cli[c].buf = job[c].val

\* The abort that answers the transfer is under way.
Refused(c) ==
  /\ cli[c].active /\ toSrv[c] = <<>> /\ IsAbort(toCli[c])
  /\ srv[c].mode = "none"

\* A frame was lost.
Stranded(c) == cli[c].active /\ Quiet(c) /\ losses > 0

\* The server has the entry open for the transfer, at this offset.
Open(c, off) ==
  srv[c].mode = "segmented" /\ srv[c].idx = job[c].idx /\ srv[c].off = off

\* Reading, the value is witness[c].carried.
ToRead(c) == witness[c].carried
Reads(c) == cli[c].active /\ job[c].read /\ witness[c].idx = job[c].idx
ReadsFrom(c, off) == Open(c, off) /\ od[srv[c].idx].data = ToRead(c)
HasRead(c) ==
  /\ Len(cli[c].buf) = Len(ToRead(c)) /\ cli[c].off <= Len(ToRead(c))
  /\ Agree(cli[c].buf, ToRead(c), cli[c].off)
NextRead(c) == AtMost(Len(ToRead(c)) - cli[c].off, SegmentBytes)
LastRead(c) == Len(ToRead(c)) - cli[c].off <= SegmentBytes

\* The whole value, its length, a request for a segment or a segment is under way.
ReadWhole(c) ==
  /\ Reads(c) /\ toSrv[c] = <<>> /\ toCli[c] = <<ExpeditedUpload(ToRead(c))>>
  /\ cli[c].off = 0 /\ srv[c].mode = "none"
ReadOpens(c) ==
  /\ Reads(c) /\ toSrv[c] = <<>> /\ toCli[c] = <<UploadResponse(Len(ToRead(c)))>>
  /\ cli[c].off = 0 /\ ReadsFrom(c, 0)
ReadAsks(c) ==
  /\ Reads(c) /\ toSrv[c] = <<UploadSegRequest>> /\ toCli[c] = <<>>
  /\ HasRead(c) /\ ReadsFrom(c, cli[c].off)
ReadGets(c) ==
  /\ Reads(c) /\ toSrv[c] = <<>>
  /\ toCli[c] = <<Segment(Chunk(ToRead(c), cli[c].off, NextRead(c)), LastRead(c))>>
  /\ HasRead(c)
  /\ IF LastRead(c) THEN srv[c].mode = "none" ELSE ReadsFrom(c, cli[c].off + NextRead(c))

\* Writing, the value is job[c].val.
Writes(c) == cli[c].active /\ ~job[c].read /\ cli[c].buf = job[c].val
WritesTo(c, off) ==
  /\ Open(c, off) /\ off < Len(job[c].val)
  /\ Len(od[srv[c].idx].data) = Len(job[c].val)
  /\ Agree(od[srv[c].idx].data, job[c].val, off)
NextWrite(c) == AtMost(Len(job[c].val) - srv[c].off, SegmentBytes)
LastWrite(c) == Len(job[c].val) - srv[c].off <= SegmentBytes
Acknowledged(c) == toCli[c] = <<DownloadResponse>> \/ toCli[c] = <<DownloadSegResponse>>

\* A go-ahead, a segment or the last acknowledgement is under way.
WriteOpens(c) ==
  /\ Writes(c) /\ toSrv[c] = <<>> /\ Acknowledged(c)
  /\ WritesTo(c, cli[c].off)
WriteSends(c) ==
  /\ Writes(c) /\ toCli[c] = <<>>
  /\ toSrv[c] = <<Segment(Chunk(job[c].val, srv[c].off, NextWrite(c)), LastWrite(c))>>
  /\ WritesTo(c, srv[c].off) /\ cli[c].off = srv[c].off + NextWrite(c)
WriteEnds(c) ==
  /\ Writes(c) /\ toSrv[c] = <<>> /\ Acknowledged(c)
  /\ srv[c].mode = "none" /\ cli[c].off = Len(job[c].val)
  /\ witness[c].idx = job[c].idx
  /\ witness[c].carried = job[c].val /\ witness[c].stored = job[c].val

Phase(c) ==
  \/ Idle(c) \/ Done(c) \/ Asking(c) \/ Refused(c) \/ Stranded(c)
  \/ ReadWhole(c) \/ ReadOpens(c) \/ ReadAsks(c) \/ ReadGets(c)
  \/ WriteOpens(c) \/ WriteSends(c) \/ WriteEnds(c)

Written == {var.data : var \in WriteVars}
Channel(c) ==
  /\ srv[c].mode # "block"
  /\ cli[c].active /\ ~job[c].read => job[c].val \in Written
  /\ Phase(c)

\* The inductive invariant, relative to SdoInv.
TransferInv == (\A c \in Chan : Channel(c)) /\ CallbackSeesWholeWrite
-----------------------------------------------------------------------------
(* Bytes *)

\* The whole of a value is a chunk of it.
LEMMA ChunkWhole ==
  ASSUME NEW d \in Seq(Byte)
  PROVE  Chunk(d, 0, Len(d)) = d
<1>1. Len(d) \in Nat /\ 0 + 1 = 1 /\ 0 + Len(d) = Len(d)
  OBVIOUS
<1>2. SubSeq(d, 1, Len(d)) = d
  OBVIOUS
<1> QED
  BY <1>1, <1>2 DEF Chunk

\* The elements of a chunk.
LEMMA ChunkElements ==
  ASSUME NEW d \in Seq(Byte), NEW off \in Nat, NEW n \in Nat, off + n <= Len(d)
  PROVE  /\ Len(Chunk(d, off, n)) = n
         /\ \A k \in 1 .. n : Chunk(d, off, n)[k] = d[off + k]
<1>1. Len(Chunk(d, off, n)) = n
  BY ChunkFacts
<1>2. ASSUME NEW k \in 1 .. n
      PROVE  Chunk(d, off, n)[k] = d[off + k]
  <2>1. Chunk(d, off, n) = [j \in 1 .. (off + n) - (off + 1) + 1 |-> d[j + (off + 1) - 1]]
    BY DEF Chunk
  <2>2. (off + n) - (off + 1) + 1 = n /\ k + (off + 1) - 1 = off + k
    OBVIOUS
  <2> QED
    BY <2>1, <2>2
<1> QED
  BY <1>1, <1>2

\* Copying the next chunk of d over bytes that agree so far.
LEMMA OverwriteAgrees ==
  ASSUME NEW data \in Seq(Byte), NEW d \in Seq(Byte), Len(data) = Len(d),
         NEW off \in Nat, NEW n \in Nat, off + n <= Len(d), Agree(data, d, off)
  PROVE  /\ Len(Overwrite(data, off, Chunk(d, off, n))) = Len(d)
         /\ Agree(Overwrite(data, off, Chunk(d, off, n)), d, off + n)
<1> DEFINE x == Overwrite(data, off, Chunk(d, off, n))
<1>1. Chunk(d, off, n) \in Seq(Byte)
  BY ChunkFacts
<1>2. Len(x) = Len(d)
  BY <1>1, OverwriteFacts
<1>3. ASSUME NEW k \in 1 .. off + n
      PROVE  x[k] = d[k]
  <2>1. k \in 1 .. Len(data)
    OBVIOUS
  <2>2. x[k] = IF k > off /\ k <= off + n THEN Chunk(d, off, n)[k - off] ELSE data[k]
    BY <2>1, ChunkElements DEF Overwrite
  <2>3. CASE k > off
    <3>1. k - off \in 1 .. n /\ off + (k - off) = k
      BY <2>3
    <3> QED
      BY <2>2, <2>3, <3>1, ChunkElements
  <2>4. CASE ~ (k > off)
    BY <2>2, <2>4 DEF Agree
  <2> QED
    BY <2>3, <2>4
<1> QED
  BY <1>2, <1>3 DEF Agree

\* Values of one length that agree all along are equal.
LEMMA AgreeWhole ==
  ASSUME NEW a \in Seq(Byte), NEW b \in Seq(Byte), Len(a) = Len(b), Agree(a, b, Len(b))
  PROVE  a = b
<1>1. \A k \in 1 .. Len(a) : a[k] = b[k]
  BY DEF Agree
<1> QED
  BY <1>1

\* Any two values agree at first.
LEMMA AgreeNone ==
  ASSUME NEW a, NEW b
  PROVE  Agree(a, b, 0)
BY DEF Agree

\* The size of the next segment.
LEMMA AtMostCases ==
  ASSUME NEW n \in Nat, NEW limit \in Nat
  PROVE  /\ AtMost(n, limit) \in Nat /\ AtMost(n, limit) <= n
         /\ n <= limit => AtMost(n, limit) = n
         /\ ~ (n <= limit) => AtMost(n, limit) < n
         /\ 0 < n /\ 0 < limit => 0 < AtMost(n, limit)
BY DEF AtMost

-----------------------------------------------------------------------------
(* Frames *)

\* What the frames of a client say.
LEMMA RequestFields ==
  ASSUME NEW i
  PROVE  /\ UploadRequest(i).cs = 2 /\ UploadRequest(i).idx = i
         /\ \A n : /\ DownloadRequest(i, n).cs = 1 /\ DownloadRequest(i, n).idx = i
                   /\ ~DownloadRequest(i, n).exp /\ DownloadRequest(i, n).size = n
         /\ \A bytes : LET m == ExpeditedDownload(i, bytes)
                       IN /\ m.cs = 1 /\ m.idx = i /\ m.exp
                          /\ m.size = Len(bytes) /\ m.data = bytes
         /\ UploadSegRequest.cs = 3 /\ UploadSegRequest.idx = NoIdx
         /\ \A bytes, last : LET m == Segment(bytes, last)
                             IN m.cs = 0 /\ m.idx = NoIdx /\ m.data = bytes /\ m.last = last
         /\ \A e : LET m == AbortFrame(e) IN m.cs = 4 /\ m.idx = NoIdx /\ m.err = e
BY DEF UploadRequest, DownloadRequest, ExpeditedDownload, UploadSegRequest, Segment,
       AbortFrame, Frame

\* What the frames of a server say.
LEMMA ResponseFields ==
  /\ \A bytes : LET m == ExpeditedUpload(bytes)
                IN m.cs = 2 /\ m.exp /\ m.size = Len(bytes) /\ m.data = bytes
  /\ \A n : LET m == UploadResponse(n) IN m.cs = 2 /\ ~m.exp /\ m.size = n
  /\ DownloadResponse.cs = 3 /\ DownloadSegResponse.cs = 1
BY DEF ExpeditedUpload, UploadResponse, DownloadResponse, DownloadSegResponse, Frame

\* A frame that is no block segment is read as what it is.
LEMMA RequestIsItself ==
  ASSUME NEW m, m.idx # Payload
  PROVE  Requests(m) = {m}
BY DEF Requests

-----------------------------------------------------------------------------
(* The other channels. A step of one channel, or of the application, shows *)
(* in no other: its queues and transactions are its own, and the entry its *)
(* server holds is locked.                                                 *)

Same(c) ==
  /\ toSrv'[c] = toSrv[c] /\ toCli'[c] = toCli[c]
  /\ srv'[c] = srv[c] /\ cli'[c] = cli[c]
  /\ job'[c] = job[c] /\ witness'[c] = witness[c]
  /\ srv[c].mode # "none" => od'[srv[c].idx].data = od[srv[c].idx].data
  /\ losses > 0 => losses' > 0

\* Nothing but the channel's own state decides its phase.
LEMMA SamePhase ==
  ASSUME NEW c \in Chan, Phase(c), Same(c)
  PROVE  Phase(c)'
<1> USE DEF Same
<1>1. CASE Idle(c) \/ Done(c) \/ Refused(c) \/ Stranded(c)
  BY <1>1 DEF Idle, Done, Refused, Stranded, Phase, Quiet
<1>2. CASE Asking(c)
  <2>1. Opening(c)' = Opening(c) /\ Expedites(c)' = Expedites(c)
    BY DEF Opening, Expedites
  <2>2. Asking(c)'
    BY <1>2, <2>1 DEF Asking
  <2> QED
    BY <2>2 DEF Phase
<1>3. /\ ToRead(c)' = ToRead(c) /\ Reads(c)' = Reads(c)
      /\ NextRead(c)' = NextRead(c) /\ LastRead(c)' = LastRead(c)
      /\ HasRead(c)' = HasRead(c)
  BY DEF ToRead, Reads, NextRead, LastRead, HasRead
<1>4. \A off : ReadsFrom(c, off) => ReadsFrom(c, off)'
  BY <1>3 DEF ReadsFrom, Open
<1>5. CASE ReadWhole(c) \/ ReadOpens(c) \/ ReadAsks(c) \/ ReadGets(c)
  BY <1>3, <1>4, <1>5 DEF ReadWhole, ReadOpens, ReadAsks, ReadGets, Phase
<1>6. /\ Writes(c)' = Writes(c) /\ Acknowledged(c)' = Acknowledged(c)
      /\ NextWrite(c)' = NextWrite(c) /\ LastWrite(c)' = LastWrite(c)
  BY DEF Writes, Acknowledged, NextWrite, LastWrite
<1>7. \A off : WritesTo(c, off) => WritesTo(c, off)'
  BY DEF WritesTo, Open
<1>8. CASE WriteOpens(c) \/ WriteSends(c) \/ WriteEnds(c)
  BY <1>6, <1>7, <1>8 DEF WriteOpens, WriteSends, WriteEnds, Phase
<1> QED
  BY <1>1, <1>2, <1>5, <1>8 DEF Phase

\* Nor anything else of it.
LEMMA SameKeeps ==
  ASSUME NEW c \in Chan, Channel(c), Same(c)
  PROVE  Channel(c)'
BY SamePhase DEF Channel, Same

\* What the code's queues, maps and counters say of one channel.
LEMMA TypesOf ==
  ASSUME SdoInv, NEW c \in Chan
  PROVE  /\ ServerInv /\ ServerIO /\ ClientInv
         /\ toSrv \in [Chan -> Seq(Frames)] /\ toCli \in [Chan -> Seq(Frames)]
         /\ srv[c] \in Servers /\ cli[c] \in Clients /\ job[c] \in Jobs
         /\ witness[c] \in Witnesses /\ losses \in Nat
         /\ od \in [Idx -> Entries]
         /\ DOMAIN toSrv = Chan /\ DOMAIN toCli = Chan /\ DOMAIN srv = Chan
         /\ DOMAIN cli = Chan /\ DOMAIN job = Chan /\ DOMAIN witness = Chan
BY SdoInvParts DEF SdoInv, TypeOK

\* A server's step leaves the entries of the others alone.
LEMMA EffectOnOthers ==
  ASSUME SdoInv, NEW c \in Chan, Effect(c), NEW d \in Chan \ {c}
  PROVE  /\ srv'[d] = srv[d]
         /\ srv[d].mode # "none" => od'[srv[d].idx] = od[srv[d].idx]
<1>1. ServerInv
  BY TypesOf
<1>2. ASSUME srv[d].mode # "none"
      PROVE  /\ srv[d].idx \in Idx /\ od[srv[d].idx].locked
             /\ \A i \in Idx : srv[c].mode # "none" /\ srv[c].idx = i => i # srv[d].idx
  BY <1>1, <1>2, Holder DEF ServerInv, EntryOwnership, Owns
<1>3. CASE Idles
  BY <1>3 DEF Idles
<1>4. ASSUME NEW i \in Idx, Uses(i)
      PROVE  /\ srv'[d] = srv[d]
             /\ srv[d].mode # "none" => od'[srv[d].idx] = od[srv[d].idx]
  BY <1>2, <1>4 DEF Uses, OnlyEntry
<1>5. ASSUME NEW i \in Idx, Acquires(c, i) \/ GoesOn(c, i) \/ Concludes(c, i)
      PROVE  /\ srv'[d] = srv[d]
             /\ srv[d].mode # "none" => od'[srv[d].idx] = od[srv[d].idx]
  <2>1. \E s : srv' = [srv EXCEPT ![c] = s]
    BY <1>5 DEF Acquires, GoesOn, Concludes
  <2>2. srv'[d] = srv[d]
    BY <2>1, TypesOf
  <2>3. OnlyEntry(i) /\ (~od[i].locked \/ (srv[c].mode # "none" /\ srv[c].idx = i))
    BY <1>5 DEF Acquires, GoesOn, Concludes
  <2> QED
    BY <1>2, <2>2, <2>3 DEF OnlyEntry
<1> QED
  BY <1>3, <1>4, <1>5 DEF Effect

\* The replies and the history of the others.
RepliesTo(c) ==
  /\ \A d \in Chan \ {c} : toCli'[d] = toCli[d] /\ witness'[d] = witness[d]

\* A handler writes to its own client only, ...
LEMMA ReplyOnly ==
  ASSUME SdoInv, NEW c \in Chan, NEW frames,
         Reply(c, frames) \/ toCli' = toCli,
         witness' = witness \/ \E w : witness' = [witness EXCEPT ![c] = w]
  PROVE  RepliesTo(c)
BY TypesOf DEF RepliesTo, Reply, Send

\* ... when it fails or refuses, ...
LEMMA FailReplies ==
  ASSUME SdoInv, NEW c \in Chan, NEW e, Fail(c, e) \/ Refuse(c, e)
  PROVE  RepliesTo(c)
BY ReplyOnly DEF Fail, Refuse, serverVars

\* ... and in all that it does with a request.
LEMMA ProcessReplies ==
  ASSUME SdoInv, NEW c \in Chan, NEW m,
         ProcessInitiate(c, m) \/ ProcessSegmented(c, m), srv[c].mode # "block"
  PROVE  RepliesTo(c)
<1>1. CASE \E e : Fail(c, e) \/ Refuse(c, e)
  BY <1>1, FailReplies
<1>2. CASE \E frames : /\ Reply(c, frames) \/ toCli' = toCli
                       /\ witness' = witness \/ \E w : witness' = [witness EXCEPT ![c] = w]
  BY <1>2, ReplyOnly
<1>3. CASE ProcessInitiate(c, m)
  <2>1. CASE UploadInitiateRefused(c, m) \/ DownloadInitiateRefused(c, m)
    BY <1>1, <2>1 DEF UploadInitiateRefused, DownloadInitiateRefused
  <2>2. CASE UploadInitiateExpedited(c, m)
    BY <1>1, <1>2, <2>2 DEF UploadInitiateExpedited
  <2>3. CASE UploadInitiate(c, m)
    BY <1>2, <2>3 DEF UploadInitiate
  <2>4. CASE DownloadInitiateExpedited(c, m)
    BY <1>2, <2>4 DEF DownloadInitiateExpedited, Acknowledge
  <2>5. CASE DownloadInitiate(c, m)
    BY <1>2, <2>5 DEF DownloadInitiate, Acknowledge
  <2>6. CASE BlockInitiate(c, m)
    BY <1>2, <2>6 DEF BlockInitiate
  <2>7. CASE NotAnInitiate(c, m)
    BY <1>2, <2>7 DEF NotAnInitiate
  <2> QED
    BY <1>3, <2>1, <2>2, <2>3, <2>4, <2>5, <2>6, <2>7, Zenon DEF ProcessInitiate
<1>4. CASE ProcessSegmented(c, m)
  <2>1. CASE ServerAborted(c, m)
    BY <1>2, <2>1 DEF ServerAborted
  <2>2. CASE SegmentRead(c, m)
    BY <1>1, <1>2, <2>2 DEF SegmentRead
  <2>3. CASE DownloadSegmentRefused(c, m) \/ UnhandledRequest(c, m)
    BY <1>1, <2>3 DEF DownloadSegmentRefused, UnhandledRequest
  <2>4. CASE DownloadSegment(c, m)
    BY <1>2, <2>4 DEF DownloadSegment, Acknowledge
  <2> QED
    BY <1>4, <2>1, <2>2, <2>3, <2>4, Zenon DEF ProcessSegmented
<1> QED
  BY <1>3, <1>4

\* A step of the server for c leaves the others alone.
LEMMA ServerOnOthers ==
  ASSUME SdoInv, NEW c \in Chan, srv[c].mode # "block",
         ServerReceive(c) \/ ServerTimeout(c), NEW d \in Chan \ {c}
  PROVE  Same(d)
<1>1. Effect(c)
  BY TypesOf, ServerReceiveStep, ServerTimeoutStep DEF ServerStep
<1>2. RepliesTo(c)
  <2>1. CASE ServerTimeout(c)
    BY <2>1, FailReplies DEF ServerTimeout
  <2>2. CASE ServerReceive(c)
    <3>1. ~ProcessBlock(c, Head(toSrv[c]))
      BY DEF ProcessBlock, BlockStart, BlockCopyFails, BlockSubBlock, BlockJunk, BlockEnd, InBlock
    <3>2. \E m : ProcessInitiate(c, m) \/ ProcessSegmented(c, m)
      BY <2>2, <3>1 DEF ServerReceive
    <3> QED
      BY <3>2, ProcessReplies
  <2> QED
    BY <2>1, <2>2
<1>3. UNCHANGED <<clientVars, losses>> /\ toSrv'[d] = toSrv[d]
  BY TypesOf DEF ServerReceive, ServerTimeout, Consume
<1> QED
  BY <1>1, <1>2, <1>3, EffectOnOthers DEF Same, RepliesTo, clientVars

\* A step of the client for c, or a loss, leaves the others alone.
LEMMA ClientOnOthers ==
  ASSUME SdoInv, NEW c \in Chan, NEW d \in Chan \ {c},
         \/ ClientTransaction(c) \/ ClientReceive(c) \/ ClientTimeout(c)
         \/ LoseRequest(c) \/ LoseReply(c)
  PROVE  Same(d)
<1>1. UNCHANGED <<od, srv>> /\ (losses > 0 => losses' > 0)
  BY TypesOf DEF ClientTransaction, InitiateRead, InitiateExpeditedWrite,
         InitiateSegmentedWrite, InitiateBlockWrite, Start, ClientReceive,
         ClientTimeout, LoseRequest, LoseReply, serverVars
<1>2. toSrv'[d] = toSrv[d] /\ toCli'[d] = toCli[d]
  <2>1. CASE ClientReceive(c)
    <3>1. toCli'[d] = toCli[d]
      BY <2>1, TypesOf DEF ClientReceive, Consume
    <3>2. toSrv' = toSrv \/ \E frames : toSrv' = Send(toSrv, c, frames)
      BY <2>1 DEF ClientReceive, ProcessReply, AbortReply, ExpeditedUploadReply, UploadReply,
                  UploadSegReply, DownloadReply, BlockBurst, BlockReply, Request
    <3> QED
      BY <3>1, <3>2, TypesOf DEF Send
  <2>2. CASE ClientTransaction(c) \/ ClientTimeout(c) \/ LoseRequest(c) \/ LoseReply(c)
    BY <2>2, TypesOf DEF ClientTransaction, InitiateRead, InitiateExpeditedWrite,
         InitiateSegmentedWrite, InitiateBlockWrite, Start,
         ClientTimeout, LoseRequest, LoseReply, Request, Send, Consume
  <2> QED
    BY <2>1, <2>2
<1>3. cli'[d] = cli[d] /\ job'[d] = job[d] /\ witness'[d] = witness[d]
  <2>1. CASE ClientReceive(c)
    <3>1. witness' = witness
      BY <2>1 DEF ClientReceive, serverVars
    <3>2. /\ cli' = cli \/ \E s : cli' = [cli EXCEPT ![c] = s]
          /\ job' = job \/ \E j : job' = [job EXCEPT ![c] = j]
      BY <2>1 DEF ClientReceive, ProcessReply, AbortReply, ExpeditedUploadReply, UploadReply,
                  UploadSegReply, DownloadReply, BlockBurst, BlockReply, Finish
    <3> QED
      BY <3>1, <3>2, TypesOf
  <2>2. CASE ClientTransaction(c) \/ ClientTimeout(c) \/ LoseRequest(c) \/ LoseReply(c)
    BY <2>2, TypesOf DEF ClientTransaction, InitiateRead, InitiateExpeditedWrite,
         InitiateSegmentedWrite, InitiateBlockWrite, Start, Finish,
         ClientTimeout, LoseRequest, LoseReply, clientVars, serverVars
  <2> QED
    BY <2>1, <2>2
<1> QED
  BY <1>1, <1>2, <1>3 DEF Same

\* The application writes to unlocked entries, and leaves all channels alone.
LEMMA LocalOnOthers ==
  ASSUME SdoInv, NEW i \in Idx, NEW data, LocalSet(i, data), NEW d \in Chan
  PROVE  Same(d)
<1>1. ASSUME srv[d].mode # "none"
      PROVE  srv[d].idx \in Idx \ {i}
  BY <1>1, TypesOf, Holder DEF LocalSet
<1>2. \A j \in Idx \ {i} : od'[j] = od[j]
  BY TypesOf DEF LocalSet
<1> QED
  BY <1>1, <1>2 DEF Same, LocalSet, clientVars

-----------------------------------------------------------------------------
(* The client's steps                                                      *)

\* Queues of one and two frames.
LEMMA Queues ==
  ASSUME NEW S, NEW x \in S, NEW y \in S
  PROVE  /\ <<x>> # <<>> /\ Head(<<x>>) = x /\ Tail(<<x>>) = <<>>
         /\ <<x, y>> # <<>> /\ Head(<<x, y>>) = x /\ Tail(<<x, y>>) = <<y>>
         /\ <<>> \o <<x>> = <<x>> /\ <<x>> \o <<y>> = <<x, y>>
<1>1. <<x>> \in Seq(S) /\ <<y>> \in Seq(S) /\ <<x, y>> \in Seq(S) /\ <<>> \in Seq(S)
  OBVIOUS
<1>2. <<x>> # <<>> /\ Head(<<x>>) = x /\ <<x, y>> # <<>> /\ Head(<<x, y>>) = x
  OBVIOUS
<1>3. Tail(<<x>>) = <<>> /\ Tail(<<x, y>>) = <<y>>
  OBVIOUS
<1>4. <<>> \o <<x>> = <<x>>
  OBVIOUS
<1>5. <<x>> \o <<y>> = <<x, y>>
  <2> DEFINE z == <<x>> \o <<y>>
  <2>1. z \in Seq(S) /\ Len(z) = 2 /\ z[1] = x /\ z[2] = y
    BY <1>1
  <2>2. Len(<<x, y>>) = 2 /\ <<x, y>>[1] = x /\ <<x, y>>[2] = y
    OBVIOUS
  <2> HIDE DEF z
  <2>3. z = <<x, y>>
    BY <1>1, <2>1, <2>2
  <2> QED
    BY <2>3 DEF z
<1> QED
  BY <1>2, <1>3, <1>4, <1>5

\* The same without a set of frames.
LEMMA Queued ==
  ASSUME NEW x, NEW y
  PROVE  <<>> \o <<x>> = <<x>> /\ <<x>> \o <<y>> = <<x, y>>
<1>1. x \in {x, y} /\ y \in {x, y}
  OBVIOUS
<1> QED
  BY <1>1, Queues

\* A request is put at the end of its queue.
LEMMA Requested ==
  ASSUME SdoInv, NEW c \in Chan, NEW frame, Request(c, frame)
  PROVE  toSrv'[c] = toSrv[c] \o <<frame>>
BY TypesOf DEF Request, Send

\* A frame is taken from the front of its queue.
LEMMA Consumed ==
  ASSUME SdoInv, NEW c \in Chan
  PROVE  /\ toCli' = Consume(toCli, c) => toCli'[c] = Tail(toCli[c])
         /\ toSrv' = Consume(toSrv, c) => toSrv'[c] = Tail(toSrv[c])
BY TypesOf DEF Consume

\* What the client does with a frame is decided by its command specifier.
LEMMA ReplyKinds ==
  ASSUME NEW c, NEW m, ProcessReply(c, m)
  PROVE  /\ m.cs = 4 => AbortReply(c, m)
         /\ m.cs = 2 /\ m.exp => ExpeditedUploadReply(c, m)
         /\ m.cs = 2 /\ ~m.exp => UploadReply(c, m)
         /\ m.cs = 0 => UploadSegReply(c, m)
         /\ m.cs \in {1, 3} => DownloadReply(c, m)
<1>1. /\ AbortReply(c, m) => m.cs = 4
      /\ ExpeditedUploadReply(c, m) => m.cs = 2 /\ m.exp
      /\ UploadReply(c, m) => m.cs = 2 /\ ~m.exp
  BY Zenon DEF AbortReply, ExpeditedUploadReply, UploadReply
<1>2. /\ UploadSegReply(c, m) => m.cs = 0
      /\ DownloadReply(c, m) => m.cs \in {1, 3}
      /\ BlockBurst(c, m) => m.cs = 5
      /\ BlockReply(c, m) => m.cs = 5
  BY Zenon DEF UploadSegReply, DownloadReply, BlockBurst, BlockReply
<1> QED
  BY <1>1, <1>2 DEF ProcessReply

\* The client takes the only frame under way.
LEMMA ClientTakes ==
  ASSUME SdoInv, NEW c \in Chan, NEW m, cli[c].active, toCli[c] = <<m>>, ClientReceive(c)
  PROVE  /\ ProcessReply(c, m) /\ toCli'[c] = <<>>
         /\ UNCHANGED <<od, srv, witness, ops, losses>>
<1>1. Head(<<m>>) = m /\ Tail(<<m>>) = <<>>
  BY Queues
<1> QED
  BY <1>1, Consumed DEF ClientReceive, serverVars

\* A transfer that starts finds no reply under way.
LEMMA Starts ==
  ASSUME SdoInv, ShortWrites, TimelyBus, NEW c \in Chan, Channel(c), ClientTransaction(c)
  PROVE  Channel(c)'
<1>1. ~cli[c].active /\ toCli[c] = <<>> /\ UNCHANGED <<toCli, srv>>
  BY DEF ClientTransaction, InitiateRead, InitiateExpeditedWrite,
         InitiateSegmentedWrite, InitiateBlockWrite, Start, MayStart
<1>2. toSrv[c] = <<>> \/ \E e \in ErrorsOnly : toSrv[c] = <<AbortFrame(e)>>
  BY <1>1 DEF Channel, Phase, Idle, Done, Asking, Refused, Stranded, ReadWhole, ReadOpens,
              ReadAsks, ReadGets, WriteOpens, WriteSends, WriteEnds, Reads, Writes, Quiet, IsAbort
<1>3. ASSUME NEW isRead \in BOOLEAN, NEW i, NEW var \in ReadVars \cup WriteVars, NEW off,
             isRead \/ var \in WriteVars,
             Start(c, isRead, i, var, off), Request(c, Opening(c)'),
             off = IF ~isRead /\ IsExpedited(Len(var.data)) THEN Len(var.data) ELSE 0
      PROVE  Channel(c)'
  <2>1. /\ cli'[c].active /\ cli'[c].buf = var.data /\ cli'[c].off = off
        /\ job'[c].read = isRead /\ job'[c].val = var.data
    BY <1>3, TypesOf DEF Start
  <2>2. \/ toSrv'[c] = <<Opening(c)'>>
        \/ \E e \in ErrorsOnly : toSrv'[c] = <<AbortFrame(e), Opening(c)'>>
    <3>1. toSrv'[c] = toSrv[c] \o <<Opening(c)'>>
      BY <1>3, Requested
    <3>2. <<>> \o <<Opening(c)'>> = <<Opening(c)'>>
      BY Queued
    <3>3. \A e : <<AbortFrame(e)>> \o <<Opening(c)'>> = <<AbortFrame(e), Opening(c)'>>
      BY Queued
    <3> QED
      BY <1>2, <3>1, <3>2, <3>3
  <2>3. Asking(c)'
    BY <1>1, <1>3, <2>1, <2>2 DEF Asking, Expedites
  <2> QED
    BY <1>1, <1>3, <2>1, <2>3 DEF Channel, Phase, Written
<1>4. PICK i \in Idx \cup {NoIdx} :
        \/ \E var \in ReadVars : InitiateRead(c, i, var)
        \/ \E var \in WriteVars : \/ InitiateExpeditedWrite(c, i, var)
                                  \/ InitiateSegmentedWrite(c, i, var)
  <2>1. ASSUME NEW i \in Idx \cup {NoIdx}, NEW var \in WriteVars, InitiateBlockWrite(c, i, var)
        PROVE  FALSE
    <3>1. Len(var.data) \in Nat /\ BlockModeThreshold \in Nat
      BY DataAssumption, FrameAssumption
    <3> QED
      BY <2>1, <3>1 DEF InitiateBlockWrite, ShortWrites
  <2> QED
    BY <2>1, Zenon DEF ClientTransaction
<1>5. ASSUME NEW isRead, NEW var, NEW off, Start(c, isRead, i, var, off)
      PROVE  job'[c].read = isRead /\ job'[c].val = var.data /\ job'[c].idx = i
  BY <1>5, TypesOf DEF Start
<1>6. CASE \E var \in ReadVars : InitiateRead(c, i, var)
  <2>1. PICK var \in ReadVars : Start(c, TRUE, i, var, 0) /\ Request(c, UploadRequest(i))
    BY <1>6 DEF InitiateRead
  <2>2. Opening(c)' = UploadRequest(i)
    BY <1>5, <2>1 DEF Opening
  <2> QED
    BY <1>3, <2>1, <2>2
<1>7. CASE \E var \in WriteVars : InitiateExpeditedWrite(c, i, var)
  <2>1. PICK var \in WriteVars : /\ IsExpedited(Len(var.data))
                                 /\ Start(c, FALSE, i, var, Len(var.data))
                                 /\ Request(c, ExpeditedDownload(i, var.data))
    BY <1>7 DEF InitiateExpeditedWrite, IsExpedited
  <2>2. Opening(c)' = ExpeditedDownload(i, var.data)
    BY <1>5, <2>1 DEF Opening, Expedites
  <2> QED
    BY <1>3, <2>1, <2>2
<1>8. CASE \E var \in WriteVars : InitiateSegmentedWrite(c, i, var)
  <2>1. PICK var \in WriteVars : /\ Len(var.data) = 0 \/ Len(var.data) > ExpeditedBytes
                                 /\ Start(c, FALSE, i, var, 0)
                                 /\ Request(c, DownloadRequest(i, Len(var.data)))
    BY <1>8 DEF InitiateSegmentedWrite
  <2>2. ~IsExpedited(Len(var.data))
    BY <2>1, DataAssumption, FrameAssumption DEF IsExpedited
  <2>3. Opening(c)' = DownloadRequest(i, Len(var.data))
    BY <1>5, <2>1, <2>2 DEF Opening, Expedites
  <2> QED
    BY <1>3, <2>1, <2>2, <2>3
<1> QED
  BY <1>4, <1>6, <1>7, <1>8

\* A transfer that ends with an error.
LEMMA Fails ==
  ASSUME SdoInv, NEW c \in Chan, NEW s \in Clients, NEW e, e # "Success", Finish(c, s, e),
         toSrv'[c] = <<>> \/ IsAbort(toSrv'[c]), toCli'[c] = <<>>
  PROVE  Idle(c)'
<1>1. ~cli'[c].active /\ job'[c].result = e
  BY TypesOf DEF Finish, Clients, Jobs
<1> QED
  BY <1>1 DEF Idle, IsAbort

\* The transfer of a client that is sent an abort has failed.
LEMMA AbortArrives ==
  ASSUME SdoInv, NEW c \in Chan, Refused(c), ClientReceive(c)
  PROVE  Idle(c)'
<1>1. PICK e \in ErrorsOnly : toCli[c] = <<AbortFrame(e)>>
  BY DEF Refused, IsAbort
<1>2. Head(toCli[c]) = AbortFrame(e) /\ AbortFrame(e).cs = 4 /\ AbortFrame(e).err = e
  BY <1>1, Queues, RequestFields
<1>3. AbortReply(c, AbortFrame(e))
  BY <1>1, <1>2, ClientTakes, ReplyKinds DEF Refused
<1>4. Finish(c, cli[c], e) /\ toSrv' = toSrv /\ e # "Success"
  BY <1>2, <1>3 DEF AbortReply, ErrorsOnly
<1>5. toCli'[c] = <<>>
  BY <1>1, ClientTakes DEF Refused
<1> QED
  BY <1>4, <1>5, TypesOf, Fails DEF Refused

\* The buffer that a response with its size leaves.
LEMMA SizedAnew ==
  ASSUME SdoInv, NEW c \in Chan, cli[c].off = 0, NEW n \in Nat
  PROVE  LET s == Sized(c, n, TRUE)
         IN /\ s \in Clients /\ s.active = cli[c].active /\ s.off = 0 /\ Len(s.buf) = n
            /\ s.buf \in Seq(Byte)
<1>1. cli[c].buf \in Seq(Byte) /\ Len(cli[c].buf) \in Nat
  BY TypesOf DEF Clients
<1>2. Left(c) = Len(cli[c].buf)
  BY <1>1 DEF Left
<1>3. Resize(cli[c].buf, n) \in Seq(Byte) /\ Len(Resize(cli[c].buf, n)) = n
  BY <1>1, ResizeFacts
<1>4. CASE n = Left(c)
  <2>1. Sized(c, n, TRUE) = cli[c]
    BY <1>1, <1>2, <1>4 DEF Sized
  <2> QED
    BY <1>1, <1>2, <1>4, <2>1, TypesOf
<1>5. CASE n # Left(c)
  <2>1. Sized(c, n, TRUE) = [cli[c] EXCEPT !.buf = Resize(@, n), !.off = 0]
    BY <1>1, <1>2, <1>5 DEF Sized
  <2> QED
    BY <1>3, <2>1, TypesOf DEF Clients
<1> QED
  BY <1>4, <1>5

\* What a copy leaves of the proxy.
LEMMA CopiedFields ==
  ASSUME NEW s \in Clients, NEW bytes \in Seq(Byte)
  PROVE  /\ CopiedFrom(s, bytes) \in Clients
         /\ CopiedFrom(s, bytes).buf = Overwrite(s.buf, s.off, bytes)
         /\ CopiedFrom(s, bytes).off = s.off + Len(bytes)
         /\ CopiedFrom(s, bytes).active = s.active
<1>1. s.buf \in Seq(Byte) /\ s.off \in Nat
  BY DEF Clients
<1>2. Overwrite(s.buf, s.off, bytes) \in Seq(Byte) /\ s.off + Len(bytes) \in Nat
  BY <1>1, OverwriteFacts
<1> QED
  BY <1>2 DEF CopiedFrom, Clients

\* An expedited value is taken whole, or refused for its size.
LEMMA WholeArrives ==
  ASSUME SdoInv, NEW c \in Chan, ReadWhole(c), ClientReceive(c)
  PROVE  Idle(c)' \/ Done(c)'
<1> DEFINE d == ToRead(c)
           m == ExpeditedUpload(d)
           s == Sized(c, Len(d), TRUE)
<1>1. d \in Seq(Byte) /\ Len(d) \in Nat
  BY TypesOf DEF ToRead, Witnesses
<1>2. m.cs = 2 /\ m.exp /\ m.size = Len(d) /\ m.data = d
  BY ResponseFields
<1>3. toCli'[c] = <<>> /\ toSrv'[c] = <<>> /\ UNCHANGED <<srv, witness>>
      /\ ExpeditedUploadReply(c, m)
  <2>1. cli[c].active /\ toCli[c] = <<m>>
    BY DEF ReadWhole, Reads
  <2>2. ProcessReply(c, m) /\ toCli'[c] = <<>> /\ UNCHANGED <<srv, witness>>
    <3> HIDE DEF m
    <3> QED
      BY <2>1, ClientTakes
  <2>3. ExpeditedUploadReply(c, m)
    <3> HIDE DEF m
    <3> QED
      BY <1>2, <2>2, ReplyKinds
  <2>4. toSrv' = toSrv
    BY <2>3, Zenon DEF ExpeditedUploadReply
  <2> QED
    BY <2>2, <2>3, <2>4 DEF ReadWhole
<1> HIDE DEF m
<1>4. CASE CheckSize(c, Len(d), TRUE) # "Success"
  <2>1. Finish(c, cli[c], CheckSize(c, Len(d), TRUE))
    BY <1>2, <1>3, <1>4 DEF ExpeditedUploadReply
  <2> QED
    BY <1>3, <1>4, <2>1, TypesOf, Fails
<1>5. CASE CheckSize(c, Len(d), TRUE) = "Success"
  <2>1. Finish(c, CopiedFrom(s, d), "Success")
    BY <1>2, <1>3, <1>5 DEF ExpeditedUploadReply
  <2>2. s \in Clients /\ s.off = 0 /\ Len(s.buf) = Len(d) /\ s.buf \in Seq(Byte)
    BY <1>1, SizedAnew DEF ReadWhole
  <2> HIDE DEF s
  <2>3. CopiedFrom(s, d) \in Clients /\ CopiedFrom(s, d).buf = Overwrite(s.buf, 0, d)
    BY <1>1, <2>2, CopiedFields
  <2>4. Overwrite(s.buf, 0, d) = d
    <3>1. Agree(s.buf, d, 0) /\ Chunk(d, 0, Len(d)) = d /\ 0 + Len(d) = Len(d)
      BY <1>1, AgreeNone, ChunkWhole
    <3>2. /\ Len(Overwrite(s.buf, 0, d)) = Len(d)
          /\ Agree(Overwrite(s.buf, 0, d), d, Len(d))
      BY <1>1, <2>2, <3>1, OverwriteAgrees
    <3>3. Overwrite(s.buf, 0, d) \in Seq(Byte)
      BY <1>1, <2>2, OverwriteFacts
    <3> QED
      BY <1>1, <3>2, <3>3, AgreeWhole
  <2>5. /\ ~cli'[c].active /\ cli'[c].buf = d
        /\ job'[c] = [job[c] EXCEPT !.result = "Success"]
    BY <2>1, <2>3, <2>4, TypesOf DEF Finish, Clients
  <2>6. job'[c].result = "Success" /\ job'[c].idx = job[c].idx /\ job'[c].read = job[c].read
    BY <2>5, TypesOf DEF Jobs
  <2> QED
    BY <1>3, <2>5, <2>6 DEF Done, Quiet, ReadWhole, Reads, ToRead
<1> QED
  BY <1>4, <1>5


\* What Finish leaves of the transaction and of the job.
LEMMA Finished ==
  ASSUME SdoInv, NEW c \in Chan, NEW s \in Clients, NEW e, Finish(c, s, e)
  PROVE  /\ ~cli'[c].active /\ cli'[c].buf = s.buf
         /\ job'[c].result = e /\ job'[c].idx = job[c].idx
         /\ job'[c].read = job[c].read /\ job'[c].val = job[c].val
BY TypesOf DEF Finish, Clients, Jobs

\* Every error but Success makes an abort.
LEMMA AbortIsAbort ==
  ASSUME NEW e \in Errors, e # "Success"
  PROVE  IsAbort(<<AbortFrame(e)>>)
BY DEF IsAbort, ErrorsOnly

\* The client learns the length and asks for the first segment, or gives up.
LEMMA SizeArrives ==
  ASSUME SdoInv, NEW c \in Chan, ReadOpens(c), ClientReceive(c)
  PROVE  Idle(c)' \/ ReadAsks(c)'
<1> DEFINE d == ToRead(c)
           m == UploadResponse(Len(d))
           e == CheckSize(c, Len(d), TRUE)
           s == Sized(c, Len(d), TRUE)
<1>1. d \in Seq(Byte) /\ Len(d) \in Nat
  BY TypesOf DEF ToRead, Witnesses
<1>2. m.cs = 2 /\ ~m.exp /\ m.size = Len(d)
  BY ResponseFields
<1>3. cli[c].active /\ toCli[c] = <<m>> /\ toSrv[c] = <<>>
  BY DEF ReadOpens, Reads
<1> HIDE DEF m
<1>4. ProcessReply(c, m) /\ toCli'[c] = <<>> /\ UNCHANGED <<od, srv, witness>>
  BY <1>3, ClientTakes
<1>5. UploadReply(c, m)
  BY <1>2, <1>4, ReplyKinds
<1>6. CASE e # "Success"
  <2>1. Finish(c, cli[c], e) /\ Request(c, AbortFrame(e))
    BY <1>2, <1>5, <1>6 DEF UploadReply
  <2>2. IsAbort(toSrv'[c])
    <3>1. e \in Errors
      BY CheckSizeIsError
    <3> HIDE DEF e
    <3>2. toSrv'[c] = <<AbortFrame(e)>>
      BY <1>3, <2>1, Requested, Queued
    <3> QED
      BY <1>6, <3>1, <3>2, AbortIsAbort
  <2> QED
    BY <1>4, <1>6, <2>1, <2>2, TypesOf, Fails
<1>7. CASE e = "Success"
  <2>1. cli' = [cli EXCEPT ![c] = s] /\ Request(c, UploadSegRequest) /\ job' = job
    BY <1>2, <1>5, <1>7 DEF UploadReply
  <2>2. toSrv'[c] = <<UploadSegRequest>>
    BY <1>3, <2>1, Requested, Queued
  <2>3. s \in Clients /\ s.active /\ s.off = 0 /\ Len(s.buf) = Len(d)
    BY <1>1, <1>3, SizedAnew DEF ReadOpens
  <2> HIDE DEF s
  <2>4. cli'[c] = s
    BY <2>1, TypesOf
  <2>5. ToRead(c)' = d
    BY <1>4 DEF ToRead
  <2> HIDE DEF d
  <2>6. Reads(c)' /\ HasRead(c)'
    <3>1. Reads(c)'
      BY <1>4, <2>1, <2>3, <2>4 DEF ReadOpens, Reads
    <3> QED
      BY <1>1, <2>3, <2>4, <2>5, <3>1, AgreeNone DEF HasRead
  <2>7. ReadsFrom(c, cli[c].off)'
    <3>1. ReadsFrom(c, 0)
      BY DEF ReadOpens
    <3>2. ToRead(c) = d
      BY DEF d
    <3> QED
      BY <1>4, <2>1, <2>3, <2>4, <2>5, <3>1, <3>2 DEF ReadsFrom, Open
  <2> QED
    BY <1>4, <2>2, <2>6, <2>7 DEF ReadAsks
<1> QED
  BY <1>6, <1>7

\* A segment that is no longer than what is left is copied as it is.
LEMMA SegmentFits ==
  ASSUME SdoInv, NEW c \in Chan, NEW n \in Nat, cli[c].off + n <= Len(cli[c].buf)
  PROVE  CheckSize(c, n, FALSE) = "Success" /\ Sized(c, n, FALSE) = cli[c]
<1>1. Len(cli[c].buf) \in Nat /\ cli[c].off \in Nat
  BY TypesOf DEF Clients
<1>2. ~(n > Left(c))
  BY <1>1 DEF Left
<1> QED
  BY <1>2 DEF CheckSize, Sized

\* The client copies a segment and asks for the next, or has the whole value.
LEMMA SegmentArrives ==
  ASSUME SdoInv, NEW c \in Chan, ReadGets(c), ClientReceive(c)
  PROVE  ReadAsks(c)' \/ Done(c)'
<1> DEFINE d == ToRead(c)
           off == cli[c].off
           n == NextRead(c)
           m == Segment(Chunk(d, off, n), LastRead(c))
           s == CopiedFrom(cli[c], Chunk(d, off, n))
<1>1. /\ d \in Seq(Byte) /\ Len(d) \in Nat /\ off \in Nat
      /\ cli[c] \in Clients /\ cli[c].buf \in Seq(Byte)
  BY TypesOf DEF ToRead, Witnesses, Clients
<1>2. off <= Len(d) /\ Len(cli[c].buf) = Len(d) /\ Agree(cli[c].buf, d, off)
  BY DEF ReadGets, HasRead
<1>3. /\ n \in Nat /\ off + n <= Len(d)
      /\ LastRead(c) => off + n = Len(d)
      /\ ~LastRead(c) => off + n <= Len(d)
  <2>1. Len(d) - off \in Nat /\ SegmentBytes \in Nat
    BY <1>1, <1>2, FrameAssumption
  <2>2. n \in Nat /\ n <= Len(d) - off /\ (LastRead(c) => n = Len(d) - off)
    BY <2>1, AtMostCases DEF NextRead, LastRead
  <2> HIDE DEF n, d
  <2> QED
    BY <1>1, <2>1, <2>2
<1>4. Chunk(d, off, n) \in Seq(Byte) /\ Len(Chunk(d, off, n)) = n
  BY <1>1, <1>3, ChunkElements, ChunkFacts
<1>5. m.cs = 0 /\ m.data = Chunk(d, off, n) /\ m.last = LastRead(c)
  BY RequestFields
<1>6. cli[c].active /\ toCli[c] = <<m>> /\ toSrv[c] = <<>>
  BY DEF ReadGets, Reads
<1> HIDE DEF m
<1>7. ProcessReply(c, m) /\ toCli'[c] = <<>> /\ UNCHANGED <<od, srv, witness>>
  BY <1>6, ClientTakes
<1>8. UploadSegReply(c, m)
  BY <1>5, <1>7, ReplyKinds
<1>9. CheckSize(c, Len(m.data), FALSE) = "Success" /\ Sized(c, Len(m.data), FALSE) = cli[c]
  <2> HIDE DEF n, d, off
  <2> QED
    BY <1>2, <1>3, <1>4, <1>5, SegmentFits DEF off
<1>10. /\ s \in Clients /\ s.active = cli[c].active /\ s.off = off + n
       /\ Len(s.buf) = Len(d) /\ Agree(s.buf, d, off + n) /\ s.buf \in Seq(Byte)
  <2>1. /\ s \in Clients /\ s.buf = Overwrite(cli[c].buf, off, Chunk(d, off, n))
        /\ s.off = off + n /\ s.active = cli[c].active
    BY <1>1, <1>4, CopiedFields
  <2>2. /\ Len(Overwrite(cli[c].buf, off, Chunk(d, off, n))) = Len(d)
        /\ Agree(Overwrite(cli[c].buf, off, Chunk(d, off, n)), d, off + n)
    <3> HIDE DEF n, d, off
    <3> QED
      BY <1>1, <1>2, <1>3, OverwriteAgrees
  <2>3. s.buf \in Seq(Byte)
    BY <2>1 DEF Clients
  <2> QED
    BY <2>1, <2>2, <2>3
<1>11. CASE LastRead(c)
  <2>1. Finish(c, s, "Success") /\ toSrv' = toSrv
    BY <1>5, <1>8, <1>9, <1>11 DEF UploadSegReply
  <2>2. srv[c].mode = "none" /\ witness[c].idx = job[c].idx /\ job[c].read
    BY <1>11 DEF ReadGets, Reads
  <2>3. s.buf = d
    <3> HIDE DEF n, d, off, s
    <3> QED
      BY <1>1, <1>3, <1>10, <1>11, AgreeWhole
  <2>4. /\ ~cli'[c].active /\ cli'[c].buf = s.buf
        /\ job'[c].result = "Success" /\ job'[c].idx = job[c].idx
        /\ job'[c].read = job[c].read /\ job'[c].val = job[c].val
    <3> HIDE DEF s
    <3> QED
      BY <1>10, <2>1, Finished
  <2> QED
    BY <1>6, <1>7, <2>1, <2>2, <2>3, <2>4 DEF Done, Quiet, ToRead
<1>12. CASE ~LastRead(c)
  <2>1. cli' = [cli EXCEPT ![c] = s] /\ Request(c, UploadSegRequest) /\ job' = job
    BY <1>5, <1>8, <1>9, <1>12 DEF UploadSegReply
  <2>2. toSrv'[c] = <<UploadSegRequest>>
    BY <1>6, <2>1, Requested, Queued
  <2>3. cli'[c] = s
    BY <2>1, TypesOf
  <2>4. ToRead(c)' = d /\ ReadsFrom(c, off + n)
    BY <1>7, <1>12 DEF ToRead, ReadGets
  <2>5. Reads(c)'
    BY <1>6, <1>7, <1>10, <2>1, <2>3 DEF Reads, ReadGets
  <2>6. HasRead(c)'
    <3> HIDE DEF n, d, off, s
    <3> QED
      BY <1>3, <1>10, <2>3, <2>4 DEF HasRead
  <2>7. ReadsFrom(c, cli[c].off)'
    <3>1. cli'[c].off = off + n
      BY <1>10, <2>3
    <3> HIDE DEF n, off, s
    <3> QED
      BY <1>7, <2>1, <2>4, <3>1 DEF ReadsFrom, Open
  <2> QED
    BY <1>7, <2>2, <2>5, <2>6, <2>7 DEF ReadAsks
<1> QED
  BY <1>11, <1>12

\* An acknowledgement releases the next segment.
LEMMA GoAheadArrives ==
  ASSUME SdoInv, NEW c \in Chan, WriteOpens(c), ClientReceive(c)
  PROVE  WriteSends(c)'
<1> DEFINE v == job[c].val
           off == cli[c].off
           n == AtMost(Len(v) - off, SegmentBytes)
<1>1. /\ v \in Seq(Byte) /\ Len(v) \in Nat /\ off \in Nat /\ off < Len(v)
      /\ cli[c].buf = v /\ cli[c].active /\ toSrv[c] = <<>>
      /\ srv[c].off = off /\ ~job[c].read
  BY TypesOf DEF Jobs, Clients, WriteOpens, WritesTo, Writes, Open
<1>2. PICK m : toCli[c] = <<m>> /\ m.cs \in {1, 3}
  BY ResponseFields DEF WriteOpens, Acknowledged
<1>3. ProcessReply(c, m) /\ toCli'[c] = <<>> /\ UNCHANGED <<od, srv, witness>>
  BY <1>1, <1>2, ClientTakes
<1>4. DownloadReply(c, m)
  BY <1>2, <1>3, ReplyKinds
<1>5. Left(c) = Len(v) - off /\ Left(c) # 0
  BY <1>1 DEF Left
<1>6. /\ Request(c, Segment(Chunk(v, off, n), Len(v) - off <= SegmentBytes))
      /\ cli' = [cli EXCEPT ![c].off = off + n] /\ job' = job
  BY <1>1, <1>4, <1>5 DEF DownloadReply
<1>7. toSrv'[c] = <<Segment(Chunk(v, off, n), Len(v) - off <= SegmentBytes)>>
  BY <1>1, <1>6, Requested, Queued
<1>8. cli'[c].off = off + n /\ cli'[c].buf = v /\ cli'[c].active
  BY <1>1, <1>6, TypesOf DEF Clients
<1>9. WritesTo(c, srv[c].off)' /\ Writes(c)'
  BY <1>1, <1>3, <1>6, <1>8 DEF WriteOpens, WritesTo, Open, Writes
<1>10. /\ NextWrite(c)' = n /\ LastWrite(c)' = (Len(v) - off <= SegmentBytes)
       /\ job'[c].val = v /\ srv'[c].off = off
  BY <1>1, <1>3, <1>6 DEF NextWrite, LastWrite
<1> QED
  BY <1>3, <1>7, <1>8, <1>9, <1>10 DEF WriteSends

\* The last acknowledgement ends the write.
LEMMA EndArrives ==
  ASSUME SdoInv, NEW c \in Chan, WriteEnds(c), ClientReceive(c)
  PROVE  Done(c)'
<1>1. /\ cli[c].active /\ toSrv[c] = <<>> /\ cli[c] \in Clients
      /\ cli[c].off = Len(job[c].val) /\ cli[c].buf = job[c].val /\ ~job[c].read
  BY TypesOf DEF WriteEnds, Writes
<1>2. PICK m : toCli[c] = <<m>> /\ m.cs \in {1, 3}
  BY ResponseFields DEF WriteEnds, Acknowledged
<1>3. ProcessReply(c, m) /\ toCli'[c] = <<>> /\ UNCHANGED <<srv, witness>>
  BY <1>1, <1>2, ClientTakes
<1>4. DownloadReply(c, m)
  BY <1>2, <1>3, ReplyKinds
<1>5. Left(c) = 0
  BY <1>1 DEF Left, Clients
<1>6. Finish(c, cli[c], "Success") /\ toSrv' = toSrv
  BY <1>4, <1>5 DEF DownloadReply
<1>7. /\ ~cli'[c].active
      /\ job'[c].result = "Success" /\ job'[c].idx = job[c].idx
      /\ job'[c].read = job[c].read /\ job'[c].val = job[c].val
  BY <1>1, <1>6, Finished
<1> QED
  BY <1>1, <1>3, <1>6, <1>7 DEF Done, Quiet, WriteEnds

\* What is under way to a client without a transfer is dropped.
LEMMA Dropped ==
  ASSUME SdoInv, NEW c \in Chan, Idle(c), ClientReceive(c)
  PROVE  Idle(c)'
<1>1. /\ ~cli[c].active /\ UNCHANGED <<toSrv, cli, job>>
      /\ toCli'[c] = Tail(toCli[c]) /\ toCli[c] # <<>>
  BY Consumed DEF Idle, ClientReceive
<1>2. \A x : Tail(<<x>>) = <<>>
  BY Queues
<1> QED
  BY <1>1, <1>2 DEF Idle, IsAbort

\* On a timely bus a client gives up only a transfer that lost a frame.
LEMMA ClientExpires ==
  ASSUME SdoInv, TimelyBus, NEW c \in Chan, Phase(c), ClientTimeout(c)
  PROVE  Idle(c)'
<1>1. cli[c].active /\ toSrv[c] = <<>> /\ toCli[c] = <<>>
  BY DEF ClientTimeout, MayExpire, Quiet
<1>2. Request(c, AbortFrame("Timeout")) /\ Finish(c, cli[c], "Timeout") /\ toCli' = toCli
  BY DEF ClientTimeout
<1>3. toSrv'[c] = <<AbortFrame("Timeout")>>
  BY <1>1, <1>2, Requested, Queued
<1>4. IsAbort(toSrv'[c])
  BY <1>3, AbortIsAbort DEF Errors
<1> QED
  BY <1>1, <1>2, <1>4, TypesOf, Fails

\* A channel of which a frame was lost has nothing under way.
LEMMA RequestLost ==
  ASSUME SdoInv, NEW c \in Chan, Phase(c), LoseRequest(c)
  PROVE  Phase(c)'
<1>1. /\ toSrv[c] # <<>> /\ toSrv'[c] = Tail(toSrv[c])
      /\ UNCHANGED <<toCli, od, srv, witness, cli, job>>
  BY Consumed DEF LoseRequest, serverVars, clientVars
<1>2. losses' > 0
  BY TypesOf DEF LoseRequest
<1>3. \A x : Tail(<<x>>) = <<>>
  BY Queues
<1>4. CASE Idle(c)
  <2>1. toSrv'[c] = <<>>
    BY <1>1, <1>3, <1>4 DEF Idle, IsAbort
  <2> QED
    BY <1>1, <1>4, <2>1 DEF Idle, Phase
<1>5. CASE Asking(c)
  <2>1. Opening(c)' = Opening(c) /\ Expedites(c)' = Expedites(c)
    BY <1>1 DEF Opening, Expedites
  <2>2. CASE toSrv[c] = <<Opening(c)>>
    BY <1>1, <1>2, <1>3, <1>5, <2>2 DEF Asking, Stranded, Quiet, Phase
  <2>3. CASE \E e \in ErrorsOnly : toSrv[c] = <<AbortFrame(e), Opening(c)>>
    <3>1. PICK e \in ErrorsOnly : toSrv[c] = <<AbortFrame(e), Opening(c)>>
      BY <2>3
    <3>2. Tail(<<AbortFrame(e), Opening(c)>>) = <<Opening(c)>>
      BY Queued
    <3>3. Asking(c)'
      BY <1>1, <1>5, <2>1, <3>1, <3>2 DEF Asking
    <3> QED
      BY <3>3 DEF Phase
  <2> QED
    BY <1>5, <2>2, <2>3 DEF Asking
<1>6. CASE ReadAsks(c)
  BY <1>1, <1>2, <1>3, <1>6 DEF ReadAsks, Reads, Stranded, Quiet, Phase
<1>7. CASE WriteSends(c)
  BY <1>1, <1>2, <1>3, <1>7 DEF WriteSends, Writes, Stranded, Quiet, Phase
<1> QED
  BY <1>1, <1>4, <1>5, <1>6, <1>7 DEF Phase, Done, Quiet, Refused, Stranded, ReadWhole,
     ReadOpens, ReadGets, WriteOpens, WriteEnds

\* So does the loss of a reply.
LEMMA ReplyLost ==
  ASSUME SdoInv, NEW c \in Chan, Phase(c), LoseReply(c)
  PROVE  Phase(c)'
<1>1. /\ toCli[c] # <<>> /\ toCli'[c] = Tail(toCli[c])
      /\ UNCHANGED <<toSrv, od, srv, witness, cli, job>>
  BY Consumed DEF LoseReply, serverVars, clientVars
<1>2. losses' > 0
  BY TypesOf DEF LoseReply
<1>3. \A x : Tail(<<x>>) = <<>>
  BY Queues
<1>4. CASE Idle(c)
  <2>1. toCli'[c] = <<>>
    BY <1>1, <1>3, <1>4 DEF Idle, IsAbort
  <2> QED
    BY <1>1, <1>4, <2>1 DEF Idle, Phase
<1>5. CASE cli[c].active /\ toSrv[c] = <<>> /\ \E x : toCli[c] = <<x>>
  BY <1>1, <1>2, <1>3, <1>5 DEF Stranded, Quiet, Phase
<1>6. CASE \/ Refused(c) \/ ReadWhole(c) \/ ReadOpens(c) \/ ReadGets(c)
           \/ WriteOpens(c) \/ WriteEnds(c)
  BY <1>5, <1>6 DEF Refused, IsAbort, ReadWhole, ReadOpens, ReadGets, Reads,
     WriteOpens, WriteEnds, Writes, Acknowledged
<1> QED
  BY <1>1, <1>4, <1>6 DEF Phase, Done, Quiet, Stranded, Asking, ReadAsks, WriteSends

\* Whatever the client receives, it goes on to another phase.
LEMMA ClientReceives ==
  ASSUME SdoInv, NEW c \in Chan, Phase(c), ClientReceive(c)
  PROVE  Phase(c)'
<1>1. toCli[c] # <<>>
  BY DEF ClientReceive
<1>2. CASE Idle(c)
  BY <1>2, Dropped DEF Phase
<1>3. CASE Refused(c)
  BY <1>3, AbortArrives DEF Phase
<1>4. CASE ReadWhole(c)
  BY <1>4, WholeArrives DEF Phase
<1>5. CASE ReadOpens(c)
  BY <1>5, SizeArrives DEF Phase
<1>6. CASE ReadGets(c)
  BY <1>6, SegmentArrives DEF Phase
<1>7. CASE WriteOpens(c)
  BY <1>7, GoAheadArrives DEF Phase
<1>8. CASE WriteEnds(c)
  BY <1>8, EndArrives DEF Phase
<1> QED
  BY <1>1, <1>2, <1>3, <1>4, <1>5, <1>6, <1>7, <1>8
     DEF Phase, Done, Quiet, Stranded, Asking, ReadAsks, WriteSends

\* The client's steps and losses keep its channel.
LEMMA ClientKeeps ==
  ASSUME SdoInv, ShortWrites, TimelyBus, NEW c \in Chan, Channel(c),
         \/ ClientTransaction(c) \/ ClientReceive(c) \/ ClientTimeout(c)
         \/ LoseRequest(c) \/ LoseReply(c)
  PROVE  Channel(c)'
<1>1. CASE ClientTransaction(c)
  BY <1>1, Starts
<1>2. CASE ClientReceive(c) \/ ClientTimeout(c) \/ LoseRequest(c) \/ LoseReply(c)
  <2>1. Phase(c)'
    BY <1>2, ClientReceives, ClientExpires, RequestLost, ReplyLost DEF Channel, Phase
  <2>2. srv'[c] = srv[c]
    BY <1>2 DEF ClientReceive, ClientTimeout, LoseRequest, LoseReply, serverVars
  <2>3. job'[c].read = job[c].read /\ job'[c].val = job[c].val
        /\ (cli'[c].active => cli[c].active)
    <3>1. CASE LoseRequest(c) \/ LoseReply(c)
      BY <3>1 DEF LoseRequest, LoseReply, clientVars
    <3>2. CASE ClientTimeout(c)
      BY <3>2, TypesOf, Finished DEF ClientTimeout
    <3>3. CASE ClientReceive(c)
      <4>1. job' = job \/ \E e : job' = [job EXCEPT ![c].result = e]
        BY <3>3 DEF ClientReceive, ProcessReply, AbortReply, ExpeditedUploadReply, UploadReply,
                    UploadSegReply, DownloadReply, BlockBurst, BlockReply, Finish
      <4>2. cli[c].active \/ cli' = cli
        BY <3>3 DEF ClientReceive
      <4> QED
        BY <4>1, <4>2, TypesOf DEF Jobs
    <3> QED
      BY <1>2, <3>1, <3>2, <3>3
  <2> QED
    BY <2>1, <2>2, <2>3 DEF Channel
<1> QED
  BY <1>1, <1>2
-----------------------------------------------------------------------------
(* The server's steps                                                      *)

\* A callback hears nothing new, or a value that some client wanted written.
Announced == \A i \in Idx : od'[i].notified \in {od[i].notified} \cup Written

\* What a step of the server has to leave of its channel.
Answered(c) == Phase(c)' /\ srv'[c].mode # "block" /\ Announced

\* The frame is no block segment, so the server reads it as what it is.
LEMMA ServerTakes ==
  ASSUME SdoInv, NEW c \in Chan, NEW m, m.idx # Payload, Head(toSrv[c]) = m,
         srv[c].mode # "block", ServerReceive(c)
  PROVE  /\ ProcessInitiate(c, m) \/ ProcessSegmented(c, m)
         /\ toSrv'[c] = Tail(toSrv[c]) /\ UNCHANGED <<cli, job, losses>>
<1>1. toSrv'[c] = Tail(toSrv[c]) /\ UNCHANGED <<cli, job, losses>>
  BY Consumed DEF ServerReceive, clientVars
<1>2. ~ProcessBlock(c, m)
  BY DEF ProcessBlock, BlockStart, BlockCopyFails, BlockSubBlock, BlockJunk, BlockEnd, InBlock
<1>3. Requests(m) = {m}
  BY RequestIsItself
<1> QED
  BY <1>1, <1>2, <1>3 DEF ServerReceive

\* What a server without a transaction does is decided by the command specifier.
LEMMA InitiateKinds ==
  ASSUME NEW c, NEW m, ProcessInitiate(c, m)
  PROVE  /\ srv[c].mode = "none"
         /\ m.cs = 2 => \/ UploadInitiateRefused(c, m) \/ UploadInitiateExpedited(c, m)
                        \/ UploadInitiate(c, m)
         /\ m.cs = 1 => \/ DownloadInitiateRefused(c, m) \/ DownloadInitiateExpedited(c, m)
                        \/ DownloadInitiate(c, m)
         /\ m.cs = 4 => NotAnInitiate(c, m)
<1>1. /\ UploadInitiateRefused(c, m) => srv[c].mode = "none" /\ m.cs = 2
      /\ UploadInitiateExpedited(c, m) => srv[c].mode = "none" /\ m.cs = 2
      /\ UploadInitiate(c, m) => srv[c].mode = "none" /\ m.cs = 2
  BY Zenon DEF UploadInitiateRefused, UploadInitiateExpedited, UploadInitiate, Initiates
<1>2. /\ DownloadInitiateRefused(c, m) => srv[c].mode = "none" /\ m.cs = 1
      /\ DownloadInitiateExpedited(c, m) => srv[c].mode = "none" /\ m.cs = 1
      /\ DownloadInitiate(c, m) => srv[c].mode = "none" /\ m.cs = 1
  BY Zenon DEF DownloadInitiateRefused, DownloadInitiateExpedited, DownloadInitiate, Initiates
<1>3. /\ BlockInitiate(c, m) => srv[c].mode = "none" /\ m.cs = 6
      /\ NotAnInitiate(c, m) => srv[c].mode = "none" /\ m.cs \notin {1, 2, 6}
  BY Zenon DEF BlockInitiate, NotAnInitiate, Initiates
<1> QED
  BY <1>1, <1>2, <1>3 DEF ProcessInitiate

\* So is what a segmented transaction does.
LEMMA SegmentedKinds ==
  ASSUME NEW c, NEW m, ProcessSegmented(c, m)
  PROVE  /\ srv[c].mode = "segmented"
         /\ m.cs = 4 => ServerAborted(c, m)
         /\ m.cs = 3 => SegmentRead(c, m)
         /\ m.cs = 0 => DownloadSegmentRefused(c, m) \/ DownloadSegment(c, m)
         /\ m.cs \in {1, 2} => UnhandledRequest(c, m)
<1>1. /\ ServerAborted(c, m) => srv[c].mode = "segmented" /\ m.cs = 4
      /\ SegmentRead(c, m) => srv[c].mode = "segmented" /\ m.cs = 3
      /\ UnhandledRequest(c, m) => srv[c].mode = "segmented" /\ m.cs \notin {0, 3, 4}
  BY Zenon DEF ServerAborted, SegmentRead, UnhandledRequest, InSegmented
<1>2. /\ DownloadSegmentRefused(c, m) => srv[c].mode = "segmented" /\ m.cs = 0
      /\ DownloadSegment(c, m) => srv[c].mode = "segmented" /\ m.cs = 0
  BY Zenon DEF DownloadSegmentRefused, DownloadSegment, InSegmented
<1> QED
  BY <1>1, <1>2 DEF ProcessSegmented

\* A reply is the only frame under way to a client that waits for it.
LEMMA Replied ==
  ASSUME SdoInv, NEW c \in Chan, toCli[c] = <<>>, NEW frame, Reply(c, <<frame>>)
  PROVE  toCli'[c] = <<frame>>
<1>1. toCli'[c] = toCli[c] \o <<frame>>
  BY TypesOf DEF Reply, Send
<1> QED
  BY <1>1, Queued

\* A step that replaces one entry, and announces nothing unwritten.
LEMMA Silence ==
  ASSUME NEW i \in Idx, od \in [Idx -> Entries], NEW e, od' = [od EXCEPT ![i] = e],
         e.notified \in {od[i].notified} \cup Written
  PROVE  Announced
BY DEF Announced

\* A transaction that ends frees its entry; a write that is complete has told
\* its callbacks of a value some client wanted written.
LEMMA Ends ==
  ASSUME SdoInv, NEW c \in Chan, srv[c].mode # "none", NEW data, NEW changed,
         NEW finished \in BOOLEAN, Conclude(c, data, changed, finished),
         finished => data \in Written
  PROVE  srv'[c].mode = "none" /\ Announced
<1> DEFINE i == srv[c].idx
           e1 == [od[i] EXCEPT !.data = data]
           e == Release(e1, changed, finished)
<1>1. i \in Idx /\ od[i] \in Entries
  BY TypesOf, Holder
<1>2. od' = [od EXCEPT ![i] = e] /\ srv'[c] = NoServer
  BY TypesOf DEF Conclude
<1>3. /\ DOMAIN e1 = {"data", "locked", "published", "notified"}
      /\ e1.data = data /\ e1.notified = od[i].notified
  BY <1>1 DEF Entries
<1>4. e.notified = IF changed /\ finished THEN e1.data ELSE e1.notified
  <2> HIDE DEF e1
  <2> QED
    BY <1>3 DEF Release
<1>5. e.notified \in {od[i].notified} \cup Written
  BY <1>3, <1>4
<1> HIDE DEF e, i
<1>6. Announced
  BY <1>1, <1>2, <1>5, TypesOf, Silence
<1> QED
  BY <1>2, <1>6 DEF NoServer

\* A transaction that fails sends an abort and is gone.
LEMMA FailRefuses ==
  ASSUME SdoInv, NEW c \in Chan, srv[c].mode # "none", toCli[c] = <<>>,
         NEW e \in Errors, e # "Success", Fail(c, e)
  PROVE  IsAbort(toCli'[c]) /\ srv'[c].mode = "none" /\ Announced
<1>1. toCli'[c] = <<AbortFrame(e)>>
  BY Replied DEF Fail
<1>2. srv'[c].mode = "none" /\ Announced
  BY Ends DEF Fail
<1> QED
  BY <1>1, <1>2, AbortIsAbort

\* A request that is refused is answered with an abort.
LEMMA Refuses ==
  ASSUME SdoInv, NEW c \in Chan, srv[c].mode = "none", toCli[c] = <<>>,
         NEW e \in Errors, e # "Success", Refuse(c, e)
  PROVE  IsAbort(toCli'[c]) /\ srv'[c].mode = "none" /\ Announced
<1>1. toCli'[c] = <<AbortFrame(e)>>
  BY Replied DEF Refuse
<1> QED
  BY <1>1, AbortIsAbort DEF Refuse, serverVars, Announced

\* A request that is turned down.
LEMMA TurnedDown ==
  ASSUME NEW c \in Chan, IsAbort(toCli'[c]) /\ srv'[c].mode = "none" /\ Announced,
         cli' = cli, cli[c].active, toSrv'[c] = <<>>
  PROVE  Answered(c)
BY DEF Answered, Refused, Phase

\* An abort ends whatever transaction the server has.
LEMMA AbortTaken ==
  ASSUME SdoInv, NEW c \in Chan, NEW e, Head(toSrv[c]) = AbortFrame(e),
         srv[c].mode # "block", ServerReceive(c)
  PROVE  /\ toSrv'[c] = Tail(toSrv[c]) /\ UNCHANGED <<toCli, cli, job, losses>>
         /\ srv'[c].mode # "block" /\ Announced
<1> DEFINE m == AbortFrame(e)
<1>1. m.idx # Payload /\ m.cs = 4
  BY RequestFields, IndexAssumption
<1> HIDE DEF m
<1>2. /\ ProcessInitiate(c, m) \/ ProcessSegmented(c, m)
      /\ toSrv'[c] = Tail(toSrv[c]) /\ UNCHANGED <<cli, job, losses>>
  BY <1>1, ServerTakes DEF m
<1>3. NotAnInitiate(c, m) \/ ServerAborted(c, m)
  BY <1>1, <1>2, InitiateKinds, SegmentedKinds
<1>4. CASE NotAnInitiate(c, m)
  BY <1>2, <1>4 DEF NotAnInitiate, Announced
<1>5. CASE ServerAborted(c, m)
  <2>1. srv[c].mode # "none" /\ Conclude(c, od[srv[c].idx].data, srv[c].changed, FALSE)
        /\ UNCHANGED toCli
    BY <1>5 DEF ServerAborted, InSegmented
  <2> QED
    BY <1>2, <2>1, Ends
<1> QED
  BY <1>3, <1>4, <1>5

\* What is under way from a client without a transfer is an abort.
LEMMA RequestToIdle ==
  ASSUME SdoInv, NEW c \in Chan, Idle(c), srv[c].mode # "block", ServerReceive(c)
  PROVE  Answered(c)
<1>1. PICK e \in ErrorsOnly : toSrv[c] = <<AbortFrame(e)>>
  BY DEF Idle, IsAbort, ServerReceive
<1>2. Head(toSrv[c]) = AbortFrame(e) /\ Tail(toSrv[c]) = <<>>
  BY <1>1, Queues
<1>3. /\ toSrv'[c] = <<>> /\ UNCHANGED <<toCli, cli, job>>
      /\ srv'[c].mode # "block" /\ Announced
  BY <1>2, AbortTaken
<1> QED
  BY <1>3 DEF Idle, Answered, Phase

\* The abort of an earlier transfer is out of the way.
LEMMA AbortAhead ==
  ASSUME SdoInv, NEW c \in Chan, Asking(c), srv[c].mode # "block", ServerReceive(c),
         NEW e \in ErrorsOnly, toSrv[c] = <<AbortFrame(e), Opening(c)>>
  PROVE  Answered(c)
<1>1. Head(toSrv[c]) = AbortFrame(e) /\ Tail(toSrv[c]) = <<Opening(c)>>
  OBVIOUS
<1>2. /\ toSrv'[c] = <<Opening(c)>> /\ UNCHANGED <<toCli, cli, job>>
      /\ srv'[c].mode # "block" /\ Announced
  BY <1>1, AbortTaken
<1>3. Opening(c)' = Opening(c) /\ Expedites(c)' = Expedites(c)
  BY <1>2 DEF Opening, Expedites
<1> QED
  BY <1>2, <1>3 DEF Asking, Answered, Phase

\* What an opening request says.
LEMMA OpeningFields ==
  ASSUME SdoInv, NEW c \in Chan
  PROVE  /\ Opening(c).idx = job[c].idx /\ Opening(c).idx # Payload
         /\ job[c].read => Opening(c).cs = 2
         /\ ~job[c].read => /\ Opening(c).cs = 1 /\ Opening(c).size = Len(job[c].val)
                            /\ Opening(c).exp <=> Expedites(c)
                            /\ Expedites(c) => Opening(c).data = job[c].val
<1>1. job[c].idx # Payload
  BY TypesOf, IndexAssumption DEF Jobs
<1>2. CASE job[c].read
  <2>1. Opening(c) = UploadRequest(job[c].idx)
    BY <1>2 DEF Opening
  <2> QED
    BY <1>1, <1>2, <2>1, RequestFields
<1>3. CASE ~job[c].read /\ Expedites(c)
  <2>1. Opening(c) = ExpeditedDownload(job[c].idx, job[c].val)
    BY <1>3 DEF Opening
  <2>2. /\ Opening(c).cs = 1 /\ Opening(c).idx = job[c].idx /\ Opening(c).exp
        /\ Opening(c).size = Len(job[c].val) /\ Opening(c).data = job[c].val
    BY <2>1 DEF ExpeditedDownload, Frame
  <2> QED
    BY <1>1, <1>3, <2>2
<1>4. CASE ~job[c].read /\ ~Expedites(c)
  <2>1. Opening(c) = DownloadRequest(job[c].idx, Len(job[c].val))
    BY <1>4 DEF Opening
  <2>2. /\ Opening(c).cs = 1 /\ Opening(c).idx = job[c].idx /\ ~Opening(c).exp
        /\ Opening(c).size = Len(job[c].val)
    BY <2>1 DEF DownloadRequest, Frame
  <2> QED
    BY <1>1, <1>4, <2>2
<1> QED
  BY <1>2, <1>3, <1>4

\* The request of a read is answered with the whole value, with its length or
\* with an abort.
LEMMA ReadServed ==
  ASSUME SdoInv, NEW c \in Chan, Asking(c), job[c].read,
         NEW m, m.cs = 2, m.idx = job[c].idx, ProcessInitiate(c, m),
         toSrv'[c] = <<>>, UNCHANGED <<cli, job, losses>>
  PROVE  Answered(c)
<1> DEFINE i == job[c].idx
           data == od[i].data
           w == [idx |-> i, carried |-> data, stored |-> data]
<1>1. /\ cli[c].active /\ toCli[c] = <<>> /\ cli[c].off = 0 /\ srv[c].mode = "none"
  BY InitiateKinds DEF Asking, Expedites
<1>2. CASE UploadInitiateRefused(c, m)
  <2>1. MakeProxyError(i) # "Success" /\ Refuse(c, MakeProxyError(i))
    BY <1>2 DEF UploadInitiateRefused
  <2> QED
    BY <1>1, <2>1, ErrorsAreErrors, Refuses, TurnedDown
<1>3. CASE UploadInitiateExpedited(c, m)
  <2>1. CASE CopyIntoError(i) # "Success"
    <3>1. Refuse(c, CopyIntoError(i))
      BY <1>3, <2>1 DEF UploadInitiateExpedited
    <3> QED
      BY <1>1, <2>1, <3>1, ErrorsAreErrors, Refuses, TurnedDown
  <2>2. CASE CopyIntoError(i) = "Success"
    <3>1. /\ Reply(c, <<ExpeditedUpload(data)>>)
          /\ witness' = [witness EXCEPT ![c] = w] /\ UNCHANGED <<od, srv>>
      BY <1>3, <2>2 DEF UploadInitiateExpedited
    <3>2. toCli'[c] = <<ExpeditedUpload(data)>>
      BY <1>1, <3>1, Replied
    <3>3. witness'[c].idx = i /\ witness'[c].carried = data
      BY <3>1, TypesOf
    <3>4. ReadWhole(c)'
      BY <1>1, <3>1, <3>2, <3>3 DEF ReadWhole, Reads, ToRead
    <3> QED
      BY <1>1, <3>1, <3>4 DEF Answered, Announced, Phase
  <2> QED
    BY <2>1, <2>2
<1>4. CASE UploadInitiate(c, m)
  <2>1. /\ Reply(c, <<UploadResponse(Len(data))>>) /\ MakeProxyError(i) = "Success"
        /\ srv' = [srv EXCEPT ![c] = NewServer(i)]
        /\ od' = [od EXCEPT ![i].locked = TRUE]
        /\ witness' = [witness EXCEPT ![c] = w]
    BY <1>4 DEF UploadInitiate
  <2>2. toCli'[c] = <<UploadResponse(Len(data))>>
    BY <1>1, <2>1, Replied
  <2>3. witness'[c].idx = i /\ witness'[c].carried = data
    BY <2>1, TypesOf
  <2>4. srv'[c].mode = "segmented" /\ srv'[c].idx = i /\ srv'[c].off = 0
    BY <2>1, TypesOf DEF NewServer, NoServer
  <2>5. i \in Idx /\ od[i] \in Entries
    BY <2>1, TypesOf, FreeEntry
  <2>6. od'[i].data = data /\ Announced
    BY <2>1, <2>5, TypesOf, Silence DEF Entries
  <2>7. ReadOpens(c)'
    BY <1>1, <2>2, <2>3, <2>4, <2>6 DEF ReadOpens, Reads, ToRead, ReadsFrom, Open
  <2> QED
    BY <2>4, <2>6, <2>7 DEF Answered, Phase
<1> QED
  BY <1>2, <1>3, <1>4, InitiateKinds

\* The request of a write is answered with an acknowledgement or an abort.
LEMMA WriteServed ==
  ASSUME SdoInv, NEW c \in Chan, Asking(c), ~job[c].read, job[c].val \in Written,
         NEW m, m.cs = 1, m.idx = job[c].idx, m.size = Len(job[c].val),
         m.exp <=> Expedites(c), Expedites(c) => m.data = job[c].val,
         ProcessInitiate(c, m), toSrv'[c] = <<>>, UNCHANGED <<cli, job, losses>>
  PROVE  Answered(c)
<1> DEFINE i == job[c].idx
           v == job[c].val
<1>1. /\ cli[c].active /\ toCli[c] = <<>> /\ srv[c].mode = "none" /\ cli[c].buf = v
      /\ cli[c].off = (IF Expedites(c) THEN Len(v) ELSE 0)
      /\ v \in Seq(Byte) /\ Len(v) \in Nat
  BY InitiateKinds, TypesOf DEF Asking, Jobs
<1>2. CASE DownloadInitiateRefused(c, m)
  <2>1. \E e \in Errors \ {"Success"} : Refuse(c, e)
    BY <1>2, ErrorsAreErrors DEF DownloadInitiateRefused, Errors
  <2> QED
    BY <1>1, <2>1, Refuses, TurnedDown
<1>3. CASE DownloadInitiateExpedited(c, m)
  <2>1. /\ Expedites(c) /\ MakeProxyError(i) = "Success" /\ srv' = srv
    BY <1>3 DEF DownloadInitiateExpedited
  <2>2. i \in Idx /\ od[i] \in Entries
    BY <2>1, TypesOf, FreeEntry
  <2>3. CASE Access[i] = "RO"
    <3>1. /\ Reply(c, <<AbortFrame("WriteViolation")>>)
          /\ od' = [od EXCEPT ![i].data = Fitted(i, Len(v))]
      BY <1>3, <2>3 DEF DownloadInitiateExpedited
    <3>2. IsAbort(toCli'[c])
      BY <1>1, <3>1, Replied, AbortIsAbort DEF Errors
    <3>3. Announced
      BY <2>2, <3>1, TypesOf, Silence DEF Entries
    <3> QED
      BY <1>1, <2>1, <3>2, <3>3, TurnedDown
  <2>4. CASE Access[i] # "RO"
    <3> DEFINE e1 == [od[i] EXCEPT !.data = v]
    <3>1. /\ Reply(c, <<DownloadResponse>>)
          /\ od' = [od EXCEPT ![i] = Release(e1, TRUE, TRUE)]
          /\ Acknowledge(c, i, Len(v), v)
      BY <1>3, <2>1, <2>4 DEF DownloadInitiateExpedited
    <3>2. toCli'[c] = <<DownloadResponse>>
      BY <1>1, <3>1, Replied
    <3>3. e1.data = v /\ DOMAIN e1 = {"data", "locked", "published", "notified"}
      BY <2>2 DEF Entries
    <3>4. Release(e1, TRUE, TRUE).notified = v
      <4> HIDE DEF e1
      <4> QED
        BY <3>3 DEF Release
    <3>5. Announced
      <4> HIDE DEF e1
      <4> QED
        BY <2>2, <3>1, <3>4, TypesOf, Silence
    <3>6. witness'[c].idx = i /\ witness'[c].carried = v /\ witness'[c].stored = v
      BY <1>1, <3>1, TypesOf, ChunkWhole DEF Acknowledge
    <3>7. WriteEnds(c)'
      BY <1>1, <2>1, <3>2, <3>6 DEF WriteEnds, Writes, Acknowledged
    <3> QED
      BY <1>1, <2>1, <3>5, <3>7 DEF Answered, Phase
  <2> QED
    BY <2>3, <2>4
<1>4. CASE DownloadInitiate(c, m)
  <2>1. /\ ~Expedites(c) /\ MakeProxyError(i) = "Success"
        /\ Reply(c, <<DownloadResponse>>)
    BY <1>4 DEF DownloadInitiate
  <2>2. i \in Idx /\ od[i] \in Entries /\ od[i].data \in Seq(Byte) /\ cli[c].off = 0
    BY <1>1, <2>1, TypesOf, FreeEntry
  <2>3. toCli'[c] = <<DownloadResponse>>
    BY <1>1, <2>1, Replied
  <2>4. CASE Len(v) > 0
    <3>1. /\ srv' = [srv EXCEPT ![c] = NewServer(i)]
          /\ od' = [od EXCEPT ![i].data = Fitted(i, Len(v)), ![i].locked = TRUE]
      BY <1>4, <2>4 DEF DownloadInitiate
    <3>2. srv'[c].mode = "segmented" /\ srv'[c].idx = i /\ srv'[c].off = 0
      BY <3>1, TypesOf DEF NewServer, NoServer
    <3>3. od'[i].data = Fitted(i, Len(v)) /\ Announced
      <4> DEFINE f == Fitted(i, Len(v))
                 e == [od[i] EXCEPT !.data = f, !.locked = TRUE]
      <4>1. od' = [od EXCEPT ![i] = e]
        BY <2>2, <3>1, TypesOf
      <4>2. e.data = f /\ e.notified = od[i].notified
        <5> HIDE DEF f
        <5> QED
          BY <2>2 DEF Entries
      <4> HIDE DEF e
      <4> QED
        BY <2>2, <4>1, <4>2, TypesOf, Silence
    <3>4. Len(Fitted(i, Len(v))) = Len(v)
      BY <1>1, <2>2, ResizeFacts DEF Fitted
    <3>5. WriteOpens(c)'
      BY <1>1, <2>2, <2>3, <2>4, <3>2, <3>3, <3>4, AgreeNone
         DEF WriteOpens, Writes, Acknowledged, WritesTo, Open
    <3> QED
      BY <3>2, <3>3, <3>5 DEF Answered, Phase
  <2>5. CASE ~(Len(v) > 0)
    <3>1. /\ od' = [od EXCEPT ![i].data = Fitted(i, 0)]
          /\ Acknowledge(c, i, 0, <<>>) /\ srv' = srv
      BY <1>4, <2>5 DEF DownloadInitiate
    <3>2. Len(v) = 0 /\ v = <<>>
      BY <1>1, <2>5
    <3>3. Chunk(<<>>, 0, 0) = <<>>
      <4>1. <<>> \in Seq(Byte) /\ Len(<<>>) = 0
        OBVIOUS
      <4> QED
        BY <4>1, ChunkWhole
    <3>4. witness'[c].idx = i /\ witness'[c].carried = v /\ witness'[c].stored = v
      BY <3>1, <3>2, <3>3, TypesOf DEF Acknowledge
    <3>5. Announced
      BY <2>2, <3>1, TypesOf, Silence DEF Entries
    <3>6. WriteEnds(c)'
      BY <1>1, <2>2, <2>3, <3>1, <3>2, <3>4 DEF WriteEnds, Writes, Acknowledged
    <3> QED
      BY <1>1, <3>1, <3>5, <3>6 DEF Answered, Phase
  <2> QED
    BY <2>4, <2>5
<1> QED
  BY <1>2, <1>3, <1>4, InitiateKinds

\* The opening request reaches the server.
LEMMA RequestToAsking ==
  ASSUME SdoInv, NEW c \in Chan, Channel(c), Asking(c), ServerReceive(c)
  PROVE  Answered(c)
<1>1. CASE \E e \in ErrorsOnly : toSrv[c] = <<AbortFrame(e), Opening(c)>>
  BY <1>1, AbortAhead DEF Channel
<1>2. CASE toSrv[c] = <<Opening(c)>>
  <2> DEFINE m == Opening(c)
  <2>1. Head(toSrv[c]) = m /\ Tail(toSrv[c]) = <<>>
    BY <1>2, Queues
  <2>2. /\ m.idx = job[c].idx /\ m.idx # Payload
        /\ job[c].read => m.cs = 2
        /\ ~job[c].read => /\ m.cs = 1 /\ m.size = Len(job[c].val)
                           /\ m.exp <=> Expedites(c)
                           /\ Expedites(c) => m.data = job[c].val
    BY OpeningFields
  <2>3. /\ cli[c].active /\ toCli[c] = <<>> /\ (~job[c].read => job[c].val \in Written)
        /\ srv[c].mode # "block"
    BY DEF Channel, Asking
  <2> HIDE DEF m
  <2>4. /\ ProcessInitiate(c, m) \/ ProcessSegmented(c, m)
        /\ toSrv'[c] = <<>> /\ UNCHANGED <<cli, job, losses>>
    BY <2>1, <2>2, <2>3, ServerTakes
  <2>5. CASE ProcessSegmented(c, m)
    <3>1. UnhandledRequest(c, m) /\ srv[c].mode # "none"
      BY <2>2, <2>5, SegmentedKinds
    <3>2. Fail(c, "InvalidCmd")
      BY <3>1 DEF UnhandledRequest
    <3>3. IsAbort(toCli'[c]) /\ srv'[c].mode = "none" /\ Announced
      BY <2>3, <3>1, <3>2, FailRefuses DEF Errors
    <3> QED
      BY <2>3, <2>4, <3>3, TurnedDown
  <2>6. CASE ProcessInitiate(c, m) /\ job[c].read
    BY <2>2, <2>4, <2>6, ReadServed
  <2>7. CASE ProcessInitiate(c, m) /\ ~job[c].read
    BY <2>2, <2>3, <2>4, <2>7, WriteServed
  <2> QED
    BY <2>4, <2>5, <2>6, <2>7
<1> QED
  BY <1>1, <1>2 DEF Asking

\* A request for a segment is answered with the next segment or an abort.
LEMMA RequestToReading ==
  ASSUME SdoInv, NEW c \in Chan, ReadAsks(c), ServerReceive(c)
  PROVE  Answered(c)
<1> DEFINE m == UploadSegRequest
           d == ToRead(c)
           i == srv[c].idx
           off == cli[c].off
           n == AtMost(Len(d) - off, SegmentBytes)
           complete == Len(d) - off <= SegmentBytes
<1>1. /\ cli[c].active /\ job[c].read /\ toSrv[c] = <<m>> /\ toCli[c] = <<>>
      /\ srv[c].mode = "segmented" /\ i = job[c].idx /\ srv[c].off = off
      /\ od[i].data = d
  BY DEF ReadAsks, Reads, ReadsFrom, Open
<1>2. m.cs = 3 /\ m.idx # Payload
  BY RequestFields, IndexAssumption
<1>3. Head(toSrv[c]) = m /\ Tail(toSrv[c]) = <<>>
  BY <1>1, Queues
<1> HIDE DEF m
<1>4. /\ ProcessInitiate(c, m) \/ ProcessSegmented(c, m)
      /\ toSrv'[c] = <<>> /\ UNCHANGED <<cli, job, losses>>
  BY <1>1, <1>2, <1>3, ServerTakes
<1>5. SegmentRead(c, m)
  BY <1>1, <1>2, <1>4, InitiateKinds, SegmentedKinds
<1>6. CASE CopyIntoError(i) # "Success"
  <2>1. Fail(c, CopyIntoError(i))
    BY <1>5, <1>6 DEF SegmentRead
  <2>2. IsAbort(toCli'[c]) /\ srv'[c].mode = "none" /\ Announced
    BY <1>1, <1>6, <2>1, ErrorsAreErrors, FailRefuses
  <2> QED
    BY <1>1, <1>4, <2>2, TurnedDown
<1>7. CASE CopyIntoError(i) = "Success"
  <2>1. Remaining(c) = Len(d) - off
    BY <1>1 DEF Remaining
  <2>2. /\ Reply(c, <<Segment(Chunk(d, off, n), complete)>>) /\ witness' = witness
        /\ IF complete THEN Conclude(c, d, srv[c].changed, FALSE)
           ELSE srv' = [srv EXCEPT ![c].off = off + n] /\ od' = od
    BY <1>1, <1>5, <1>7, <2>1 DEF SegmentRead
  <2>3. toCli'[c] = <<Segment(Chunk(d, off, n), complete)>>
    BY <1>1, <2>2, Replied
  <2>4. /\ NextRead(c)' = n /\ LastRead(c)' = complete /\ ToRead(c)' = d
        /\ cli'[c].off = off /\ Reads(c)' /\ HasRead(c)'
    BY <1>4, <2>2 DEF NextRead, LastRead, ToRead, ReadAsks, Reads, HasRead
  <2>5. /\ complete => srv'[c].mode = "none"
        /\ Announced
    <3>1. CASE complete
      <4>1. Conclude(c, d, srv[c].changed, FALSE)
        BY <2>2, <3>1
      <4> HIDE DEF d
      <4> QED
        BY <1>1, <4>1, Ends
    <3>2. CASE ~complete
      BY <2>2, <3>2 DEF Announced
    <3> QED
      BY <3>1, <3>2
  <2>6. ASSUME ~complete
        PROVE  /\ srv'[c].mode = "segmented" /\ srv'[c].idx = job'[c].idx
               /\ srv'[c].off = off + n /\ od'[srv'[c].idx].data = d
    <3>1. srv' = [srv EXCEPT ![c].off = off + n] /\ od' = od
      BY <2>2, <2>6
    <3> HIDE DEF d, n, off
    <3>2. srv'[c].mode = srv[c].mode /\ srv'[c].idx = i /\ srv'[c].off = off + n
      BY <3>1, TypesOf DEF Servers
    <3> QED
      BY <1>1, <1>4, <3>1, <3>2
  <2>7. ReadGets(c)'
    <3>1. toSrv'[c] = <<>> /\ toCli'[c] = <<Segment(Chunk(d, off, n), complete)>>
      BY <1>4, <2>3
    <3> HIDE DEF d, n, complete, off
    <3> QED
      BY <2>4, <2>5, <2>6, <3>1 DEF ReadGets, ReadsFrom, Open
  <2> QED
    BY <2>5, <2>6, <2>7 DEF Answered, Phase
<1> QED
  BY <1>6, <1>7

\* A segment is stored and acknowledged, or refused.
LEMMA RequestToWriting ==
  ASSUME SdoInv, NEW c \in Chan, Channel(c), WriteSends(c), ServerReceive(c)
  PROVE  Answered(c)
<1> DEFINE v == job[c].val
           i == srv[c].idx
           off == srv[c].off
           n == NextWrite(c)
           bytes == Chunk(v, off, n)
           m == Segment(bytes, LastWrite(c))
           stored == Stored(c, bytes)
<1>1. /\ cli[c].active /\ ~job[c].read /\ toSrv[c] = <<m>> /\ toCli[c] = <<>>
      /\ srv[c].mode = "segmented" /\ i = job[c].idx /\ cli[c].buf = v
      /\ off < Len(v) /\ Len(od[i].data) = Len(v) /\ Agree(od[i].data, v, off)
      /\ cli[c].off = off + n /\ v \in Written
  BY DEF WriteSends, Writes, WritesTo, Open, Channel
<1>2. /\ v \in Seq(Byte) /\ Len(v) \in Nat /\ off \in Nat
      /\ i \in Idx /\ od[i] \in Entries /\ od[i].data \in Seq(Byte)
  BY <1>1, TypesOf, Holder DEF Jobs
<1>3. /\ n \in Nat /\ off + n <= Len(v)
      /\ LastWrite(c) => off + n = Len(v)
      /\ ~LastWrite(c) => off + n < Len(v)
  <2>1. Len(v) - off \in Nat /\ SegmentBytes \in Nat
    BY <1>1, <1>2, FrameAssumption
  <2>2. /\ n \in Nat /\ n <= Len(v) - off /\ (LastWrite(c) => n = Len(v) - off)
        /\ ~LastWrite(c) => n < Len(v) - off
    BY <2>1, AtMostCases DEF NextWrite, LastWrite
  <2> HIDE DEF n, v, off
  <2> QED
    BY <1>2, <2>1, <2>2
<1>4. bytes \in Seq(Byte) /\ Len(bytes) = n
  BY <1>2, <1>3, ChunkElements, ChunkFacts
<1>5. /\ stored \in Seq(Byte) /\ Len(stored) = Len(v) /\ Agree(stored, v, off + n)
  <2>1. stored = Overwrite(od[i].data, off, bytes)
    BY DEF Stored
  <2>2. Overwrite(od[i].data, off, bytes) \in Seq(Byte)
    BY <1>2, <1>4, OverwriteFacts
  <2>3. /\ Len(Overwrite(od[i].data, off, bytes)) = Len(v)
        /\ Agree(Overwrite(od[i].data, off, bytes), v, off + n)
    <3> HIDE DEF v, off, n
    <3> QED
      BY <1>1, <1>2, <1>3, OverwriteAgrees
  <2> QED
    BY <2>1, <2>2, <2>3
<1>6. /\ m.cs = 0 /\ m.idx # Payload /\ m.data = bytes /\ m.last = LastWrite(c)
  BY RequestFields, IndexAssumption
<1>7. Head(toSrv[c]) = m /\ Tail(toSrv[c]) = <<>>
  BY <1>1, Queues
<1> HIDE DEF m, bytes, stored
<1>8. /\ ProcessInitiate(c, m) \/ ProcessSegmented(c, m)
      /\ toSrv'[c] = <<>> /\ UNCHANGED <<cli, job, losses>>
  BY <1>1, <1>6, <1>7, ServerTakes
<1>9. DownloadSegmentRefused(c, m) \/ DownloadSegment(c, m)
  BY <1>1, <1>6, <1>8, InitiateKinds, SegmentedKinds
<1>10. CASE DownloadSegmentRefused(c, m)
  <2>1. \E e \in Errors : e # "Success" /\ Fail(c, e)
    BY <1>10, ErrorsAreErrors DEF DownloadSegmentRefused
  <2>2. IsAbort(toCli'[c]) /\ srv'[c].mode = "none" /\ Announced
    BY <1>1, <2>1, FailRefuses
  <2> QED
    BY <1>1, <1>8, <2>2, TurnedDown
<1>11. CASE DownloadSegment(c, m)
  <2>1. /\ Reply(c, <<DownloadSegResponse>>)
        /\ IF LastWrite(c)
           THEN Conclude(c, stored, TRUE, TRUE) /\ Acknowledge(c, i, off + n, stored)
           ELSE /\ srv' = [srv EXCEPT ![c].off = off + n, ![c].changed = TRUE]
                /\ od' = [od EXCEPT ![i].data = stored]
                /\ witness' = witness
    BY <1>4, <1>6, <1>11 DEF DownloadSegment, stored
  <2>2. toCli'[c] = <<DownloadSegResponse>>
    BY <1>1, <2>1, Replied
  <2>3. CASE LastWrite(c)
    <3>1. stored = v /\ off + n = Len(v)
      <4> HIDE DEF v, off, n
      <4> QED
        BY <1>2, <1>3, <1>5, <2>3, AgreeWhole
    <3>2. Conclude(c, v, TRUE, TRUE) /\ Acknowledge(c, i, Len(v), v)
      BY <2>1, <2>3, <3>1
    <3>3. srv'[c].mode = "none" /\ Announced
      BY <1>1, <3>2, Ends
    <3>4. witness'[c].idx = i /\ witness'[c].carried = v /\ witness'[c].stored = v
      BY <1>2, <3>2, TypesOf, ChunkWhole DEF Acknowledge
    <3>5. WriteEnds(c)'
      BY <1>1, <1>8, <2>2, <3>1, <3>3, <3>4 DEF WriteEnds, Writes, Acknowledged
    <3> QED
      BY <3>3, <3>5 DEF Answered, Phase
  <2>4. CASE ~LastWrite(c)
    <3>1. srv' = [srv EXCEPT ![c].off = off + n, ![c].changed = TRUE]
          /\ od' = [od EXCEPT ![i].data = stored]
      BY <2>1, <2>4
    <3>2. srv'[c].mode = "segmented" /\ srv'[c].idx = i /\ srv'[c].off = off + n
      <4> HIDE DEF n
      <4> QED
        BY <1>1, <3>1, TypesOf DEF Servers
    <3>3. od'[i].data = stored /\ Announced
      BY <1>2, <3>1, TypesOf, Silence DEF Entries
    <3>4. WriteOpens(c)'
      <4> HIDE DEF n
      <4> QED
        BY <1>1, <1>3, <1>5, <1>8, <2>2, <2>4, <3>2, <3>3
           DEF WriteOpens, Writes, Acknowledged, WritesTo, Open
    <3> QED
      BY <3>2, <3>3, <3>4 DEF Answered, Phase
  <2> QED
    BY <2>3, <2>4
<1> QED
  BY <1>9, <1>10, <1>11

\* On a timely bus a server gives up only a transfer that came to nothing.
LEMMA ServerExpires ==
  ASSUME SdoInv, TimelyBus, NEW c \in Chan, Phase(c), ServerTimeout(c)
  PROVE  Answered(c)
<1>1. /\ srv[c].mode # "none" /\ toSrv[c] = <<>> /\ toCli[c] = <<>>
      /\ Fail(c, "Timeout") /\ UNCHANGED <<toSrv, cli, job>>
  BY DEF ServerTimeout, MayExpire, Quiet, clientVars
<1>2. IsAbort(toCli'[c]) /\ srv'[c].mode = "none" /\ Announced
  BY <1>1, FailRefuses DEF Errors
<1>3. CASE Idle(c)
  BY <1>1, <1>2, <1>3 DEF Idle, Answered, Phase
<1>4. CASE cli[c].active
  BY <1>1, <1>2, <1>4, TurnedDown
<1> QED
  BY <1>1, <1>3, <1>4 DEF Phase, Done, Asking, Refused, Stranded, Reads, Writes, ReadWhole,
     ReadOpens, ReadAsks, ReadGets, WriteOpens, WriteSends, WriteEnds

\* The server's steps keep its channel.
LEMMA ServerKeeps ==
  ASSUME SdoInv, TimelyBus, NEW c \in Chan, Channel(c), ServerReceive(c) \/ ServerTimeout(c)
  PROVE  Channel(c)' /\ Announced
<1>1. Answered(c)
  <2>1. CASE ServerTimeout(c)
    BY <2>1, ServerExpires DEF Channel
  <2>2. CASE ServerReceive(c)
    <3>1. toSrv[c] # <<>>
      BY <2>2 DEF ServerReceive
    <3>2. Idle(c) \/ Asking(c) \/ ReadAsks(c) \/ WriteSends(c)
      BY <3>1 DEF Channel, Phase, Done, Quiet, Refused, Stranded, ReadWhole, ReadOpens,
         ReadGets, WriteOpens, WriteEnds
    <3> QED
      BY <2>2, <3>2, RequestToIdle, RequestToAsking, RequestToReading, RequestToWriting
         DEF Channel
  <2> QED
    BY <2>1, <2>2
<1>2. cli' = cli /\ job' = job
  BY DEF ServerReceive, ServerTimeout, clientVars
<1> QED
  BY <1>1, <1>2 DEF Answered, Channel
-----------------------------------------------------------------------------
(* All channels                                                            *)

\* Callbacks keep hearing whole values.
LEMMA AnnouncedKeeps ==
  ASSUME CallbackSeesWholeWrite, Announced \/ od' = od
  PROVE  CallbackSeesWholeWrite'
BY DEF CallbackSeesWholeWrite, Announced, Written

\* At first no channel has a transfer.
LEMMA TransferStarts ==
  ASSUME Init
  PROVE  TransferInv
<1>1. ASSUME NEW c \in Chan
      PROVE  Channel(c)
  BY DEF Init, Channel, Phase, Idle, NoClient, NoJob, NoServer
<1>2. CallbackSeesWholeWrite
  BY DEF Init, CallbackSeesWholeWrite
<1> QED
  BY <1>1, <1>2 DEF TransferInv

\* Each step is one of a single channel or of the application.
LEMMA TransferStep ==
  ASSUME SdoInv, ShortWrites, TimelyBus, TransferInv, [Next]_vars
  PROVE  TransferInv'
<1>1. ASSUME NEW c \in Chan,
             \/ ClientTransaction(c) \/ ClientReceive(c) \/ ClientTimeout(c)
             \/ LoseRequest(c) \/ LoseReply(c)
      PROVE  TransferInv'
  <2>1. Channel(c)'
    BY <1>1, ClientKeeps DEF TransferInv
  <2>2. \A d \in Chan \ {c} : Channel(d)'
    BY <1>1, ClientOnOthers, SameKeeps DEF TransferInv
  <2>3. od' = od
    BY <1>1 DEF ClientTransaction, InitiateRead, InitiateExpeditedWrite,
         InitiateSegmentedWrite, InitiateBlockWrite, Start, ClientReceive,
         ClientTimeout, LoseRequest, LoseReply, serverVars
  <2> QED
    BY <2>1, <2>2, <2>3, AnnouncedKeeps DEF TransferInv
<1>2. ASSUME NEW c \in Chan, ServerReceive(c) \/ ServerTimeout(c)
      PROVE  TransferInv'
  <2>1. Channel(c)' /\ Announced
    BY <1>2, ServerKeeps DEF TransferInv
  <2>2. \A d \in Chan \ {c} : Channel(d)'
    BY <1>2, ServerOnOthers, SameKeeps DEF TransferInv, Channel
  <2> QED
    BY <2>1, <2>2, AnnouncedKeeps DEF TransferInv
<1>3. ASSUME NEW i \in Idx, NEW data \in LocalValues[i], LocalSet(i, data)
      PROVE  TransferInv'
  <2>1. \A d \in Chan : Channel(d)'
    BY <1>3, LocalOnOthers, SameKeeps DEF TransferInv
  <2>2. od'[i].notified = data /\ \A j \in Idx \ {i} : od'[j] = od[j]
    BY <1>3, TypesOf DEF LocalSet, Entries, SdoInv, TypeOK
  <2>3. CallbackSeesWholeWrite'
    BY <2>2 DEF CallbackSeesWholeWrite, TransferInv
  <2> QED
    BY <2>1, <2>3 DEF TransferInv
<1>4. ASSUME UNCHANGED vars
      PROVE  TransferInv'
  <2>1. \A d \in Chan : Same(d)
    BY <1>4 DEF Same, vars
  <2>2. \A d \in Chan : Channel(d)'
    BY <2>1, SameKeeps DEF TransferInv
  <2> QED
    BY <1>4, <2>2, AnnouncedKeeps DEF TransferInv, vars
<1> QED
  BY <1>1, <1>2, <1>3, <1>4, Zenon DEF Next

\* Every transfer is in one of the phases above, whatever the other channels,
\* the application, losses and timeouts do (Client::processMsg against
\* Server::processMsg).
THEOREM TransfersInPhase ==
  ASSUME ShortWrites, TimelyBus
  PROVE  Spec => []TransferInv
<1>1. Init => TransferInv
  BY TransferStarts
<1>2. SdoInv /\ TransferInv /\ [Next]_vars => TransferInv'
  BY TransferStep
<1> QED
  BY <1>1, <1>2, SdoInvariant, PTL DEF Spec

\* A read that ends with Success has the bytes of its entry as the server had
\* them for this request; a write that does has stored exactly its own.
THEOREM TransfersAreWhole ==
  ASSUME ShortWrites, TimelyBus
  PROVE  Spec => []TransferIntegrity
<1>1. ASSUME TransferInv
      PROVE  TransferIntegrity
  <2>1. ASSUME NEW c \in Chan, Succeeded(c)
        PROVE  Done(c)
    BY <1>1, <2>1 DEF Succeeded, TransferInv, Channel, Phase, Idle, Asking, Refused,
       Stranded, Reads, Writes, ReadWhole, ReadOpens, ReadAsks, ReadGets,
       WriteOpens, WriteSends, WriteEnds
  <2> QED
    BY <2>1 DEF TransferIntegrity, ReadIntegrity, WriteIntegrity, Done
<1> QED
  BY <1>1, TransfersInPhase, PTL

\* A transfer that succeeded leaves no transaction, timer or lock behind
\* (the return values of processMsg, by which SdoService removes it).
THEOREM NothingLeftBehind ==
  ASSUME ShortWrites, TimelyBus
  PROVE  Spec => []SuccessLeavesNothingBehind
<1>1. ASSUME TransferInv
      PROVE  SuccessLeavesNothingBehind
  <2>1. ASSUME NEW c \in Chan, Succeeded(c)
        PROVE  Done(c)
    BY <1>1, <2>1 DEF Succeeded, TransferInv, Channel, Phase, Idle, Asking, Refused,
       Stranded, Reads, Writes, ReadWhole, ReadOpens, ReadAsks, ReadGets,
       WriteOpens, WriteSends, WriteEnds
  <2> QED
    BY <2>1 DEF SuccessLeavesNothingBehind, Done
<1> QED
  BY <1>1, TransfersInPhase, PTL

\* The callbacks of an entry see only values that were set or written whole
\* (~OdProxy fires them only if the sender is finished).
THEOREM CallbacksSeeWholeValues ==
  ASSUME ShortWrites, TimelyBus
  PROVE  Spec => []CallbackSeesWholeWrite
BY TransfersInPhase, PTL DEF TransferInv

\* Without a loss the client and the server never wait for each other: a
\* transfer with nothing under way is over.
THEOREM NobodyWaitsForever ==
  ASSUME ShortWrites, TimelyBus
  PROVE  Spec => []NobodyWaits
<1>1. ASSUME TransferInv
      PROVE  NobodyWaits
  <2>1. ASSUME NEW c \in Chan, cli[c].active, Quiet(c)
        PROVE  losses > 0
    BY <1>1, <2>1 DEF Quiet, TransferInv, Channel, Phase, Idle, Done, Asking, Refused,
       IsAbort, Stranded, ReadWhole, ReadOpens, ReadAsks, ReadGets,
       WriteOpens, WriteSends, WriteEnds, Acknowledged
  <2> QED
    BY <2>1 DEF NobodyWaits
<1> QED
  BY <1>1, TransfersInPhase, PTL
=============================================================================
