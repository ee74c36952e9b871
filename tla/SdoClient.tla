------------------------------ MODULE SdoClient ------------------------------
(***************************************************************************)
(* The client side of an SDO channel.  cli[c].active says that the remote  *)
(* node has a transaction for the channel; the rest of cli[c] is the       *)
(* proxy over the caller's variable.  The code keeps no record of whether  *)
(* the transaction reads or writes, of the index it asked for or of the    *)
(* toggle bit it expects: a reply is handled by its command specifier      *)
(* alone.  job[c] is what the caller asked for, which only the properties  *)
(* look at.                                                                *)
(***************************************************************************)
EXTENDS SdoBase

Results == Errors \cup {"none"}

Clients == [active : BOOLEAN, buf : Seq(Byte), off : Nat,
            resizable : BOOLEAN, lastBlockBytes : Nat]
Jobs == [read : BOOLEAN, idx : Idx \cup {NoIdx}, val : Seq(Byte),
         result : Results]

NoClient == [active |-> FALSE, buf |-> <<>>, off |-> 0,
             resizable |-> FALSE, lastBlockBytes |-> 0]
NoJob == [read |-> FALSE, idx |-> NoIdx, val |-> <<>>, result |-> "none"]

Left(c) == Len(cli[c].buf) - cli[c].off

Request(c, frame) == toSrv' = Send(toSrv, c, <<frame>>)
-----------------------------------------------------------------------------
(* SdoService::clientTransaction *)

\* One transaction per channel; the callback of the previous one has run.
Start(c, isRead, i, var, off) ==
  /\ ~cli[c].active /\ MayStart(c)
  /\ ops[c] < MaxOps
  /\ ops' = [ops EXCEPT ![c] = @ + 1]
  /\ cli' = [cli EXCEPT ![c] =
               [active |-> TRUE, buf |-> var.data, off |-> off,
                resizable |-> var.resizable, lastBlockBytes |-> 0]]
  /\ job' = [job EXCEPT ![c] = [read |-> isRead, idx |-> i, val |-> var.data,
                                result |-> "none"]]
  /\ witness' = [witness EXCEPT ![c] = NoWitness]
  /\ UNCHANGED <<toCli, od, srv, losses>>

InitiateRead(c, i, var) ==
  /\ Start(c, TRUE, i, var, 0)
  /\ Request(c, UploadRequest(i))

InitiateExpeditedWrite(c, i, var) ==
  /\ 0 < Len(var.data) /\ Len(var.data) <= ExpeditedBytes
  /\ Len(var.data) < BlockModeThreshold
  /\ Start(c, FALSE, i, var, Len(var.data))
  /\ Request(c, ExpeditedDownload(i, var.data))

InitiateSegmentedWrite(c, i, var) ==
  /\ Len(var.data) = 0 \/ Len(var.data) > ExpeditedBytes
  /\ Len(var.data) < BlockModeThreshold
  /\ Start(c, FALSE, i, var, 0)
  /\ Request(c, DownloadRequest(i, Len(var.data)))

InitiateBlockWrite(c, i, var) ==
  /\ Len(var.data) >= BlockModeThreshold
  /\ Start(c, FALSE, i, var, 0)
  /\ Request(c, BlockRequest(i))
-----------------------------------------------------------------------------
(* Client::processMsg *)

\* finish(result), the transaction is removed and its callback called
Finish(c, state, result) ==
  /\ cli' = [cli EXCEPT ![c] = [state EXCEPT !.active = FALSE]]
  /\ job' = [job EXCEPT ![c].result = result]

AbortReply(c, m) ==
  /\ m.cs = 4
  /\ Finish(c, cli[c], m.err)
  /\ UNCHANGED toSrv

\* Client::checkSize and the proxy it leaves
CheckSize(c, n, tooBigCheck) ==
  IF cli[c].resizable THEN "Success"
  ELSE IF n > Left(c) THEN "ParamLengthLow"
  ELSE IF tooBigCheck /\ n < Left(c) THEN "ParamLengthHigh"
  ELSE "Success"

Sized(c, n, tooBigCheck) ==
  IF n > Left(c) \/ (tooBigCheck /\ n < Left(c))
  THEN [cli[c] EXCEPT !.buf = Resize(@, n), !.off = 0]
  ELSE cli[c]

CopiedFrom(state, bytes) ==
  [state EXCEPT !.buf = Overwrite(@, state.off, bytes),
                !.off = @ + Len(bytes)]

ExpeditedUploadReply(c, m) ==
  /\ m.cs = 2
  /\ m.exp
  /\ UNCHANGED toSrv
  /\ IF CheckSize(c, m.size, TRUE) # "Success"
     THEN Finish(c, cli[c], CheckSize(c, m.size, TRUE))
     ELSE Finish(c, CopiedFrom(Sized(c, m.size, TRUE), m.data), "Success")

UploadReply(c, m) ==
  /\ m.cs = 2
  /\ ~m.exp
  /\ IF CheckSize(c, m.size, TRUE) # "Success"
     THEN /\ Finish(c, cli[c], CheckSize(c, m.size, TRUE))
          /\ Request(c, AbortFrame(CheckSize(c, m.size, TRUE)))
     ELSE /\ cli' = [cli EXCEPT ![c] = Sized(c, m.size, TRUE)]
          /\ Request(c, UploadSegRequest)
          /\ UNCHANGED job

UploadSegReply(c, m) ==
  LET n == Len(m.data)
      copied == CopiedFrom(Sized(c, n, FALSE), m.data) IN
  /\ m.cs = 0
  /\ \/ /\ CheckSize(c, n, FALSE) # "Success"
        /\ Finish(c, cli[c], CheckSize(c, n, FALSE))
        /\ IF m.last THEN UNCHANGED toSrv
           ELSE Request(c, AbortFrame(CheckSize(c, n, FALSE)))
     \/ /\ CheckSize(c, n, FALSE) = "Success" /\ ~m.last
        /\ cli' = [cli EXCEPT ![c] = copied]
        /\ Request(c, UploadSegRequest)
        /\ UNCHANGED job
     \/ /\ CheckSize(c, n, FALSE) = "Success" /\ m.last
        /\ Finish(c, copied, "Success")
        /\ UNCHANGED toSrv

\* Mutant: the last segment is taken for sent.
DownloadReplyEarly(c, m) ==
  LET n == AtMost(Left(c), SegmentBytes)
      segment == Segment(Chunk(cli[c].buf, cli[c].off, n), Left(c) <= SegmentBytes) IN
  /\ m.cs \in {1, 3}
  /\ IF Left(c) <= SegmentBytes
     THEN Finish(c, cli[c], "Success") /\ UNCHANGED toSrv
     ELSE /\ Request(c, segment)
          /\ cli' = [cli EXCEPT ![c].off = @ + n]
          /\ UNCHANGED job

DownloadReply(c, m) ==
  LET n == AtMost(Left(c), SegmentBytes)
      segment == Segment(Chunk(cli[c].buf, cli[c].off, n), Left(c) <= SegmentBytes) IN
  /\ m.cs \in {1, 3}
  /\ IF Left(c) = 0
     THEN Finish(c, cli[c], "Success") /\ UNCHANGED toSrv
     ELSE /\ Request(c, segment)
          /\ cli' = [cli EXCEPT ![c].off = @ + n]
          /\ UNCHANGED job

\* the segments one block response releases: a sub-block, or what is left
Burst(c) ==
  LET count == AtMost((Left(c) + SegmentBytes - 1) \div SegmentBytes,
                      NumSubBlockSegments)
      start(k) == cli[c].off + (k - 1) * SegmentBytes
      size(k) == AtMost(Len(cli[c].buf) - start(k), SegmentBytes) IN
  [k \in 1..count |->
     BlockSegment(Chunk(cli[c].buf, start(k), size(k)), k,
                  Len(cli[c].buf) - start(k) <= SegmentBytes)]

BlockBurst(c, m) ==
  LET sent == AtMost(Left(c), NumSubBlockSegments * SegmentBytes) IN
  /\ m.cs = 5
  /\ Left(c) > 0
  /\ toSrv' = Send(toSrv, c, Burst(c))
  /\ cli' = [cli EXCEPT ![c].off = @ + sent,
                        ![c].lastBlockBytes =
                           sent - (Len(Burst(c)) - 1) * SegmentBytes]
  /\ UNCHANGED job

BlockReply(c, m) ==
  /\ m.cs = 5
  /\ Left(c) = 0
  /\ \/ /\ m.ss = 2
        /\ Request(c, BlockEndRequest(cli[c].lastBlockBytes))
        /\ UNCHANGED <<cli, job>>
     \/ /\ m.ss = 1
        /\ Finish(c, cli[c], "Success")
        /\ UNCHANGED toSrv
     \/ /\ m.ss = 0
        /\ Finish(c, cli[c], "InvalidCmd")
        /\ Request(c, AbortFrame("InvalidCmd"))

ProcessReply(c, m) ==
  \/ AbortReply(c, m)
  \/ ExpeditedUploadReply(c, m)
  \/ UploadReply(c, m)
  \/ UploadSegReply(c, m)
  \/ DownloadReply(c, m)
  \/ BlockBurst(c, m)
  \/ BlockReply(c, m)

\* without a transaction the frame matches no channel and is dropped
ClientReceive(c) ==
  /\ toCli[c] # <<>>
  /\ toCli' = Consume(toCli, c)
  /\ \/ cli[c].active /\ ProcessReply(c, Head(toCli[c]))
     \/ ~cli[c].active /\ UNCHANGED <<toSrv, cli, job>>
  /\ UNCHANGED <<serverVars, ops, losses>>

\* SdoService::transactionTimeout
ClientTimeout(c) ==
  /\ cli[c].active
  /\ MayExpire(c)
  /\ Request(c, AbortFrame("Timeout"))
  /\ Finish(c, cli[c], "Timeout")
  /\ UNCHANGED <<toCli, serverVars, ops, losses>>
=============================================================================
