------------------------------- MODULE SdoBase -------------------------------
(***************************************************************************)
(* The vocabulary of an SDO transfer: the frames, the object dictionary    *)
(* entries and the proxies that read and write them, and the state shared  *)
(* by the client side (SdoClient) and the server side (SdoServer).         *)
(*                                                                         *)
(* One node serves the dictionary.  Each channel c in Chan is one SDO      *)
(* server channel of that node together with the one remote client that    *)
(* uses it; its two COB-IDs are the FIFOs toSrv[c] and toCli[c].  A value  *)
(* is a sequence of bytes; the payload sizes of the protocol are           *)
(* constants, so that TLC can scale them down.                             *)
(***************************************************************************)
EXTENDS Integers, Sequences, FiniteSets

CONSTANTS
  Chan,                \* the SDO channels of the server node
  Idx,                 \* the entries of its object dictionary
  NoIdx,               \* an index that is not in the dictionary
  Payload,             \* "the index bytes of this frame are payload bytes"
  Byte,                \* the bytes values are made of
  Zero,                \* the byte that pads frames and fills grown buffers
  Access,              \* Access[i] is "RO", "WO" or "RW"
  Resizable,           \* Resizable[i]: the entry is a vector or a string
  InitData,            \* InitData[i]: the bytes entry i is inserted with
  ReadVars, WriteVars, \* the variables clients pass: [data, resizable]
  LocalValues,         \* LocalValues[i]: what the local application sets
  ExpeditedBytes,      \* payload of an expedited frame: 4 in the code
  SegmentBytes,        \* payload of a segment: 7 in the code
  BlockModeThreshold,  \* length from which a write is a block download: 100
  NumSubBlockSegments, \* segments in a sub-block: 127
  CsUnit,              \* sequence numbers per command specifier: 32
  StraySizes,          \* lengths the payload of a stray segment may announce
  MaxOps,              \* bound: transactions started per client
  MaxLosses,           \* bound: frames lost
  TimelyBus            \* TRUE: frames are never late for a timer or a new transfer

ASSUME FrameAssumption ==
  /\ ExpeditedBytes \in Nat \ {0}
  /\ SegmentBytes \in Nat \ {0}
  /\ ExpeditedBytes <= SegmentBytes
  /\ BlockModeThreshold \in Nat
  /\ BlockModeThreshold > SegmentBytes  \* a block has at least two segments
  /\ NumSubBlockSegments \in Nat
  /\ NumSubBlockSegments > 1
  /\ CsUnit \in Nat \ {0}
  /\ NumSubBlockSegments < 4 * CsUnit  \* a sequence number has seven bits
  /\ StraySizes \subseteq Nat

ASSUME IndexAssumption ==
  /\ NoIdx \notin Idx
  /\ Payload \notin Idx
  /\ Payload # NoIdx

ASSUME DataAssumption ==
  /\ Zero \in Byte
  /\ Access \in [Idx -> {"RO", "WO", "RW"}]
  /\ Resizable \in [Idx -> BOOLEAN]
  /\ InitData \in [Idx -> Seq(Byte)]
  /\ LocalValues \in [Idx -> SUBSET Seq(Byte)]
  /\ ReadVars \subseteq [data : Seq(Byte), resizable : BOOLEAN]
  /\ WriteVars \subseteq [data : Seq(Byte), resizable : BOOLEAN]

ASSUME BoundAssumption ==
  /\ MaxOps \in Nat
  /\ MaxLosses \in Nat
  /\ TimelyBus \in BOOLEAN

VARIABLES
  toSrv, toCli,  \* the frames under way on the two COB-IDs of each channel
  od,            \* the server's dictionary entries
  srv,           \* the server's transaction on each channel
  cli,           \* the client's transaction on each channel
  job,           \* what the client was last asked to do, and how it ended
  witness,       \* what the server did for that request (history variable)
  ops, losses    \* bound counters

vars == <<toSrv, toCli, od, srv, cli, job, witness, ops, losses>>
serverVars == <<od, srv, witness>>
clientVars == <<cli, job, ops>>
-----------------------------------------------------------------------------
(* Bytes *)

\* vector::resize: keeps the common prefix, fills with zeros
Resize(data, n) ==
  [k \in 1..n |-> IF k <= Len(data) THEN data[k] ELSE Zero]

\* memcpy(ptr + off, bytes)
Overwrite(data, off, bytes) ==
  [k \in 1..Len(data) |->
     IF k > off /\ k <= off + Len(bytes) THEN bytes[k - off] ELSE data[k]]

\* memcpy(b, ptr + off, n)
Chunk(data, off, n) == SubSeq(data, off + 1, off + n)

\* a segment frame always carries SegmentBytes bytes, the unused ones zero
Pad(bytes) == Resize(bytes, SegmentBytes)

AtMost(n, limit) == IF n <= limit THEN n ELSE limit
-----------------------------------------------------------------------------
(* Frames.  cs is the command specifier (the top three bits of byte 0) and *)
(* seq its lower seven bits read as a block sequence number, the way a     *)
(* server in block mode reads any frame; the top bit is set iff cs >= 4.   *)

Errors == {"Success", "Timeout", "ParamLength", "ParamLengthLow",
           "ParamLengthHigh", "DataXfer", "DataXferLocal", "InvalidCmd",
           "IndexNotFound", "WriteViolation", "ReadViolation"}

Frame(cs) == [cs |-> cs, idx |-> NoIdx, exp |-> FALSE, size |-> 0,
              data |-> <<>>, last |-> FALSE, seq |-> (cs % 4) * CsUnit,
              ss |-> 0, err |-> "Success"]

FrameFields == [cs : 0..7, idx : Idx \cup {NoIdx, Payload}, exp : BOOLEAN,
                size : Nat, data : Seq(Byte), last : BOOLEAN, seq : Nat,
                ss : 0..2, err : Errors]

Frames == {m \in FrameFields : /\ m.exp => m.size = Len(m.data)
                               /\ m.idx = Payload => Len(m.data) = SegmentBytes}

AbortFrame(e) == [Frame(4) EXCEPT !.err = e]

\* client to server
UploadRequest(i) == [Frame(2) EXCEPT !.idx = i]
UploadSegRequest == Frame(3)
ExpeditedDownload(i, bytes) ==
  [Frame(1) EXCEPT !.idx = i, !.exp = TRUE, !.size = Len(bytes), !.data = bytes]
DownloadRequest(i, n) == [Frame(1) EXCEPT !.idx = i, !.size = n]
Segment(bytes, last) == [Frame(0) EXCEPT !.data = bytes, !.last = last]
\* 0xC2: read as an end frame its length bits say SegmentBytes; the server
\* makes no use of the announced length
BlockRequest(i) == [Frame(6) EXCEPT !.idx = i, !.size = SegmentBytes]
BlockSegment(bytes, seqno, complete) ==
  [Frame((IF complete THEN 4 ELSE 0) + (seqno \div CsUnit)) EXCEPT
     !.idx = Payload, !.data = Pad(bytes), !.seq = seqno,
     !.last = (seqno % 2 = 1), !.err = "DataXfer"]
BlockEndRequest(n) == [Frame(6) EXCEPT !.size = n]

\* server to client
ExpeditedUpload(bytes) ==
  [Frame(2) EXCEPT !.exp = TRUE, !.size = Len(bytes), !.data = bytes]
UploadResponse(n) == [Frame(2) EXCEPT !.size = n]
DownloadResponse == Frame(3)
DownloadSegResponse == Frame(1)
BlockResponse(s) == [Frame(5) EXCEPT !.ss = s]

\* The requests a frame can be read as by a server with no transaction.  A
\* block segment has payload where a request has its index and its length.
ReadExpedited(m, i, n) ==
  [m EXCEPT !.idx = i, !.exp = TRUE, !.size = n, !.data = Chunk(m.data, 0, n)]
ReadSized(m, i, n) == [m EXCEPT !.idx = i, !.exp = FALSE, !.size = n]

Requests(m) ==
  IF m.idx # Payload THEN {m}
  ELSE {ReadExpedited(m, i, n) : i \in Idx \cup {NoIdx}, n \in 0..ExpeditedBytes}
       \cup {ReadSized(m, i, n) : i \in Idx \cup {NoIdx}, n \in StraySizes}
-----------------------------------------------------------------------------
(* Dictionary entries.  published is the data an observer of generation()  *)
(* has seen, notified the data the last changed-callback has seen.         *)

Entries == [data : Seq(Byte), locked : BOOLEAN,
            published : Seq(Byte), notified : Seq(Byte)]

MakeProxyError(i) ==
  IF i \notin Idx THEN "IndexNotFound"
  ELSE IF od[i].locked THEN "DataXferLocal" ELSE "Success"

CopyIntoError(i) == IF Access[i] = "WO" THEN "ReadViolation" ELSE "Success"

\* Mutant: the length check is missing.
CopyFromErrorUnchecked(i, off, n) ==
  IF Access[i] = "RO" THEN "WriteViolation" ELSE "Success"

CopyFromError(i, off, n) ==
  IF Len(od[i].data) - off < n THEN "ParamLength"
  ELSE IF Access[i] = "RO" THEN "WriteViolation" ELSE "Success"

\* Mutants: the lock is kept; every changed entry fires its callbacks; only a
\* finished sender bumps the generation.
ReleaseKeepsLock(e, changed, senderIsFinished) ==
  [e EXCEPT !.published = IF changed THEN e.data ELSE @,
            !.notified = IF changed /\ senderIsFinished THEN e.data ELSE @]
ReleaseAlwaysNotifies(e, changed, senderIsFinished) ==
  [e EXCEPT !.locked = FALSE,
            !.published = IF changed THEN e.data ELSE @,
            !.notified = IF changed THEN e.data ELSE @]
ReleasePublishesFinished(e, changed, senderIsFinished) ==
  [e EXCEPT !.locked = FALSE,
            !.published = IF changed /\ senderIsFinished THEN e.data ELSE @,
            !.notified = IF changed /\ senderIsFinished THEN e.data ELSE @]

\* the destructor of a proxy that owns its entry
Release(e, changed, senderIsFinished) ==
  [e EXCEPT !.locked = FALSE,
            !.published = IF changed THEN e.data ELSE @,
            !.notified = IF changed /\ senderIsFinished THEN e.data ELSE @]
-----------------------------------------------------------------------------
(* Channels *)

Consume(queue, c) == [queue EXCEPT ![c] = Tail(@)]
Send(queue, c, frames) == [queue EXCEPT ![c] = @ \o frames]
Quiet(c) == toSrv[c] = <<>> /\ toCli[c] = <<>>
\* On a timely bus a timer that expires finds the channel quiet, and a client
\* that starts a transfer has seen every reply to the ones before.
MayExpire(c) == TimelyBus => Quiet(c)
MayStart(c) == TimelyBus => toCli[c] = <<>>

\* what the server did for the client's current request: the bytes carried
\* and the whole entry as it was read, or as the write left it
Witnesses == [idx : Idx \cup {NoIdx}, carried : Seq(Byte), stored : Seq(Byte)]
NoWitness == [idx |-> NoIdx, carried |-> <<>>, stored |-> <<>>]
=============================================================================
