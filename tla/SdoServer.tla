------------------------------ MODULE SdoServer ------------------------------
(***************************************************************************)
(* The server side of an SDO channel: one action per way the node's main   *)
(* loop can process the next frame of the channel, and the expiry of the   *)
(* transaction timer.  A handler runs to its end on the main thread, with  *)
(* the destructor of the proxy it drops, so each handler is one action.    *)
(*                                                                         *)
(* srv[c].mode is the transaction on the channel: "none", a "segmented"    *)
(* Server or a "block" ServerBlockMode.                                    *)
(***************************************************************************)
EXTENDS SdoBase

NoServer == [mode |-> "none", idx |-> NoIdx, off |-> 0, changed |-> FALSE,
             state |-> "Start", expected |-> 0, lastSegment |-> <<>>,
             finished |-> FALSE]

Servers == [mode : {"none", "segmented", "block"}, idx : Idx \cup {NoIdx},
            off : Nat, changed : BOOLEAN,
            state : {"Start", "SubBlock", "End"}, expected : Nat,
            lastSegment : Seq(Byte), finished : BOOLEAN]

NewServer(i) == [NoServer EXCEPT !.mode = "segmented", !.idx = i]
NewServerBlockMode(i) ==
  [NoServer EXCEPT !.mode = "block", !.idx = i, !.expected = 1]

\* the bytes between the proxy's offset and the end of the entry
Remaining(c) == Len(od[srv[c].idx].data) - srv[c].off

Stored(c, bytes) == Overwrite(od[srv[c].idx].data, srv[c].off, bytes)

Reply(c, frames) == toCli' = Send(toCli, c, frames)

\* The transaction is removed: its proxy leaves the entry with this data.
Conclude(c, data, changed, senderIsFinished) ==
  LET i == srv[c].idx IN
  /\ srv' = [srv EXCEPT ![c] = NoServer]
  /\ od' = [od EXCEPT ![i] =
              Release([@ EXCEPT !.data = data], changed, senderIsFinished)]

\* Protocol::finish(e, true) by a handler that returns true
Fail(c, e) ==
  /\ Reply(c, <<AbortFrame(e)>>)
  /\ Conclude(c, od[srv[c].idx].data, srv[c].changed, FALSE)
  /\ UNCHANGED witness

\* A write is acknowledged: n bytes were carried, the entry ends up as data.
Acknowledge(c, i, n, data) ==
  witness' = [witness EXCEPT ![c] =
                [idx |-> i, carried |-> Chunk(data, 0, n), stored |-> data]]

Refuse(c, e) == Reply(c, <<AbortFrame(e)>>) /\ UNCHANGED serverVars
-----------------------------------------------------------------------------
(* No transaction: Server::processInitiate *)

Initiates(c, m, cs) == srv[c].mode = "none" /\ m.cs = cs

IsExpedited(n) == 0 < n /\ n <= ExpeditedBytes

UploadInitiateRefused(c, m) ==
  /\ Initiates(c, m, 2)
  /\ MakeProxyError(m.idx) # "Success"
  /\ Refuse(c, MakeProxyError(m.idx))

UploadInitiateExpedited(c, m) ==
  LET i == m.idx  data == od[i].data IN
  /\ Initiates(c, m, 2)
  /\ MakeProxyError(i) = "Success"
  /\ IsExpedited(Len(data))
  /\ IF CopyIntoError(i) # "Success"
     THEN Refuse(c, CopyIntoError(i))
     ELSE /\ Reply(c, <<ExpeditedUpload(data)>>)
          /\ witness' = [witness EXCEPT ![c] =
                           [idx |-> i, carried |-> data, stored |-> data]]
          /\ UNCHANGED <<od, srv>>

\* Mutant: the proxy of a segmented upload gives its lock back at once.
UploadInitiateUnlocked(c, m) ==
  LET i == m.idx  data == od[i].data IN
  /\ Initiates(c, m, 2)
  /\ MakeProxyError(i) = "Success"
  /\ ~IsExpedited(Len(data))
  /\ Reply(c, <<UploadResponse(Len(data))>>)
  /\ srv' = [srv EXCEPT ![c] = NewServer(i)]
  /\ witness' = [witness EXCEPT ![c] =
                   [idx |-> i, carried |-> data, stored |-> data]]
  /\ UNCHANGED od

UploadInitiate(c, m) ==
  LET i == m.idx  data == od[i].data IN
  /\ Initiates(c, m, 2)
  /\ MakeProxyError(i) = "Success"
  /\ ~IsExpedited(Len(data))
  /\ Reply(c, <<UploadResponse(Len(data))>>)
  /\ srv' = [srv EXCEPT ![c] = NewServer(i)]
  /\ od' = [od EXCEPT ![i].locked = TRUE]
  /\ witness' = [witness EXCEPT ![c] =
                   [idx |-> i, carried |-> data, stored |-> data]]

\* proxy.remaining() == len || proxy.resize(len)
Accepts(i, n) == Len(od[i].data) = n \/ Resizable[i]
\* the data after that test: an entry of the right length is left alone
Fitted(i, n) ==
  IF Len(od[i].data) = n THEN od[i].data ELSE Resize(od[i].data, n)

DownloadInitiateRefused(c, m) ==
  LET i == m.idx IN
  /\ Initiates(c, m, 1)
  /\ \/ /\ MakeProxyError(i) # "Success"
        /\ Refuse(c, MakeProxyError(i))
     \/ /\ MakeProxyError(i) = "Success"
        /\ ~Accepts(i, m.size)
        /\ Refuse(c, "ParamLength")

DownloadInitiateExpedited(c, m) ==
  LET i == m.idx IN
  /\ Initiates(c, m, 1)
  /\ MakeProxyError(i) = "Success"
  /\ Accepts(i, m.size)
  /\ m.exp
  /\ UNCHANGED srv
  /\ IF Access[i] = "RO"
     THEN \* copyFrom fails; the resize before it stays, unannounced
          /\ Reply(c, <<AbortFrame("WriteViolation")>>)
          /\ od' = [od EXCEPT ![i].data = Fitted(i, m.size)]
          /\ UNCHANGED witness
     ELSE /\ Reply(c, <<DownloadResponse>>)
          /\ od' = [od EXCEPT ![i] =
                      Release([@ EXCEPT !.data = m.data], TRUE, TRUE)]
          /\ Acknowledge(c, i, m.size, m.data)

DownloadInitiate(c, m) ==
  LET i == m.idx IN
  /\ Initiates(c, m, 1)
  /\ MakeProxyError(i) = "Success"
  /\ Accepts(i, m.size)
  /\ ~m.exp
  /\ Reply(c, <<DownloadResponse>>)
  /\ IF m.size > 0
     THEN /\ srv' = [srv EXCEPT ![c] = NewServer(i)]
          /\ od' = [od EXCEPT ![i].data = Fitted(i, m.size), ![i].locked = TRUE]
          /\ UNCHANGED witness
     ELSE \* nothing to copy: the proxy is dropped with changed = false
          /\ od' = [od EXCEPT ![i].data = Fitted(i, 0)]
          /\ Acknowledge(c, i, 0, <<>>)
          /\ UNCHANGED srv

BlockInitiate(c, m) ==
  LET i == m.idx IN
  /\ Initiates(c, m, 6)
  /\ IF MakeProxyError(i) = "Success"
     THEN /\ Reply(c, <<BlockResponse(0)>>)
          /\ srv' = [srv EXCEPT ![c] = NewServerBlockMode(i)]
          /\ od' = [od EXCEPT ![i].locked = TRUE]
          /\ UNCHANGED witness
     ELSE UNCHANGED <<toCli, od, srv, witness>>  \* no abort is sent

NotAnInitiate(c, m) ==
  /\ srv[c].mode = "none"
  /\ m.cs \notin {1, 2, 6}
  /\ UNCHANGED <<toCli, od, srv, witness>>

ProcessInitiate(c, m) ==
  \/ UploadInitiateRefused(c, m)
  \/ UploadInitiateExpedited(c, m)
  \/ UploadInitiate(c, m)
  \/ DownloadInitiateRefused(c, m)
  \/ DownloadInitiateExpedited(c, m)
  \/ DownloadInitiate(c, m)
  \/ BlockInitiate(c, m)
  \/ NotAnInitiate(c, m)
-----------------------------------------------------------------------------
(* A segmented transaction: Server::processMsg *)

InSegmented(c) == srv[c].mode = "segmented"

ServerAborted(c, m) ==
  /\ InSegmented(c)
  /\ m.cs = 4
  /\ Conclude(c, od[srv[c].idx].data, srv[c].changed, FALSE)
  /\ UNCHANGED <<toCli, witness>>

\* Mutant: the transaction outlives the last segment of an upload.
SegmentReadStays(c, m) ==
  LET n == AtMost(Remaining(c), SegmentBytes) IN
  /\ InSegmented(c)
  /\ m.cs = 3
  /\ Reply(c, <<Segment(Chunk(od[srv[c].idx].data, srv[c].off, n), Remaining(c) <= SegmentBytes)>>)
  /\ srv' = [srv EXCEPT ![c].off = @ + n]
  /\ UNCHANGED <<od, witness>>

SegmentRead(c, m) ==
  LET i == srv[c].idx
      off == srv[c].off
      data == od[i].data
      complete == Remaining(c) <= SegmentBytes
      n == AtMost(Remaining(c), SegmentBytes) IN
  /\ InSegmented(c)
  /\ m.cs = 3
  /\ IF CopyIntoError(i) # "Success"
     THEN Fail(c, CopyIntoError(i))
     ELSE /\ Reply(c, <<Segment(Chunk(data, off, n), complete)>>)
          /\ IF complete
             THEN Conclude(c, data, srv[c].changed, FALSE)
             ELSE /\ srv' = [srv EXCEPT ![c].off = off + n]
                  /\ UNCHANGED od
          /\ UNCHANGED witness

DownloadSegmentRefused(c, m) ==
  /\ InSegmented(c)
  /\ m.cs = 0
  /\ CopyFromError(srv[c].idx, srv[c].off, Len(m.data)) # "Success"
  /\ Fail(c, CopyFromError(srv[c].idx, srv[c].off, Len(m.data)))

DownloadSegment(c, m) ==
  LET i == srv[c].idx
      n == srv[c].off + Len(m.data) IN
  /\ InSegmented(c)
  /\ m.cs = 0
  /\ CopyFromError(i, srv[c].off, Len(m.data)) = "Success"
  /\ Reply(c, <<DownloadSegResponse>>)
  /\ IF m.last
     THEN /\ Conclude(c, Stored(c, m.data), TRUE, TRUE)
          /\ Acknowledge(c, i, n, Stored(c, m.data))
     ELSE /\ srv' = [srv EXCEPT ![c].off = n, ![c].changed = TRUE]
          /\ od' = [od EXCEPT ![i].data = Stored(c, m.data)]
          /\ UNCHANGED witness

UnhandledRequest(c, m) ==
  /\ InSegmented(c)
  /\ m.cs \notin {0, 3, 4}
  /\ Fail(c, "InvalidCmd")

ProcessSegmented(c, m) ==
  \/ ServerAborted(c, m)
  \/ SegmentRead(c, m)
  \/ DownloadSegmentRefused(c, m)
  \/ DownloadSegment(c, m)
  \/ UnhandledRequest(c, m)
-----------------------------------------------------------------------------
(* A block download: ServerBlockMode::processMsg, which never looks for an *)
(* abort.  The last segment is held back until the next frame tells how    *)
(* much of it to copy.                                                     *)

InBlock(c, state) == srv[c].mode = "block" /\ srv[c].state = state

\* finish(e, true); state = End; return false -- the transaction stays
Linger(c, e, off, changed) ==
  /\ Reply(c, <<AbortFrame(e)>>)
  /\ srv' = [srv EXCEPT ![c].state = "End", ![c].finished = TRUE,
                        ![c].off = off, ![c].changed = changed]
  /\ UNCHANGED witness

BlockStart(c, m) ==
  /\ InBlock(c, "Start")
  /\ UNCHANGED od
  /\ IF m.seq # srv[c].expected
     THEN Linger(c, "DataXfer", srv[c].off, srv[c].changed)
     ELSE /\ srv' = [srv EXCEPT ![c].state = "SubBlock", ![c].expected = 2,
                                ![c].lastSegment = Pad(m.data)]
          /\ UNCHANGED <<toCli, witness>>

BlockCopyFails(c, m) ==
  LET e == CopyFromError(srv[c].idx, srv[c].off, SegmentBytes) IN
  /\ InBlock(c, "SubBlock")
  /\ e # "Success"
  /\ Linger(c, e, srv[c].off, srv[c].changed)
  /\ UNCHANGED od

\* Mutant: a full sub-block is not acknowledged.
EndOfBlockOnly(m) == m.cs >= 4
EndOfSubBlock(m) == m.seq = NumSubBlockSegments \/ m.cs >= 4

BlockSubBlock(c, m) ==
  LET i == srv[c].idx
      off == srv[c].off + SegmentBytes IN
  /\ InBlock(c, "SubBlock")
  /\ CopyFromError(i, srv[c].off, SegmentBytes) = "Success"
  /\ od' = [od EXCEPT ![i].data = Stored(c, srv[c].lastSegment)]
  /\ IF m.seq # srv[c].expected
     THEN Linger(c, "DataXfer", off, TRUE)
     ELSE /\ srv' = [srv EXCEPT
                ![c].state = IF m.cs >= 4 THEN "End" ELSE @,
                ![c].expected = IF EndOfSubBlock(m) THEN 1 ELSE m.seq + 1,
                ![c].lastSegment = Pad(m.data),
                ![c].off = off,
                ![c].changed = TRUE]
          /\ Reply(c, IF EndOfSubBlock(m) THEN <<BlockResponse(2)>> ELSE <<>>)
          /\ UNCHANGED witness

BlockJunk(c, m) ==
  /\ InBlock(c, "End")
  /\ m.cs # 6
  /\ UNCHANGED <<toCli, od, srv, witness>>

BlockEnd(c, m) ==
  LET i == srv[c].idx
      lastLen == AtMost(m.size, SegmentBytes)
      lastBytes == Chunk(srv[c].lastSegment, 0, lastLen)
      e == CopyFromError(i, srv[c].off, lastLen) IN
  /\ InBlock(c, "End")
  /\ m.cs = 6
  /\ \/ /\ srv[c].finished  \* an aborted download: removed in silence
        /\ Conclude(c, od[i].data, srv[c].changed, FALSE)
        /\ UNCHANGED <<toCli, witness>>
     \/ /\ ~srv[c].finished /\ e # "Success"
        /\ Fail(c, e)
     \/ /\ ~srv[c].finished /\ e = "Success"
        /\ Reply(c, <<BlockResponse(1)>>)
        /\ Conclude(c, Stored(c, lastBytes), TRUE, TRUE)
        /\ Acknowledge(c, i, srv[c].off + lastLen, Stored(c, lastBytes))

ProcessBlock(c, m) ==
  \/ BlockStart(c, m)
  \/ BlockCopyFails(c, m)
  \/ BlockSubBlock(c, m)
  \/ BlockJunk(c, m)
  \/ BlockEnd(c, m)
-----------------------------------------------------------------------------
ServerReceive(c) ==
  /\ toSrv[c] # <<>>
  /\ toSrv' = Consume(toSrv, c)
  /\ \/ \E m \in Requests(Head(toSrv[c])) : ProcessInitiate(c, m)
     \/ ProcessSegmented(c, Head(toSrv[c]))
     \/ ProcessBlock(c, Head(toSrv[c]))
  /\ UNCHANGED <<clientVars, losses>>

\* Mutant: no timer runs for a block download.
ServerTimeoutSegmentedOnly(c) ==
  /\ srv[c].mode = "segmented"
  /\ MayExpire(c)
  /\ Fail(c, "Timeout")
  /\ UNCHANGED <<toSrv, clientVars, losses>>

ServerTimeout(c) ==
  /\ srv[c].mode # "none"
  /\ MayExpire(c)
  /\ Fail(c, "Timeout")
  /\ UNCHANGED <<toSrv, clientVars, losses>>

\* Mutant: the local application writes whether the entry is locked or not.
LocalSetUnlocked(i, data) ==
  /\ od' = [od EXCEPT ![i].data = data, ![i].published = data,
                      ![i].notified = data]
  /\ UNCHANGED <<toSrv, toCli, srv, witness, clientVars, losses>>

\* ObjDict::set by the local application: refused while the entry is locked
LocalSet(i, data) ==
  /\ ~od[i].locked
  /\ od' = [od EXCEPT ![i].data = data, ![i].published = data,
                      ![i].notified = data]
  /\ UNCHANGED <<toSrv, toCli, srv, witness, clientVars, losses>>
=============================================================================
