--------------------------------- MODULE Sdo ---------------------------------
(***************************************************************************)
(* SDO transfers between the clients and the server node over a bus that   *)
(* keeps the frames of a COB-ID in order and may lose some, with the local *)
(* application writing to the dictionary at the same time.                 *)
(***************************************************************************)
EXTENDS SdoServer, SdoClient

Init ==
  /\ toSrv = [c \in Chan |-> <<>>]
  /\ toCli = [c \in Chan |-> <<>>]
  /\ od = [i \in Idx |-> [data |-> InitData[i], locked |-> FALSE,
                          published |-> InitData[i], notified |-> InitData[i]]]
  /\ srv = [c \in Chan |-> NoServer]
  /\ cli = [c \in Chan |-> NoClient]
  /\ job = [c \in Chan |-> NoJob]
  /\ witness = [c \in Chan |-> NoWitness]
  /\ ops = [c \in Chan |-> 0]
  /\ losses = 0

\* A write to the bus fails, or the frame is not received: the code looks at
\* the outcome of a write only when it initiates a transaction.
LoseRequest(c) ==
  /\ toSrv[c] # <<>> /\ losses < MaxLosses
  /\ toSrv' = Consume(toSrv, c)
  /\ losses' = losses + 1
  /\ UNCHANGED <<toCli, serverVars, clientVars>>

LoseReply(c) ==
  /\ toCli[c] # <<>> /\ losses < MaxLosses
  /\ toCli' = Consume(toCli, c)
  /\ losses' = losses + 1
  /\ UNCHANGED <<toSrv, serverVars, clientVars>>

ClientTransaction(c) ==
  \E i \in Idx \cup {NoIdx} :
    \/ \E var \in ReadVars : InitiateRead(c, i, var)
    \/ \E var \in WriteVars :
         \/ InitiateExpeditedWrite(c, i, var)
         \/ InitiateSegmentedWrite(c, i, var)
         \/ InitiateBlockWrite(c, i, var)

Next ==
  \/ \E c \in Chan :
       \/ ClientTransaction(c)
       \/ ClientReceive(c)
       \/ ClientTimeout(c)
       \/ ServerReceive(c)
       \/ ServerTimeout(c)
       \/ LoseRequest(c)
       \/ LoseReply(c)
  \/ \E i \in Idx : \E data \in LocalValues[i] : LocalSet(i, data)

Spec == Init /\ [][Next]_vars

\* The main loops keep reading the bus ...
BusFairness == \A c \in Chan : WF_vars(ServerReceive(c)) /\ WF_vars(ClientReceive(c))
\* ... and the timers they service expire.
TimerFairness == \A c \in Chan : WF_vars(ClientTimeout(c)) /\ WF_vars(ServerTimeout(c))

FairSpec == Spec /\ BusFairness /\ TimerFairness
-----------------------------------------------------------------------------
TypeOK ==
  /\ toSrv \in [Chan -> Seq(Frames)]
  /\ toCli \in [Chan -> Seq(Frames)]
  /\ od \in [Idx -> Entries]
  /\ srv \in [Chan -> Servers]
  /\ cli \in [Chan -> Clients]
  /\ job \in [Chan -> Jobs]
  /\ witness \in [Chan -> Witnesses]
  /\ ops \in [Chan -> 0..MaxOps]
  /\ losses \in 0..MaxLosses
-----------------------------------------------------------------------------
(* Safety *)

Owns(c, i) == srv[c].mode # "none" /\ srv[c].idx = i

\* An entry is locked exactly while one live transaction, on one channel,
\* holds a proxy to it (OdEntry::lock in makeProxy, unlock in ~OdProxy): no
\* path leaks the lock and no two proxies ever share an entry.
EntryOwnership ==
  /\ \A i \in Idx : od[i].locked <=> \E c \in Chan : Owns(c, i)
  /\ \A i \in Idx : \A c, d \in Chan : Owns(c, i) /\ Owns(d, i) => c = d

\* While an entry is locked its bytes change only in a step of the server
\* transaction that owns it: neither the application, nor another channel,
\* nor a timer writes under a transfer.
OnlyOwnerWrites ==
  [][\A i \in Idx : od[i].locked /\ od'[i].data # od[i].data
       => \E c \in Chan : Owns(c, i) /\ toSrv'[c] # toSrv[c]]_vars

\* The server implements the lock service of EntryLock: seen through the
\* entries its transactions hold, the bytes of the entries and the requests
\* waiting, all the handlers do is use, acquire, write as owner and release.
Held == [c \in Chan |-> IF srv[c].mode = "none" THEN NoIdx ELSE srv[c].idx]
Contents == [i \in Idx |-> od[i].data]
Waiting == [c \in Chan |-> Len(toSrv[c])]

Lock == INSTANCE EntryLock WITH
  Nothing <- NoIdx, Value <- Seq(Byte),
  holds <- Held, value <- Contents, pending <- Waiting

LockService == Lock!LockSpec

\* A proxy's offset never passes the end of its data, so that remaining(),
\* the unsigned difference len - off, never wraps.
ProxyInBounds ==
  /\ \A c \in Chan : srv[c].mode # "none" => srv[c].off <= Len(od[srv[c].idx].data)
  /\ \A c \in Chan : cli[c].off <= Len(cli[c].buf)

\* What makes the two inductive: a transaction holds an entry that exists,
\* and a block download has a whole segment to copy.
ServersHoldEntries == \A c \in Chan : srv[c].mode # "none" => srv[c].idx \in Idx

SegmentHeldBack ==
  \A c \in Chan : srv[c].mode = "block" /\ srv[c].state # "Start" /\ ~srv[c].finished
     => Len(srv[c].lastSegment) = SegmentBytes

\* No proxy of a node reads or writes past its bytes, in any transfer: the
\* inductive invariant that the proofs rest on.
SdoInv ==
  /\ TypeOK
  /\ EntryOwnership
  /\ ProxyInBounds
  /\ ServersHoldEntries
  /\ SegmentHeldBack

Succeeded(c) == ~cli[c].active /\ job[c].result = "Success"

\* A read that ends with Success leaves in the caller's variable exactly the
\* bytes of the entry it asked for, as they were when the server opened it
\* for this request.
ReadIntegrity ==
  \A c \in Chan : Succeeded(c) /\ job[c].read =>
     /\ witness[c].idx = job[c].idx
     /\ cli[c].buf = witness[c].carried

\* A write that ends with Success was acknowledged by the server for this
\* very request, for this entry, after it stored exactly the caller's bytes;
\* unless it went in blocks, they are then the whole entry.
WriteIntegrity ==
  \A c \in Chan : Succeeded(c) /\ ~job[c].read =>
     /\ witness[c].idx = job[c].idx
     /\ witness[c].carried = job[c].val
     /\ Len(job[c].val) < BlockModeThreshold => witness[c].stored = job[c].val

\* The bytes arrive whole and in the right place, whatever the other channel and
\* the application do meanwhile and whichever frame is lost.
TransferIntegrity == ReadIntegrity /\ WriteIntegrity

\* Whenever an entry is not locked, an observer that polls its generation
\* has been told of the bytes it holds.
GenerationFollowsData ==
  \A i \in Idx : ~od[i].locked => od[i].published = od[i].data

\* The server takes a block download of any length: one shorter than the entry
\* leaves the entry's old tail behind the bytes it carried.
BlockOverLonger(bytes) ==
  \E var \in WriteVars :
    /\ BlockModeThreshold <= Len(var.data) /\ Len(var.data) < Len(bytes)
    /\ Chunk(bytes, 0, Len(var.data)) = var.data

\* A changed-callback is told only of writes that came to their end (the
\* destructor of OdProxy): it sees a value that was set, or all the bytes that
\* one client wrote, never those of a transfer that broke off and never some of
\* one and some of another's; but for the tail that a short block leaves.
CallbackSeesWholeWrite ==
  \A i \in Idx :
    \/ od[i].notified \in
         {InitData[i]} \cup LocalValues[i] \cup {var.data : var \in WriteVars}
    \/ BlockOverLonger(od[i].notified)

\* Once a transfer has succeeded and its frames are consumed, the server
\* keeps no transaction, hence no timer and no lock, for it.
SuccessLeavesNothingBehind ==
  \A c \in Chan : Succeeded(c) /\ Quiet(c) => srv[c].mode = "none"

\* Two requests stay unanswered: a block download the server cannot open, for
\* which processInitiate returns no protocol and sends no abort, ...
UnansweredBlock(c) ==
  /\ ~job[c].read /\ Len(job[c].val) >= BlockModeThreshold
  /\ srv[c].mode = "none" /\ cli[c].off = 0

\* ... and whatever follows a block download that the server has aborted: its
\* transaction stays in State::End, taking every frame for junk, until it is
\* removed by its timer.
Lingering(c) == srv[c].mode = "block" /\ srv[c].finished

\* As long as the bus has lost nothing, the two protocol machines never wait
\* for each other otherwise: with no frame under way on a channel its client
\* is done, without the help of a timer.
NobodyWaits ==
  \A c \in Chan : losses = 0 /\ cli[c].active /\ Quiet(c)
     => UnansweredBlock(c) \/ Lingering(c)
-----------------------------------------------------------------------------
(* Liveness *)

\* No entry stays locked: a transfer whose peer fell silent, or that was
\* aborted half-way, gives its entry back when its timer expires.
EntryReleased == \A i \in Idx : od[i].locked ~> ~od[i].locked
=============================================================================
