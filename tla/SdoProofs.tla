------------------------------ MODULE SdoProofs ------------------------------
(***************************************************************************)
(* Proofs about Sdo, for every value of its constants: SdoInv is an        *)
(* invariant, and with it the types, the ownership of entries and the      *)
(* bounds of proxies; no step but one of the owner's writes a locked       *)
(* entry; the server implements the lock service of EntryLock.             *)
(*                                                                         *)
(* The handlers differ in what they answer, but not much in what they do   *)
(* to the entries: a step leaves them alone, uses a free one, acquires     *)
(* one, goes on with the one it owns, or concludes.  The lemmas of the     *)
(* third section prove SdoInv for these shapes; each handler is then an    *)
(* instance of one.                                                        *)
(***************************************************************************)
EXTENDS Sdo, TLAPS

-----------------------------------------------------------------------------
(* Bytes *)

\* Resize returns as many bytes as it is asked for.
LEMMA ResizeFacts ==
  ASSUME NEW data \in Seq(Byte), NEW n \in Nat
  PROVE  /\ Resize(data, n) \in Seq(Byte)
         /\ Len(Resize(data, n)) = n
<1>1. \A k \in 1..n : (IF k <= Len(data) THEN data[k] ELSE Zero) \in Byte
  BY DataAssumption
<1> QED
  BY <1>1 DEF Resize

\* Overwrite keeps the length.
LEMMA OverwriteFacts ==
  ASSUME NEW data \in Seq(Byte), NEW off \in Nat, NEW bytes \in Seq(Byte)
  PROVE  /\ Overwrite(data, off, bytes) \in Seq(Byte)
         /\ Len(Overwrite(data, off, bytes)) = Len(data)
<1>1. ASSUME NEW k \in 1..Len(data)
      PROVE  (IF k > off /\ k <= off + Len(bytes) THEN bytes[k - off] ELSE data[k]) \in Byte
  <2>1. CASE k > off /\ k <= off + Len(bytes)
    <3>1. k - off \in 1..Len(bytes)
      BY <2>1
    <3> QED
      BY <2>1, <3>1
  <2>2. CASE ~(k > off /\ k <= off + Len(bytes))
    BY <2>2
  <2> QED
    BY <2>1, <2>2
<1> QED
  BY <1>1 DEF Overwrite

\* A chunk that does not pass the end has the length asked for.
LEMMA ChunkFacts ==
  ASSUME NEW data \in Seq(Byte), NEW off \in Nat, NEW n \in Nat,
         off + n <= Len(data)
  PROVE  /\ Chunk(data, off, n) \in Seq(Byte)
         /\ Len(Chunk(data, off, n)) = n
<1>1. \A k \in 1..n : data[off + k] \in Byte
  OBVIOUS
<1> QED
  BY <1>1 DEF Chunk

LEMMA AtMostFacts ==
  ASSUME NEW n \in Nat, NEW limit \in Nat
  PROVE  AtMost(n, limit) \in Nat /\ AtMost(n, limit) <= n /\ AtMost(n, limit) <= limit
  BY DEF AtMost
-----------------------------------------------------------------------------
(* Frames *)

\* a frame before it is given an index or a value
Bare(m) == m \in FrameFields /\ m.idx = NoIdx /\ ~m.exp

LEMMA BareFrames ==
  /\ Bare(Frame(0)) /\ Bare(Frame(1)) /\ Bare(Frame(2)) /\ Bare(Frame(3))
  /\ Bare(Frame(4)) /\ Bare(Frame(5)) /\ Bare(Frame(6))
<1>1. ASSUME NEW cs \in 0..7 PROVE Bare(Frame(cs))
  <2>1. (cs % 4) * CsUnit \in Nat
    BY FrameAssumption
  <2>2. <<>> \in Seq(Byte)
    OBVIOUS
  <2> QED
    BY <2>1, <2>2 DEF Bare, FrameFields, Frame, Errors
<1> QED
  BY <1>1

\* One field more, other than the value.
LEMMA BareUpdates ==
  ASSUME NEW m, Bare(m)
  PROVE  /\ m \in Frames
         /\ \A e \in Errors : [m EXCEPT !.err = e] \in Frames
         /\ \A n \in Nat : [m EXCEPT !.size = n] \in Frames
         /\ \A s \in 0..2 : [m EXCEPT !.ss = s] \in Frames
  BY IndexAssumption DEF Bare, FrameFields, Frames

\* An expedited frame carries as many bytes as it announces.
LEMMA ValueUpdate ==
  ASSUME NEW m \in FrameFields, m.idx # Payload,
         NEW bytes \in Seq(Byte), NEW n \in Nat, n = Len(bytes)
  PROVE  /\ [m EXCEPT !.exp = TRUE, !.size = n, !.data = bytes] \in Frames
         /\ [m EXCEPT !.exp = TRUE, !.size = n, !.data = bytes].idx = m.idx
<1> DEFINE m1 == [m EXCEPT !.exp = TRUE]
           m2 == [m1 EXCEPT !.size = n]
           m3 == [m2 EXCEPT !.data = bytes]
<1>1. m1 \in FrameFields /\ m1.idx = m.idx
  BY DEF FrameFields
<1> HIDE DEF m1
<1>2. m2 \in FrameFields /\ m2.idx = m.idx /\ m2.size = n
  BY <1>1 DEF FrameFields
<1> HIDE DEF m2
<1>3. m3 \in FrameFields /\ m3.idx = m.idx /\ m3.size = n /\ m3.data = bytes
  BY <1>2 DEF FrameFields
<1>4. m3 \in Frames
  BY <1>3 DEF Frames
<1> QED
  BY <1>3, <1>4 DEF m1, m2

LEMMA SegmentFrame ==
  ASSUME NEW bytes \in Seq(Byte), NEW last \in BOOLEAN
  PROVE  Segment(bytes, last) \in Frames
<1> DEFINE m1 == [Frame(0) EXCEPT !.data = bytes]
           m2 == [m1 EXCEPT !.last = last]
<1>1. ASSUME NEW m, Bare(m)
      PROVE  Bare([m EXCEPT !.data = bytes])
  BY <1>1 DEF Bare, FrameFields
<1>2. Bare(m1)
  BY <1>1, BareFrames, Zenon
<1> HIDE DEF m1
<1>3. m2 \in Frames
  BY <1>2, IndexAssumption DEF Bare, Frames, FrameFields
<1> QED
  BY <1>3 DEF m1, Segment

\* Every frame the server sends is a frame.
LEMMA ReplyFrames ==
  /\ \A e \in Errors : AbortFrame(e) \in Frames
  /\ \A bytes \in Seq(Byte) : ExpeditedUpload(bytes) \in Frames
  /\ \A n \in Nat : UploadResponse(n) \in Frames
  /\ DownloadResponse \in Frames
  /\ DownloadSegResponse \in Frames
  /\ \A s \in 0..2 : BlockResponse(s) \in Frames
<1>1. \A e \in Errors : AbortFrame(e) \in Frames
  BY BareFrames, BareUpdates, Zenon DEF AbortFrame
<1>2. ASSUME NEW bytes \in Seq(Byte) PROVE ExpeditedUpload(bytes) \in Frames
  <2>1. Frame(2) \in FrameFields /\ Frame(2).idx # Payload /\ Len(bytes) \in Nat
    BY BareFrames, IndexAssumption DEF Bare
  <2> QED
    BY <2>1, ValueUpdate, Zenon DEF ExpeditedUpload
<1>3. \A n \in Nat : UploadResponse(n) \in Frames
  BY BareFrames, BareUpdates, Zenon DEF UploadResponse
<1>4. DownloadResponse \in Frames
  BY BareFrames, BareUpdates, Zenon DEF DownloadResponse
<1>5. DownloadSegResponse \in Frames
  BY BareFrames, BareUpdates, Zenon DEF DownloadSegResponse
<1>6. \A s \in 0..2 : BlockResponse(s) \in Frames
  BY BareFrames, BareUpdates, Zenon DEF BlockResponse
<1> QED
  BY <1>1, <1>2, <1>3, <1>4, <1>5, <1>6

\* Every request of the client is a frame.
LEMMA RequestFrames ==
  ASSUME NEW i \in Idx \cup {NoIdx}, NEW n \in Nat
  PROVE  /\ UploadRequest(i) \in Frames
         /\ UploadSegRequest \in Frames
         /\ \A bytes \in Seq(Byte) : ExpeditedDownload(i, bytes) \in Frames
         /\ DownloadRequest(i, n) \in Frames
         /\ BlockRequest(i) \in Frames
         /\ BlockEndRequest(n) \in Frames
<1>1. ASSUME NEW m, Bare(m)
      PROVE  /\ [m EXCEPT !.idx = i] \in Frames
             /\ [m EXCEPT !.idx = i] \in FrameFields
             /\ [m EXCEPT !.idx = i].idx # Payload
             /\ ~[m EXCEPT !.idx = i].exp
  BY <1>1, IndexAssumption DEF Bare, Frames, FrameFields
<1>2. ASSUME NEW m, Bare(m), NEW k \in Nat
      PROVE  [m EXCEPT !.idx = i, !.size = k] \in Frames
  <2> DEFINE m1 == [m EXCEPT !.idx = i]
  <2>1. m1 \in FrameFields /\ m1.idx # Payload /\ ~m1.exp
    BY <1>1, <1>2
  <2> HIDE DEF m1
  <2>2. [m1 EXCEPT !.size = k] \in Frames
    BY <2>1 DEF Frames, FrameFields
  <2> QED
    BY <2>2 DEF m1
<1>3. UploadRequest(i) \in Frames
  BY <1>1, BareFrames, Zenon DEF UploadRequest
<1>4. UploadSegRequest \in Frames
  BY BareFrames, BareUpdates, Zenon DEF UploadSegRequest
<1>5. ASSUME NEW bytes \in Seq(Byte) PROVE ExpeditedDownload(i, bytes) \in Frames
  <2>1. Len(bytes) \in Nat
    OBVIOUS
  <2> QED
    BY <1>1, <2>1, BareFrames, ValueUpdate, Zenon DEF ExpeditedDownload
<1>6. DownloadRequest(i, n) \in Frames
  BY <1>2, BareFrames, Zenon DEF DownloadRequest
<1>7. BlockRequest(i) \in Frames
  <2>1. SegmentBytes \in Nat
    BY FrameAssumption
  <2> QED
    BY <1>2, <2>1, BareFrames, Zenon DEF BlockRequest
<1>8. BlockEndRequest(n) \in Frames
  BY BareFrames, BareUpdates, Zenon DEF BlockEndRequest
<1> QED
  BY <1>3, <1>4, <1>5, <1>6, <1>7, <1>8

\* A block segment is a frame: its sequence number has seven bits.
LEMMA BlockSegmentFrame ==
  ASSUME NEW bytes \in Seq(Byte), NEW k \in 1..NumSubBlockSegments,
         NEW complete \in BOOLEAN
  PROVE  BlockSegment(bytes, k, complete) \in Frames
<1> DEFINE cs == (IF complete THEN 4 ELSE 0) + (k \div CsUnit)
           m0 == Frame(cs)
           m1 == [m0 EXCEPT !.idx = Payload]
           m2 == [m1 EXCEPT !.data = Pad(bytes)]
           m3 == [m2 EXCEPT !.seq = k]
           m4 == [m3 EXCEPT !.last = (k % 2 = 1)]
           m5 == [m4 EXCEPT !.err = "DataXfer"]
<1>1. k \div CsUnit \in 0..3
  <2> DEFINE q == k \div CsUnit
  <2>1. q \in Nat /\ q * CsUnit <= k
    BY FrameAssumption
  <2>2. CASE q >= 4
    <3>1. q * CsUnit >= 4 * CsUnit
      BY <2>1, <2>2, FrameAssumption
    <3> QED
      BY <3>1, <2>1, FrameAssumption
  <2> QED
    BY <2>1, <2>2
<1>2. cs \in 0..7
  BY <1>1
<1>3. Pad(bytes) \in Seq(Byte) /\ Len(Pad(bytes)) = SegmentBytes
  BY ResizeFacts, FrameAssumption DEF Pad
<1> HIDE DEF cs
<1>4. m0 \in FrameFields /\ ~m0.exp
  <2>1. (cs % 4) * CsUnit \in Nat
    BY <1>2, FrameAssumption
  <2>2. <<>> \in Seq(Byte)
    OBVIOUS
  <2> QED
    BY <1>2, <2>1, <2>2 DEF FrameFields, Frame, Errors
<1> HIDE DEF m0
<1>5. m1 \in FrameFields /\ ~m1.exp
  BY <1>4 DEF FrameFields
<1> HIDE DEF m1
<1>6. m2 \in FrameFields /\ ~m2.exp /\ Len(m2.data) = SegmentBytes
  BY <1>3, <1>5 DEF FrameFields
<1> HIDE DEF m2
<1>7. m3 \in FrameFields /\ ~m3.exp /\ Len(m3.data) = SegmentBytes
  <2>1. k \in Nat
    BY FrameAssumption
  <2> QED
    BY <1>6, <2>1 DEF FrameFields
<1> HIDE DEF m3
<1>8. m4 \in FrameFields /\ ~m4.exp /\ Len(m4.data) = SegmentBytes
  BY <1>7 DEF FrameFields
<1> HIDE DEF m4
<1>9. m5 \in FrameFields /\ ~m5.exp /\ Len(m5.data) = SegmentBytes
  BY <1>8 DEF FrameFields, Errors
<1>10. m5 \in Frames
  BY <1>9 DEF Frames
<1> QED
  BY <1>10, Zenon DEF BlockSegment, cs, m0, m1, m2, m3, m4

\* What a server without a transaction reads is a request for an entry or
\* for an index that is in no dictionary.
LEMMA RequestFacts ==
  ASSUME NEW m \in Frames, NEW r \in Requests(m)
  PROVE  r \in Frames /\ r.idx \in Idx \cup {NoIdx}
<1>1. CASE m.idx # Payload
  BY <1>1 DEF Requests, Frames, FrameFields
<1>2. CASE m.idx = Payload
  <2>1. Len(m.data) = SegmentBytes /\ m.data \in Seq(Byte)
    BY <1>2 DEF Frames, FrameFields
  <2>2. ASSUME NEW i \in Idx \cup {NoIdx}
        PROVE  [m EXCEPT !.idx = i] \in FrameFields /\ [m EXCEPT !.idx = i].idx = i
    BY DEF Frames, FrameFields
  <2>3. ASSUME NEW i \in Idx \cup {NoIdx}, NEW n \in 0..ExpeditedBytes
        PROVE  ReadExpedited(m, i, n) \in Frames /\ ReadExpedited(m, i, n).idx = i
    <3> DEFINE m1 == [m EXCEPT !.idx = i]
               bytes == Chunk(m.data, 0, n)
    <3>1. bytes \in Seq(Byte) /\ Len(bytes) = n /\ n \in Nat
      BY <2>1, ChunkFacts, FrameAssumption
    <3>2. m1 \in FrameFields /\ m1.idx = i /\ i # Payload
      BY <2>2, IndexAssumption
    <3>3. ReadExpedited(m, i, n) = [m1 EXCEPT !.exp = TRUE, !.size = n, !.data = bytes]
      BY Zenon DEF ReadExpedited
    <3> HIDE DEF m1, bytes
    <3> DEFINE r1 == [m1 EXCEPT !.exp = TRUE, !.size = n, !.data = bytes]
    <3>4. m1.idx # Payload
      BY <3>2
    <3>5. r1 \in Frames /\ r1.idx = m1.idx
      BY <3>1, <3>2, <3>4, ValueUpdate, Zenon
    <3> HIDE DEF r1
    <3>6. r1 \in Frames /\ r1.idx = i
      BY <3>2, <3>5
    <3> QED
      BY <3>3, <3>6, Zenon DEF r1
  <2>4. ASSUME NEW i \in Idx \cup {NoIdx}, NEW n \in StraySizes
        PROVE  ReadSized(m, i, n) \in Frames /\ ReadSized(m, i, n).idx = i
    <3> DEFINE m1 == [m EXCEPT !.idx = i]
               m2 == [m1 EXCEPT !.exp = FALSE]
               m3 == [m2 EXCEPT !.size = n]
    <3>1. m1 \in FrameFields /\ m1.idx = i
      BY <2>2
    <3> HIDE DEF m1
    <3>2. m2 \in FrameFields /\ m2.idx = i /\ ~m2.exp
      BY <3>1 DEF FrameFields
    <3> HIDE DEF m2
    <3>3. m3 \in Frames /\ m3.idx = i
      BY <3>2, FrameAssumption, IndexAssumption DEF FrameFields, Frames
    <3> QED
      BY <3>3, Zenon DEF m1, m2, ReadSized
  <2> QED
    BY <1>2, <2>3, <2>4 DEF Requests
<1> QED
  BY <1>1, <1>2
-----------------------------------------------------------------------------
(* Shapes of a step on the entries and the transactions that hold them *)

ServerInBounds ==
  \A c \in Chan : srv[c].mode # "none" => srv[c].off <= Len(od[srv[c].idx].data)

\* the part of SdoInv that is about the server
ServerInv ==
  /\ od \in [Idx -> Entries]
  /\ srv \in [Chan -> Servers]
  /\ EntryOwnership
  /\ ServerInBounds
  /\ ServersHoldEntries
  /\ SegmentHeldBack

\* only entry i changes
OnlyEntry(i) ==
  /\ od' \in [Idx -> Entries]
  /\ \A j \in Idx \ {i} : od'[j] = od[j]

Idles == od' = od /\ srv' = srv

\* a free entry is used, and is free again
Uses(i) == ~od[i].locked /\ ~od'[i].locked /\ OnlyEntry(i) /\ srv' = srv

\* a channel without a transaction opens one on a free entry
Acquires(c, i) ==
  /\ srv[c].mode = "none"
  /\ ~od[i].locked /\ od'[i].locked /\ OnlyEntry(i)
  /\ \E s \in Servers : /\ s.mode # "none" /\ s.idx = i
                        /\ s.off = 0 /\ s.state = "Start"
                        /\ srv' = [srv EXCEPT ![c] = s]

\* a transaction goes on with the entry it holds
GoesOn(c, i) ==
  /\ srv[c].mode # "none" /\ srv[c].idx = i
  /\ od'[i].locked /\ OnlyEntry(i)
  /\ Len(od'[i].data) = Len(od[i].data)
  /\ \E s \in Servers : /\ s.mode = srv[c].mode /\ s.idx = i
                        /\ s.off <= Len(od[i].data)
                        /\ \/ s.mode # "block"
                           \/ s.state = "Start"
                           \/ s.finished
                           \/ Len(s.lastSegment) = SegmentBytes
                        /\ srv' = [srv EXCEPT ![c] = s]

\* a transaction ends and gives its entry back
Concludes(c, i) ==
  /\ srv[c].mode # "none" /\ srv[c].idx = i
  /\ ~od'[i].locked /\ OnlyEntry(i)
  /\ srv' = [srv EXCEPT ![c] = NoServer]

Effect(c) ==
  \/ Idles
  \/ \E i \in Idx : Uses(i) \/ Acquires(c, i) \/ GoesOn(c, i) \/ Concludes(c, i)

LEMMA UsesKeeps ==
  ASSUME ServerInv, NEW i \in Idx, Uses(i)
  PROVE  ServerInv'
<1> USE DEF Uses
<1>1. \A c \in Chan : ~Owns(c, i)
  BY DEF ServerInv, EntryOwnership
<1>2. \A c \in Chan : srv[c].mode # "none" => od'[srv[c].idx] = od[srv[c].idx]
  BY <1>1 DEF ServerInv, ServersHoldEntries, Owns, OnlyEntry
<1>3. EntryOwnership'
  BY <1>1 DEF ServerInv, EntryOwnership, Owns, OnlyEntry
<1>4. ServerInBounds'
  BY <1>2 DEF ServerInv, ServerInBounds
<1> QED
  BY <1>3, <1>4 DEF ServerInv, OnlyEntry, ServersHoldEntries, SegmentHeldBack

LEMMA AcquiresKeeps ==
  ASSUME ServerInv, NEW c \in Chan, NEW i \in Idx, Acquires(c, i)
  PROVE  ServerInv'
<1> PICK s \in Servers : /\ s.mode # "none" /\ s.idx = i
                        /\ s.off = 0 /\ s.state = "Start"
                        /\ srv' = [srv EXCEPT ![c] = s]
  BY DEF Acquires
<1> USE DEF Acquires
<1>1. \A d \in Chan : ~Owns(d, i)
  BY DEF ServerInv, EntryOwnership
<1>2. srv' \in [Chan -> Servers] /\ srv'[c] = s /\ \A d \in Chan \ {c} : srv'[d] = srv[d]
  BY DEF ServerInv
<1>3. \A d \in Chan \ {c} : srv[d].mode # "none" => od'[srv[d].idx] = od[srv[d].idx]
  BY <1>1 DEF ServerInv, ServersHoldEntries, Owns, OnlyEntry
<1>4. EntryOwnership'
  BY <1>1, <1>2 DEF ServerInv, EntryOwnership, Owns, OnlyEntry
<1>5. ServerInBounds'
  <2>1. Len(od'[i].data) \in Nat
    BY DEF OnlyEntry, Entries
  <2> QED
    BY <1>2, <1>3, <2>1 DEF ServerInv, ServerInBounds
<1>6. ServersHoldEntries'
  BY <1>2 DEF ServerInv, ServersHoldEntries
<1>7. SegmentHeldBack'
  BY <1>2 DEF ServerInv, SegmentHeldBack
<1> QED
  BY <1>2, <1>4, <1>5, <1>6, <1>7 DEF ServerInv, OnlyEntry

LEMMA GoesOnKeeps ==
  ASSUME ServerInv, NEW c \in Chan, NEW i \in Idx, GoesOn(c, i)
  PROVE  ServerInv'
<1> PICK s \in Servers : /\ s.mode = srv[c].mode /\ s.idx = i
                        /\ s.off <= Len(od[i].data)
                        /\ \/ s.mode # "block"
                           \/ s.state = "Start"
                           \/ s.finished
                           \/ Len(s.lastSegment) = SegmentBytes
                        /\ srv' = [srv EXCEPT ![c] = s]
  BY DEF GoesOn
<1> USE DEF GoesOn
<1>1. \A d \in Chan : Owns(d, i) <=> d = c
  BY DEF ServerInv, EntryOwnership, Owns
<1>2. srv' \in [Chan -> Servers] /\ srv'[c] = s /\ \A d \in Chan \ {c} : srv'[d] = srv[d]
  BY DEF ServerInv
<1>3. \A d \in Chan \ {c} : srv[d].mode # "none" => od'[srv[d].idx] = od[srv[d].idx]
  BY <1>1 DEF ServerInv, ServersHoldEntries, Owns, OnlyEntry
<1>4. EntryOwnership'
  BY <1>1, <1>2 DEF ServerInv, EntryOwnership, Owns, OnlyEntry
<1>5. ServerInBounds'
  BY <1>2, <1>3 DEF ServerInv, ServerInBounds
<1>6. ServersHoldEntries'
  BY <1>2 DEF ServerInv, ServersHoldEntries
<1>7. SegmentHeldBack'
  BY <1>2 DEF ServerInv, SegmentHeldBack
<1> QED
  BY <1>2, <1>4, <1>5, <1>6, <1>7 DEF ServerInv, OnlyEntry

LEMMA ConcludesKeeps ==
  ASSUME ServerInv, NEW c \in Chan, NEW i \in Idx, Concludes(c, i)
  PROVE  ServerInv'
<1> USE DEF Concludes
<1>1. \A d \in Chan : Owns(d, i) <=> d = c
  BY DEF ServerInv, EntryOwnership, Owns
<1>2. NoServer \in Servers /\ NoServer.mode = "none"
  BY DEF NoServer, Servers
<1>3. srv' \in [Chan -> Servers] /\ srv'[c] = NoServer /\ \A d \in Chan \ {c} : srv'[d] = srv[d]
  BY <1>2 DEF ServerInv
<1>4. \A d \in Chan \ {c} : srv[d].mode # "none" => od'[srv[d].idx] = od[srv[d].idx]
  BY <1>1 DEF ServerInv, ServersHoldEntries, Owns, OnlyEntry
<1>5. EntryOwnership'
  BY <1>1, <1>2, <1>3 DEF ServerInv, EntryOwnership, Owns, OnlyEntry
<1>6. ServerInBounds'
  BY <1>2, <1>3, <1>4 DEF ServerInv, ServerInBounds
<1>7. ServersHoldEntries'
  BY <1>2, <1>3 DEF ServerInv, ServersHoldEntries
<1>8. SegmentHeldBack'
  BY <1>2, <1>3 DEF ServerInv, SegmentHeldBack
<1> QED
  BY <1>3, <1>5, <1>6, <1>7, <1>8 DEF ServerInv, OnlyEntry
LEMMA IdlesKeeps ==
  ASSUME ServerInv, Idles
  PROVE  ServerInv'
  BY DEF ServerInv, Idles, EntryOwnership, Owns, ServerInBounds,
         ServersHoldEntries, SegmentHeldBack

\* Whatever the shape, the server's part of the invariant is kept.
LEMMA EffectKeeps ==
  ASSUME ServerInv, NEW c \in Chan, Effect(c)
  PROVE  ServerInv'
<1>1. CASE Idles
  BY <1>1, IdlesKeeps
<1>2. ASSUME NEW i \in Idx,
             Uses(i) \/ Acquires(c, i) \/ GoesOn(c, i) \/ Concludes(c, i)
      PROVE  ServerInv'
  BY <1>2, UsesKeeps, AcquiresKeeps, GoesOnKeeps, ConcludesKeeps, Zenon
<1> QED
  BY <1>1, <1>2, Zenon DEF Effect
-----------------------------------------------------------------------------
(* What the handlers of the server are made of *)

\* what a step of the server leaves to be proved
ServerIO ==
  /\ toCli \in [Chan -> Seq(Frames)]
  /\ witness \in [Chan -> Witnesses]

ServerStep(c) == Effect(c) /\ ServerIO'

\* One entry is replaced.
LEMMA EntryReplaced ==
  ASSUME od \in [Idx -> Entries], NEW i \in Idx, NEW e \in Entries,
         od' = [od EXCEPT ![i] = e]
  PROVE  OnlyEntry(i) /\ od'[i] = e
  BY DEF OnlyEntry

\* A reply is added to the frames under way.
LEMMA ReplyIsFrames ==
  ASSUME toCli \in [Chan -> Seq(Frames)], NEW c \in Chan,
         NEW frames \in Seq(Frames), Reply(c, frames)
  PROVE  toCli' \in [Chan -> Seq(Frames)]
<1>1. toCli[c] \o frames \in Seq(Frames)
  OBVIOUS
<1> QED
  BY <1>1 DEF Reply, Send

LEMMA ReplyIsFrame ==
  ASSUME toCli \in [Chan -> Seq(Frames)], NEW c \in Chan,
         NEW frame \in Frames, Reply(c, <<frame>>)
  PROVE  toCli' \in [Chan -> Seq(Frames)]
<1>1. <<frame>> \in Seq(Frames)
  OBVIOUS
<1> QED
  BY <1>1, ReplyIsFrames, Zenon

LEMMA WitnessSet ==
  ASSUME witness \in [Chan -> Witnesses], NEW c \in Chan,
         NEW i \in Idx, NEW bytes \in Seq(Byte), NEW data \in Seq(Byte),
         witness' = [witness EXCEPT ![c] =
                       [idx |-> i, carried |-> bytes, stored |-> data]]
  PROVE  witness' \in [Chan -> Witnesses]
  BY DEF Witnesses

LEMMA AcknowledgeIsWitness ==
  ASSUME witness \in [Chan -> Witnesses], NEW c \in Chan, NEW i \in Idx,
         NEW data \in Seq(Byte), NEW n \in Nat, n <= Len(data),
         Acknowledge(c, i, n, data)
  PROVE  witness' \in [Chan -> Witnesses]
<1>1. Chunk(data, 0, n) \in Seq(Byte)
  BY ChunkFacts
<1> QED
  BY <1>1, WitnessSet, Zenon DEF Acknowledge

\* A released entry is free, and keeps its bytes.
LEMMA ReleaseFacts ==
  ASSUME NEW e \in Entries, NEW data \in Seq(Byte),
         NEW changed \in BOOLEAN, NEW senderIsFinished \in BOOLEAN
  PROVE  LET r == Release([e EXCEPT !.data = data], changed, senderIsFinished)
         IN  r \in Entries /\ ~r.locked /\ r.data = data
<1> DEFINE e1 == [e EXCEPT !.data = data]
<1>1. e1 \in Entries /\ e1.data = data
  BY DEF Entries
<1>2. Release(e1, changed, senderIsFinished) =
        [e1 EXCEPT !.locked = FALSE,
                   !.published = IF changed THEN e1.data ELSE @,
                   !.notified = IF changed /\ senderIsFinished THEN e1.data ELSE @]
  BY Zenon DEF Release
<1>3. Release(e1, changed, senderIsFinished) =
        [data |-> e1.data, locked |-> FALSE,
         published |-> IF changed THEN e1.data ELSE e1.published,
         notified |-> IF changed /\ senderIsFinished THEN e1.data ELSE e1.notified]
  <2> HIDE DEF e1
  <2> QED
    BY <1>1, <1>2 DEF Entries
<1> HIDE DEF e1
<1>4. LET r == Release(e1, changed, senderIsFinished)
      IN  r \in Entries /\ ~r.locked /\ r.data = data
  BY <1>1, <1>3 DEF Entries
<1> QED
  BY <1>4, Zenon DEF e1

\* The transaction on c holds an entry, and its offset is inside it.
LEMMA Holder ==
  ASSUME ServerInv, NEW c \in Chan, srv[c].mode # "none"
  PROVE  /\ srv[c] \in Servers
         /\ srv[c].idx \in Idx
         /\ od[srv[c].idx] \in Entries
         /\ od[srv[c].idx].data \in Seq(Byte)
         /\ od[srv[c].idx].locked
         /\ srv[c].off \in Nat
         /\ srv[c].off <= Len(od[srv[c].idx].data)
         /\ srv[c].changed \in BOOLEAN
  BY DEF ServerInv, ServersHoldEntries, ServerInBounds, EntryOwnership, Owns,
         Servers, Entries

\* An entry that gives a proxy exists and is free.
LEMMA FreeEntry ==
  ASSUME ServerInv, NEW i, MakeProxyError(i) = "Success"
  PROVE  /\ i \in Idx
         /\ od[i] \in Entries
         /\ od[i].data \in Seq(Byte)
         /\ ~od[i].locked
  BY DEF ServerInv, MakeProxyError, Entries

LEMMA ErrorsAreErrors ==
  /\ \A i : MakeProxyError(i) \in Errors /\ CopyIntoError(i) \in Errors
  /\ \A i, off, n : CopyFromError(i, off, n) \in Errors
  BY DEF MakeProxyError, CopyIntoError, CopyFromError, Errors

LEMMA ConcludeEffect ==
  ASSUME ServerInv, NEW c \in Chan, srv[c].mode # "none",
         NEW data \in Seq(Byte), NEW changed \in BOOLEAN,
         NEW senderIsFinished \in BOOLEAN,
         Conclude(c, data, changed, senderIsFinished)
  PROVE  /\ Concludes(c, srv[c].idx)
         /\ od'[srv[c].idx].data = data
         /\ Effect(c)
<1> DEFINE i == srv[c].idx
           e == Release([od[i] EXCEPT !.data = data], changed, senderIsFinished)
<1>1. i \in Idx /\ od[i] \in Entries
  BY Holder
<1>2. e \in Entries /\ ~e.locked /\ e.data = data
  BY <1>1, ReleaseFacts
<1>3. od' = [od EXCEPT ![i] = e] /\ srv' = [srv EXCEPT ![c] = NoServer]
  BY DEF Conclude
<1> HIDE DEF e
<1>4. OnlyEntry(i) /\ od'[i] = e
  BY <1>1, <1>2, <1>3, EntryReplaced DEF ServerInv
<1> QED
  BY <1>1, <1>2, <1>3, <1>4 DEF Concludes, Effect

LEMMA FailEffect ==
  ASSUME ServerInv, ServerIO, NEW c \in Chan, srv[c].mode # "none",
         NEW e \in Errors, Fail(c, e)
  PROVE  /\ ServerStep(c)
         /\ Concludes(c, srv[c].idx)
         /\ od'[srv[c].idx].data = od[srv[c].idx].data
<1>1. /\ Reply(c, <<AbortFrame(e)>>)
      /\ Conclude(c, od[srv[c].idx].data, srv[c].changed, FALSE)
      /\ witness' = witness
  BY DEF Fail
<1>2. AbortFrame(e) \in Frames
  BY ReplyFrames
<1>3. ServerIO'
  BY <1>1, <1>2, ReplyIsFrame DEF ServerIO
<1> QED
  BY <1>1, <1>3, Holder, ConcludeEffect DEF ServerStep

LEMMA RefuseStep ==
  ASSUME ServerIO, NEW c \in Chan, NEW e \in Errors, Refuse(c, e)
  PROVE  ServerStep(c)
<1>1. AbortFrame(e) \in Frames
  BY ReplyFrames
<1> QED
  BY <1>1, ReplyIsFrame DEF ServerIO, Refuse, serverVars, ServerStep, Effect, Idles

LEMMA SilentStep ==
  ASSUME ServerIO, NEW c \in Chan, UNCHANGED <<toCli, od, srv, witness>>
  PROVE  ServerStep(c)
  BY DEF ServerIO, ServerStep, Effect, Idles
-----------------------------------------------------------------------------
(* The handlers of a server without a transaction *)

LEMMA UploadInitiateRefusedStep ==
  ASSUME ServerInv, ServerIO, NEW c \in Chan, NEW m \in Frames,
         UploadInitiateRefused(c, m)
  PROVE  ServerStep(c)
  BY RefuseStep, ErrorsAreErrors DEF UploadInitiateRefused

LEMMA UploadInitiateExpeditedStep ==
  ASSUME ServerInv, ServerIO, NEW c \in Chan, NEW m \in Frames,
         UploadInitiateExpedited(c, m)
  PROVE  ServerStep(c)
<1> DEFINE i == m.idx
<1>1. i \in Idx /\ od[i].data \in Seq(Byte)
  BY FreeEntry DEF UploadInitiateExpedited
<1>2. CASE CopyIntoError(i) # "Success"
  BY <1>2, RefuseStep, ErrorsAreErrors DEF UploadInitiateExpedited
<1>3. CASE CopyIntoError(i) = "Success"
  <2>1. /\ Reply(c, <<ExpeditedUpload(od[i].data)>>)
        /\ witness' = [witness EXCEPT ![c] =
                         [idx |-> i, carried |-> od[i].data, stored |-> od[i].data]]
        /\ UNCHANGED <<od, srv>>
    BY <1>3 DEF UploadInitiateExpedited
  <2>2. ExpeditedUpload(od[i].data) \in Frames
    BY <1>1, ReplyFrames
  <2>3. ServerIO'
    BY <1>1, <2>1, <2>2, ReplyIsFrame, WitnessSet DEF ServerIO
  <2> QED
    BY <2>1, <2>3 DEF ServerStep, Effect, Idles
<1> QED
  BY <1>2, <1>3

\* A new transaction starts at the beginning of an entry it has locked.
LEMMA NewServers ==
  ASSUME NEW i \in Idx, NEW s \in {NewServer(i), NewServerBlockMode(i)}
  PROVE  /\ s \in Servers
         /\ s.mode # "none" /\ s.idx = i /\ s.off = 0 /\ s.state = "Start"
<1>1. NoServer \in Servers /\ NoServer.off = 0 /\ NoServer.state = "Start"
  BY DEF NoServer, Servers
<1>2. NewServer(i) \in Servers /\ NewServer(i).mode = "segmented"
      /\ NewServer(i).idx = i /\ NewServer(i).off = 0 /\ NewServer(i).state = "Start"
  BY <1>1 DEF NewServer, Servers
<1>3. NewServerBlockMode(i) \in Servers /\ NewServerBlockMode(i).mode = "block"
      /\ NewServerBlockMode(i).idx = i /\ NewServerBlockMode(i).off = 0
      /\ NewServerBlockMode(i).state = "Start"
  BY <1>1 DEF NewServerBlockMode, Servers
<1> QED
  BY <1>2, <1>3

LEMMA AcquireEffect ==
  ASSUME ServerInv, NEW c \in Chan, srv[c].mode = "none",
         NEW i, MakeProxyError(i) = "Success",
         NEW e \in Entries, e.locked, od' = [od EXCEPT ![i] = e],
         NEW s \in {NewServer(i), NewServerBlockMode(i)},
         srv' = [srv EXCEPT ![c] = s]
  PROVE  Effect(c)
<1>1. i \in Idx /\ ~od[i].locked
  BY FreeEntry
<1>2. OnlyEntry(i) /\ od'[i] = e
  BY <1>1, EntryReplaced DEF ServerInv
<1>3. /\ s \in Servers
      /\ s.mode # "none" /\ s.idx = i /\ s.off = 0 /\ s.state = "Start"
  BY <1>1, NewServers
<1>4. Acquires(c, i)
  BY <1>1, <1>2, <1>3 DEF Acquires
<1> QED
  BY <1>1, <1>4 DEF Effect

LEMMA UseEffect ==
  ASSUME ServerInv, NEW c, NEW i, MakeProxyError(i) = "Success",
         NEW e \in Entries, ~e.locked, od' = [od EXCEPT ![i] = e], srv' = srv
  PROVE  Effect(c)
<1>1. i \in Idx /\ ~od[i].locked
  BY FreeEntry
<1>2. OnlyEntry(i) /\ od'[i] = e
  BY <1>1, EntryReplaced DEF ServerInv
<1> QED
  BY <1>1, <1>2 DEF Uses, Effect

LEMMA UploadInitiateStep ==
  ASSUME ServerInv, ServerIO, NEW c \in Chan, NEW m \in Frames,
         UploadInitiate(c, m)
  PROVE  ServerStep(c)
<1> DEFINE i == m.idx
           e == [od[i] EXCEPT !.locked = TRUE]
<1>1. /\ srv[c].mode = "none"
      /\ MakeProxyError(i) = "Success"
      /\ Reply(c, <<UploadResponse(Len(od[i].data))>>)
      /\ srv' = [srv EXCEPT ![c] = NewServer(i)]
      /\ od' = [od EXCEPT ![i] = e]
      /\ witness' = [witness EXCEPT ![c] =
                       [idx |-> i, carried |-> od[i].data, stored |-> od[i].data]]
  BY DEF UploadInitiate, Initiates
<1>2. i \in Idx /\ od[i] \in Entries /\ od[i].data \in Seq(Byte)
  BY <1>1, FreeEntry
<1>3. e \in Entries /\ e.locked
  BY <1>2 DEF Entries
<1>4. UploadResponse(Len(od[i].data)) \in Frames
  BY <1>2, ReplyFrames
<1>5. ServerIO'
  BY <1>1, <1>2, <1>4, ReplyIsFrame, WitnessSet DEF ServerIO
<1> HIDE DEF e
<1>6. Effect(c)
  BY <1>1, <1>3, AcquireEffect
<1> QED
  BY <1>5, <1>6 DEF ServerStep

LEMMA DownloadInitiateRefusedStep ==
  ASSUME ServerInv, ServerIO, NEW c \in Chan, NEW m \in Frames,
         DownloadInitiateRefused(c, m)
  PROVE  ServerStep(c)
<1>1. "ParamLength" \in Errors
  BY DEF Errors
<1> QED
  BY <1>1, RefuseStep, ErrorsAreErrors DEF DownloadInitiateRefused

LEMMA FittedFacts ==
  ASSUME ServerInv, NEW i \in Idx, NEW n \in Nat
  PROVE  Fitted(i, n) \in Seq(Byte)
  BY ResizeFacts DEF Fitted, ServerInv, Entries

LEMMA DownloadInitiateExpeditedStep ==
  ASSUME ServerInv, ServerIO, NEW c \in Chan, NEW m \in Frames,
         DownloadInitiateExpedited(c, m)
  PROVE  ServerStep(c)
<1> DEFINE i == m.idx
<1>1. /\ MakeProxyError(i) = "Success"
      /\ i \in Idx /\ od[i] \in Entries /\ ~od[i].locked
      /\ srv' = srv
  BY FreeEntry DEF DownloadInitiateExpedited
<1>2. m.data \in Seq(Byte) /\ m.size \in Nat /\ m.size = Len(m.data)
  BY DEF DownloadInitiateExpedited, Frames, FrameFields
<1>3. CASE Access[i] = "RO"
  <2> DEFINE e == [od[i] EXCEPT !.data = Fitted(i, m.size)]
  <2>1. /\ Reply(c, <<AbortFrame("WriteViolation")>>)
        /\ od' = [od EXCEPT ![i] = e]
        /\ witness' = witness
    BY <1>3 DEF DownloadInitiateExpedited
  <2>2. e \in Entries /\ ~e.locked
    BY <1>1, <1>2, FittedFacts DEF Entries
  <2>3. AbortFrame("WriteViolation") \in Frames
    BY ReplyFrames DEF Errors
  <2>4. ServerIO'
    BY <2>1, <2>3, ReplyIsFrame DEF ServerIO
  <2> HIDE DEF e
  <2>5. Effect(c)
    BY <1>1, <2>1, <2>2, UseEffect
  <2> QED
    BY <2>4, <2>5 DEF ServerStep
<1>4. CASE Access[i] # "RO"
  <2> DEFINE e == Release([od[i] EXCEPT !.data = m.data], TRUE, TRUE)
  <2>1. /\ Reply(c, <<DownloadResponse>>)
        /\ od' = [od EXCEPT ![i] = e]
        /\ Acknowledge(c, i, m.size, m.data)
    BY <1>4 DEF DownloadInitiateExpedited
  <2>2. e \in Entries /\ ~e.locked
    BY <1>1, <1>2, ReleaseFacts
  <2>3. toCli' \in [Chan -> Seq(Frames)]
    BY <2>1, ReplyFrames, ReplyIsFrame DEF ServerIO
  <2>4. m.size <= Len(m.data)
    BY <1>2
  <2>5. witness' \in [Chan -> Witnesses]
    BY <1>1, <1>2, <2>1, <2>4, AcknowledgeIsWitness DEF ServerIO
  <2> HIDE DEF e
  <2>6. Effect(c)
    BY <1>1, <2>1, <2>2, UseEffect
  <2> QED
    BY <2>3, <2>5, <2>6 DEF ServerStep, ServerIO
<1> QED
  BY <1>3, <1>4

LEMMA DownloadInitiateStep ==
  ASSUME ServerInv, ServerIO, NEW c \in Chan, NEW m \in Frames,
         DownloadInitiate(c, m)
  PROVE  ServerStep(c)
<1> DEFINE i == m.idx
<1>1. /\ srv[c].mode = "none"
      /\ MakeProxyError(i) = "Success"
      /\ i \in Idx /\ od[i] \in Entries /\ ~od[i].locked
      /\ Reply(c, <<DownloadResponse>>)
  BY FreeEntry DEF DownloadInitiate, Initiates
<1>2. m.size \in Nat
  BY DEF Frames, FrameFields
<1>3. toCli' \in [Chan -> Seq(Frames)]
  BY <1>1, ReplyFrames, ReplyIsFrame DEF ServerIO
<1>4. CASE m.size > 0
  <2> DEFINE e == [od[i] EXCEPT !.data = Fitted(i, m.size), !.locked = TRUE]
  <2>1. /\ srv' = [srv EXCEPT ![c] = NewServer(i)]
        /\ od' = [od EXCEPT ![i] = e]
        /\ witness' = witness
    BY <1>4 DEF DownloadInitiate
  <2>2. e \in Entries /\ e.locked
    BY <1>1, <1>2, FittedFacts DEF Entries
  <2> HIDE DEF e
  <2>3. Effect(c)
    BY <1>1, <2>1, <2>2, AcquireEffect
  <2> QED
    BY <1>3, <2>1, <2>3 DEF ServerStep, ServerIO
<1>5. CASE ~(m.size > 0)
  <2> DEFINE e == [od[i] EXCEPT !.data = Fitted(i, 0)]
  <2>1. /\ od' = [od EXCEPT ![i] = e]
        /\ Acknowledge(c, i, 0, <<>>)
        /\ srv' = srv
    BY <1>5 DEF DownloadInitiate
  <2>2. e \in Entries /\ ~e.locked
    BY <1>1, FittedFacts DEF Entries
  <2>3. <<>> \in Seq(Byte) /\ 0 <= Len(<<>>)
    OBVIOUS
  <2>4. witness' \in [Chan -> Witnesses]
    BY <1>1, <2>1, <2>3, AcknowledgeIsWitness DEF ServerIO
  <2> HIDE DEF e
  <2>5. Effect(c)
    BY <1>1, <2>1, <2>2, UseEffect
  <2> QED
    BY <1>3, <2>4, <2>5 DEF ServerStep, ServerIO
<1> QED
  BY <1>4, <1>5

LEMMA BlockInitiateStep ==
  ASSUME ServerInv, ServerIO, NEW c \in Chan, NEW m \in Frames,
         BlockInitiate(c, m)
  PROVE  ServerStep(c)
<1> DEFINE i == m.idx
           e == [od[i] EXCEPT !.locked = TRUE]
<1>1. CASE MakeProxyError(i) = "Success"
  <2>1. /\ srv[c].mode = "none"
        /\ Reply(c, <<BlockResponse(0)>>)
        /\ srv' = [srv EXCEPT ![c] = NewServerBlockMode(i)]
        /\ od' = [od EXCEPT ![i] = e]
        /\ witness' = witness
    BY <1>1 DEF BlockInitiate, Initiates
  <2>2. e \in Entries /\ e.locked
    BY <1>1, FreeEntry DEF Entries
  <2>3. ServerIO'
    BY <2>1, ReplyFrames, ReplyIsFrame DEF ServerIO
  <2> HIDE DEF e
  <2>4. Effect(c)
    BY <1>1, <2>1, <2>2, AcquireEffect
  <2> QED
    BY <2>3, <2>4 DEF ServerStep
<1>2. CASE MakeProxyError(i) # "Success"
  BY <1>2, SilentStep DEF BlockInitiate
<1> QED
  BY <1>1, <1>2

LEMMA ProcessInitiateStep ==
  ASSUME ServerInv, ServerIO, NEW c \in Chan, NEW m \in Frames,
         ProcessInitiate(c, m)
  PROVE  ServerStep(c)
<1>1. CASE NotAnInitiate(c, m)
  BY <1>1, SilentStep DEF NotAnInitiate
<1> QED
  BY <1>1, UploadInitiateRefusedStep, UploadInitiateExpeditedStep,
     UploadInitiateStep, DownloadInitiateRefusedStep,
     DownloadInitiateExpeditedStep, DownloadInitiateStep, BlockInitiateStep,
     Zenon DEF ProcessInitiate
-----------------------------------------------------------------------------
(* The handlers of a segmented transaction *)

LEMMA GoesOnEffect ==
  ASSUME ServerInv, NEW c \in Chan, srv[c].mode # "none",
         NEW e \in Entries, e.locked, Len(e.data) = Len(od[srv[c].idx].data),
         od' = [od EXCEPT ![srv[c].idx] = e],
         NEW s \in Servers, s.mode = srv[c].mode, s.idx = srv[c].idx,
         s.off <= Len(e.data),
         \/ s.mode # "block"
         \/ s.state = "Start"
         \/ s.finished
         \/ Len(s.lastSegment) = SegmentBytes,
         srv' = [srv EXCEPT ![c] = s]
  PROVE  Effect(c)
<1> DEFINE i == srv[c].idx
<1>1. i \in Idx
  BY Holder
<1>2. OnlyEntry(i) /\ od'[i] = e
  BY <1>1, EntryReplaced DEF ServerInv
<1>3. GoesOn(c, i)
  BY <1>2 DEF GoesOn
<1> QED
  BY <1>1, <1>3 DEF Effect

\* ... which it may leave as it is.
LEMMA GoesOnUnchanged ==
  ASSUME ServerInv, NEW c \in Chan, srv[c].mode # "none", od' = od,
         NEW s \in Servers, s.mode = srv[c].mode, s.idx = srv[c].idx,
         s.off <= Len(od[srv[c].idx].data),
         \/ s.mode # "block"
         \/ s.state = "Start"
         \/ s.finished
         \/ Len(s.lastSegment) = SegmentBytes,
         srv' = [srv EXCEPT ![c] = s]
  PROVE  Effect(c)
<1> DEFINE i == srv[c].idx
<1>1. i \in Idx /\ od[i] \in Entries /\ od[i].locked
  BY Holder
<1>2. od' = [od EXCEPT ![i] = od[i]]
  BY <1>1 DEF ServerInv
<1> QED
  BY <1>1, <1>2, GoesOnEffect

\* The owner stores bytes that fit.
LEMMA StoredFacts ==
  ASSUME ServerInv, NEW c \in Chan, srv[c].mode # "none",
         NEW bytes \in Seq(Byte)
  PROVE  /\ Stored(c, bytes) \in Seq(Byte)
         /\ Len(Stored(c, bytes)) = Len(od[srv[c].idx].data)
         /\ [od[srv[c].idx] EXCEPT !.data = Stored(c, bytes)] \in Entries
         /\ [od[srv[c].idx] EXCEPT !.data = Stored(c, bytes)].locked
         /\ [od[srv[c].idx] EXCEPT !.data = Stored(c, bytes)].data = Stored(c, bytes)
<1>1. /\ Stored(c, bytes) \in Seq(Byte)
      /\ Len(Stored(c, bytes)) = Len(od[srv[c].idx].data)
  BY Holder, OverwriteFacts DEF Stored
<1>2. od[srv[c].idx] \in Entries /\ od[srv[c].idx].locked
  BY Holder
<1> QED
  BY <1>1, <1>2 DEF Entries

LEMMA CopyFromFits ==
  ASSUME ServerInv, NEW c \in Chan, srv[c].mode # "none", NEW n \in Nat,
         CopyFromError(srv[c].idx, srv[c].off, n) = "Success"
  PROVE  srv[c].off + n <= Len(od[srv[c].idx].data)
  BY Holder DEF CopyFromError

LEMMA ServerAbortedStep ==
  ASSUME ServerInv, ServerIO, NEW c \in Chan, NEW m \in Frames,
         ServerAborted(c, m)
  PROVE  ServerStep(c)
<1>1. srv[c].mode # "none" /\ Conclude(c, od[srv[c].idx].data, srv[c].changed, FALSE)
  BY DEF ServerAborted, InSegmented
<1> QED
  BY <1>1, Holder, ConcludeEffect DEF ServerAborted, ServerStep, ServerIO

LEMMA SegmentReadStep ==
  ASSUME ServerInv, ServerIO, NEW c \in Chan, NEW m \in Frames,
         SegmentRead(c, m)
  PROVE  ServerStep(c)
<1> DEFINE i == srv[c].idx
           off == srv[c].off
           n == AtMost(Remaining(c), SegmentBytes)
           complete == Remaining(c) <= SegmentBytes
           s == [srv[c] EXCEPT !.off = off + n]
<1>1. srv[c].mode # "none" /\ srv[c].mode = "segmented"
  BY DEF SegmentRead, InSegmented
<1>2. CASE CopyIntoError(i) # "Success"
  BY <1>1, <1>2, FailEffect, ErrorsAreErrors DEF SegmentRead
<1>3. CASE CopyIntoError(i) = "Success"
  <2>1. n \in Nat /\ off + n <= Len(od[i].data) /\ off + n \in Nat /\ complete \in BOOLEAN
    <3>1. Remaining(c) = Len(od[i].data) - off /\ off <= Len(od[i].data)
          /\ off \in Nat /\ Len(od[i].data) \in Nat /\ SegmentBytes \in Nat
      BY <1>1, Holder, FrameAssumption DEF Remaining
    <3>2. complete \in BOOLEAN
      OBVIOUS
    <3>3. n \in Nat /\ n <= Remaining(c)
      <4>1. Remaining(c) \in Nat
        BY <3>1
      <4> QED
        BY <3>1, <4>1, AtMostFacts
    <3> HIDE DEF n
    <3>4. off + n <= Len(od[i].data) /\ off + n \in Nat
      BY <3>1, <3>3
    <3> QED
      BY <3>2, <3>3, <3>4
  <2>2. Chunk(od[i].data, off, n) \in Seq(Byte)
    BY <1>1, <2>1, Holder, ChunkFacts
  <2>3. Reply(c, <<Segment(Chunk(od[i].data, off, n), complete)>>) /\ witness' = witness
    BY <1>3 DEF SegmentRead
  <2>4. Segment(Chunk(od[i].data, off, n), complete) \in Frames
    BY <2>1, <2>2, SegmentFrame
  <2>5. ServerIO'
    <3> HIDE DEF n, complete
    <3> QED
      BY <2>3, <2>4, ReplyIsFrame DEF ServerIO
  <2>6. CASE complete
    <3>1. Conclude(c, od[i].data, srv[c].changed, FALSE)
      BY <1>3, <2>6 DEF SegmentRead
    <3> QED
      BY <1>1, <2>5, <3>1, Holder, ConcludeEffect DEF ServerStep
  <2>7. CASE ~complete
    <3>1. od' = od /\ srv' = [srv EXCEPT ![c] = s]
      BY <1>3, <2>7 DEF SegmentRead
    <3> HIDE DEF n
    <3>2. s \in Servers /\ s.mode = srv[c].mode /\ s.idx = srv[c].idx /\ s.off = off + n
      BY <1>1, <2>1, Holder DEF Servers
    <3> HIDE DEF s
    <3>3. Effect(c)
      BY <1>1, <2>1, <3>1, <3>2, GoesOnUnchanged
    <3> QED
      BY <2>5, <3>3 DEF ServerStep
  <2> QED
    BY <2>6, <2>7
<1> QED
  BY <1>2, <1>3

LEMMA DownloadSegmentStep ==
  ASSUME ServerInv, ServerIO, NEW c \in Chan, NEW m \in Frames,
         DownloadSegment(c, m)
  PROVE  ServerStep(c)
<1> DEFINE i == srv[c].idx
           n == srv[c].off + Len(m.data)
           e == [od[i] EXCEPT !.data = Stored(c, m.data)]
           s == [srv[c] EXCEPT !.off = n, !.changed = TRUE]
<1>1. /\ srv[c].mode # "none" /\ srv[c].mode = "segmented"
      /\ CopyFromError(i, srv[c].off, Len(m.data)) = "Success"
      /\ Reply(c, <<DownloadSegResponse>>)
  BY DEF DownloadSegment, InSegmented
<1>2. m.data \in Seq(Byte) /\ Len(m.data) \in Nat
  BY DEF Frames, FrameFields
<1>3. n \in Nat /\ n <= Len(od[i].data)
  BY <1>1, <1>2, CopyFromFits, Holder
<1>4. /\ Stored(c, m.data) \in Seq(Byte)
      /\ Len(Stored(c, m.data)) = Len(od[i].data)
      /\ e \in Entries /\ e.locked /\ e.data = Stored(c, m.data)
  BY <1>1, <1>2, StoredFacts
<1>5. toCli' \in [Chan -> Seq(Frames)]
  BY <1>1, ReplyFrames, ReplyIsFrame DEF ServerIO
<1>6. CASE m.last
  <2>1. /\ Conclude(c, Stored(c, m.data), TRUE, TRUE)
        /\ Acknowledge(c, i, n, Stored(c, m.data))
    BY <1>6 DEF DownloadSegment
  <2>2. Effect(c)
    BY <1>1, <1>4, <2>1, ConcludeEffect
  <2>3. i \in Idx /\ n <= Len(Stored(c, m.data))
    BY <1>1, <1>3, <1>4, Holder
  <2>4. witness' \in [Chan -> Witnesses]
    <3> HIDE DEF n
    <3> QED
      BY <1>3, <1>4, <2>1, <2>3, AcknowledgeIsWitness DEF ServerIO
  <2> QED
    BY <1>5, <2>2, <2>4 DEF ServerStep, ServerIO
<1>7. CASE ~m.last
  <2>1. srv' = [srv EXCEPT ![c] = s] /\ od' = [od EXCEPT ![i] = e] /\ witness' = witness
    BY <1>7 DEF DownloadSegment
  <2>2. s \in Servers /\ s.mode = srv[c].mode /\ s.idx = srv[c].idx /\ s.off = n
    BY <1>1, <1>3, Holder DEF Servers
  <2>3. s.off <= Len(e.data)
    BY <1>3, <1>4, <2>2
  <2> HIDE DEF s, e
  <2>4. Effect(c)
    BY <1>1, <1>4, <2>1, <2>2, <2>3, GoesOnEffect
  <2> QED
    BY <1>5, <2>1, <2>4 DEF ServerStep, ServerIO
<1> QED
  BY <1>6, <1>7

LEMMA ProcessSegmentedStep ==
  ASSUME ServerInv, ServerIO, NEW c \in Chan, NEW m \in Frames,
         ProcessSegmented(c, m)
  PROVE  ServerStep(c)
<1>1. CASE DownloadSegmentRefused(c, m)
  BY <1>1, FailEffect, ErrorsAreErrors DEF DownloadSegmentRefused, InSegmented
<1>2. CASE UnhandledRequest(c, m)
  BY <1>2, FailEffect DEF UnhandledRequest, InSegmented, Errors
<1> QED
  BY <1>1, <1>2, ServerAbortedStep, SegmentReadStep, DownloadSegmentStep,
     Zenon DEF ProcessSegmented
-----------------------------------------------------------------------------
(* The handlers of a block download *)

\* A transaction that lingers has a record like any other.
LEMMA LingerFacts ==
  ASSUME ServerIO, NEW c \in Chan, NEW e \in Errors, NEW off \in Nat,
         NEW changed \in BOOLEAN, srv[c] \in Servers,
         Linger(c, e, off, changed)
  PROVE  /\ ServerIO'
         /\ \E s \in Servers : /\ s.mode = srv[c].mode /\ s.idx = srv[c].idx
                              /\ s.off = off /\ s.finished
                              /\ srv' = [srv EXCEPT ![c] = s]
<1> DEFINE s == [srv[c] EXCEPT !.state = "End", !.finished = TRUE,
                               !.off = off, !.changed = changed]
<1>1. AbortFrame(e) \in Frames /\ Reply(c, <<AbortFrame(e)>>) /\ witness' = witness
  BY ReplyFrames DEF Linger
<1>2. ServerIO'
  BY <1>1, ReplyIsFrame DEF ServerIO
<1>3. srv' = [srv EXCEPT ![c] = s]
  BY DEF Linger
<1>4. s \in Servers /\ s.mode = srv[c].mode /\ s.idx = srv[c].idx
      /\ s.off = off /\ s.finished
  BY DEF Servers
<1> HIDE DEF s
<1> QED
  BY <1>2, <1>3, <1>4

LEMMA BlockStartStep ==
  ASSUME ServerInv, ServerIO, NEW c \in Chan, NEW m \in Frames,
         BlockStart(c, m)
  PROVE  ServerStep(c)
<1>1. srv[c].mode # "none" /\ od' = od
  BY DEF BlockStart, InBlock
<1>2. CASE m.seq # srv[c].expected
  <2>1. Linger(c, "DataXfer", srv[c].off, srv[c].changed) /\ "DataXfer" \in Errors
    BY <1>2 DEF BlockStart, Errors
  <2>2. /\ ServerIO'
        /\ \E s \in Servers : /\ s.mode = srv[c].mode /\ s.idx = srv[c].idx
                             /\ s.off = srv[c].off /\ s.finished
                             /\ srv' = [srv EXCEPT ![c] = s]
    BY <1>1, <2>1, Holder, LingerFacts
  <2>3. Effect(c)
    BY <1>1, <2>2, Holder, GoesOnUnchanged
  <2> QED
    BY <2>2, <2>3 DEF ServerStep
<1>3. CASE m.seq = srv[c].expected
  <2> DEFINE s == [srv[c] EXCEPT !.state = "SubBlock", !.expected = 2,
                                 !.lastSegment = Pad(m.data)]
  <2>1. srv' = [srv EXCEPT ![c] = s] /\ UNCHANGED <<toCli, witness>>
    BY <1>3 DEF BlockStart
  <2>2. Pad(m.data) \in Seq(Byte) /\ Len(Pad(m.data)) = SegmentBytes
    BY ResizeFacts, FrameAssumption DEF Pad, Frames, FrameFields
  <2>3. s \in Servers /\ s.mode = srv[c].mode /\ s.idx = srv[c].idx
        /\ s.off = srv[c].off /\ Len(s.lastSegment) = SegmentBytes
    BY <1>1, <2>2, Holder DEF Servers
  <2> HIDE DEF s
  <2>4. Effect(c)
    BY <1>1, <2>1, <2>3, Holder, GoesOnUnchanged
  <2> QED
    BY <2>1, <2>4 DEF ServerStep, ServerIO
<1> QED
  BY <1>2, <1>3

LEMMA BlockCopyFailsStep ==
  ASSUME ServerInv, ServerIO, NEW c \in Chan, NEW m \in Frames,
         BlockCopyFails(c, m)
  PROVE  ServerStep(c)
<1> DEFINE e == CopyFromError(srv[c].idx, srv[c].off, SegmentBytes)
<1>1. srv[c].mode # "none" /\ od' = od /\ Linger(c, e, srv[c].off, srv[c].changed)
  BY DEF BlockCopyFails, InBlock
<1>2. e \in Errors
  BY ErrorsAreErrors
<1> HIDE DEF e
<1>3. /\ ServerIO'
      /\ \E s \in Servers : /\ s.mode = srv[c].mode /\ s.idx = srv[c].idx
                           /\ s.off = srv[c].off /\ s.finished
                           /\ srv' = [srv EXCEPT ![c] = s]
  BY <1>1, <1>2, Holder, LingerFacts
<1>4. Effect(c)
  BY <1>1, <1>3, Holder, GoesOnUnchanged
<1> QED
  BY <1>3, <1>4 DEF ServerStep

LEMMA BlockSubBlockStep ==
  ASSUME ServerInv, ServerIO, NEW c \in Chan, NEW m \in Frames,
         BlockSubBlock(c, m)
  PROVE  ServerStep(c)
<1> DEFINE i == srv[c].idx
           off == srv[c].off + SegmentBytes
           data == Stored(c, srv[c].lastSegment)
           e == [od[i] EXCEPT !.data = data]
<1>1. /\ srv[c].mode # "none" /\ srv[c].mode = "block" /\ srv[c].state = "SubBlock"
      /\ CopyFromError(i, srv[c].off, SegmentBytes) = "Success"
      /\ od' = [od EXCEPT ![i] = e]
  BY DEF BlockSubBlock, InBlock
<1>2. off \in Nat /\ off <= Len(od[i].data)
  <2>1. SegmentBytes \in Nat
    BY FrameAssumption
  <2> QED
    BY <1>1, <2>1, CopyFromFits, Holder
<1>3. srv[c].lastSegment \in Seq(Byte)
  BY <1>1, Holder DEF Servers
<1>4. e \in Entries /\ e.locked /\ e.data = data /\ Len(data) = Len(od[i].data)
  BY <1>1, <1>3, StoredFacts
<1>5. CASE m.seq # srv[c].expected
  <2>1. Linger(c, "DataXfer", off, TRUE) /\ "DataXfer" \in Errors
    BY <1>5 DEF BlockSubBlock, Errors
  <2> HIDE DEF off
  <2>2. /\ ServerIO'
        /\ \E s \in Servers : /\ s.mode = srv[c].mode /\ s.idx = srv[c].idx
                             /\ s.off = off /\ s.finished
                             /\ srv' = [srv EXCEPT ![c] = s]
    <3> DEFINE changed == TRUE
    <3>1. srv[c] \in Servers /\ changed \in BOOLEAN /\ off \in Nat
      BY <1>1, <1>2, Holder
    <3>2. Linger(c, "DataXfer", off, changed)
      BY <2>1
    <3> HIDE DEF changed
    <3> QED
      BY <2>1, <3>1, <3>2, LingerFacts
  <2> HIDE DEF e, data
  <2>3. Effect(c)
    BY <1>1, <1>2, <1>4, <2>2, GoesOnEffect
  <2> QED
    BY <2>2, <2>3 DEF ServerStep
<1>6. CASE m.seq = srv[c].expected
  <2> DEFINE st == IF m.cs >= 4 THEN "End" ELSE srv[c].state
             ex == IF EndOfSubBlock(m) THEN 1 ELSE m.seq + 1
             ls == Pad(m.data)
             s == [srv[c] EXCEPT !.state = st, !.expected = ex, !.lastSegment = ls,
                                 !.off = off, !.changed = TRUE]
  <2>1. /\ srv' = [srv EXCEPT ![c] = s]
        /\ Reply(c, IF EndOfSubBlock(m) THEN <<BlockResponse(2)>> ELSE <<>>)
        /\ witness' = witness
    BY <1>6 DEF BlockSubBlock
  <2>2. ls \in Seq(Byte) /\ Len(ls) = SegmentBytes
    BY ResizeFacts, FrameAssumption DEF Pad, Frames, FrameFields
  <2>3. st \in {"SubBlock", "End"} /\ ex \in Nat
    BY <1>1 DEF Frames, FrameFields
  <2> HIDE DEF st, ex, ls, off
  <2>4. s \in Servers /\ s.mode = srv[c].mode /\ s.idx = srv[c].idx
        /\ s.off = off /\ Len(s.lastSegment) = SegmentBytes
    BY <1>1, <1>2, <2>2, <2>3, Holder DEF Servers
  <2>5. BlockResponse(2) \in Frames
    BY ReplyFrames
  <2>6. (IF EndOfSubBlock(m) THEN <<BlockResponse(2)>> ELSE <<>>) \in Seq(Frames)
    BY <2>5
  <2>7. ServerIO'
    BY <2>1, <2>6, ReplyIsFrames DEF ServerIO
  <2> HIDE DEF s, e, data
  <2>8. Effect(c)
    BY <1>1, <1>2, <1>4, <2>1, <2>4, GoesOnEffect
  <2> QED
    BY <2>7, <2>8 DEF ServerStep
<1> QED
  BY <1>5, <1>6

LEMMA BlockEndStep ==
  ASSUME ServerInv, ServerIO, NEW c \in Chan, NEW m \in Frames,
         BlockEnd(c, m)
  PROVE  ServerStep(c)
<1> DEFINE i == srv[c].idx
           lastLen == AtMost(m.size, SegmentBytes)
           lastBytes == Chunk(srv[c].lastSegment, 0, lastLen)
           e == CopyFromError(i, srv[c].off, lastLen)
<1>1. srv[c].mode # "none" /\ srv[c].mode = "block" /\ srv[c].state = "End"
  BY DEF BlockEnd, InBlock
<1>2. CASE srv[c].finished /\ Conclude(c, od[i].data, srv[c].changed, FALSE)
           /\ UNCHANGED <<toCli, witness>>
  BY <1>1, <1>2, Holder, ConcludeEffect DEF ServerStep, ServerIO
<1>3. CASE e # "Success" /\ Fail(c, e)
  BY <1>1, <1>3, FailEffect, ErrorsAreErrors
<1>4. CASE /\ ~srv[c].finished /\ e = "Success"
           /\ Reply(c, <<BlockResponse(1)>>)
           /\ Conclude(c, Stored(c, lastBytes), TRUE, TRUE)
           /\ Acknowledge(c, i, srv[c].off + lastLen, Stored(c, lastBytes))
  <2>1. srv[c].lastSegment \in Seq(Byte) /\ Len(srv[c].lastSegment) = SegmentBytes
    BY <1>1, <1>4, Holder DEF Servers, ServerInv, SegmentHeldBack
  <2>2. lastLen \in Nat /\ lastLen <= SegmentBytes
    BY AtMostFacts, FrameAssumption DEF Frames, FrameFields
  <2>3. lastBytes \in Seq(Byte)
    <3> HIDE DEF lastLen
    <3> QED
      BY <2>1, <2>2, ChunkFacts
  <2>4. srv[c].off + lastLen \in Nat /\ srv[c].off + lastLen <= Len(od[i].data)
    BY <1>1, <1>4, <2>2, Holder, CopyFromFits
  <2>5. Stored(c, lastBytes) \in Seq(Byte) /\ Len(Stored(c, lastBytes)) = Len(od[i].data)
    BY <1>1, <2>3, StoredFacts
  <2> HIDE DEF lastLen, lastBytes
  <2>6. Effect(c)
    BY <1>1, <1>4, <2>5, ConcludeEffect
  <2>7. toCli' \in [Chan -> Seq(Frames)]
    BY <1>4, ReplyFrames, ReplyIsFrame DEF ServerIO
  <2>8. witness' \in [Chan -> Witnesses]
    <3> DEFINE n == srv[c].off + lastLen
    <3>1. n \in Nat /\ n <= Len(Stored(c, lastBytes)) /\ i \in Idx
      BY <1>1, <2>4, <2>5, Holder
    <3>2. Acknowledge(c, i, n, Stored(c, lastBytes))
      BY <1>4
    <3> HIDE DEF n
    <3> QED
      BY <2>5, <3>1, <3>2, AcknowledgeIsWitness DEF ServerIO
  <2> QED
    BY <2>6, <2>7, <2>8 DEF ServerStep, ServerIO
<1> QED
  BY <1>2, <1>3, <1>4 DEF BlockEnd

LEMMA ProcessBlockStep ==
  ASSUME ServerInv, ServerIO, NEW c \in Chan, NEW m \in Frames,
         ProcessBlock(c, m)
  PROVE  ServerStep(c)
<1>1. CASE BlockJunk(c, m)
  BY <1>1, SilentStep DEF BlockJunk
<1> QED
  BY <1>1, BlockStartStep, BlockCopyFailsStep, BlockSubBlockStep, BlockEndStep,
     Zenon DEF ProcessBlock
-----------------------------------------------------------------------------
(* The steps of the server *)

\* Taking the first frame leaves frames.
LEMMA ConsumeFacts ==
  ASSUME NEW queue \in [Chan -> Seq(Frames)], NEW c \in Chan, queue[c] # <<>>
  PROVE  /\ Head(queue[c]) \in Frames
         /\ Consume(queue, c) \in [Chan -> Seq(Frames)]
         /\ Len(Consume(queue, c)[c]) = Len(queue[c]) - 1
         /\ \A d \in Chan \ {c} : Consume(queue, c)[d] = queue[d]
<1>1. Head(queue[c]) \in Frames /\ Tail(queue[c]) \in Seq(Frames)
      /\ Len(Tail(queue[c])) = Len(queue[c]) - 1
  OBVIOUS
<1> QED
  BY <1>1 DEF Consume

LEMMA ServerReceiveStep ==
  ASSUME ServerInv, ServerIO, toSrv \in [Chan -> Seq(Frames)],
         NEW c \in Chan, ServerReceive(c)
  PROVE  ServerStep(c)
<1> DEFINE m == Head(toSrv[c])
<1>1. m \in Frames
  BY ConsumeFacts DEF ServerReceive
<1>2. ASSUME NEW r \in Requests(m), ProcessInitiate(c, r)
      PROVE  ServerStep(c)
  <2>1. r \in Frames
    BY <1>1, RequestFacts
  <2> QED
    BY <1>2, <2>1, ProcessInitiateStep
<1> QED
  BY <1>1, <1>2, ProcessSegmentedStep, ProcessBlockStep, Zenon DEF ServerReceive

\* The bytes of the entry stay as they are when its transaction times out.
LEMMA ServerTimeoutStep ==
  ASSUME ServerInv, ServerIO, NEW c \in Chan, ServerTimeout(c)
  PROVE  /\ ServerStep(c)
         /\ Concludes(c, srv[c].idx)
         /\ od'[srv[c].idx].data = od[srv[c].idx].data
  BY FailEffect DEF ServerTimeout, Errors

LEMMA LocalSetStep ==
  ASSUME ServerInv, ServerIO, NEW i \in Idx, NEW data \in LocalValues[i],
         LocalSet(i, data)
  PROVE  Uses(i) /\ ServerIO'
<1> DEFINE e == [od[i] EXCEPT !.data = data, !.published = data, !.notified = data]
<1>1. ~od[i].locked /\ od' = [od EXCEPT ![i] = e] /\ srv' = srv /\ UNCHANGED <<toCli, witness>>
  BY DEF LocalSet
<1>2. data \in Seq(Byte)
  BY DataAssumption
<1>3. e \in Entries /\ ~e.locked
  BY <1>1, <1>2 DEF ServerInv, Entries
<1> HIDE DEF e
<1>4. OnlyEntry(i) /\ od'[i] = e
  BY <1>1, <1>3, EntryReplaced DEF ServerInv
<1> QED
  BY <1>1, <1>3, <1>4 DEF Uses, ServerIO
-----------------------------------------------------------------------------
(* The handlers of the client *)

ClientInBounds == \A c \in Chan : cli[c].off <= Len(cli[c].buf)

\* the part of SdoInv that is about the client
ClientInv ==
  /\ toSrv \in [Chan -> Seq(Frames)]
  /\ cli \in [Chan -> Clients]
  /\ job \in [Chan -> Jobs]
  /\ ClientInBounds

\* A proxy over a variable, its offset inside it.
Proxy(s) == s \in Clients /\ s.off <= Len(s.buf)

LEMMA ClientReplaced ==
  ASSUME ClientInv, NEW c \in Chan, NEW s, Proxy(s), cli' = [cli EXCEPT ![c] = s]
  PROVE  cli' \in [Chan -> Clients] /\ ClientInBounds'
  BY DEF ClientInv, ClientInBounds, Proxy

LEMMA ClientProxy ==
  ASSUME ClientInv, NEW c \in Chan
  PROVE  /\ Proxy(cli[c])
         /\ cli[c].buf \in Seq(Byte) /\ cli[c].off \in Nat
         /\ Left(c) \in Nat /\ Left(c) = Len(cli[c].buf) - cli[c].off
  BY DEF ClientInv, ClientInBounds, Proxy, Clients, Left

LEMMA RequestIsFrame ==
  ASSUME ClientInv, NEW c \in Chan, NEW frame \in Frames, Request(c, frame)
  PROVE  toSrv' \in [Chan -> Seq(Frames)]
<1>1. toSrv[c] \o <<frame>> \in Seq(Frames)
  BY DEF ClientInv
<1> QED
  BY <1>1 DEF Request, Send, ClientInv

LEMMA FinishFacts ==
  ASSUME ClientInv, NEW c \in Chan, NEW s, Proxy(s), NEW r \in Errors,
         Finish(c, s, r)
  PROVE  cli' \in [Chan -> Clients] /\ ClientInBounds' /\ job' \in [Chan -> Jobs]
<1> DEFINE s1 == [s EXCEPT !.active = FALSE]
           j1 == [job[c] EXCEPT !.result = r]
<1>1. cli' = [cli EXCEPT ![c] = s1] /\ job' = [job EXCEPT ![c] = j1]
  BY DEF Finish
<1>2. Proxy(s1)
  BY DEF Proxy, Clients
<1>3. j1 \in Jobs
  BY DEF ClientInv, Jobs, Results
<1> HIDE DEF s1, j1
<1> QED
  BY <1>1, <1>2, <1>3, ClientReplaced DEF ClientInv

LEMMA CheckSizeIsError ==
  \A c, n, tooBigCheck : CheckSize(c, n, tooBigCheck) \in Errors
  BY DEF CheckSize, Errors

\* When the size is accepted, the proxy has room for it.
LEMMA SizedFacts ==
  ASSUME ClientInv, NEW c \in Chan, NEW n \in Nat, NEW tooBigCheck \in BOOLEAN,
         CheckSize(c, n, tooBigCheck) = "Success"
  PROVE  /\ Proxy(Sized(c, n, tooBigCheck))
         /\ Sized(c, n, tooBigCheck).off + n <= Len(Sized(c, n, tooBigCheck).buf)
<1> DEFINE resize == n > Left(c) \/ (tooBigCheck /\ n < Left(c))
<1>1. CASE resize
  <2> DEFINE buf == Resize(cli[c].buf, n)
             s == [cli[c] EXCEPT !.buf = buf, !.off = 0]
  <2>1. Sized(c, n, tooBigCheck) = s
    BY <1>1 DEF Sized
  <2>2. buf \in Seq(Byte) /\ Len(buf) = n
    BY ClientProxy, ResizeFacts
  <2> HIDE DEF buf
  <2>3. s \in Clients /\ s.off = 0 /\ s.buf = buf
    BY <2>2 DEF ClientInv, Clients
  <2> QED
    BY <2>1, <2>2, <2>3 DEF Proxy
<1>2. CASE ~resize
  <2>1. Sized(c, n, tooBigCheck) = cli[c]
    BY <1>2 DEF Sized
  <2>2. n <= Left(c)
    BY <1>2, ClientProxy
  <2> QED
    BY <2>1, <2>2, ClientProxy
<1> QED
  BY <1>1, <1>2

LEMMA CopiedFromFacts ==
  ASSUME NEW s, Proxy(s), NEW bytes \in Seq(Byte), s.off + Len(bytes) <= Len(s.buf)
  PROVE  Proxy(CopiedFrom(s, bytes))
<1> DEFINE buf == Overwrite(s.buf, s.off, bytes)
           off == s.off + Len(bytes)
<1>1. buf \in Seq(Byte) /\ Len(buf) = Len(s.buf) /\ off \in Nat /\ off <= Len(s.buf)
  BY OverwriteFacts DEF Proxy, Clients
<1>2. CopiedFrom(s, bytes) = [s EXCEPT !.buf = buf, !.off = off]
  BY DEF CopiedFrom
<1> HIDE DEF buf, off
<1>3. [s EXCEPT !.buf = buf, !.off = off] \in Clients
  BY <1>1 DEF Proxy, Clients
<1>4. [s EXCEPT !.buf = buf, !.off = off].buf = buf /\ [s EXCEPT !.buf = buf, !.off = off].off = off
  BY DEF Proxy, Clients
<1> QED
  BY <1>1, <1>2, <1>3, <1>4 DEF Proxy

LEMMA AbortReplyStep ==
  ASSUME ClientInv, NEW c \in Chan, NEW m \in Frames, AbortReply(c, m)
  PROVE  ClientInv'
<1>1. m.err \in Errors /\ Proxy(cli[c])
  BY ClientProxy DEF Frames, FrameFields
<1> QED
  BY <1>1, FinishFacts DEF AbortReply, ClientInv

LEMMA ExpeditedUploadReplyStep ==
  ASSUME ClientInv, NEW c \in Chan, NEW m \in Frames, ExpeditedUploadReply(c, m)
  PROVE  ClientInv'
<1> DEFINE exact == TRUE
           e == CheckSize(c, m.size, exact)
           s == Sized(c, m.size, exact)
<1>1. m.size \in Nat /\ m.data \in Seq(Byte) /\ Len(m.data) = m.size
  BY DEF ExpeditedUploadReply, Frames, FrameFields
<1>2. toSrv' = toSrv
  BY DEF ExpeditedUploadReply
<1>3. /\ e # "Success" => Finish(c, cli[c], e)
      /\ e = "Success" => Finish(c, CopiedFrom(s, m.data), "Success")
  BY DEF ExpeditedUploadReply
<1>4. exact \in BOOLEAN /\ e \in Errors /\ "Success" \in Errors
  BY CheckSizeIsError DEF Errors
<1> HIDE DEF exact
<1>5. CASE e = "Success"
  <2>1. Proxy(s) /\ s.off + m.size <= Len(s.buf)
    BY <1>1, <1>4, <1>5, SizedFacts
  <2> HIDE DEF s
  <2>2. Proxy(CopiedFrom(s, m.data))
    BY <1>1, <2>1, CopiedFromFacts
  <2> QED
    BY <1>2, <1>3, <1>4, <1>5, <2>2, FinishFacts DEF ClientInv
<1>6. CASE e # "Success"
  <2> HIDE DEF e
  <2> QED
    BY <1>2, <1>3, <1>4, <1>6, ClientProxy, FinishFacts DEF ClientInv
<1> QED
  BY <1>5, <1>6

LEMMA UploadReplyStep ==
  ASSUME ClientInv, NEW c \in Chan, NEW m \in Frames, UploadReply(c, m)
  PROVE  ClientInv'
<1> DEFINE exact == TRUE
           e == CheckSize(c, m.size, exact)
           s == Sized(c, m.size, exact)
<1>1. m.size \in Nat
  BY DEF Frames, FrameFields
<1>2. /\ e # "Success" => Finish(c, cli[c], e) /\ Request(c, AbortFrame(e))
      /\ e = "Success" => /\ cli' = [cli EXCEPT ![c] = s]
                          /\ Request(c, UploadSegRequest)
                          /\ job' = job
  BY DEF UploadReply
<1>3. exact \in BOOLEAN /\ e \in Errors
  BY CheckSizeIsError
<1> HIDE DEF exact
<1>4. CASE e = "Success"
  <2>1. Proxy(s)
    BY <1>1, <1>3, <1>4, SizedFacts
  <2>2. UploadSegRequest \in Frames
    BY RequestFrames
  <2>3. toSrv' \in [Chan -> Seq(Frames)]
    BY <1>2, <1>4, <2>2, RequestIsFrame
  <2> HIDE DEF s
  <2> QED
    BY <1>2, <1>4, <2>1, <2>3, ClientReplaced DEF ClientInv
<1>5. CASE e # "Success"
  <2> HIDE DEF e
  <2>1. AbortFrame(e) \in Frames
    BY <1>3, ReplyFrames
  <2>2. toSrv' \in [Chan -> Seq(Frames)]
    BY <1>2, <1>5, <2>1, RequestIsFrame
  <2> QED
    BY <1>2, <1>3, <1>5, <2>2, ClientProxy, FinishFacts DEF ClientInv
<1> QED
  BY <1>4, <1>5

LEMMA UploadSegReplyStep ==
  ASSUME ClientInv, NEW c \in Chan, NEW m \in Frames, UploadSegReply(c, m)
  PROVE  ClientInv'
<1> DEFINE exact == FALSE
           n == Len(m.data)
           e == CheckSize(c, n, exact)
           s == CopiedFrom(Sized(c, n, exact), m.data)
<1>1. n \in Nat /\ m.data \in Seq(Byte)
  BY DEF Frames, FrameFields
<1>2. \/ /\ e # "Success" /\ Finish(c, cli[c], e)
         /\ toSrv' = toSrv \/ Request(c, AbortFrame(e))
      \/ /\ e = "Success" /\ cli' = [cli EXCEPT ![c] = s]
         /\ Request(c, UploadSegRequest) /\ job' = job
      \/ e = "Success" /\ Finish(c, s, "Success") /\ toSrv' = toSrv
  BY DEF UploadSegReply
<1>3. exact \in BOOLEAN /\ e \in Errors /\ "Success" \in Errors
  BY CheckSizeIsError DEF Errors
<1> HIDE DEF exact
<1>4. CASE e = "Success"
  <2>1. Proxy(Sized(c, n, exact)) /\ Sized(c, n, exact).off + n <= Len(Sized(c, n, exact).buf)
    BY <1>1, <1>3, <1>4, SizedFacts
  <2>2. Proxy(s)
    BY <1>1, <2>1, CopiedFromFacts
  <2>3. UploadSegRequest \in Frames
    BY RequestFrames
  <2> HIDE DEF s
  <2>4. CASE cli' = [cli EXCEPT ![c] = s] /\ Request(c, UploadSegRequest) /\ job' = job
    <3>1. toSrv' \in [Chan -> Seq(Frames)]
      BY <2>3, <2>4, RequestIsFrame
    <3> QED
      BY <2>2, <2>4, <3>1, ClientReplaced DEF ClientInv
  <2>5. CASE Finish(c, s, "Success") /\ toSrv' = toSrv
    BY <1>3, <2>2, <2>5, FinishFacts DEF ClientInv
  <2> QED
    BY <1>2, <1>4, <2>4, <2>5
<1>5. CASE e # "Success"
  <2> HIDE DEF e, s
  <2>1. AbortFrame(e) \in Frames
    BY <1>3, ReplyFrames
  <2>2. Finish(c, cli[c], e) /\ (toSrv' = toSrv \/ Request(c, AbortFrame(e)))
    BY <1>2, <1>5
  <2>3. toSrv' \in [Chan -> Seq(Frames)]
    BY <2>1, <2>2, RequestIsFrame DEF ClientInv
  <2> QED
    BY <1>3, <2>2, <2>3, ClientProxy, FinishFacts DEF ClientInv
<1> QED
  BY <1>4, <1>5

LEMMA DownloadReplyStep ==
  ASSUME ClientInv, NEW c \in Chan, NEW m \in Frames, DownloadReply(c, m)
  PROVE  ClientInv'
<1> DEFINE n == AtMost(Left(c), SegmentBytes)
           complete == Left(c) <= SegmentBytes
           segment == Segment(Chunk(cli[c].buf, cli[c].off, n), complete)
           off == cli[c].off + n
           s == [cli[c] EXCEPT !.off = off]
<1>1. CASE Left(c) = 0
  <2>1. Finish(c, cli[c], "Success") /\ toSrv' = toSrv /\ "Success" \in Errors
    BY <1>1 DEF DownloadReply, Errors
  <2> QED
    BY <2>1, ClientProxy, FinishFacts DEF ClientInv
<1>2. CASE Left(c) # 0
  <2>1. Request(c, segment) /\ cli' = [cli EXCEPT ![c] = s] /\ job' = job
    BY <1>2 DEF DownloadReply
  <2>2. n \in Nat /\ n <= Left(c)
    BY ClientProxy, AtMostFacts, FrameAssumption
  <2>3. complete \in BOOLEAN
    OBVIOUS
  <2> HIDE DEF n, complete
  <2>4. off \in Nat /\ off <= Len(cli[c].buf)
    BY <2>2, ClientProxy
  <2>5. Chunk(cli[c].buf, cli[c].off, n) \in Seq(Byte)
    BY <2>2, <2>4, ClientProxy, ChunkFacts
  <2>6. segment \in Frames
    BY <2>3, <2>5, SegmentFrame
  <2> HIDE DEF segment, off
  <2>7. toSrv' \in [Chan -> Seq(Frames)]
    BY <2>1, <2>6, RequestIsFrame
  <2>8. Proxy(s)
    BY <2>4 DEF Proxy, ClientInv, Clients
  <2> HIDE DEF s
  <2> QED
    BY <2>1, <2>7, <2>8, ClientReplaced DEF ClientInv
<1> QED
  BY <1>1, <1>2

LEMMA BlockReplyStep ==
  ASSUME ClientInv, NEW c \in Chan, NEW m \in Frames, BlockReply(c, m)
  PROVE  ClientInv'
<1>1. "Success" \in Errors /\ "InvalidCmd" \in Errors
  BY DEF Errors
<1>2. CASE Request(c, BlockEndRequest(cli[c].lastBlockBytes)) /\ UNCHANGED <<cli, job>>
  <2>1. cli[c].lastBlockBytes \in Nat
    BY DEF ClientInv, Clients
  <2>2. BlockEndRequest(cli[c].lastBlockBytes) \in Frames
    BY <2>1, RequestFrames
  <2> QED
    BY <1>2, <2>2, RequestIsFrame DEF ClientInv, ClientInBounds
<1>3. CASE Finish(c, cli[c], "Success") /\ UNCHANGED toSrv
  BY <1>1, <1>3, ClientProxy, FinishFacts DEF ClientInv
<1>4. CASE Finish(c, cli[c], "InvalidCmd") /\ Request(c, AbortFrame("InvalidCmd"))
  <2>1. AbortFrame("InvalidCmd") \in Frames
    BY <1>1, ReplyFrames
  <2> QED
    BY <1>1, <1>4, <2>1, ClientProxy, FinishFacts, RequestIsFrame DEF ClientInv
<1> QED
  BY <1>2, <1>3, <1>4 DEF BlockReply

\* One block response releases at least one segment; all but the last are
\* full, and together they stay inside what is left.
LEMMA BurstLength ==
  ASSUME NEW left \in Nat, left > 0, NEW size \in Nat, size > 0,
         NEW most \in Nat, most > 1
  PROVE  LET count == AtMost((left + size - 1) \div size, most)
             sent == AtMost(left, most * size)
         IN  /\ count \in 1..most
             /\ sent \in Nat /\ sent <= left
             /\ (count - 1) * size \in Nat
             /\ (count - 1) * size <= sent
<1> DEFINE q == (left + size - 1) \div size
           count == AtMost(q, most)
           sent == AtMost(left, most * size)
<1>1. q \in Nat /\ q >= 1 /\ q * size <= left + size - 1
  <2>1. q \in Int /\ q * size <= left + size - 1 /\ left + size - 1 < (q + 1) * size
    OBVIOUS
  <2>2. CASE q <= 0
    <3>1. (q + 1) * size <= size
      <4>1. q + 1 <= 1 /\ q + 1 \in Int
        BY <2>1, <2>2
      <4> HIDE DEF q
      <4> QED
        BY <4>1
    <3> HIDE DEF q
    <3> QED
      BY <2>1, <3>1
  <2> HIDE DEF q
  <2> QED
    BY <2>1, <2>2
<1> HIDE DEF q
<1>2. most * size \in Nat
  OBVIOUS
<1>3. count \in 1..most /\ count <= q /\ sent \in Nat /\ sent <= left
  BY <1>1, <1>2 DEF AtMost
<1>4. (count - 1) * size <= (q - 1) * size /\ (count - 1) * size <= most * size
      /\ (count - 1) * size \in Nat
  <2>1. count - 1 \in Nat /\ count - 1 <= q - 1 /\ count - 1 <= most /\ q - 1 \in Nat
    BY <1>1, <1>3
  <2>2. \A a, b \in Nat : a <= b => a * size <= b * size
    OBVIOUS
  <2> HIDE DEF count
  <2> QED
    BY <2>1, <2>2
<1>5. (q - 1) * size <= left
  BY <1>1
<1>6. (count - 1) * size <= sent
  <2>1. ASSUME NEW x \in Nat, NEW limit \in Nat, x <= left, x <= limit
        PROVE  x <= AtMost(left, limit)
    BY <2>1 DEF AtMost
  <2>2. (count - 1) * size <= left
    <3> DEFINE a == (count - 1) * size
               b == (q - 1) * size
    <3>1. a <= b /\ b <= left /\ a \in Nat /\ b \in Int
      BY <1>1, <1>4, <1>5
    <3> HIDE DEF a, b
    <3>2. a <= left
      BY <3>1
    <3> QED
      BY <3>2 DEF a
  <2> QED
    BY <1>2, <1>4, <2>1, <2>2
<1> QED
  BY <1>3, <1>4, <1>6 DEF q

LEMMA BurstFrames ==
  ASSUME ClientInv, NEW c \in Chan, Left(c) > 0
  PROVE  /\ Burst(c) \in Seq(Frames)
         /\ Len(Burst(c)) = AtMost((Left(c) + SegmentBytes - 1) \div SegmentBytes,
                                   NumSubBlockSegments)
<1> DEFINE count == AtMost((Left(c) + SegmentBytes - 1) \div SegmentBytes,
                           NumSubBlockSegments)
           start(k) == cli[c].off + (k - 1) * SegmentBytes
           size(k) == AtMost(Len(cli[c].buf) - start(k), SegmentBytes)
           complete(k) == Len(cli[c].buf) - start(k) <= SegmentBytes
           segment(k) == BlockSegment(Chunk(cli[c].buf, start(k), size(k)), k, complete(k))
<1>1. Burst(c) = [k \in 1..count |-> segment(k)]
  BY DEF Burst
<1>2. /\ count \in 1..NumSubBlockSegments
      /\ (count - 1) * SegmentBytes \in Nat
      /\ (count - 1) * SegmentBytes <= Left(c)
  <2>1. /\ Left(c) \in Nat
        /\ SegmentBytes \in Nat /\ SegmentBytes > 0
        /\ NumSubBlockSegments \in Nat /\ NumSubBlockSegments > 1
    BY ClientProxy, FrameAssumption
  <2> DEFINE sent == AtMost(Left(c), NumSubBlockSegments * SegmentBytes)
             used == (count - 1) * SegmentBytes
  <2>2. count \in 1..NumSubBlockSegments /\ used \in Nat /\ used <= sent
        /\ sent \in Nat /\ sent <= Left(c)
    BY <2>1, BurstLength
  <2> HIDE DEF sent, used
  <2>3. used <= Left(c)
    BY <2>1, <2>2
  <2> QED
    BY <2>2, <2>3 DEF used
<1> HIDE DEF count
<1>3. ASSUME NEW k \in 1..count
      PROVE  segment(k) \in Frames
  <2>1. k \in 1..NumSubBlockSegments /\ k - 1 \in Nat /\ k - 1 <= count - 1
        /\ count - 1 \in Nat
    BY <1>2, FrameAssumption
  <2>2. (k - 1) * SegmentBytes \in Nat /\ (k - 1) * SegmentBytes <= (count - 1) * SegmentBytes
    <3>1. SegmentBytes \in Nat
      BY FrameAssumption
    <3>2. \A a, b \in Nat : a <= b => a * SegmentBytes <= b * SegmentBytes
      BY <3>1
    <3> QED
      BY <2>1, <3>1, <3>2
  <2>3. (k - 1) * SegmentBytes <= Left(c)
    BY <1>2, <2>2, ClientProxy
  <2>4. start(k) \in Nat /\ start(k) <= Len(cli[c].buf)
    BY <2>2, <2>3, ClientProxy
  <2> HIDE DEF start
  <2>5. Len(cli[c].buf) - start(k) \in Nat
    <3>1. Len(cli[c].buf) \in Nat
      BY ClientProxy
    <3> QED
      BY <2>4, <3>1
  <2>6. size(k) \in Nat /\ size(k) <= Len(cli[c].buf) - start(k)
    BY <2>5, AtMostFacts, FrameAssumption
  <2> HIDE DEF size
  <2>7. Chunk(cli[c].buf, start(k), size(k)) \in Seq(Byte)
    <3>1. start(k) + size(k) <= Len(cli[c].buf)
      BY <2>4, <2>6, ClientProxy
    <3> QED
      BY <2>4, <2>6, <3>1, ClientProxy, ChunkFacts
  <2>8. complete(k) \in BOOLEAN
    OBVIOUS
  <2> HIDE DEF complete
  <2> QED
    BY <2>1, <2>7, <2>8, BlockSegmentFrame
<1> HIDE DEF segment
<1>4. count \in Nat
  BY <1>2, FrameAssumption
<1>5. Burst(c) \in Seq(Frames) /\ Len(Burst(c)) = count
  BY <1>1, <1>3, <1>4
<1> QED
  BY <1>5 DEF count

LEMMA BlockBurstStep ==
  ASSUME ClientInv, NEW c \in Chan, NEW m \in Frames, BlockBurst(c, m)
  PROVE  ClientInv'
<1> DEFINE sent == AtMost(Left(c), NumSubBlockSegments * SegmentBytes)
           count == AtMost((Left(c) + SegmentBytes - 1) \div SegmentBytes,
                           NumSubBlockSegments)
           rest == sent - (count - 1) * SegmentBytes
           off == cli[c].off + sent
           s == [cli[c] EXCEPT !.off = off, !.lastBlockBytes = rest]
<1>1. Burst(c) \in Seq(Frames) /\ Len(Burst(c)) = count
  BY BurstFrames DEF BlockBurst
<1>2. /\ toSrv' = [toSrv EXCEPT ![c] = @ \o Burst(c)]
      /\ cli' = [cli EXCEPT ![c] = s]
      /\ job' = job
  BY <1>1 DEF BlockBurst, Send
<1>3. /\ sent \in Nat /\ sent <= Left(c)
      /\ (count - 1) * SegmentBytes \in Nat
      /\ (count - 1) * SegmentBytes <= sent
  <2>1. /\ Left(c) \in Nat /\ Left(c) > 0
        /\ SegmentBytes \in Nat /\ SegmentBytes > 0
        /\ NumSubBlockSegments \in Nat /\ NumSubBlockSegments > 1
    BY ClientProxy, FrameAssumption DEF BlockBurst
  <2> QED
    BY <2>1, BurstLength
<1> HIDE DEF sent
<1>4. rest \in Nat
  BY <1>3
<1>5. off \in Nat /\ off <= Len(cli[c].buf)
  BY <1>3, ClientProxy
<1> HIDE DEF rest, off
<1>6. Proxy(s)
  BY <1>4, <1>5 DEF Proxy, ClientInv, Clients
<1> HIDE DEF s
<1>7. toSrv' \in [Chan -> Seq(Frames)]
  <2>1. toSrv[c] \o Burst(c) \in Seq(Frames)
    BY <1>1 DEF ClientInv
  <2> QED
    BY <1>2, <2>1 DEF ClientInv
<1> QED
  BY <1>2, <1>6, <1>7, ClientReplaced DEF ClientInv
-----------------------------------------------------------------------------
(* The steps of the client and of the bus *)

LEMMA ClientReceiveStep ==
  ASSUME ClientInv, ServerIO, NEW c \in Chan, ClientReceive(c)
  PROVE  ClientInv' /\ ServerIO'
<1> DEFINE m == Head(toCli[c])
<1>1. /\ m \in Frames
      /\ toCli' = Consume(toCli, c)
      /\ toCli' \in [Chan -> Seq(Frames)]
      /\ witness' = witness
  BY ConsumeFacts DEF ClientReceive, serverVars, ServerIO
<1> HIDE DEF m
<1>2. ASSUME ProcessReply(c, m) PROVE ClientInv'
  BY <1>1, <1>2, AbortReplyStep, ExpeditedUploadReplyStep, UploadReplyStep,
     UploadSegReplyStep, DownloadReplyStep, BlockBurstStep, BlockReplyStep
  DEF ProcessReply
<1>3. ASSUME UNCHANGED <<toSrv, cli, job>> PROVE ClientInv'
  BY <1>3 DEF ClientInv, ClientInBounds
<1> QED
  BY <1>1, <1>2, <1>3 DEF ClientReceive, ServerIO, m

LEMMA ClientTimeoutStep ==
  ASSUME ClientInv, NEW c \in Chan, ClientTimeout(c)
  PROVE  ClientInv'
<1>1. "Timeout" \in Errors
  BY DEF Errors
<1>2. AbortFrame("Timeout") \in Frames
  BY <1>1, ReplyFrames
<1> QED
  BY <1>1, <1>2, ClientProxy, FinishFacts, RequestIsFrame DEF ClientTimeout, ClientInv

\* A transaction starts with a proxy over the caller's variable.
LEMMA StartFacts ==
  ASSUME ClientInv, ServerIO, NEW c \in Chan, NEW isRead \in BOOLEAN,
         NEW i \in Idx \cup {NoIdx}, NEW var \in ReadVars \cup WriteVars,
         NEW off \in Nat, off <= Len(var.data),
         Start(c, isRead, i, var, off),
         NEW frame \in Frames, Request(c, frame)
  PROVE  ClientInv' /\ ServerIO'
<1> DEFINE s == [active |-> TRUE, buf |-> var.data, off |-> off,
                 resizable |-> var.resizable, lastBlockBytes |-> 0]
           j == [read |-> isRead, idx |-> i, val |-> var.data, result |-> "none"]
<1>1. var.data \in Seq(Byte) /\ var.resizable \in BOOLEAN
  BY DataAssumption
<1>2. /\ cli' = [cli EXCEPT ![c] = s]
      /\ job' = [job EXCEPT ![c] = j]
      /\ witness' = [witness EXCEPT ![c] = NoWitness]
      /\ toCli' = toCli
  BY DEF Start
<1>3. Proxy(s)
  BY <1>1 DEF Proxy, Clients
<1>4. j \in Jobs
  BY <1>1 DEF Jobs, Results
<1> HIDE DEF s, j
<1>5. ClientInv'
  BY <1>2, <1>3, <1>4, ClientReplaced, RequestIsFrame DEF ClientInv
<1>6. NoWitness \in Witnesses
  BY DEF NoWitness, Witnesses
<1> QED
  BY <1>2, <1>5, <1>6 DEF ServerIO

LEMMA ClientTransactionStep ==
  ASSUME ClientInv, ServerIO, NEW c \in Chan, ClientTransaction(c)
  PROVE  ClientInv' /\ ServerIO'
<1>1. ASSUME NEW i \in Idx \cup {NoIdx}, NEW var \in ReadVars, InitiateRead(c, i, var)
      PROVE  ClientInv' /\ ServerIO'
  <2> DEFINE isRead == TRUE
             off == 0
  <2>1. var \in ReadVars \cup WriteVars /\ isRead \in BOOLEAN
    OBVIOUS
  <2>2. off \in Nat /\ off <= Len(var.data)
    BY DataAssumption
  <2>3. Start(c, isRead, i, var, off) /\ Request(c, UploadRequest(i))
    BY <1>1 DEF InitiateRead
  <2>4. UploadRequest(i) \in Frames
    BY RequestFrames
  <2> HIDE DEF isRead, off
  <2> QED
    BY <2>1, <2>2, <2>3, <2>4, StartFacts
<1>2. ASSUME NEW i \in Idx \cup {NoIdx}, NEW var \in WriteVars,
             \/ InitiateExpeditedWrite(c, i, var)
             \/ InitiateSegmentedWrite(c, i, var)
             \/ InitiateBlockWrite(c, i, var)
      PROVE  ClientInv' /\ ServerIO'
  <2> DEFINE isRead == FALSE
             none == 0
  <2>1. var \in ReadVars \cup WriteVars /\ isRead \in BOOLEAN
    OBVIOUS
  <2>2. var.data \in Seq(Byte) /\ Len(var.data) \in Nat
    BY DataAssumption
  <2>3. none \in Nat /\ none <= Len(var.data)
    BY <2>2
  <2>4. /\ ExpeditedDownload(i, var.data) \in Frames
        /\ DownloadRequest(i, Len(var.data)) \in Frames
        /\ BlockRequest(i) \in Frames
    BY <2>2, RequestFrames
  <2>5. /\ Start(c, isRead, i, var, Len(var.data)) \/ Start(c, isRead, i, var, none)
        /\ \/ Request(c, ExpeditedDownload(i, var.data))
           \/ Request(c, DownloadRequest(i, Len(var.data)))
           \/ Request(c, BlockRequest(i))
    BY <1>2 DEF InitiateExpeditedWrite, InitiateSegmentedWrite, InitiateBlockWrite
  <2> HIDE DEF isRead, none
  <2>6. PICK off \in Nat, frame \in Frames :
          off <= Len(var.data) /\ Start(c, isRead, i, var, off) /\ Request(c, frame)
    BY <2>2, <2>3, <2>4, <2>5
  <2> QED
    BY <2>1, <2>6, StartFacts
<1> QED
  BY <1>1, <1>2 DEF ClientTransaction

LEMMA LossStep ==
  ASSUME ClientInv, ServerIO, NEW c \in Chan, LoseRequest(c) \/ LoseReply(c)
  PROVE  ClientInv' /\ ServerIO'
<1>1. CASE LoseRequest(c)
  <2>1. toSrv' \in [Chan -> Seq(Frames)] /\ UNCHANGED <<toCli, witness, cli, job>>
    BY <1>1, ConsumeFacts DEF LoseRequest, ClientInv, serverVars, clientVars
  <2> QED
    BY <2>1 DEF ClientInv, ClientInBounds, ServerIO
<1>2. CASE LoseReply(c)
  <2>1. toCli' \in [Chan -> Seq(Frames)] /\ UNCHANGED <<toSrv, witness, cli, job>>
    BY <1>2, ConsumeFacts DEF LoseReply, ServerIO, serverVars, clientVars
  <2> QED
    BY <2>1 DEF ClientInv, ClientInBounds, ServerIO
<1> QED
  BY <1>1, <1>2
-----------------------------------------------------------------------------
(* The invariant *)

CounterInv == ops \in [Chan -> 0..MaxOps] /\ losses \in 0..MaxLosses

LEMMA SdoInvParts ==
  SdoInv <=> ServerInv /\ ServerIO /\ ClientInv /\ CounterInv
  BY DEF SdoInv, TypeOK, ProxyInBounds, ServerInv, ServerIO, ClientInv,
         CounterInv, ServerInBounds, ClientInBounds

LEMMA InitInv ==
  ASSUME Init
  PROVE  SdoInv
<1>1. TypeOK
  <2>1. <<>> \in Seq(Frames) /\ <<>> \in Seq(Byte)
    OBVIOUS
  <2>2. od \in [Idx -> Entries]
    BY DataAssumption DEF Init, Entries
  <2>3. srv \in [Chan -> Servers]
    BY <2>1 DEF Init, NoServer, Servers
  <2>4. cli \in [Chan -> Clients] /\ job \in [Chan -> Jobs]
    BY <2>1 DEF Init, NoClient, Clients, NoJob, Jobs, Results
  <2>5. witness \in [Chan -> Witnesses]
    BY <2>1 DEF Init, NoWitness, Witnesses
  <2> QED
    BY <2>1, <2>2, <2>3, <2>4, <2>5, BoundAssumption DEF Init, TypeOK
<1>2. \A c \in Chan : srv[c].mode = "none" /\ cli[c].off = 0 /\ cli[c].buf = <<>>
  BY DEF Init, NoServer, NoClient
<1>3. \A i \in Idx : ~od[i].locked
  BY DEF Init
<1> QED
  BY <1>1, <1>2, <1>3 DEF SdoInv, EntryOwnership, Owns, ProxyInBounds,
                          ServersHoldEntries, SegmentHeldBack

\* Each step, whichever process takes it, keeps the invariant.
LEMMA NextInv ==
  ASSUME SdoInv, [Next]_vars
  PROVE  SdoInv'
<1>1. ServerInv /\ ServerIO /\ ClientInv /\ CounterInv
  BY SdoInvParts
<1> SUFFICES ServerInv' /\ ServerIO' /\ ClientInv' /\ CounterInv'
  BY DEF SdoInv, TypeOK, ProxyInBounds, ServerInv, ServerIO, ClientInv,
         CounterInv, ServerInBounds, ClientInBounds
<1>2. ASSUME NEW c \in Chan, ClientTransaction(c)
      PROVE  ServerInv' /\ ServerIO' /\ ClientInv' /\ CounterInv'
  <2>1. ClientInv' /\ ServerIO'
    BY <1>1, <1>2, ClientTransactionStep
  <2>2. UNCHANGED <<od, srv, losses>> /\ ops[c] < MaxOps /\ ops' = [ops EXCEPT ![c] = @ + 1]
    BY <1>2 DEF ClientTransaction, InitiateRead, InitiateExpeditedWrite,
                InitiateSegmentedWrite, InitiateBlockWrite, Start
  <2>3. ServerInv'
    BY <1>1, <2>2, IdlesKeeps DEF Idles
  <2>4. CounterInv'
    BY <1>1, <2>2, BoundAssumption DEF CounterInv
  <2> QED
    BY <2>1, <2>3, <2>4
<1>3. ASSUME NEW c \in Chan, ClientReceive(c)
      PROVE  ServerInv' /\ ServerIO' /\ ClientInv' /\ CounterInv'
  <2>1. ClientInv' /\ ServerIO'
    BY <1>1, <1>3, ClientReceiveStep
  <2>2. UNCHANGED <<od, srv, ops, losses>>
    BY <1>3 DEF ClientReceive, serverVars
  <2> QED
    BY <1>1, <2>1, <2>2, IdlesKeeps DEF Idles, CounterInv
<1>4. ASSUME NEW c \in Chan, ClientTimeout(c)
      PROVE  ServerInv' /\ ServerIO' /\ ClientInv' /\ CounterInv'
  <2>1. ClientInv'
    BY <1>1, <1>4, ClientTimeoutStep
  <2>2. UNCHANGED <<toCli, od, srv, witness, ops, losses>>
    BY <1>4 DEF ClientTimeout, serverVars
  <2> QED
    BY <1>1, <2>1, <2>2, IdlesKeeps DEF Idles, CounterInv, ServerIO
<1>5. ASSUME NEW c \in Chan, ServerReceive(c)
      PROVE  ServerInv' /\ ServerIO' /\ ClientInv' /\ CounterInv'
  <2>1. ServerStep(c)
    BY <1>1, <1>5, ServerReceiveStep DEF ClientInv
  <2>2. toSrv' \in [Chan -> Seq(Frames)] /\ UNCHANGED <<cli, job, ops, losses>>
    BY <1>1, <1>5, ConsumeFacts DEF ServerReceive, ClientInv, clientVars
  <2> QED
    BY <1>1, <2>1, <2>2, EffectKeeps DEF ServerStep, CounterInv, ClientInv, ClientInBounds
<1>6. ASSUME NEW c \in Chan, ServerTimeout(c)
      PROVE  ServerInv' /\ ServerIO' /\ ClientInv' /\ CounterInv'
  <2>1. ServerStep(c)
    BY <1>1, <1>6, ServerTimeoutStep
  <2>2. UNCHANGED <<toSrv, cli, job, ops, losses>>
    BY <1>6 DEF ServerTimeout, clientVars
  <2> QED
    BY <1>1, <2>1, <2>2, EffectKeeps DEF ServerStep, CounterInv, ClientInv, ClientInBounds
<1>7. ASSUME NEW c \in Chan, LoseRequest(c) \/ LoseReply(c)
      PROVE  ServerInv' /\ ServerIO' /\ ClientInv' /\ CounterInv'
  <2>1. ClientInv' /\ ServerIO'
    BY <1>1, <1>7, LossStep
  <2>2. UNCHANGED <<od, srv, ops>> /\ losses < MaxLosses /\ losses' = losses + 1
    BY <1>7 DEF LoseRequest, LoseReply, serverVars, clientVars
  <2>3. CounterInv'
    BY <1>1, <2>2, BoundAssumption DEF CounterInv
  <2> QED
    BY <1>1, <2>1, <2>2, <2>3, IdlesKeeps DEF Idles
<1>8. ASSUME NEW i \in Idx, NEW data \in LocalValues[i], LocalSet(i, data)
      PROVE  ServerInv' /\ ServerIO' /\ ClientInv' /\ CounterInv'
  <2>1. Uses(i) /\ ServerIO'
    BY <1>1, <1>8, LocalSetStep
  <2>2. UNCHANGED <<toSrv, cli, job, ops, losses>>
    BY <1>8 DEF LocalSet, clientVars
  <2> QED
    BY <1>1, <2>1, <2>2, UsesKeeps DEF CounterInv, ClientInv, ClientInBounds
<1>9. CASE UNCHANGED vars
  BY <1>1, <1>9, IdlesKeeps DEF vars, Idles, ServerIO, CounterInv,
                                ClientInv, ClientInBounds
<1> QED
  BY <1>2, <1>3, <1>4, <1>5, <1>6, <1>7, <1>8, <1>9, Zenon DEF Next

\* The invariant of the SDO protocol holds in every state, whatever is lost,
\* delayed or stray, and for all sizes, entries and channels.
THEOREM SdoInvariant == Spec => []SdoInv
<1>1. Init => SdoInv
  BY InitInv
<1>2. SdoInv /\ [Next]_vars => SdoInv'
  BY NextInv
<1> QED
  BY <1>1, <1>2, PTL DEF Spec

\* Every variable keeps its type; in particular every frame a handler sends
\* is well formed.
THEOREM TypeCorrect == Spec => []TypeOK
<1>1. SdoInv => TypeOK
  BY DEF SdoInv
<1> QED
  BY <1>1, SdoInvariant, PTL

\* An entry is locked exactly while one transaction holds it: no path of any
\* handler leaks the lock (OdEntry::lock, ~OdProxy).
THEOREM EntriesAreOwned == Spec => []EntryOwnership
<1>1. SdoInv => EntryOwnership
  BY DEF SdoInv
<1> QED
  BY <1>1, SdoInvariant, PTL

\* remaining() never wraps: no handler of server or client moves a proxy's
\* offset past the end of its data.
THEOREM ProxiesStayInBounds == Spec => []ProxyInBounds
<1>1. SdoInv => ProxyInBounds
  BY DEF SdoInv
<1> QED
  BY <1>1, SdoInvariant, PTL

(***************************************************************************)
(* The entry locks: a locked entry is written by its owner only, and the   *)
(* server implements the lock service of EntryLock.  Both follow from the  *)
(* shapes above, to which every handler was shown to belong.               *)
(***************************************************************************)

\* A step that serves a frame of c leaves the other queues alone.
LEMMA Served ==
  ASSUME SdoInv, NEW c \in Chan, ServerReceive(c)
  PROVE  /\ Len(toSrv[c]) > 0
         /\ toSrv'[c] # toSrv[c]
         /\ Waiting' = [Waiting EXCEPT ![c] = @ - 1]
<1>1. toSrv \in [Chan -> Seq(Frames)] /\ toSrv[c] # <<>>
  BY DEF SdoInv, TypeOK, ServerReceive
<1>2. /\ Len(toSrv'[c]) = Len(toSrv[c]) - 1
      /\ \A d \in Chan \ {c} : toSrv'[d] = toSrv[d]
  BY <1>1, ConsumeFacts DEF ServerReceive
<1>3. Len(toSrv[c]) \in Nat /\ Len(toSrv[c]) > 0
  BY <1>1
<1>4. Waiting' = [Waiting EXCEPT ![c] = @ - 1]
  BY <1>2 DEF Waiting
<1> QED
  BY <1>2, <1>3, <1>4

\* The steps of a client, and a lost frame, leave the server alone and change
\* the requests of one channel at most.
LEMMA ClientStepIsPost ==
  ASSUME SdoInv, SdoInv', NEW c \in Chan,
         \/ ClientTransaction(c) \/ ClientReceive(c) \/ ClientTimeout(c)
         \/ LoseRequest(c) \/ LoseReply(c)
  PROVE  /\ UNCHANGED <<od, srv>>
         /\ Waiting' \in [Chan -> Nat]
         /\ \A d \in Chan \ {c} : Waiting'[d] = Waiting[d]
<1>1. UNCHANGED <<od, srv>>
  BY DEF ClientTransaction, InitiateRead, InitiateExpeditedWrite,
         InitiateSegmentedWrite, InitiateBlockWrite, Start, ClientReceive,
         ClientTimeout, LoseRequest, LoseReply, serverVars
<1>2. ASSUME NEW frames PROVE \A d \in Chan \ {c} : Send(toSrv, c, frames)[d] = toSrv[d]
  BY DEF Send, SdoInv, TypeOK
<1>3. \A d \in Chan \ {c} : toSrv'[d] = toSrv[d]
  <2>1. ASSUME NEW frame, Request(c, frame)
        PROVE  \A d \in Chan \ {c} : toSrv'[d] = toSrv[d]
    BY <1>2, <2>1 DEF Request
  <2>2. CASE ClientTransaction(c)
    BY <2>1, <2>2 DEF ClientTransaction, InitiateRead, InitiateExpeditedWrite,
                      InitiateSegmentedWrite, InitiateBlockWrite
  <2>3. ASSUME NEW m, ProcessReply(c, m)
        PROVE  \A d \in Chan \ {c} : toSrv'[d] = toSrv[d]
    <3>1. CASE BlockBurst(c, m)
      BY <1>2, <3>1 DEF BlockBurst
    <3>2. CASE ~BlockBurst(c, m)
      BY <2>1, <2>3, <3>2 DEF ProcessReply, AbortReply, ExpeditedUploadReply, UploadReply,
                         UploadSegReply, DownloadReply, BlockReply
    <3> QED
      BY <3>1, <3>2
  <2>4. CASE ClientReceive(c)
    BY <2>3, <2>4 DEF ClientReceive
  <2>5. CASE ClientTimeout(c)
    BY <2>1, <2>5 DEF ClientTimeout
  <2>6. CASE LoseRequest(c)
    BY <2>6 DEF LoseRequest, Consume, SdoInv, TypeOK
  <2>7. CASE LoseReply(c)
    BY <2>7 DEF LoseReply
  <2> QED
    BY <2>2, <2>4, <2>5, <2>6, <2>7
<1>4. Waiting' \in [Chan -> Nat]
  BY DEF Waiting, SdoInv, TypeOK
<1>5. \A d \in Chan \ {c} : Waiting'[d] = Waiting[d]
  BY <1>3 DEF Waiting
<1> QED
  BY <1>1, <1>4, <1>5

\* A locked entry that changes is changed by a step that serves its owner.
THEOREM OwnerWrites == Spec => OnlyOwnerWrites
<1> DEFINE Guarded ==
      \A i \in Idx : od[i].locked /\ od'[i].data # od[i].data
                        => \E c \in Chan : Owns(c, i) /\ toSrv'[c] # toSrv[c]
<1>1. SdoInv /\ SdoInv' /\ [Next]_vars => [Guarded]_vars
  <2> SUFFICES ASSUME SdoInv, SdoInv', Next PROVE Guarded
    OBVIOUS
  <2>1. ServerInv /\ ServerIO /\ toSrv \in [Chan -> Seq(Frames)]
    BY SdoInvParts DEF ClientInv
  <2>2. CASE od' = od
    BY <2>2
  <2>3. ASSUME NEW c \in Chan, ServerReceive(c)
        PROVE  Guarded
    <3>1. Effect(c)
      BY <2>1, <2>3, ServerReceiveStep DEF ServerStep
    <3>2. toSrv'[c] # toSrv[c]
      BY <2>3, Served
    <3>3. ASSUME NEW j \in Idx, Uses(j) \/ Acquires(c, j) PROVE Guarded
      BY <3>3 DEF Uses, Acquires, OnlyEntry
    <3>4. ASSUME NEW j \in Idx, GoesOn(c, j) \/ Concludes(c, j) PROVE Guarded
      BY <3>2, <3>4 DEF GoesOn, Concludes, OnlyEntry, Owns
    <3> QED
      BY <2>2, <3>1, <3>3, <3>4 DEF Effect, Idles
  <2>4. ASSUME NEW c \in Chan, ServerTimeout(c)
        PROVE  Guarded
    BY <2>1, <2>4, ServerTimeoutStep DEF Concludes, OnlyEntry
  <2>5. ASSUME NEW i \in Idx, NEW data \in LocalValues[i], LocalSet(i, data)
        PROVE  Guarded
    BY <2>1, <2>5, LocalSetStep DEF Uses, OnlyEntry
  <2> QED
    BY <2>2, <2>3, <2>4, <2>5, ClientStepIsPost DEF Next
<1>2. SdoInv /\ [Next]_vars => SdoInv'
  BY NextInv
<1> QED
  BY <1>1, <1>2, SdoInvariant, PTL DEF Spec, OnlyOwnerWrites
-----------------------------------------------------------------------------
(* The refinement *)

LEMMA InitRefines ==
  ASSUME Init
  PROVE  Lock!LockInit
<1>1. Held = [c \in Chan |-> NoIdx]
  BY DEF Init, NoServer, Held
<1>2. Contents \in [Idx -> Seq(Byte)]
  BY DataAssumption DEF Init, Contents
<1>3. Waiting = [c \in Chan |-> 0]
  BY DEF Init, Waiting
<1> QED
  BY <1>1, <1>2, <1>3 DEF Lock!LockInit

\* A free entry is held by nobody, an owned one by its owner.
LEMMA HeldFacts ==
  ASSUME SdoInv
  PROVE  /\ \A i \in Idx : ~od[i].locked => Lock!Free(i)
         /\ \A c \in Chan : srv[c].mode # "none" => Held[c] = srv[c].idx
         /\ \A c \in Chan : srv[c].mode = "none" => Held[c] = NoIdx
  BY IndexAssumption DEF SdoInv, EntryOwnership, Owns, Held, Lock!Free

LEMMA WritesFacts ==
  ASSUME SdoInv', NEW i \in Idx, OnlyEntry(i)
  PROVE  Lock!Writes(i)
  BY DEF OnlyEntry, Entries, Contents, Lock!Writes

LEMMA HeldChange ==
  ASSUME SdoInv, NEW c \in Chan, NEW s, srv' = [srv EXCEPT ![c] = s]
  PROVE  Held' = [Held EXCEPT ![c] = IF s.mode = "none" THEN NoIdx ELSE s.idx]
  BY DEF Held, SdoInv, TypeOK

LEMMA ConcludesLetsGo ==
  ASSUME SdoInv, NEW c \in Chan, NEW i \in Idx, Concludes(c, i)
  PROVE  Held' = [Held EXCEPT ![c] = NoIdx]
<1> DEFINE s == NoServer
<1>1. srv' = [srv EXCEPT ![c] = s] /\ s.mode = "none"
  BY DEF Concludes, NoServer
<1> HIDE DEF s
<1> QED
  BY <1>1, HeldChange

LEMMA StepRefines ==
  ASSUME SdoInv, SdoInv', [Next]_vars
  PROVE  [Lock!LockNext]_(Lock!lockVars)
<1>1. ServerInv /\ ServerIO /\ toSrv \in [Chan -> Seq(Frames)]
  BY SdoInvParts DEF ClientInv
<1>2. ASSUME NEW c \in Chan,
             \/ ClientTransaction(c) \/ ClientReceive(c) \/ ClientTimeout(c)
             \/ LoseRequest(c) \/ LoseReply(c)
      PROVE  Lock!Post(c)
  <2>1. /\ UNCHANGED <<od, srv>>
        /\ Waiting' \in [Chan -> Nat]
        /\ \A d \in Chan \ {c} : Waiting'[d] = Waiting[d]
    BY <1>2, ClientStepIsPost
  <2>2. UNCHANGED <<Held, Contents>>
    BY <2>1 DEF Held, Contents
  <2> QED
    BY <2>1, <2>2 DEF Lock!Post
<1>3. ASSUME NEW c \in Chan, ServerReceive(c)
      PROVE  \/ Lock!Use(c)
             \/ \E i \in Idx : \/ Lock!Acquire(c, i) \/ Lock!OwnerWrite(c, i)
                               \/ Lock!Release(c, i)
  <2>1. Effect(c)
    BY <1>1, <1>3, ServerReceiveStep DEF ServerStep
  <2>2. Lock!Serve(c)
    <3>1. Waiting[c] = Len(toSrv[c])
      BY DEF Waiting
    <3> QED
      BY <1>3, <3>1, Served DEF Lock!Serve
  <2>3. CASE Idles
    <3>1. UNCHANGED <<Held, Contents>>
      BY <2>3 DEF Idles, Held, Contents
    <3> QED
      BY <2>2, <3>1 DEF Lock!Use
  <2>4. ASSUME NEW i \in Idx, Uses(i)
        PROVE  Lock!Use(c)
    <3>1. UNCHANGED Held
      BY <2>4 DEF Uses, Held
    <3>2. Lock!Free(i) /\ Lock!Writes(i)
      BY <2>4, HeldFacts, WritesFacts DEF Uses
    <3> QED
      BY <2>2, <3>1, <3>2 DEF Lock!Use
  <2>5. ASSUME NEW i \in Idx, Acquires(c, i)
        PROVE  Lock!Acquire(c, i)
    <3>1. PICK s \in Servers : s.mode # "none" /\ s.idx = i /\ srv' = [srv EXCEPT ![c] = s]
      BY <2>5 DEF Acquires
    <3>2. Held' = [Held EXCEPT ![c] = i]
      BY <3>1, HeldChange
    <3>3. Held[c] = NoIdx /\ Lock!Free(i) /\ Lock!Writes(i)
      BY <2>5, HeldFacts, WritesFacts DEF Acquires
    <3> QED
      BY <2>2, <3>2, <3>3 DEF Lock!Acquire
  <2>6. ASSUME NEW i \in Idx, GoesOn(c, i)
        PROVE  Lock!OwnerWrite(c, i)
    <3>1. PICK s \in Servers : s.mode # "none" /\ s.idx = i /\ srv' = [srv EXCEPT ![c] = s]
      BY <2>6 DEF GoesOn
    <3>2. Held[c] = i /\ Lock!Writes(i)
      BY <2>6, HeldFacts, WritesFacts DEF GoesOn
    <3>3. Held' = [Held EXCEPT ![c] = i]
      BY <3>1, HeldChange
    <3>4. UNCHANGED Held
      BY <3>2, <3>3 DEF Held
    <3> QED
      BY <2>2, <3>2, <3>4 DEF Lock!OwnerWrite
  <2>7. ASSUME NEW i \in Idx, Concludes(c, i)
        PROVE  Lock!Release(c, i)
    <3>1. Held[c] = i /\ Lock!Writes(i)
      BY <2>7, HeldFacts, WritesFacts DEF Concludes
    <3>2. Held' = [Held EXCEPT ![c] = NoIdx]
      BY <2>7, ConcludesLetsGo
    <3> QED
      BY <2>2, <3>1, <3>2 DEF Lock!Release
  <2> QED
    BY <2>1, <2>3, <2>4, <2>5, <2>6, <2>7, Zenon DEF Effect
<1>4. ASSUME NEW c \in Chan, ServerTimeout(c)
      PROVE  \E i \in Idx : Lock!Expire(c, i)
  <2> DEFINE i == srv[c].idx
  <2>1. Concludes(c, i) /\ od'[i].data = od[i].data /\ i \in Idx
    BY <1>1, <1>4, ServerTimeoutStep, Holder DEF ServerTimeout
  <2>2. Held[c] = i /\ Held' = [Held EXCEPT ![c] = NoIdx]
    BY <2>1, HeldFacts, ConcludesLetsGo DEF Concludes
  <2>3. UNCHANGED <<Contents, Waiting>>
    BY <1>4, <2>1 DEF Contents, Waiting, ServerTimeout, Concludes, OnlyEntry
  <2> QED
    BY <2>1, <2>2, <2>3 DEF Lock!Expire
<1>5. ASSUME NEW i \in Idx, NEW data \in LocalValues[i], LocalSet(i, data)
      PROVE  Lock!LocalWrite(i)
  <2>1. Uses(i)
    BY <1>1, <1>5, LocalSetStep
  <2>2. Lock!Free(i) /\ Lock!Writes(i)
    BY <2>1, HeldFacts, WritesFacts DEF Uses
  <2>3. UNCHANGED <<Held, Waiting>>
    BY <1>5, <2>1 DEF Uses, Held, Waiting, LocalSet
  <2> QED
    BY <2>2, <2>3 DEF Lock!LocalWrite
<1>6. CASE UNCHANGED vars
  BY <1>6 DEF vars, Held, Contents, Waiting, Lock!lockVars
<1> QED
  BY <1>2, <1>3, <1>4, <1>5, <1>6, Zenon DEF Next, Lock!LockNext

\* Seen through the locks, the whole SDO protocol is a lock service.
THEOREM SdoIsLockService == Spec => LockService
<1>1. Init => Lock!LockInit
  BY InitRefines
<1>2. SdoInv /\ SdoInv' /\ [Next]_vars => [Lock!LockNext]_(Lock!lockVars)
  BY StepRefines
<1>3. SdoInv /\ [Next]_vars => SdoInv'
  BY NextInv
<1> QED
  BY <1>1, <1>2, <1>3, SdoInvariant, PTL DEF Spec, LockService, Lock!LockSpec
-----------------------------------------------------------------------------
(* Generations. An entry whose bytes its observers do not know is held by  *)
(* a transaction that will tell them.                                      *)

\* no entry is a vector or a string
FixedSizes == \A i \in Idx : ~Resizable[i]

\* An entry its observers are behind is held by a transaction that will tell them.
ChangesAreKnown ==
  \A i \in Idx : \/ od[i].published = od[i].data
                 \/ \E c \in Chan : Owns(c, i) /\ srv[c].changed

\* An entry and the transaction of c change together, and what the entry's
\* observers do not know the transaction does.
Tells(c, i, e, s) ==
  /\ od' = [od EXCEPT ![i] = e]
  /\ srv' = [srv EXCEPT ![c] = s]
  /\ srv[c].mode = "none" \/ srv[c].idx = i
  /\ e.published = e.data \/ (s.mode # "none" /\ s.idx = i /\ s.changed)

\* A step that tells keeps that changes are known.
LEMMA TellsKeeps ==
  ASSUME ServerInv, ChangesAreKnown, NEW c \in Chan, NEW i \in Idx, NEW e, NEW s,
         Tells(c, i, e, s)
  PROVE  ChangesAreKnown'
<1>1. od'[i] = e /\ srv'[c] = s
  BY DEF ServerInv, Tells
<1>2. /\ \A j \in Idx \ {i} : od'[j] = od[j]
      /\ \A d \in Chan \ {c} : srv'[d] = srv[d]
  BY DEF ServerInv, Tells
<1>3. ASSUME NEW j \in Idx, j # i, od[j].published # od[j].data
      PROVE  \E d \in Chan : Owns(d, j)' /\ srv'[d].changed
  <2>1. PICK d \in Chan : Owns(d, j) /\ srv[d].changed
    BY <1>3 DEF ChangesAreKnown
  <2>2. d # c
    BY <1>3, <2>1 DEF Owns, Tells
  <2> QED
    BY <1>2, <2>1, <2>2 DEF Owns
<1>4. od'[i].published = od'[i].data \/ (Owns(c, i)' /\ srv'[c].changed)
  BY <1>1 DEF Tells, Owns
<1> QED
  BY <1>2, <1>3, <1>4 DEF ChangesAreKnown

\* What nobody holds is known.
LEMMA FreeIsKnown ==
  ASSUME ServerInv, ChangesAreKnown, NEW i \in Idx, ~od[i].locked
  PROVE  od[i].published = od[i].data
BY DEF ServerInv, EntryOwnership, ChangesAreKnown

\* What a transaction holds it knows.
LEMMA HeldIsKnown ==
  ASSUME ServerInv, ChangesAreKnown, NEW c \in Chan, srv[c].mode # "none"
  PROVE  \/ od[srv[c].idx].published = od[srv[c].idx].data
         \/ srv[c].changed
<1>1. srv[c].idx \in Idx /\ Owns(c, srv[c].idx)
  BY Holder DEF Owns
<1>2. \A d \in Chan : Owns(d, srv[c].idx) => d = c
  BY <1>1 DEF ServerInv, EntryOwnership
<1> QED
  BY <1>1, <1>2 DEF ChangesAreKnown

\* A released entry is known, if its changes were.
LEMMA ReleaseTells ==
  ASSUME NEW e \in Entries, NEW data \in Seq(Byte),
         NEW changed \in BOOLEAN, NEW senderIsFinished \in BOOLEAN,
         changed \/ e.published = data
  PROVE  LET r == Release([e EXCEPT !.data = data], changed, senderIsFinished)
         IN  r.published = r.data
<1> DEFINE e1 == [e EXCEPT !.data = data]
           r == Release(e1, changed, senderIsFinished)
<1>1. /\ DOMAIN e1 = {"data", "locked", "published", "notified"}
      /\ e1.data = data /\ e1.published = e.published
  BY DEF Entries
<1>2. r.published = (IF changed THEN e1.data ELSE e1.published) /\ r.data = e1.data
  <2> HIDE DEF e1
  <2> QED
    BY <1>1 DEF Release
<1> QED
  BY <1>1, <1>2

\* The end of a transaction releases its entry and tells of its changes.
LEMMA ConcludeTells ==
  ASSUME ServerInv, ChangesAreKnown, NEW c \in Chan, srv[c].mode # "none",
         NEW data \in Seq(Byte), NEW changed \in BOOLEAN, NEW senderIsFinished \in BOOLEAN,
         \/ changed
         \/ changed = srv[c].changed /\ data = od[srv[c].idx].data,
         Conclude(c, data, changed, senderIsFinished)
  PROVE  ChangesAreKnown'
<1> DEFINE i == srv[c].idx
           e == Release([od[i] EXCEPT !.data = data], changed, senderIsFinished)
<1>1. i \in Idx /\ od[i] \in Entries
  BY Holder
<1>2. changed \/ od[i].published = data
  BY HeldIsKnown
<1>3. e.published = e.data
  BY <1>1, <1>2, ReleaseTells
<1>4. od' = [od EXCEPT ![i] = e] /\ srv' = [srv EXCEPT ![c] = NoServer]
  BY DEF Conclude
<1> HIDE DEF e
<1>5. Tells(c, i, e, NoServer)
  BY <1>3, <1>4 DEF Tells
<1> QED
  BY <1>1, <1>5, TellsKeeps

\* So does a failure.
LEMMA FailTells ==
  ASSUME ServerInv, ChangesAreKnown, NEW c \in Chan, srv[c].mode # "none",
         NEW e, Fail(c, e)
  PROVE  ChangesAreKnown'
BY Holder, ConcludeTells DEF Fail

\* So does a timeout, which says nothing to the client.
LEMMA SilenceTells ==
  ASSUME ChangesAreKnown, UNCHANGED <<od, srv>>
  PROVE  ChangesAreKnown'
BY DEF ChangesAreKnown, Owns

\* A free entry is used or taken into a transaction that has not changed it.
LEMMA UseTells ==
  ASSUME ServerInv, ChangesAreKnown, NEW c \in Chan, srv[c].mode = "none",
         NEW i \in Idx, NEW e, e.published = e.data, od' = [od EXCEPT ![i] = e],
         NEW s, srv' = [srv EXCEPT ![c] = s]
  PROVE  ChangesAreKnown'
<1>1. Tells(c, i, e, s)
  BY DEF Tells
<1> QED
  BY <1>1, TellsKeeps

\* An initiate request uses a free entry, or takes it unchanged.
LEMMA InitiateTells ==
  ASSUME ServerInv, ChangesAreKnown, FixedSizes, NEW c \in Chan, NEW m \in Frames,
         ProcessInitiate(c, m)
  PROVE  ChangesAreKnown'
<1> DEFINE i == m.idx
<1>1. CASE \/ UploadInitiateRefused(c, m) \/ DownloadInitiateRefused(c, m)
           \/ NotAnInitiate(c, m) \/ UploadInitiateExpedited(c, m)
  <2>1. UNCHANGED <<od, srv>>
    BY <1>1 DEF UploadInitiateRefused, DownloadInitiateRefused, NotAnInitiate,
                UploadInitiateExpedited, Refuse, serverVars
  <2> QED
    BY <2>1, SilenceTells
<1>2. ASSUME MakeProxyError(i) = "Success"
      PROVE  /\ i \in Idx /\ od[i] \in Entries /\ od[i].published = od[i].data
             /\ od = [od EXCEPT ![i] = od[i]]
             /\ \A s : srv' = srv => srv' = [srv EXCEPT ![c] = srv[c]]
  BY <1>2, FreeEntry, FreeIsKnown DEF ServerInv
<1>3. ASSUME i \in Idx, NEW n, Accepts(i, n)
      PROVE  Fitted(i, n) = od[i].data
  BY <1>3 DEF Accepts, FixedSizes, Fitted
<1>4. CASE UploadInitiate(c, m)
  <2> DEFINE e == [od[i] EXCEPT !.locked = TRUE]
  <2>1. /\ srv[c].mode = "none" /\ MakeProxyError(i) = "Success"
        /\ od' = [od EXCEPT ![i] = e] /\ srv' = [srv EXCEPT ![c] = NewServer(i)]
    BY <1>4 DEF UploadInitiate, Initiates
  <2>2. e.published = e.data
    BY <1>2, <2>1 DEF Entries
  <2> HIDE DEF e
  <2> QED
    BY <1>2, <2>1, <2>2, UseTells
<1>5. CASE DownloadInitiateExpedited(c, m)
  <2>1. /\ srv[c].mode = "none" /\ MakeProxyError(i) = "Success" /\ Accepts(i, m.size)
        /\ srv' = [srv EXCEPT ![c] = srv[c]]
    BY <1>2, <1>5 DEF DownloadInitiateExpedited, Initiates
  <2>2. CASE Access[i] = "RO"
    <3> DEFINE e == [od[i] EXCEPT !.data = Fitted(i, m.size)]
    <3>1. od' = [od EXCEPT ![i] = e]
      BY <1>5, <2>2 DEF DownloadInitiateExpedited
    <3>2. e.published = e.data
      BY <1>2, <1>3, <2>1 DEF Entries
    <3> HIDE DEF e
    <3> QED
      BY <1>2, <2>1, <3>1, <3>2, UseTells
  <2>3. CASE Access[i] # "RO"
    <3> DEFINE e == Release([od[i] EXCEPT !.data = m.data], TRUE, TRUE)
    <3>1. od' = [od EXCEPT ![i] = e]
      BY <1>5, <2>3 DEF DownloadInitiateExpedited
    <3>2. m.data \in Seq(Byte)
      BY DEF Frames, FrameFields
    <3>3. e.published = e.data
      BY <1>2, <2>1, <3>2, ReleaseTells
    <3> HIDE DEF e
    <3> QED
      BY <1>2, <2>1, <3>1, <3>3, UseTells
  <2> QED
    BY <2>2, <2>3
<1>6. CASE DownloadInitiate(c, m)
  <2>1. /\ srv[c].mode = "none" /\ MakeProxyError(i) = "Success" /\ Accepts(i, m.size)
    BY <1>6 DEF DownloadInitiate, Initiates
  <2>2. CASE m.size > 0
    <3> DEFINE e == [od[i] EXCEPT !.data = Fitted(i, m.size), !.locked = TRUE]
    <3>1. od' = [od EXCEPT ![i] = e] /\ srv' = [srv EXCEPT ![c] = NewServer(i)]
      BY <1>6, <2>2 DEF DownloadInitiate
    <3>2. e.published = e.data
      BY <1>2, <1>3, <2>1 DEF Entries
    <3> HIDE DEF e
    <3> QED
      BY <1>2, <2>1, <3>1, <3>2, UseTells
  <2>3. CASE ~ (m.size > 0)
    <3> DEFINE e == [od[i] EXCEPT !.data = Fitted(i, 0)]
    <3>1. od' = [od EXCEPT ![i] = e] /\ srv' = [srv EXCEPT ![c] = srv[c]]
      BY <1>2, <1>6, <2>1, <2>3 DEF DownloadInitiate
    <3>2. m.size = 0
      BY <2>3 DEF Frames, FrameFields
    <3>3. e.published = e.data
      BY <1>2, <1>3, <2>1, <3>2 DEF Entries
    <3> HIDE DEF e
    <3> QED
      BY <1>2, <2>1, <3>1, <3>3, UseTells
  <2> QED
    BY <2>2, <2>3
<1>7. CASE BlockInitiate(c, m)
  <2> DEFINE e == [od[i] EXCEPT !.locked = TRUE]
  <2>1. CASE MakeProxyError(i) = "Success"
    <3>1. /\ srv[c].mode = "none" /\ od' = [od EXCEPT ![i] = e]
          /\ srv' = [srv EXCEPT ![c] = NewServerBlockMode(i)]
      BY <1>7, <2>1 DEF BlockInitiate, Initiates
    <3>2. e.published = e.data
      BY <1>2, <2>1 DEF Entries
    <3> HIDE DEF e
    <3> QED
      BY <1>2, <2>1, <3>1, <3>2, UseTells
  <2>2. CASE MakeProxyError(i) # "Success"
    BY <1>7, <2>2, SilenceTells DEF BlockInitiate
  <2> QED
    BY <2>1, <2>2
<1> QED
  BY <1>1, <1>4, <1>5, <1>6, <1>7, Zenon DEF ProcessInitiate

\* A transaction goes on, and knows of what it has changed.
LEMMA GoesOnTells ==
  ASSUME ServerInv, ChangesAreKnown, NEW c \in Chan, srv[c].mode # "none",
         NEW e, od' = [od EXCEPT ![srv[c].idx] = e],
         NEW s, srv' = [srv EXCEPT ![c] = s], s.mode = srv[c].mode, s.idx = srv[c].idx,
         s.changed \/ (e = od[srv[c].idx] /\ s.changed = srv[c].changed)
  PROVE  ChangesAreKnown'
<1>1. Tells(c, srv[c].idx, e, s)
  BY HeldIsKnown DEF Tells
<1> QED
  BY <1>1, Holder, TellsKeeps

\* A segmented transaction copies, or ends.
LEMMA SegmentedTells ==
  ASSUME ServerInv, ChangesAreKnown, NEW c \in Chan, NEW m \in Frames,
         ProcessSegmented(c, m)
  PROVE  ChangesAreKnown'
<1> DEFINE i == srv[c].idx
<1>1. srv[c].mode # "none"
  BY DEF ProcessSegmented, InSegmented, ServerAborted, SegmentRead,
         DownloadSegmentRefused, DownloadSegment, UnhandledRequest
<1>2. CASE \/ ServerAborted(c, m) \/ DownloadSegmentRefused(c, m)
           \/ UnhandledRequest(c, m)
  BY <1>1, <1>2, Holder, FailTells, ConcludeTells
     DEF ServerAborted, DownloadSegmentRefused, UnhandledRequest
<1>3. od = [od EXCEPT ![i] = od[i]]
  BY DEF ServerInv
<1>4. CASE SegmentRead(c, m)
  <2>1. CASE \E e : Fail(c, e)
    BY <1>1, <2>1, FailTells
  <2>2. CASE Conclude(c, od[i].data, srv[c].changed, FALSE)
    BY <1>1, <2>2, Holder, ConcludeTells
  <2>3. ASSUME NEW off, srv' = [srv EXCEPT ![c].off = off], od' = od
        PROVE  ChangesAreKnown'
    <3> DEFINE s == [srv[c] EXCEPT !.off = off]
    <3>1. s.mode = srv[c].mode /\ s.idx = srv[c].idx /\ s.changed = srv[c].changed
      BY <1>1, Holder DEF Servers
    <3>2. srv' = [srv EXCEPT ![c] = s]
      BY <2>3
    <3> HIDE DEF s
    <3> QED
      BY <1>1, <1>3, <2>3, <3>1, <3>2, GoesOnTells
  <2> QED
    BY <1>4, <2>1, <2>2, <2>3 DEF SegmentRead
<1>5. CASE DownloadSegment(c, m)
  <2> DEFINE data == Stored(c, m.data)
             n == srv[c].off + Len(m.data)
  <2>1. data \in Seq(Byte)
    BY <1>1, StoredFacts DEF Frames, FrameFields
  <2>2. CASE Conclude(c, data, TRUE, TRUE)
    <3> HIDE DEF data
    <3> QED
      BY <1>1, <2>1, <2>2, ConcludeTells
  <2>3. CASE /\ srv' = [srv EXCEPT ![c].off = n, ![c].changed = TRUE]
             /\ od' = [od EXCEPT ![i].data = data]
    <3> DEFINE s == [srv[c] EXCEPT !.off = n, !.changed = TRUE]
               e == [od[i] EXCEPT !.data = data]
    <3>1. srv' = [srv EXCEPT ![c] = s] /\ od' = [od EXCEPT ![i] = e]
      BY <2>3
    <3> HIDE DEF n
    <3>2. s.mode = srv[c].mode /\ s.idx = srv[c].idx /\ s.changed
      BY <1>1, Holder DEF Servers
    <3> HIDE DEF s, e
    <3> QED
      BY <1>1, <3>1, <3>2, GoesOnTells
  <2> QED
    BY <1>5, <2>2, <2>3 DEF DownloadSegment
<1> QED
  BY <1>2, <1>4, <1>5, Zenon DEF ProcessSegmented

\* A block transaction that stays open notes whether it changed the entry.
LEMMA LingerTells ==
  ASSUME ServerInv, ChangesAreKnown, NEW c \in Chan, srv[c].mode # "none",
         NEW e, od' = [od EXCEPT ![srv[c].idx] = e], NEW err, NEW off, NEW changed,
         changed \/ (e = od[srv[c].idx] /\ changed = srv[c].changed),
         Linger(c, err, off, changed)
  PROVE  ChangesAreKnown'
<1> DEFINE s == [srv[c] EXCEPT !.state = "End", !.finished = TRUE, !.off = off,
                               !.changed = changed]
<1>1. srv' = [srv EXCEPT ![c] = s]
  BY DEF Linger
<1>2. s.mode = srv[c].mode /\ s.idx = srv[c].idx /\ s.changed = changed
  BY Holder DEF Servers
<1> HIDE DEF s
<1> QED
  BY <1>1, <1>2, GoesOnTells

\* Every block step lingers, or ends the transaction.
LEMMA BlockTells ==
  ASSUME ServerInv, ChangesAreKnown, NEW c \in Chan, NEW m \in Frames,
         ProcessBlock(c, m)
  PROVE  ChangesAreKnown'
<1> DEFINE i == srv[c].idx
<1>1. srv[c].mode # "none"
  BY DEF ProcessBlock, InBlock, BlockStart, BlockCopyFails, BlockSubBlock, BlockJunk, BlockEnd
<1>2. od = [od EXCEPT ![i] = od[i]]
  BY DEF ServerInv
<1>3. CASE BlockStart(c, m)
  <2>1. CASE Linger(c, "DataXfer", srv[c].off, srv[c].changed)
    <3>1. od' = [od EXCEPT ![i] = od[i]]
      BY <1>2, <1>3 DEF BlockStart
    <3> QED
      BY <1>1, <2>1, <3>1, LingerTells
  <2>2. CASE srv' = [srv EXCEPT ![c].state = "SubBlock", ![c].expected = 2,
                                ![c].lastSegment = Pad(m.data)]
    <3> DEFINE s == [srv[c] EXCEPT !.state = "SubBlock", !.expected = 2,
                                   !.lastSegment = Pad(m.data)]
    <3>1. srv' = [srv EXCEPT ![c] = s] /\ od' = [od EXCEPT ![i] = od[i]]
      BY <1>2, <1>3, <2>2 DEF BlockStart
    <3>2. s.mode = srv[c].mode /\ s.idx = srv[c].idx /\ s.changed = srv[c].changed
      BY <1>1, Holder DEF Servers
    <3> HIDE DEF s
    <3> QED
      BY <1>1, <3>1, <3>2, GoesOnTells
  <2> QED
    BY <1>3, <2>1, <2>2 DEF BlockStart
<1>4. CASE BlockCopyFails(c, m)
  <2>1. PICK e : Linger(c, e, srv[c].off, srv[c].changed)
    BY <1>4 DEF BlockCopyFails
  <2>2. od' = [od EXCEPT ![i] = od[i]]
    BY <1>2, <1>4 DEF BlockCopyFails
  <2> QED
    BY <1>1, <2>1, <2>2, LingerTells
<1>5. CASE BlockSubBlock(c, m)
  <2> DEFINE off == srv[c].off + SegmentBytes
             e == [od[i] EXCEPT !.data = Stored(c, srv[c].lastSegment)]
             changed == TRUE
             st == IF m.cs >= 4 THEN "End" ELSE srv[c].state
             ex == IF EndOfSubBlock(m) THEN 1 ELSE m.seq + 1
             ls == Pad(m.data)
  <2>1. od' = [od EXCEPT ![i] = e]
    BY <1>5 DEF BlockSubBlock
  <2>2. CASE Linger(c, "DataXfer", off, changed)
    <3> HIDE DEF off, e
    <3> QED
      BY <1>1, <2>1, <2>2, LingerTells
  <2>3. CASE srv' = [srv EXCEPT ![c].state = st, ![c].expected = ex,
                                ![c].lastSegment = ls, ![c].off = off, ![c].changed = TRUE]
    <3> HIDE DEF off, st, ex, ls
    <3> DEFINE s == [srv[c] EXCEPT !.state = st, !.expected = ex, !.lastSegment = ls,
                                   !.off = off, !.changed = TRUE]
    <3>1. srv' = [srv EXCEPT ![c] = s]
      BY <2>3
    <3>2. s.mode = srv[c].mode /\ s.idx = srv[c].idx /\ s.changed
      BY <1>1, Holder DEF Servers
    <3> HIDE DEF s, e
    <3> QED
      BY <1>1, <2>1, <3>1, <3>2, GoesOnTells
  <2> QED
    BY <1>5, <2>2, <2>3 DEF BlockSubBlock
<1>6. CASE BlockJunk(c, m)
  BY <1>6, SilenceTells DEF BlockJunk
<1>7. CASE BlockEnd(c, m)
  <2> DEFINE lastLen == AtMost(m.size, SegmentBytes)
             lastBytes == Chunk(srv[c].lastSegment, 0, lastLen)
             data == Stored(c, lastBytes)
  <2>1. CASE Conclude(c, od[i].data, srv[c].changed, FALSE)
    BY <1>1, <2>1, Holder, ConcludeTells
  <2>2. CASE \E e : Fail(c, e)
    BY <1>1, <2>2, FailTells
  <2>3. CASE ~srv[c].finished /\ Conclude(c, data, TRUE, TRUE)
    <3>1. srv[c].mode = "block" /\ srv[c].state = "End"
      BY <1>7 DEF BlockEnd, InBlock
    <3>2. srv[c].lastSegment \in Seq(Byte) /\ Len(srv[c].lastSegment) = SegmentBytes
      BY <1>1, <2>3, <3>1, Holder DEF Servers, ServerInv, SegmentHeldBack
    <3>3. lastLen \in Nat /\ lastLen <= SegmentBytes
      BY AtMostFacts, FrameAssumption DEF Frames, FrameFields
    <3>4. lastBytes \in Seq(Byte)
      <4> HIDE DEF lastLen
      <4> QED
        BY <3>2, <3>3, ChunkFacts
    <3> HIDE DEF lastBytes
    <3>5. data \in Seq(Byte)
      BY <1>1, <3>4, StoredFacts
    <3> HIDE DEF data
    <3> QED
      BY <1>1, <2>3, <3>5, ConcludeTells
  <2> QED
    BY <1>7, <2>1, <2>2, <2>3 DEF BlockEnd
<1> QED
  BY <1>3, <1>4, <1>5, <1>6, <1>7, Zenon DEF ProcessBlock

\* While no step resizes an entry, an unlocked one holds the bytes that its
\* generation stands for: transfers that were aborted half way have moved it,
\* writes that were refused have not (~OdProxy, Conclude).
THEOREM GenerationsFollow ==
  ASSUME FixedSizes
  PROVE  Spec => []GenerationFollowsData
<1>1. Init => ChangesAreKnown
  BY DEF Init, ChangesAreKnown
<1>2. SdoInv /\ ChangesAreKnown /\ [Next]_vars => ChangesAreKnown'
  <2> SUFFICES ASSUME SdoInv, ChangesAreKnown, [Next]_vars PROVE ChangesAreKnown'
    OBVIOUS
  <2>1. ServerInv /\ ServerIO /\ toSrv \in [Chan -> Seq(Frames)]
    BY SdoInvParts DEF ClientInv
  <2>2. ASSUME NEW c \in Chan, ServerReceive(c)
        PROVE  ChangesAreKnown'
    <3> DEFINE m == Head(toSrv[c])
    <3>1. m \in Frames
      BY <2>1, <2>2, ConsumeFacts DEF ServerReceive
    <3>2. \A r \in Requests(m) : r \in Frames
      BY <3>1, RequestFacts
    <3>3. \/ \E r \in Requests(m) : ProcessInitiate(c, r)
          \/ ProcessSegmented(c, m) \/ ProcessBlock(c, m)
      BY <2>2 DEF ServerReceive
    <3> HIDE DEF m
    <3> QED
      BY <2>1, <3>1, <3>2, <3>3, InitiateTells, SegmentedTells, BlockTells
  <2>3. ASSUME NEW c \in Chan, ServerTimeout(c)
        PROVE  ChangesAreKnown'
    BY <2>1, <2>3, FailTells DEF ServerTimeout
  <2>4. ASSUME NEW i \in Idx, NEW data \in LocalValues[i], LocalSet(i, data)
        PROVE  ChangesAreKnown'
    <3> DEFINE e == [od[i] EXCEPT !.data = data, !.published = data, !.notified = data]
    <3>1. od' = [od EXCEPT ![i] = e] /\ srv' = srv
      BY <2>4 DEF LocalSet
    <3>2. e.published = e.data
      BY <2>1 DEF ServerInv, Entries
    <3> HIDE DEF e
    <3>3. od'[i] = e /\ \A j \in Idx \ {i} : od'[j] = od[j]
      BY <2>1, <3>1 DEF ServerInv
    <3> QED
      BY <3>1, <3>2, <3>3 DEF ChangesAreKnown, Owns
  <2>5. CASE \/ \E c \in Chan : \/ ClientTransaction(c) \/ ClientReceive(c)
                               \/ ClientTimeout(c) \/ LoseRequest(c) \/ LoseReply(c)
             \/ UNCHANGED vars
    <3>1. UNCHANGED <<od, srv>>
      BY <2>5 DEF ClientTransaction, InitiateRead, InitiateExpeditedWrite,
         InitiateSegmentedWrite, InitiateBlockWrite, Start, ClientReceive,
         ClientTimeout, LoseRequest, LoseReply, serverVars, vars
    <3> QED
      BY <3>1, SilenceTells
  <2> QED
    BY <2>2, <2>3, <2>4, <2>5 DEF Next
<1>3. SdoInv /\ ChangesAreKnown => GenerationFollowsData
  <2> SUFFICES ASSUME SdoInv, ChangesAreKnown, NEW i \in Idx, ~od[i].locked
               PROVE  od[i].published = od[i].data
    BY DEF GenerationFollowsData
  <2> QED
    BY SdoInvParts, FreeIsKnown
<1> QED
  BY <1>1, <1>2, <1>3, SdoInvariant, PTL DEF Spec
=============================================================================
