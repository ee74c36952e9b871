---------------------------- MODULE MainLoopProofs ----------------------------
(***************************************************************************)
(* Proofs about MainLoop, for any number of callers, frames, TPDOs and     *)
(* calls: LoopInv is inductive as it stands, and the hand-over's assertion, *)
(* the order of frames, the notifications and the bound on the queue of    *)
(* sends follow from it. Nothing is assumed of the polls or of fairness.   *)
(***************************************************************************)
EXTENDS MainLoop, SequenceTheorems, FiniteSetTheorems, WellFoundedInduction, TLAPS

-----------------------------------------------------------------------------
(* The deadline, and the sequences of requests.                            *)

\* Times left are none or natural, and stay so when time passes.
LEMMA LeftFacts ==
  /\ Left \subseteq Nat \cup {None} /\ None \in Left
  /\ Delays \subseteq Left
  /\ \A left \in Left : Less(left) \in Left
<1>1. \A left \in Left : left = None \/ left = 0 \/ \E d \in Delays : left \in 1 .. d
  BY DEF Left
<1>2. None = -1
  BY DEF None
<1>3. Left \subseteq Nat \cup {None} /\ None \in Left
  BY <1>1, DelaysAssumption DEF Left
<1>4. Delays \subseteq Left
  BY DelaysAssumption DEF Left
<1>5. ASSUME NEW left \in Left
      PROVE  Less(left) \in Left
  <2>1. CASE left = None \/ left = 0
    BY <2>1, <1>2, <1>5 DEF Less
  <2>2. ASSUME NEW d \in Delays, left \in 1 .. d
        PROVE  Less(left) \in Left
    <3>1. d \in Nat /\ left - 1 \in 0 .. d /\ Less(left) = left - 1
      BY <2>2, DelaysAssumption DEF Less
    <3>2. left - 1 = 0 \/ left - 1 \in 1 .. d
      BY <2>2, <3>1
    <3> QED
      BY <3>1, <3>2 DEF Left
  <2> QED
    BY <1>1, <1>5, <2>1, <2>2
<1> QED
  BY <1>3, <1>4, <1>5

\* A set of natural numbers has a least one.
LEMMA LeastNumber ==
  ASSUME NEW S, S \subseteq Nat, S # {}
  PROVE  \E d \in S : \A e \in S : d <= e
<1>1. \E d \in S : \A e \in S : ~ (<<e, d>> \in OpToRel(<, Nat))
  BY NatLessThanWellFounded, WFMin
<1>2. PICK d \in S : \A e \in S : ~ (<<e, d>> \in OpToRel(<, Nat))
  BY <1>1
<1>3. \A e \in S : ~ (e < d)
  BY <1>2 DEF OpToRel
<1> QED
  BY <1>3

\* The deadline main sleeps to is one of the times left and covers them all
\* (nextTimerDeadline).
LEMMA DeadlineFacts ==
  ASSUME timer \in [Callers -> Left]
  PROVE  /\ NextTimerDeadline \in Left
         /\ \A c \in Running : NextTimerDeadline # None /\ NextTimerDeadline <= timer[c]
<1> DEFINE S == {timer[c] : c \in Running}
<1>1. CASE Running = {}
  BY <1>1, LeftFacts DEF NextTimerDeadline
<1>2. CASE Running # {}
  <2>1. S \subseteq Nat /\ S \subseteq Left /\ S # {}
    BY <1>2, LeftFacts DEF Running
  <2>2. \E d \in S : \A e \in S : d <= e
    BY <2>1, LeastNumber
  <2>3. \E d \in S : \A c \in Running : d <= timer[c]
    BY <2>2
  <2>4. NextTimerDeadline \in S /\ \A c \in Running : NextTimerDeadline <= timer[c]
    BY <1>2, <2>3 DEF NextTimerDeadline
  <2>5. None \notin Nat
    BY DEF None
  <2> QED
    BY <2>1, <2>4, <2>5
<1> QED
  BY <1>1, <1>2

\* The requests of a set of TPDOs, each once.
LEMMA SetToSeqFacts ==
  ASSUME NEW S, IsFiniteSet(S)
  PROVE  /\ SetToSeq(S) \in Seq(S)
         /\ \A i, j \in 1 .. Len(SetToSeq(S)) : SetToSeq(S)[i] = SetToSeq(S)[j] => i = j
<1>1. Cardinality(S) \in Nat /\ ExistsBijection(1 .. Cardinality(S), S)
  BY FS_CardinalityType
<1>2. \E f \in [1 .. Cardinality(S) -> S] : IsInjective(f)
  BY <1>1 DEF ExistsBijection, Bijection, Injection
<1>3. SetToSeq(S) \in [1 .. Cardinality(S) -> S] /\ IsInjective(SetToSeq(S))
  BY <1>2 DEF SetToSeq
<1>4. SetToSeq(S) \in Seq(S) /\ Len(SetToSeq(S)) = Cardinality(S)
  BY <1>1, <1>3
<1> QED
  BY <1>3, <1>4 DEF IsInjective

\* How often t occurs in a queue.
Occurs(t, s) == {k \in DOMAIN s : s[k] = t}

LEMMA OccursFinite ==
  ASSUME NEW s \in Seq(Tpdos), NEW t
  PROVE  IsFiniteSet(Occurs(t, s)) /\ Cardinality(Occurs(t, s)) \in Nat
<1>1. Occurs(t, s) \subseteq 1 .. Len(s) /\ Len(s) \in Nat
  BY DEF Occurs
<1>2. IsFiniteSet(1 .. Len(s))
  BY <1>1, FS_Interval
<1>3. IsFiniteSet(Occurs(t, s))
  BY <1>1, <1>2, FS_Subset
<1> QED
  BY <1>3, FS_CardinalityType

\* A queue of requests that are all different adds at most one.
LEMMA OccursOnceMore ==
  ASSUME NEW s \in Seq(Tpdos), NEW T, NEW u \in Seq(T), T \subseteq Tpdos, NEW t,
         \A i, j \in 1 .. Len(u) : u[i] = u[j] => i = j
  PROVE  Cardinality(Occurs(t, s \o u)) <=
           Cardinality(Occurs(t, s)) + (IF t \in T THEN 1 ELSE 0)
<1>1. /\ u \in Seq(Tpdos) /\ s \o u \in Seq(Tpdos) /\ Len(s \o u) = Len(s) + Len(u)
      /\ \A k \in 1 .. Len(s) + Len(u) :
           (s \o u)[k] = IF k <= Len(s) THEN s[k] ELSE u[k - Len(s)]
      /\ Len(s) \in Nat /\ Len(u) \in Nat
      /\ DOMAIN s = 1 .. Len(s) /\ DOMAIN (s \o u) = 1 .. Len(s) + Len(u)
  <2>1. u \in Seq(Tpdos)
    BY SeqMonotonic
  <2> QED
    BY <2>1, ConcatProperties, LenProperties
<1>2. CASE \A j \in 1 .. Len(u) : u[j] # t
  <2>1. ASSUME NEW k \in 1 .. Len(s) + Len(u), (s \o u)[k] = t
        PROVE  k \in 1 .. Len(s) /\ s[k] = t
    <3>1. k <= Len(s)
      <4>1. SUFFICES ASSUME ~ (k <= Len(s)) PROVE FALSE
        OBVIOUS
      <4>2. k - Len(s) \in 1 .. Len(u) /\ (s \o u)[k] = u[k - Len(s)]
        BY <1>1, <4>1
      <4> QED
        BY <1>2, <2>1, <4>2
    <3> QED
      BY <1>1, <2>1, <3>1
  <2>2. \A k \in 1 .. Len(s) : k \in 1 .. Len(s) + Len(u) /\ (s \o u)[k] = s[k]
    BY <1>1
  <2>3. Occurs(t, s \o u) = Occurs(t, s)
    BY <1>1, <2>1, <2>2 DEF Occurs
  <2> QED
    BY <2>3, OccursFinite
<1>3. CASE \E j \in 1 .. Len(u) : u[j] = t
  <2>1. PICK j \in 1 .. Len(u) : u[j] = t
    BY <1>3
  <2>2. t \in T
    BY <2>1, ElementOfSeq
  <2>3. \A k \in 1 .. Len(s) + Len(u) :
          (s \o u)[k] = t <=> (k <= Len(s) /\ s[k] = t) \/ k = Len(s) + j
    <3>1. ASSUME NEW k \in 1 .. Len(s) + Len(u), k <= Len(s)
          PROVE  (s \o u)[k] = s[k] /\ k # Len(s) + j
      BY <1>1, <3>1
    <3>2. ASSUME NEW k \in 1 .. Len(s) + Len(u), ~ (k <= Len(s))
          PROVE  (s \o u)[k] = t <=> k = Len(s) + j
      <4>1. k - Len(s) \in 1 .. Len(u) /\ (s \o u)[k] = u[k - Len(s)]
        BY <1>1, <3>2
      <4>2. u[k - Len(s)] = t <=> k - Len(s) = j
        BY <4>1, <2>1
      <4> QED
        BY <4>1, <4>2, <1>1
    <3> QED
      BY <3>1, <3>2
  <2>4. Occurs(t, s \o u) = Occurs(t, s) \cup {Len(s) + j}
    <3>1. Len(s) + j \in 1 .. Len(s) + Len(u)
      BY <1>1
    <3>2. \A k : k \in Occurs(t, s) <=> k \in 1 .. Len(s) /\ s[k] = t
      BY <1>1 DEF Occurs
    <3>3. \A k : k \in Occurs(t, s \o u) <=> k \in 1 .. Len(s) + Len(u) /\ (s \o u)[k] = t
      BY <1>1 DEF Occurs
    <3>4. \A k : k \in 1 .. Len(s) <=> k \in 1 .. Len(s) + Len(u) /\ k <= Len(s)
      BY <1>1
    <3> QED
      BY <2>3, <3>1, <3>2, <3>3, <3>4
  <2>5. Cardinality(Occurs(t, s) \cup {Len(s) + j}) <= Cardinality(Occurs(t, s)) + 1
    <3>1. IsFiniteSet(Occurs(t, s)) /\ Cardinality(Occurs(t, s)) \in Nat
      BY OccursFinite
    <3>2. \A x : Cardinality(Occurs(t, s) \cup {x}) =
                   IF x \in Occurs(t, s) THEN Cardinality(Occurs(t, s))
                   ELSE Cardinality(Occurs(t, s)) + 1
      BY <3>1, FS_AddElement
    <3> DEFINE n == Cardinality(Occurs(t, s))
    <3> DEFINE m == Cardinality(Occurs(t, s) \cup {Len(s) + j})
    <3>3. n \in Nat /\ (m = n \/ m = n + 1)
      BY <3>1, <3>2
    <3> HIDE DEF m, n
    <3>4. m <= n + 1
      BY <3>3
    <3> QED
      BY <3>4 DEF m, n
  <2> QED
    BY <2>2, <2>4, <2>5
<1> QED
  BY <1>2, <1>3

\* What Request does to the queue: it grows, by at most one of each TPDO that is
\* not marked (triggerTPDOOnce).
LEMMA RequestFacts ==
  ASSUME NEW S, S \subseteq Tpdos, Request(S),
         asyncFrames \in Seq(Tpdos), unsent \subseteq Tpdos
  PROVE  /\ asyncFrames' \in Seq(Tpdos) /\ Len(asyncFrames) <= Len(asyncFrames')
         /\ unsent' \subseteq Tpdos
         /\ \A t : Sends(t)' <= Sends(t) + (IF t \in S \ pendingTpdos THEN 1 ELSE 0)
<1> DEFINE T == S \ pendingTpdos
<1> DEFINE u == SetToSeq(T)
<1>1. IsFiniteSet(T) /\ T \subseteq Tpdos
  BY TpdosAssumption, FS_Subset
<1>2. u \in Seq(T) /\ \A i, j \in 1 .. Len(u) : u[i] = u[j] => i = j
  BY <1>1, SetToSeqFacts
<1>3. asyncFrames' = asyncFrames \o u /\ unsent' = unsent \cup S
  BY DEF Request
<1> HIDE DEF T, u
<1>4. u \in Seq(Tpdos)
  BY <1>1, <1>2, SeqMonotonic
<1>5. asyncFrames' \in Seq(Tpdos) /\ Len(asyncFrames) <= Len(asyncFrames')
  BY <1>3, <1>4, ConcatProperties, LenProperties
<1>6. ASSUME NEW t
      PROVE  Sends(t)' <= Sends(t) + (IF t \in T THEN 1 ELSE 0)
  <2>1. Cardinality(Occurs(t, asyncFrames \o u)) <=
          Cardinality(Occurs(t, asyncFrames)) + (IF t \in T THEN 1 ELSE 0)
    BY <1>1, <1>2, OccursOnceMore
  <2>2. Sends(t) = Cardinality(Occurs(t, asyncFrames))
    BY DEF Sends, Occurs
  <2>3. Sends(t)' = Cardinality(Occurs(t, asyncFrames \o u))
    BY <1>3 DEF Sends, Occurs
  <2> QED
    BY <2>1, <2>2, <2>3
<1> QED
  BY <1>3, <1>5, <1>6 DEF T

-----------------------------------------------------------------------------
(* The frames between the bus and the handlers.                            *)

Queue == pendingFrames \o frames \o socket
Ordered(q, a, h) == Len(q) = a - h /\ \A k \in 1 .. Len(q) : q[k].n = h + k
Queued == Ordered(Queue, arrived, handled)
Queues == pendingFrames \in Seq(Frame) /\ frames \in Seq(Frame) /\ socket \in Seq(Frame)

LEMMA QueueType ==
  ASSUME Queues
  PROVE  /\ Queue \in Seq(Frame) /\ Len(Queue) \in Nat /\ DOMAIN Queue = 1 .. Len(Queue)
         /\ Len(Queue) = Len(pendingFrames) + Len(frames) + Len(socket)
<1>1. /\ pendingFrames \o frames \in Seq(Frame)
      /\ Len(pendingFrames \o frames) = Len(pendingFrames) + Len(frames)
  BY ConcatProperties DEF Queues
<1>2. Queue \in Seq(Frame) /\ Len(Queue) = Len(pendingFrames \o frames) + Len(socket)
  BY <1>1, ConcatProperties DEF Queue, Queues
<1> QED
  BY <1>1, <1>2, LenProperties

\* FramesInOrder, of any queue of frames.
LEMMA OrderedQueue ==
  ASSUME NEW q \in Seq(Frame), NEW a \in Nat, NEW h \in 0 .. a
  PROVE  q = [k \in 1 .. a - h |-> [n |-> h + k, to |-> q[k].to]] <=> Ordered(q, a, h)
<1> DEFINE n == a - h
<1> DEFINE F == [k \in 1 .. n |-> [n |-> h + k, to |-> q[k].to]]
<1>1. n \in Nat /\ Len(q) \in Nat /\ DOMAIN q = 1 .. Len(q)
  BY LenProperties
<1>2. ASSUME q = F PROVE Ordered(q, a, h)
  <2>1. 1 .. Len(q) = 1 .. n
    BY <1>1, <1>2
  <2>2. Len(q) = n
    BY <2>1, <1>1
  <2>3. \A k \in 1 .. n : F[k].n = h + k
    OBVIOUS
  <2> QED
    BY <1>2, <2>2, <2>3 DEF Ordered
<1>3. ASSUME Ordered(q, a, h) PROVE q = F
  <2>1. DOMAIN q = 1 .. n /\ Len(q) = n
    BY <1>1, <1>3 DEF Ordered
  <2>2. ASSUME NEW k \in 1 .. n
        PROVE  q[k] = F[k]
    <3>1. q[k] \in Frame /\ q[k].n = h + k
      BY <1>3, <2>1, ElementOfSeq DEF Ordered
    <3>2. q[k] = [n |-> q[k].n, to |-> q[k].to]
      BY <3>1 DEF Frame
    <3> QED
      BY <3>1, <3>2
  <2>3. q \in [1 .. n -> Frame]
    BY <2>1, LenProperties
  <2> QED
    BY <2>2, <2>3
<1> QED
  BY <1>2, <1>3

LEMMA QueuedInOrder ==
  ASSUME Queues, arrived \in Nat, handled \in 0 .. arrived, FramesInOrder
  PROVE  Queued
BY QueueType, OrderedQueue DEF FramesInOrder, Queued, Queue

\* What the types say of the frames.
LEMMA TypeQueues ==
  ASSUME TypeOK
  PROVE  /\ Queues /\ arrived \in Nat /\ handled \in 0 .. arrived /\ arrived <= MaxFrames
         /\ {MaxFrames, MaxFailures, MaxCalls} \subseteq Nat
BY BoundsAssumption DEF TypeOK, Queues

\* A main thread that serves timers and frames, or goes to sleep.
LEMMA MainServes ==
  ASSUME MainEnter \/ MainNotified \/ MainDeadline \/ MainPoll
  PROVE  \/ Iterate /\ mainPc \in {"enter", "asleep"}
         \/ Sleep
BY DEF MainEnter, MainNotified, MainDeadline, MainPoll

\* The steps that move no frame.
StillFrames == UNCHANGED <<pendingFrames, frames, socket, arrived, handled>>

\* A step leaves the frames alone, handles the batch, reads a frame, hands the
\* batch over or takes a frame from the bus.
LEMMA FrameSteps ==
  ASSUME [Next]_vars
  PROVE  StillFrames \/ Iterate \/ RecvRead \/ Handover \/ Arrive
<1>1. CASE UNCHANGED vars
  BY <1>1 DEF vars, recvVars, StillFrames
<1>2. CASE MainEnter \/ MainNotified \/ MainDeadline \/ MainPoll
  BY <1>2, MainServes DEF Sleep, recvVars, StillFrames
<1>3. CASE FlushStart \/ FlushSend \/ FlushClear \/ MainExit
  BY <1>3 DEF FlushStart, FlushSend, FlushClear, MainExit, recvVars, StillFrames
<1>4. CASE RecvEnter \/ RecvNotified \/ RecvReadEnds \/ RecvReadFails \/ RecvExit \/ RecvPoll
           \/ RecvReadTimeout
  BY <1>4 DEF RecvEnter, RecvNotified, RecvReadEnds, RecvReadFails, RecvExit, RecvPoll,
              RecvReadTimeout, RecvGoes, StillFrames
<1>5. CASE \E c \in Callers : Block(c) \/ Return(c)
  BY <1>5 DEF Block, Return, recvVars, StillFrames
<1>6. CASE (\E t \in Tpdos : TriggerTPDOOnce(t)) \/ Tick \/ Shutdown
  BY <1>6 DEF TriggerTPDOOnce, Tick, Shutdown, recvVars, StillFrames
<1> QED
  BY <1>1, <1>2, <1>3, <1>4, <1>5, <1>6 DEF Next, MainThread, RecvThread, Polls

\* Frames stay in the order of arrival (runRecvThread, runMainThread).
LEMMA OrderStep ==
  ASSUME LoopInv, [Next]_vars
  PROVE  Queues' /\ arrived' \in 0 .. MaxFrames /\ handled' \in 0 .. arrived' /\ FramesInOrder'
<1>1. /\ Queues /\ arrived \in Nat /\ handled \in 0 .. arrived /\ arrived <= MaxFrames
      /\ MaxFrames \in Nat /\ Queued
  BY TypeQueues, QueuedInOrder DEF LoopInv
<1>2. /\ Queue \in Seq(Frame) /\ Len(Queue) \in Nat /\ Len(Queue) = arrived - handled
      /\ Len(Queue) = Len(pendingFrames) + Len(frames) + Len(socket)
      /\ Len(pendingFrames) \in Nat /\ Len(frames) \in Nat /\ Len(socket) \in Nat
  BY <1>1, QueueType DEF Queued, Queues, Ordered
<1> SUFFICES /\ Queues' /\ arrived' \in 0 .. MaxFrames /\ handled' \in 0 .. arrived'
             /\ Queued'
  <2>1. Queue' \in Seq(Frame)
    <3>1. (pendingFrames \o frames)' \in Seq(Frame)
      BY ConcatProperties DEF Queues
    <3> QED
      BY <3>1, ConcatProperties DEF Queues, Queue
  <2>2. arrived' \in Nat
    BY <1>1
  <2> QED
    BY <2>1, <2>2, OrderedQueue DEF FramesInOrder, Queued, Queue
<1>3. CASE StillFrames
  BY <1>1, <1>3 DEF StillFrames, Queues, Queued, Queue
<1>4. CASE Iterate
  <2>1. /\ pendingFrames' = <<>> /\ frames' = frames /\ socket' = socket /\ arrived' = arrived
        /\ handled' = handled + Len(pendingFrames)
    BY <1>4 DEF Iterate
  <2>2. Queues'
    BY <1>1, <2>1 DEF Queues
  <2>3. handled' \in 0 .. arrived'
    BY <1>1, <1>2, <2>1
  <2>4. Queue' = frames \o socket /\ Queue = pendingFrames \o (frames \o socket)
    <3>1. Queue' = (<<>> \o frames) \o socket /\ Queue = (pendingFrames \o frames) \o socket
      BY <2>1 DEF Queue
    <3>2. pendingFrames \in Seq(Frame) /\ frames \in Seq(Frame) /\ socket \in Seq(Frame)
      BY <1>1 DEF Queues
    <3>3. <<>> \o frames = frames
      BY <3>2, ConcatEmptySeq
    <3>4. (pendingFrames \o frames) \o socket = pendingFrames \o (frames \o socket)
      BY <3>2, ConcatAssociative
    <3> QED
      BY <3>1, <3>3, <3>4, Zenon
  <2>5. /\ frames \o socket \in Seq(Frame)
        /\ Len(frames \o socket) = Len(frames) + Len(socket)
    BY <1>1, ConcatProperties DEF Queues
  <2>6. \A k \in 1 .. Len(frames \o socket) :
          /\ k + Len(pendingFrames) \in 1 .. Len(Queue)
          /\ Queue[k + Len(pendingFrames)] = (frames \o socket)[k]
    <3>1. \A i \in 1 .. Len(pendingFrames) + Len(frames \o socket) :
            Queue[i] = IF i <= Len(pendingFrames) THEN pendingFrames[i]
                       ELSE (frames \o socket)[i - Len(pendingFrames)]
      BY <1>1, <2>4, <2>5, ConcatProperties DEF Queues
    <3>2. ASSUME NEW k \in 1 .. Len(frames \o socket)
          PROVE  /\ k + Len(pendingFrames) \in 1 .. Len(Queue)
                 /\ Queue[k + Len(pendingFrames)] = (frames \o socket)[k]
      <4> DEFINE m == Len(pendingFrames)
      <4> DEFINE i == k + m
      <4> DEFINE n == Len(frames \o socket)
      <4>1. m \in Nat /\ n \in Nat /\ Len(Queue) = m + n /\ k \in 1 .. n
        BY <1>2, <2>5, <3>2
      <4>2. i \in 1 .. m + n /\ ~ (i <= m) /\ i - m = k
        BY <4>1
      <4> QED
        BY <3>1, <4>1, <4>2
    <3> QED
      BY <3>2
  <2>7. Queued'
    <3>1. Len(Queue') = arrived' - handled'
      BY <1>1, <1>2, <2>1, <2>4, <2>5
    <3>2. ASSUME NEW k \in 1 .. Len(Queue')
          PROVE  Queue'[k].n = handled' + k
      <4>1. Queue'[k] = Queue[k + Len(pendingFrames)] /\ k + Len(pendingFrames) \in 1 .. Len(Queue)
        BY <2>4, <2>6, <3>2
      <4>2. Queue[k + Len(pendingFrames)].n = handled + (k + Len(pendingFrames))
        BY <1>1, <4>1 DEF Queued, Ordered
      <4>3. k \in Int
        BY <2>4, <2>5, <3>2
      <4> QED
        BY <1>1, <1>2, <2>1, <4>1, <4>2, <4>3
    <3> QED
      BY <3>1, <3>2 DEF Queued, Ordered
  <2> QED
    BY <1>1, <2>1, <2>2, <2>3, <2>7
<1>5. CASE RecvRead
  <2>1. /\ socket # <<>> /\ frames' = Append(frames, Head(socket)) /\ socket' = Tail(socket)
        /\ UNCHANGED <<pendingFrames, arrived, handled>>
    BY <1>5 DEF RecvRead, RecvGoes
  <2>2. Head(socket) \in Frame /\ Tail(socket) \in Seq(Frame) /\ socket = <<Head(socket)>> \o Tail(socket)
    BY <1>1, <2>1, HeadTailProperties DEF Queues
  <2>3. frames' = frames \o <<Head(socket)>> /\ frames' \in Seq(Frame) /\ <<Head(socket)>> \in Seq(Frame)
    BY <1>1, <2>1, <2>2, AppendIsConcat, AppendProperties DEF Queues
  <2>4. Queues'
    BY <1>1, <2>1, <2>2, <2>3 DEF Queues
  <2>5. Queue' = Queue
    <3>1. /\ Queue = pendingFrames \o (frames \o socket)
          /\ Queue' = pendingFrames \o (frames' \o socket')
      <4>1. Queue' = (pendingFrames \o frames') \o socket'
        BY <2>1 DEF Queue
      <4>2. socket' \in Seq(Frame)
        BY <2>1, <2>2
      <4>3. Queue = pendingFrames \o (frames \o socket)
        BY <1>1, ConcatAssociative DEF Queue, Queues
      <4>4. \A f, g \in Seq(Frame) : (pendingFrames \o f) \o g = pendingFrames \o (f \o g)
        <5>1. pendingFrames \in Seq(Frame)
          BY <1>1 DEF Queues
        <5>2. ASSUME NEW e \in Seq(Frame), NEW f \in Seq(Frame), NEW g \in Seq(Frame)
              PROVE  (e \o f) \o g = e \o (f \o g)
          BY ConcatAssociative
        <5> QED
          BY <5>1, <5>2, Zenon
      <4>5. Queue' = pendingFrames \o (frames' \o socket')
        BY <2>3, <4>1, <4>2, <4>4
      <4> QED
        BY <4>3, <4>5
    <3>2. frames' \o socket' = frames \o (<<Head(socket)>> \o Tail(socket))
      BY <1>1, <2>1, <2>2, <2>3, ConcatAssociative DEF Queues
    <3> QED
      BY <2>2, <3>1, <3>2
  <2> QED
    BY <1>1, <2>1, <2>4, <2>5 DEF Queued
<1>6. CASE Handover
  <2>1. recvPc = "handover" /\ UNCHANGED <<socket, arrived, handled>>
    BY <1>6 DEF Handover
  <2>2. pendingFrames = <<>>
    BY <2>1 DEF LoopInv, OneBatch
  <2>3. CASE frames = <<>>
    BY <1>1, <1>6, <2>1, <2>3 DEF Handover, Queues, Queued, Queue
  <2>4. CASE frames # <<>>
    <3>1. pendingFrames' = frames /\ frames' = <<>>
      BY <1>6, <2>2, <2>4 DEF Handover
    <3>2. Queues'
      BY <1>1, <2>1, <3>1 DEF Queues
    <3>3. Queue' = Queue
      <4>1. frames \o <<>> = frames /\ <<>> \o frames = frames
        BY <1>1, ConcatEmptySeq DEF Queues
      <4> QED
        BY <2>1, <2>2, <3>1, <4>1 DEF Queue
    <3> QED
      BY <1>1, <2>1, <3>2, <3>3 DEF Queued
  <2> QED
    BY <2>3, <2>4
<1>7. CASE Arrive
  <2>1. /\ arrived < MaxFrames /\ arrived' = arrived + 1
        /\ UNCHANGED <<pendingFrames, frames, handled>>
        /\ \E to \in {Nobody} \cup {c \in Callers : txn[c] = "waiting"} :
             socket' = Append(socket, [n |-> arrived + 1, to |-> to])
    BY <1>7 DEF Arrive
  <2>2. PICK f \in Frame : f.n = arrived + 1 /\ socket' = Append(socket, f)
    <3>1. arrived + 1 \in 1 .. MaxFrames
      BY <1>1, <2>1
    <3>2. PICK to \in Callers \cup {Nobody} :
            socket' = Append(socket, [n |-> arrived + 1, to |-> to])
      BY <2>1
    <3> QED
      BY <3>1, <3>2 DEF Frame
  <2>3. socket' \in Seq(Frame) /\ socket' = socket \o <<f>> /\ <<f>> \in Seq(Frame)
    BY <1>1, <2>2, AppendIsConcat, AppendProperties DEF Queues
  <2>4. Queues'
    BY <1>1, <2>1, <2>3 DEF Queues
  <2>5. Queue' = Append(Queue, f)
    <3>1. pendingFrames \o frames \in Seq(Frame)
      BY <1>1, ConcatProperties DEF Queues
    <3>2. (pendingFrames \o frames) \o (socket \o <<f>>) = Queue \o <<f>>
      BY <1>1, <2>3, <3>1, ConcatAssociative DEF Queue, Queues
    <3>3. Queue' = (pendingFrames \o frames) \o (socket \o <<f>>)
      BY <2>1, <2>3 DEF Queue
    <3> QED
      BY <1>2, <3>2, <3>3, AppendIsConcat
  <2>6. /\ Len(Queue') = Len(Queue) + 1 /\ Queue'[Len(Queue) + 1] = f
        /\ \A k \in 1 .. Len(Queue) : Queue'[k] = Queue[k]
    BY <1>2, <2>5, AppendProperties
  <2>7. Queued'
    <3>1. Len(Queue') = arrived' - handled'
      BY <1>1, <1>2, <2>1, <2>6
    <3>2. ASSUME NEW k \in 1 .. Len(Queue')
          PROVE  Queue'[k].n = handled' + k
      <4>1. CASE k \in 1 .. Len(Queue)
        BY <1>1, <2>1, <2>6, <4>1 DEF Queued, Ordered
      <4>2. CASE k = Len(Queue) + 1
        <5>1. Queue'[k].n = arrived + 1
          BY <2>2, <2>6, <4>2
        <5>2. handled' + k = arrived + 1
          BY <1>1, <1>2, <2>1, <4>2
        <5> QED
          BY <5>1, <5>2
      <4> QED
        BY <1>2, <2>6, <3>2, <4>1, <4>2
    <3> QED
      BY <3>1, <3>2 DEF Queued, Ordered
  <2> QED
    BY <1>1, <2>1, <2>4, <2>7
<1> QED
  BY <1>3, <1>4, <1>5, <1>6, <1>7, FrameSteps

-----------------------------------------------------------------------------
(* Types.                                                                  *)

ThreadTypes ==
  /\ mainPc \in {"enter", "asleep", "flush", "sending", "exited"}
  /\ recvPc \in {"enter", "asleep", "read", "drain", "handover", "exited"}
  /\ mainNotified \in BOOLEAN /\ genChanged \in BOOLEAN /\ recvNotified \in BOOLEAN
  /\ moved \in BOOLEAN /\ shutdown \in BOOLEAN
BatchTypes == Len(frames) <= Batch /\ Len(pendingFrames) <= Batch
SendTypes ==
  /\ pendingTpdos \subseteq Tpdos /\ unsent \subseteq Tpdos /\ asyncFrames \in Seq(Tpdos)
  /\ flushAt \in 1 .. flushEnd + 1 /\ flushEnd \in 0 .. Len(asyncFrames)
TimeTypes ==
  /\ mainLeft \in Left
  /\ timer \in [Callers -> Left] /\ txn \in [Callers -> {"idle", "waiting", "done"}]
CountTypes == calls \in 0 .. MaxCalls /\ failures \in 0 .. MaxFailures

LEMMA TypesByParts ==
  TypeOK <=> /\ ThreadTypes /\ BatchTypes /\ SendTypes /\ TimeTypes /\ CountTypes
             /\ Queues /\ arrived \in 0 .. MaxFrames /\ handled \in 0 .. arrived
BY DEF TypeOK, ThreadTypes, BatchTypes, SendTypes, TimeTypes, CountTypes, Queues

LEMMA ThreadStep ==
  ASSUME ThreadTypes, [Next]_vars
  PROVE  ThreadTypes'
<1> USE DEF ThreadTypes
<1>1. CASE UNCHANGED vars
  BY <1>1 DEF vars, mainVars, recvVars, flushVars
<1>2. CASE Iterate
  BY <1>2 DEF Iterate, NotifyRecv
<1>3. CASE MainEnter \/ MainNotified
  BY <1>2, <1>3 DEF MainEnter, MainNotified, Sleep, recvVars, flushVars
<1>4. CASE MainDeadline \/ MainPoll
  BY <1>2, <1>4 DEF MainDeadline, MainPoll
<1>5. CASE FlushStart \/ FlushSend \/ FlushClear \/ MainExit
  BY <1>5 DEF FlushStart, FlushSend, FlushClear, MainExit, mainVars, recvVars, flushVars
<1>6. CASE RecvThread \/ RecvPoll \/ RecvReadTimeout
  BY <1>6 DEF RecvThread, RecvEnter, RecvNotified, RecvRead, RecvReadEnds, RecvReadFails, RecvExit,
              RecvPoll, RecvReadTimeout, Handover, NotifyMain, RecvGoes, mainVars, flushVars
<1>7. CASE \E c \in Callers : Block(c) \/ Return(c)
  BY <1>7 DEF Block, Return, NotifyMain, mainVars, recvVars, flushVars
<1>8. CASE \E t \in Tpdos : TriggerTPDOOnce(t)
  BY <1>8 DEF TriggerTPDOOnce, NotifyMain, recvVars
<1>9. CASE Arrive \/ Tick \/ Shutdown
  BY <1>9 DEF Arrive, Tick, Shutdown, mainVars, recvVars, flushVars
<1> QED
  BY <1>1, <1>3, <1>4, <1>5, <1>6, <1>7, <1>8, <1>9 DEF Next, MainThread, Polls

\* A batch is never longer than MAX_FRAMES_PER_BATCH.
LEMMA BatchStep ==
  ASSUME Queues, BatchTypes, [Next]_vars
  PROVE  BatchTypes'
<1> USE DEF BatchTypes
<1>1. CASE StillFrames
  BY <1>1 DEF StillFrames
<1>2. CASE Iterate
  BY <1>2, BatchAssumption DEF Iterate
<1>3. CASE RecvRead
  <2>1. frames' = Append(frames, Head(socket)) /\ Len(frames) < Batch /\ pendingFrames' = pendingFrames
    BY <1>3 DEF RecvRead
  <2>2. Len(frames) \in Nat /\ Len(frames') = Len(frames) + 1
    BY <2>1 DEF Queues
  <2> QED
    BY <2>1, <2>2, BatchAssumption
<1>4. CASE Handover \/ Arrive
  BY <1>4 DEF Handover, Arrive
<1> QED
  BY <1>1, <1>2, <1>3, <1>4, FrameSteps

\* The queue of sends changes by requests, by the flush and by nothing else.
LEMMA SendSteps ==
  ASSUME [Next]_vars
  PROVE  \/ UNCHANGED <<queueVars, flushAt, flushEnd>>
         \/ Iterate \/ FlushStart \/ FlushSend \/ FlushClear
         \/ \E t \in Tpdos : TriggerTPDOOnce(t)
<1>1. CASE UNCHANGED vars
  BY <1>1 DEF vars, flushVars
<1>2. CASE MainEnter \/ MainNotified \/ MainDeadline \/ MainPoll
  BY <1>2, MainServes DEF Sleep, flushVars
<1>3. CASE MainExit
  BY <1>3 DEF MainExit, flushVars
<1>4. CASE RecvThread \/ RecvPoll \/ RecvReadTimeout
  BY <1>4 DEF RecvThread, RecvEnter, RecvNotified, RecvRead, RecvReadEnds, RecvReadFails, RecvExit,
              RecvPoll, RecvReadTimeout, Handover, RecvGoes, flushVars
<1>5. CASE \E c \in Callers : Block(c) \/ Return(c)
  BY <1>5 DEF Block, Return, flushVars
<1>6. CASE Arrive \/ Tick \/ Shutdown
  BY <1>6 DEF Arrive, Tick, Shutdown, flushVars
<1> QED
  BY <1>1, <1>2, <1>3, <1>4, <1>5, <1>6 DEF Next, MainThread, Polls

LEMMA SendTypeStep ==
  ASSUME SendTypes, [Next]_vars
  PROVE  SendTypes'
<1> USE DEF SendTypes
<1>1. CASE UNCHANGED <<queueVars, flushAt, flushEnd>>
  BY <1>1 DEF queueVars
<1>2. CASE Iterate
  <2>1. PICK S \in SUBSET Tpdos : Request(S)
    BY <1>2 DEF Iterate
  <2>2. asyncFrames' \in Seq(Tpdos) /\ Len(asyncFrames) <= Len(asyncFrames') /\ unsent' \subseteq Tpdos
    BY <2>1, RequestFacts
  <2>3. pendingTpdos' = {} /\ UNCHANGED <<flushAt, flushEnd>>
    BY <1>2 DEF Iterate
  <2> QED
    BY <2>2, <2>3
<1>3. CASE FlushStart
  <2>1. flushAt' = 1 /\ flushEnd' = Len(asyncFrames) /\ UNCHANGED queueVars
    BY <1>3 DEF FlushStart
  <2> QED
    BY <2>1 DEF queueVars
<1>4. CASE FlushSend
  <2>1. /\ flushAt <= flushEnd /\ flushAt' = flushAt + 1
        /\ UNCHANGED <<pendingTpdos, asyncFrames, flushEnd>> /\ unsent' \subseteq unsent
    BY <1>4 DEF FlushSend
  <2> QED
    BY <2>1
<1>5. CASE FlushClear
  BY <1>5 DEF FlushClear
<1>6. CASE \E t \in Tpdos : TriggerTPDOOnce(t)
  <2>1. PICK t \in Tpdos : TriggerTPDOOnce(t)
    BY <1>6
  <2>2. /\ Request({t}) /\ pendingTpdos' = pendingTpdos \cup {t} /\ UNCHANGED <<flushAt, flushEnd>>
    BY <2>1 DEF TriggerTPDOOnce
  <2>3. asyncFrames' \in Seq(Tpdos) /\ Len(asyncFrames) <= Len(asyncFrames') /\ unsent' \subseteq Tpdos
    BY <2>2, RequestFacts
  <2> QED
    BY <2>2, <2>3
<1> QED
  BY <1>1, <1>2, <1>3, <1>4, <1>5, <1>6, SendSteps

LEMMA TimeStep ==
  ASSUME TimeTypes, [Next]_vars
  PROVE  TimeTypes'
<1> USE DEF TimeTypes
<1>1. CASE UNCHANGED vars
  BY <1>1 DEF vars, mainVars, txnVars
<1>2. CASE Iterate
  BY <1>2, LeftFacts DEF Iterate
<1>3. CASE MainEnter \/ MainNotified
  BY <1>2, <1>3, DeadlineFacts DEF MainEnter, MainNotified, Sleep, txnVars
<1>4. CASE MainDeadline \/ MainPoll
  BY <1>2, <1>4 DEF MainDeadline, MainPoll
<1>5. CASE FlushStart \/ FlushSend \/ FlushClear \/ MainExit
  BY <1>5 DEF FlushStart, FlushSend, FlushClear, MainExit, mainVars, txnVars
<1>6. CASE RecvThread \/ RecvPoll \/ RecvReadTimeout
  BY <1>6 DEF RecvThread, RecvEnter, RecvNotified, RecvRead, RecvReadEnds, RecvReadFails, RecvExit,
              RecvPoll, RecvReadTimeout, Handover, RecvGoes, mainVars, txnVars
<1>7. CASE \E c \in Callers : Block(c) \/ Return(c)
  BY <1>7, LeftFacts DEF Block, Return, mainVars
<1>8. CASE (\E t \in Tpdos : TriggerTPDOOnce(t)) \/ Arrive \/ Shutdown
  BY <1>8 DEF TriggerTPDOOnce, Arrive, Shutdown, mainVars, txnVars
<1>9. CASE Tick
  BY <1>9, LeftFacts DEF Tick
<1> QED
  BY <1>1, <1>3, <1>4, <1>5, <1>6, <1>7, <1>8, <1>9 DEF Next, MainThread, Polls

LEMMA CountStep ==
  ASSUME CountTypes, [Next]_vars
  PROVE  CountTypes'
<1> USE BoundsAssumption DEF CountTypes
<1>1. CASE UNCHANGED vars
  BY <1>1 DEF vars
<1>2. CASE MainThread \/ MainPoll
  BY <1>2 DEF MainThread, MainPoll, MainEnter, MainNotified, MainDeadline, Iterate, Sleep, FlushStart,
              FlushSend, FlushClear, MainExit
<1>3. CASE RecvThread \/ RecvPoll \/ RecvReadTimeout
  BY <1>3 DEF RecvThread, RecvEnter, RecvNotified, RecvRead, RecvReadEnds, RecvReadFails, RecvExit,
              RecvPoll, RecvReadTimeout, Handover, RecvGoes
<1>4. CASE (\E c \in Callers : Block(c) \/ Return(c)) \/ (\E t \in Tpdos : TriggerTPDOOnce(t))
  <2>1. (Call \/ UNCHANGED calls) /\ UNCHANGED failures
    BY <1>4 DEF Block, Return, TriggerTPDOOnce
  <2> QED
    BY <2>1 DEF Call
<1>5. CASE Arrive \/ Tick \/ Shutdown
  BY <1>5 DEF Arrive, Tick, Shutdown
<1> QED
  BY <1>1, <1>2, <1>3, <1>4, <1>5 DEF Next, Polls

LEMMA TypeStep ==
  ASSUME LoopInv, [Next]_vars
  PROVE  TypeOK'
<1>1. ThreadTypes /\ BatchTypes /\ SendTypes /\ TimeTypes /\ CountTypes /\ Queues
  BY TypesByParts DEF LoopInv
<1>2. ThreadTypes' /\ BatchTypes' /\ SendTypes' /\ TimeTypes' /\ CountTypes'
  BY <1>1, ThreadStep, BatchStep, SendTypeStep, TimeStep, CountStep
<1>3. Queues' /\ arrived' \in 0 .. MaxFrames /\ handled' \in 0 .. arrived'
  BY OrderStep
<1> QED
  BY <1>2, <1>3 DEF TypeOK, ThreadTypes, BatchTypes, SendTypes, TimeTypes, CountTypes, Queues

-----------------------------------------------------------------------------
(* The batch, the notifications and the bound on the queue of sends.       *)

\* The receive thread reads only while main has no batch (runRecvThread).
LEMMA OneBatchStep ==
  ASSUME LoopInv, [Next]_vars
  PROVE  OneBatch'
<1>1. OneBatch /\ TypeOK
  BY DEF LoopInv
<1>2. CASE UNCHANGED vars
  BY <1>1, <1>2 DEF OneBatch, vars, recvVars
<1>3. CASE Iterate
  BY <1>1, <1>3 DEF OneBatch, Iterate
<1>4. CASE MainEnter \/ MainNotified \/ MainDeadline \/ MainPoll
  BY <1>1, <1>3, <1>4, MainServes DEF OneBatch, Sleep, recvVars
<1>5. CASE FlushStart \/ FlushSend \/ FlushClear \/ MainExit
  BY <1>1, <1>5 DEF OneBatch, FlushStart, FlushSend, FlushClear, MainExit, recvVars
<1>6. CASE RecvEnter \/ RecvNotified \/ RecvPoll \/ RecvExit
  BY <1>1, <1>6 DEF OneBatch, RecvEnter, RecvNotified, RecvPoll, RecvExit, RecvGoes
<1>7. CASE RecvRead \/ RecvReadEnds \/ RecvReadFails \/ RecvReadTimeout
  BY <1>1, <1>7 DEF OneBatch, RecvRead, RecvReadEnds, RecvReadFails, RecvReadTimeout, RecvGoes
<1>8. CASE Handover
  BY <1>1, <1>8 DEF OneBatch, Handover
<1>9. CASE \E c \in Callers : Block(c) \/ Return(c)
  BY <1>1, <1>9 DEF OneBatch, Block, Return, recvVars
<1>10. CASE (\E t \in Tpdos : TriggerTPDOOnce(t)) \/ Arrive \/ Tick \/ Shutdown
  BY <1>1, <1>10 DEF OneBatch, TriggerTPDOOnce, Arrive, Tick, Shutdown, recvVars
<1> QED
  BY <1>2, <1>4, <1>5, <1>6, <1>7, <1>8, <1>9, <1>10 DEF Next, MainThread, RecvThread, Polls

MainHears == mainPc = "asleep" /\ Wakeup => mainNotified
DeadlineCovers ==
  mainPc = "asleep" /\ ~genChanged => \A c \in Running : mainLeft # None /\ mainLeft <= timer[c]
RecvHears == recvPc = "asleep" /\ pendingFrames = <<>> => recvNotified

\* Main is told of every frame, request and timer that comes while it sleeps.
LEMMA MainHearsStep ==
  ASSUME LoopInv, [Next]_vars
  PROVE  MainHears'
<1>1. MainHears
  BY DEF LoopInv, WakeupsAreKept, MainHears
<1> USE DEF MainHears, Wakeup
<1>2. CASE UNCHANGED vars
  BY <1>1, <1>2 DEF vars, mainVars, queueVars
<1>3. CASE Iterate
  BY <1>3 DEF Iterate
<1>4. CASE MainEnter
  BY <1>3, <1>4 DEF MainEnter, Sleep, queueVars
<1>5. CASE MainNotified \/ MainDeadline \/ MainPoll
  BY <1>3, <1>5 DEF MainNotified, MainDeadline, MainPoll, Sleep, queueVars
<1>6. CASE FlushStart \/ FlushSend \/ FlushClear \/ MainExit
  BY <1>1, <1>6 DEF FlushStart, FlushSend, FlushClear, MainExit, mainVars, queueVars
<1>7. CASE RecvEnter \/ RecvNotified \/ RecvPoll \/ RecvExit \/ RecvRead \/ RecvReadEnds
           \/ RecvReadFails \/ RecvReadTimeout
  BY <1>1, <1>7 DEF RecvEnter, RecvNotified, RecvPoll, RecvExit, RecvRead, RecvReadEnds,
                    RecvReadFails, RecvReadTimeout, RecvGoes, mainVars, queueVars
<1>8. CASE Handover
  BY <1>1, <1>8 DEF Handover, NotifyMain, queueVars
<1>9. CASE \E c \in Callers : Block(c) \/ Return(c)
  <2>1. CASE \E c \in Callers : Block(c)
    <3>1. NotifyMain /\ mainPc' = mainPc
      BY <2>1 DEF Block
    <3> QED
      BY <3>1 DEF NotifyMain
  <2>2. CASE \E c \in Callers : Return(c)
    BY <1>1, <2>2 DEF Return, mainVars, queueVars
  <2> QED
    BY <1>9, <2>1, <2>2
<1>10. CASE \E t \in Tpdos : TriggerTPDOOnce(t)
  BY <1>1, <1>10 DEF TriggerTPDOOnce, NotifyMain
<1>11. CASE Arrive \/ Tick \/ Shutdown
  BY <1>1, <1>11 DEF Arrive, Tick, Shutdown, mainVars, queueVars
<1> QED
  BY <1>2, <1>4, <1>5, <1>6, <1>7, <1>8, <1>9, <1>10, <1>11 DEF Next, MainThread, RecvThread, Polls

\* The deadline main sleeps to is that of every timer it has seen
\* (nextTimerDeadline, getTimerGeneration).
LEMMA DeadlineStep ==
  ASSUME LoopInv, [Next]_vars
  PROVE  DeadlineCovers'
<1>1. DeadlineCovers /\ TimeTypes
  BY TypesByParts DEF LoopInv, WakeupsAreKept, DeadlineCovers
<1>2. CASE UNCHANGED <<mainPc, mainLeft, genChanged, timer>>
  BY <1>1, <1>2 DEF DeadlineCovers, Running
<1>3. CASE mainPc' # "asleep" \/ genChanged' = TRUE
  BY <1>3 DEF DeadlineCovers
<1>4. CASE UNCHANGED vars
  BY <1>2, <1>4 DEF vars, mainVars, txnVars
<1>5. CASE MainEnter
  <2>1. CASE Iterate
    BY <1>3, <2>1 DEF Iterate
  <2>2. CASE mainLeft' = NextTimerDeadline /\ UNCHANGED timer
    <3>1. Running' = Running
      BY <2>2 DEF Running
    <3>2. \A c \in Running : NextTimerDeadline # None /\ NextTimerDeadline <= timer[c]
      BY <1>1, DeadlineFacts DEF TimeTypes
    <3> QED
      BY <2>2, <3>1, <3>2 DEF DeadlineCovers
  <2> QED
    BY <1>5, <2>1, <2>2 DEF MainEnter, Sleep, txnVars
<1>6. CASE MainNotified
  <2>1. CASE Iterate
    BY <1>3, <2>1 DEF Iterate
  <2>2. CASE ~Iterate
    BY <1>2, <1>6, <2>2 DEF MainNotified, Sleep, txnVars
  <2> QED
    BY <2>1, <2>2
<1>7. CASE MainDeadline \/ MainPoll
  BY <1>3, <1>7 DEF MainDeadline, MainPoll, Iterate
<1>8. CASE FlushStart \/ FlushSend \/ FlushClear \/ MainExit
  BY <1>2, <1>3, <1>8 DEF FlushStart, FlushSend, FlushClear, MainExit, mainVars, txnVars
<1>9. CASE RecvThread \/ RecvPoll \/ RecvReadTimeout
  BY <1>2, <1>9 DEF RecvThread, RecvEnter, RecvNotified, RecvRead, RecvReadEnds, RecvReadFails,
                    RecvExit, RecvPoll, RecvReadTimeout, Handover, RecvGoes, mainVars, txnVars
<1>10. CASE \E c \in Callers : Block(c) \/ Return(c)
  BY <1>2, <1>3, <1>10 DEF Block, Return, mainVars
<1>11. CASE (\E t \in Tpdos : TriggerTPDOOnce(t)) \/ Arrive \/ Shutdown
  BY <1>2, <1>11 DEF TriggerTPDOOnce, Arrive, Shutdown, mainVars, txnVars
<1>12. CASE Tick
  <2>1. /\ timer' = [c \in Callers |-> Less(timer[c])] /\ mainLeft' = Less(mainLeft)
        /\ UNCHANGED <<mainPc, genChanged>>
    BY <1>12 DEF Tick
  <2>2. SUFFICES ASSUME mainPc = "asleep", ~genChanged, NEW c \in Running'
                 PROVE  mainLeft' # None /\ mainLeft' <= timer'[c]
    BY <2>1 DEF DeadlineCovers
  <2>3. c \in Callers /\ timer'[c] = Less(timer[c]) /\ timer'[c] # None
    BY <2>1, <2>2 DEF Running
  <2>4. timer[c] \in Nat /\ c \in Running
    <3>1. timer[c] \in Nat \cup {None}
      BY <1>1, <2>3, LeftFacts DEF TimeTypes
    <3>2. timer[c] # None
      BY <2>3 DEF Less, None
    <3> QED
      BY <2>3, <3>1, <3>2 DEF Running
  <2>5. mainLeft \in Nat /\ mainLeft <= timer[c]
    BY <1>1, <2>2, <2>4, LeftFacts DEF DeadlineCovers, TimeTypes
  <2> QED
    BY <2>1, <2>3, <2>4, <2>5 DEF Less, None
<1> QED
  BY <1>4, <1>5, <1>6, <1>7, <1>8, <1>9, <1>10, <1>11, <1>12 DEF Next, MainThread, Polls

\* The receive thread is told when its batch has been taken.
LEMMA RecvHearsStep ==
  ASSUME LoopInv, [Next]_vars
  PROVE  RecvHears'
<1>1. RecvHears
  BY DEF LoopInv, WakeupsAreKept, RecvHears
<1> USE DEF RecvHears
<1>2. CASE UNCHANGED vars
  BY <1>1, <1>2 DEF vars, recvVars
<1>3. CASE Iterate
  BY <1>1, <1>3 DEF Iterate, NotifyRecv
<1>4. CASE MainEnter \/ MainNotified \/ MainDeadline \/ MainPoll
  BY <1>1, <1>3, <1>4, MainServes DEF Sleep, recvVars
<1>5. CASE FlushStart \/ FlushSend \/ FlushClear \/ MainExit
  BY <1>1, <1>5 DEF FlushStart, FlushSend, FlushClear, MainExit, recvVars
<1>6. CASE RecvThread \/ RecvPoll \/ RecvReadTimeout
  BY <1>1, <1>6 DEF RecvThread, RecvEnter, RecvNotified, RecvRead, RecvReadEnds, RecvReadFails,
                    RecvExit, RecvPoll, RecvReadTimeout, Handover, RecvGoes
<1>7. CASE \E c \in Callers : Block(c) \/ Return(c)
  BY <1>1, <1>7 DEF Block, Return, recvVars
<1>8. CASE (\E t \in Tpdos : TriggerTPDOOnce(t)) \/ Arrive \/ Tick \/ Shutdown
  BY <1>1, <1>8 DEF TriggerTPDOOnce, Arrive, Tick, Shutdown, recvVars
<1> QED
  BY <1>2, <1>4, <1>5, <1>6, <1>7, <1>8 DEF Next, MainThread, Polls

\* A mark in pendingTpdos stands for a send in the queue; taking the marks
\* leaves one send of each until the flush (runMainThread, triggerTPDOOnce).
LEMMA SendsStep ==
  ASSUME LoopInv, [Next]_vars
  PROVE  SendsCounted'
<1>1. SendsCounted /\ SendTypes
  BY TypesByParts DEF LoopInv
<1> SUFFICES ASSUME NEW t \in Tpdos
             PROVE  Sends(t)' <= Taken' + Marked(t)'
  BY DEF SendsCounted
<1>2. Sends(t) \in Nat /\ Sends(t) <= Taken + Marked(t)
  <2>1. Sends(t) = Cardinality(Occurs(t, asyncFrames))
    BY DEF Sends, Occurs
  <2> QED
    BY <1>1, <2>1, OccursFinite DEF SendsCounted, SendTypes
<1>s. Sends(t)' \in Nat
  <2>1. asyncFrames' \in Seq(Tpdos)
    BY <1>1, SendTypeStep DEF SendTypes
  <2>2. Sends(t)' = Cardinality(Occurs(t, asyncFrames'))
    BY DEF Sends, Occurs
  <2> QED
    BY <2>1, <2>2, OccursFinite
<1>3. ASSUME UNCHANGED asyncFrames
      PROVE  Sends(t)' = Sends(t)
  BY <1>3 DEF Sends
<1>4. Taken \in {0, 1} /\ Marked(t) \in {0, 1} /\ Taken' \in {0, 1} /\ Marked(t)' \in {0, 1}
  BY DEF Taken, Marked
<1>5. CASE UNCHANGED <<queueVars, flushAt, flushEnd>> /\ Taken' = Taken
  BY <1>2, <1>3, <1>5 DEF queueVars, Marked
<1>6. CASE Iterate /\ mainPc \in {"enter", "asleep"}
  <2>1. PICK S \in SUBSET Tpdos : Request(S)
    BY <1>6 DEF Iterate
  <2>2. Sends(t)' <= Sends(t) + (IF t \in S \ pendingTpdos THEN 1 ELSE 0)
    BY <1>1, <2>1, RequestFacts DEF SendTypes
  <2>3. Taken = 0 /\ Taken' = 1 /\ Marked(t)' = 0
    BY <1>6 DEF Iterate, Taken, Marked
  <2>4. CASE t \in pendingTpdos
    <3>1. Sends(t)' <= Sends(t) + 0
      BY <2>2, <2>4
    <3> QED
      BY <1>s, <1>2, <1>4, <2>3, <3>1
  <2>5. CASE t \notin pendingTpdos
    <3>1. Marked(t) = 0 /\ Sends(t) = 0
      BY <1>2, <2>3, <2>5 DEF Marked
    <3>2. Sends(t)' <= 0 + 1
      BY <1>s, <2>2, <3>1
    <3> QED
      BY <1>s, <2>3, <3>2
  <2> QED
    BY <2>4, <2>5
<1>7. CASE FlushStart \/ FlushSend
  <2>1. UNCHANGED <<pendingTpdos, asyncFrames>> /\ Taken' = Taken
    BY <1>7 DEF FlushStart, FlushSend, queueVars, mainVars, Taken
  <2> QED
    BY <1>2, <1>3, <2>1 DEF Marked
<1>8. CASE FlushClear
  <2>1. asyncFrames' = <<>>
    BY <1>8 DEF FlushClear
  <2>2. Sends(t)' = Cardinality({})
    BY <2>1 DEF Sends
  <2> QED
    BY <1>4, <2>2, FS_EmptySet
<1>9. CASE TriggerTPDOOnce(t)
  <2>1. Request({t}) /\ Marked(t)' = 1 /\ Taken' = Taken
    BY <1>9 DEF TriggerTPDOOnce, Marked, Taken
  <2>2. Sends(t)' <= Sends(t) + (IF t \in {t} \ pendingTpdos THEN 1 ELSE 0)
    BY <1>1, <2>1, RequestFacts DEF SendTypes
  <2>3. CASE t \in pendingTpdos
    <3>1. Marked(t) = 1 /\ Sends(t)' <= Sends(t) + 0
      BY <2>2, <2>3 DEF Marked
    <3> QED
      BY <1>s, <1>2, <1>4, <2>1, <3>1
  <2>4. CASE t \notin pendingTpdos
    <3>1. Marked(t) = 0 /\ Sends(t)' <= Sends(t) + 1
      BY <2>2, <2>4 DEF Marked
    <3> QED
      BY <1>s, <1>2, <1>4, <2>1, <3>1
  <2> QED
    BY <2>3, <2>4
<1>10. ASSUME NEW u \in Tpdos, u # t, TriggerTPDOOnce(u)
       PROVE  Sends(t)' <= Taken' + Marked(t)'
  <2>1. Request({u}) /\ Marked(t)' = Marked(t) /\ Taken' = Taken
    BY <1>10 DEF TriggerTPDOOnce, Marked, Taken
  <2>2. Sends(t)' <= Sends(t) + 0
    BY <1>1, <1>10, <2>1, RequestFacts DEF SendTypes
  <2> QED
    BY <1>s, <1>2, <1>4, <2>1, <2>2
<1>11. CASE Sleep /\ mainPc \in {"enter", "asleep"}
  <2>1. UNCHANGED <<queueVars, flushAt, flushEnd>> /\ Taken' = Taken
    BY <1>11 DEF Sleep, flushVars, Taken
  <2> QED
    BY <1>5, <2>1
<1>12. CASE UNCHANGED mainPc /\ UNCHANGED <<queueVars, flushAt, flushEnd>>
  BY <1>5, <1>12 DEF Taken
<1>13. CASE UNCHANGED vars
  BY <1>12, <1>13 DEF vars, mainVars, flushVars
<1>14. CASE MainEnter \/ MainNotified \/ MainDeadline \/ MainPoll
  BY <1>6, <1>11, <1>14 DEF MainEnter, MainNotified, MainDeadline, MainPoll
<1>15. CASE MainExit
  <2>1. UNCHANGED <<queueVars, flushAt, flushEnd>> /\ Taken' = Taken
    BY <1>15 DEF MainExit, flushVars, Taken
  <2> QED
    BY <1>5, <2>1
<1>16. CASE RecvThread \/ RecvPoll \/ RecvReadTimeout
  BY <1>12, <1>16 DEF RecvThread, RecvEnter, RecvNotified, RecvRead, RecvReadEnds, RecvReadFails,
                      RecvExit, RecvPoll, RecvReadTimeout, Handover, RecvGoes, mainVars, flushVars
<1>17. CASE \E c \in Callers : Block(c) \/ Return(c)
  BY <1>12, <1>17 DEF Block, Return, mainVars, flushVars
<1>18. CASE Arrive \/ Tick \/ Shutdown
  BY <1>12, <1>18 DEF Arrive, Tick, Shutdown, mainVars, flushVars
<1> QED
  BY <1>7, <1>8, <1>9, <1>10, <1>13, <1>14, <1>15, <1>16, <1>17, <1>18
     DEF Next, MainThread, Polls

-----------------------------------------------------------------------------

LEMMA InitInv == Init => LoopInv
<1> SUFFICES ASSUME Init PROVE LoopInv
  OBVIOUS
<1> USE DEF Init
<1>1. Queues /\ arrived \in 0 .. MaxFrames /\ handled \in 0 .. arrived
  BY BoundsAssumption DEF Queues
<1>2. ThreadTypes /\ BatchTypes /\ SendTypes /\ TimeTypes /\ CountTypes
  <2>1. ThreadTypes
    BY DEF ThreadTypes
  <2>2. BatchTypes
    BY BatchAssumption DEF BatchTypes
  <2>3. SendTypes
    BY DEF SendTypes
  <2>4. TimeTypes
    BY LeftFacts DEF TimeTypes
  <2>5. CountTypes
    BY BoundsAssumption DEF CountTypes
  <2> QED
    BY <2>1, <2>2, <2>3, <2>4, <2>5
<1>3. FramesInOrder
  <2>1. Queue = <<>>
    BY ConcatEmptySeq DEF Queue
  <2>2. Ordered(Queue, arrived, handled)
    BY <2>1 DEF Ordered
  <2> QED
    BY <1>1, <2>1, <2>2, OrderedQueue DEF FramesInOrder, Queue
<1>4. OneBatch /\ WakeupsAreKept
  BY DEF OneBatch, WakeupsAreKept, Wakeup
<1>5. SendsCounted
  <2>1. \A t \in Tpdos : Sends(t) = Cardinality({})
    BY DEF Sends
  <2> QED
    BY <2>1, FS_EmptySet DEF SendsCounted, Taken, Marked
<1> QED
  BY <1>1, <1>2, <1>3, <1>4, <1>5, TypesByParts DEF LoopInv

LEMMA NextInv == LoopInv /\ [Next]_vars => LoopInv'
<1> SUFFICES ASSUME LoopInv, [Next]_vars PROVE LoopInv'
  OBVIOUS
<1>1. TypeOK'
  BY TypeStep
<1>2. FramesInOrder'
  BY OrderStep
<1>3. OneBatch'
  BY OneBatchStep
<1>4. WakeupsAreKept'
  BY MainHearsStep, DeadlineStep, RecvHearsStep
     DEF WakeupsAreKept, MainHears, DeadlineCovers, RecvHears
<1>5. SendsCounted'
  BY SendsStep
<1> QED
  BY <1>1, <1>2, <1>3, <1>4, <1>5 DEF LoopInv

\* The types, the order of frames, the one batch, the notifications and the
\* count of sends, in every reachable state (LinuxCo's threads).
THEOREM LoopSafe == Spec => []LoopInv
BY InitInv, NextInv, PTL DEF Spec

\* Frames are handled once and in the order of arrival (runRecvThread,
\* runMainThread).
THEOREM InOrder == Spec => []FramesInOrder
<1>1. LoopInv => FramesInOrder
  BY DEF LoopInv
<1> QED
  BY <1>1, LoopSafe, PTL

\* assert(pendingFrames.empty()) in runRecvThread never fails.
THEOREM AssertionHolds == Spec => []HandoverIntoEmpty
<1>1. LoopInv => HandoverIntoEmpty
  BY DEF LoopInv, OneBatch, HandoverIntoEmpty
<1> QED
  BY <1>1, LoopSafe, PTL

\* No thread sleeps through a frame, a request, a timer or an emptied batch
\* (doWithLock, the two condition variables).
THEOREM NobodySleepsOn == Spec => []NoLostWakeup
<1>1. LoopInv => NoLostWakeup
  BY DEF LoopInv, WakeupsAreKept, NoLostWakeup, Wakeup
<1> QED
  BY <1>1, LoopSafe, PTL

\* The queue of sends holds at most two of each TPDO (triggerTPDOOnce).
THEOREM SendsAreBounded == Spec => []SendsBounded
<1>1. LoopInv => SendsBounded
  <2> SUFFICES ASSUME LoopInv, NEW t \in Tpdos PROVE Sends(t) <= 2
    BY DEF SendsBounded
  <2>1. Sends(t) <= Taken + Marked(t) /\ Taken \in {0, 1} /\ Marked(t) \in {0, 1}
    BY DEF LoopInv, SendsCounted, Taken, Marked
  <2>2. Sends(t) \in Nat
    <3>1. asyncFrames \in Seq(Tpdos)
      BY DEF LoopInv, TypeOK
    <3>2. Sends(t) = Cardinality(Occurs(t, asyncFrames))
      BY DEF Sends, Occurs
    <3> QED
      BY <3>1, <3>2, OccursFinite
  <2> QED
    BY <2>1, <2>2
<1> QED
  BY <1>1, LoopSafe, PTL
=============================================================================
