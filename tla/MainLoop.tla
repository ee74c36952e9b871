------------------------------ MODULE MainLoop ------------------------------
(***************************************************************************)
(* The threads of a LinuxCo: the main thread (timers, frames, the queue of *)
(* asynchronous sends), the receive thread (socket to pendingFrames), and  *)
(* the application's threads, which enter through doWithLock or block in   *)
(* blockingTransaction.                                                    *)
(*                                                                         *)
(* A section under the node's mutex does not block and is one action; the  *)
(* steps between actions are where the mutex is free: the waits on the two *)
(* condition variables, reading the socket, and flushAsyncFrames, which    *)
(* walks the queue without the mutex while other threads may append to it. *)
(*                                                                         *)
(* The 500 ms both threads sleep at most are the Poll actions. They are no *)
(* part of LoopFairness: frames, timers and requests must get through on   *)
(* notifications and deadlines alone, as with a 500 ms that never ends.    *)
(***************************************************************************)
EXTENDS Integers, Sequences, FiniteSets, SequencesExt

CONSTANTS Callers,       \* application threads that block on transactions
          Tpdos,         \* the TPDOs somebody triggers
          Nobody,        \* a frame that answers no transaction
          Damaged,       \* a frame read from memory that was given back
          Outside,       \* do other threads call triggerTPDOOnce?
          Callbacks,     \* do callbacks on the main thread?
          Batch,         \* MAX_FRAMES_PER_BATCH
          Delays,        \* the times after which a transaction times out
          MaxFrames,     \* bound: frames that arrive
          MaxFailures,   \* bound: reads of the socket that fail
          MaxCalls,      \* bound: transactions and outside requests
          Stops          \* is the node destroyed in the end?

ASSUME BatchAssumption == Batch \in Nat \ {0}
ASSUME DelaysAssumption == Delays \subseteq Nat \ {0}
ASSUME NobodyAssumption == Nobody \notin Callers
ASSUME TpdosAssumption == IsFiniteSet(Tpdos)
ASSUME BoundsAssumption == {MaxFrames, MaxFailures, MaxCalls} \subseteq Nat

VARIABLES
  mainPc,         \* "enter", "asleep", "flush", "sending", "exited"
  mainNotified,   \* mainThreadWakeup was signalled while main was asleep
  mainLeft,       \* time left until the deadline main sleeps to, or None
  genChanged,     \* gen # sys.getTimerGeneration()
  recvPc,         \* "enter", "asleep", "read", "drain", "handover", "exited"
  recvNotified,   \* recvThreadWakeup was signalled while recv was asleep
  socket,         \* frames in the socket's receive buffer
  frames,         \* the local batch of the receive thread
  pendingFrames,
  pendingTpdos,
  asyncFrames,    \* LinuxCoDev::asyncFrames
  flushAt,        \* the next frame the flush sends
  flushEnd,       \* where the range of the flush ends
  moved,          \* asyncFrames has grown since the flush began
  timer,          \* caller -> time left of its transaction's timer, or None
  txn,            \* caller -> "idle", "waiting", "done"
  shutdown,
  arrived,        \* number of frames that have arrived
  handled,        \* number of frames given to processFrame
  unsent,         \* TPDOs requested with Success and not sent since
  calls,
  failures

mainVars == <<mainPc, mainNotified, mainLeft, genChanged>>
recvVars == <<recvPc, recvNotified, socket, frames>>
queueVars == <<pendingTpdos, asyncFrames, unsent>>
flushVars == <<flushAt, flushEnd, moved>>
txnVars == <<timer, txn>>
vars == <<mainVars, recvVars, pendingFrames, queueVars, flushVars, txnVars,
          shutdown, arrived, handled, calls, failures>>

None == -1

Init ==
  /\ mainPc = "enter" /\ mainNotified = FALSE /\ mainLeft = None /\ genChanged = FALSE
  /\ recvPc = "enter" /\ recvNotified = FALSE /\ socket = <<>> /\ frames = <<>>
  /\ pendingFrames = <<>> /\ pendingTpdos = {} /\ asyncFrames = <<>> /\ unsent = {}
  /\ flushAt = 1 /\ flushEnd = 0 /\ moved = FALSE
  /\ timer = [c \in Callers |-> None] /\ txn = [c \in Callers |-> "idle"]
  /\ shutdown = FALSE /\ arrived = 0 /\ handled = 0 /\ calls = 0 /\ failures = 0

NotifyMain == mainNotified' = (mainNotified \/ mainPc = "asleep")
NotifyRecv == recvNotified' = (recvNotified \/ recvPc = "asleep")

-----------------------------------------------------------------------------
(* The main thread.                                                        *)

Running == {c \in Callers : timer[c] # None}
\* nextTimerDeadline: None is the distant future.
NextTimerDeadline ==
  IF Running = {} THEN None
  ELSE CHOOSE d \in {timer[c] : c \in Running} : \A c \in Running : d <= timer[c]

Wakeup == pendingFrames # <<>> \/ genChanged \/ pendingTpdos # {}

\* One iteration under the mutex: serviceTimers, then processFrame for every
\* pending frame. Either may end the transaction of a caller, and run a
\* callback that requests the TPDOs S.
Completed ==
  {c \in Callers : txn[c] = "waiting" /\ (timer[c] = 0 \/ \E f \in Range(pendingFrames) : f.to = c)}

\* Mutant: requests are not coalesced.
RequestAgain(S) ==
  /\ asyncFrames' = asyncFrames \o SetToSeq(S)
  /\ unsent' = unsent \cup S

Request(S) ==
  /\ asyncFrames' = asyncFrames \o SetToSeq(S \ pendingTpdos)
  /\ unsent' = unsent \cup S

Iterate ==
  /\ \E S \in SUBSET Tpdos :
       /\ S # {} => Callbacks /\ (Completed # {} \/ pendingFrames # <<>>)
       /\ Request(S)
  /\ txn' = [c \in Callers |-> IF c \in Completed THEN "done" ELSE txn[c]]
  /\ timer' = [c \in Callers |-> IF c \in Completed THEN None ELSE timer[c]]
  /\ handled' = handled + Len(pendingFrames)
  /\ IF pendingFrames # <<>> THEN NotifyRecv ELSE UNCHANGED recvNotified
  /\ pendingFrames' = <<>> /\ pendingTpdos' = {}
  /\ mainPc' = "flush" /\ mainNotified' = FALSE /\ mainLeft' = None /\ genChanged' = FALSE
  /\ UNCHANGED <<recvPc, socket, frames, flushAt, flushEnd, moved, shutdown, arrived, calls, failures>>

Sleep ==
  /\ mainPc' = "asleep" /\ mainNotified' = FALSE
  /\ UNCHANGED <<recvVars, pendingFrames, queueVars, flushVars, txnVars,
                 shutdown, arrived, handled, calls, failures>>

\* The deadline and the generation are read under the mutex, then the wait
\* starts with a look at its condition.
MainEnter ==
  /\ mainPc = "enter" /\ ~shutdown
  /\ IF pendingFrames # <<>> \/ pendingTpdos # {} THEN Iterate
     ELSE /\ Sleep
          /\ mainLeft' = NextTimerDeadline
          /\ genChanged' = FALSE

MainNotified ==
  /\ mainPc = "asleep" /\ mainNotified
  /\ IF Wakeup THEN Iterate ELSE Sleep /\ UNCHANGED <<mainLeft, genChanged>>

MainDeadline == mainPc = "asleep" /\ mainLeft = 0 /\ Iterate
MainPoll == mainPc = "asleep" /\ Iterate

\* Mutant: the last frame is left out.
FlushStartShort ==
  /\ mainPc = "flush"
  /\ flushAt' = 1 /\ moved' = FALSE
  /\ flushEnd' = IF asyncFrames = <<>> THEN 0 ELSE Len(asyncFrames) - 1
  /\ mainPc' = "sending"
  /\ UNCHANGED <<mainNotified, mainLeft, genChanged, recvVars, pendingFrames, queueVars,
                 txnVars, shutdown, arrived, handled, calls, failures>>

\* flushAsyncFrames, without the mutex: the range is fixed when the loop
\* starts, and the queue is emptied when it ends.
FlushStart ==
  /\ mainPc = "flush"
  /\ flushAt' = 1 /\ flushEnd' = Len(asyncFrames) /\ moved' = FALSE
  /\ mainPc' = "sending"
  /\ UNCHANGED <<mainNotified, mainLeft, genChanged, recvVars, pendingFrames, queueVars,
                 txnVars, shutdown, arrived, handled, calls, failures>>

\* An append in the meantime may have moved the frames elsewhere.
FlushSend ==
  /\ mainPc = "sending" /\ flushAt <= flushEnd
  /\ \E f \in {asyncFrames[flushAt]} \cup (IF moved THEN {Damaged} ELSE {}) :
       unsent' = unsent \ {f}
  /\ flushAt' = flushAt + 1
  /\ UNCHANGED <<mainVars, recvVars, pendingFrames, pendingTpdos, asyncFrames, flushEnd, moved,
                 txnVars, shutdown, arrived, handled, calls, failures>>

FlushClear ==
  /\ mainPc = "sending" /\ flushAt > flushEnd
  /\ asyncFrames' = <<>>
  /\ mainPc' = "enter" /\ flushAt' = 1 /\ flushEnd' = 0 /\ moved' = FALSE
  /\ UNCHANGED <<mainNotified, mainLeft, genChanged, recvVars, pendingFrames, pendingTpdos,
                 unsent, txnVars, shutdown, arrived, handled, calls, failures>>

MainExit ==
  /\ mainPc = "enter" /\ shutdown
  /\ mainPc' = "exited"
  /\ UNCHANGED <<mainNotified, mainLeft, genChanged, recvVars, pendingFrames, queueVars,
                 flushVars, txnVars, shutdown, arrived, handled, calls, failures>>

-----------------------------------------------------------------------------
(* The receive thread.                                                     *)

RecvGoes(pc) ==
  /\ recvPc' = pc
  /\ UNCHANGED <<mainVars, queueVars, flushVars, txnVars, shutdown, arrived, handled, calls>>

\* Mutant: the next batch is read at once.
RecvEnterAtOnce ==
  /\ recvPc = "enter" /\ ~shutdown
  /\ RecvGoes("read")
  /\ UNCHANGED <<recvNotified, socket, frames, pendingFrames, failures>>

\* It reads no other batch while one is pending.
RecvEnter ==
  /\ recvPc = "enter" /\ ~shutdown
  /\ RecvGoes(IF pendingFrames = <<>> THEN "read" ELSE "asleep")
  /\ UNCHANGED <<recvNotified, socket, frames, pendingFrames, failures>>

RecvNotified ==
  /\ recvPc = "asleep" /\ recvNotified
  /\ RecvGoes(IF pendingFrames = <<>> THEN "read" ELSE "asleep")
  /\ recvNotified' = FALSE
  /\ UNCHANGED <<socket, frames, pendingFrames, failures>>

\* Mutant: after 500 ms the thread waits on.
RecvPollWaits ==
  /\ recvPc = "asleep"
  /\ RecvGoes(IF pendingFrames = <<>> THEN "read" ELSE "asleep")
  /\ recvNotified' = FALSE
  /\ UNCHANGED <<socket, frames, pendingFrames, failures>>

RecvPoll ==
  /\ recvPc = "asleep"
  /\ RecvGoes(IF pendingFrames = <<>> THEN "read" ELSE "enter")
  /\ recvNotified' = FALSE
  /\ UNCHANGED <<socket, frames, pendingFrames, failures>>

\* Mutant: the batch has no limit.
RecvReadOn ==
  /\ recvPc \in {"read", "drain"} /\ socket # <<>>
  /\ frames' = Append(frames, Head(socket))
  /\ socket' = Tail(socket)
  /\ RecvGoes("drain")
  /\ UNCHANGED <<recvNotified, pendingFrames, failures>>

\* The first read blocks; the others take what is there.
RecvRead ==
  /\ recvPc \in {"read", "drain"} /\ socket # <<>> /\ Len(frames) < Batch
  /\ frames' = Append(frames, Head(socket))
  /\ socket' = Tail(socket)
  /\ RecvGoes("drain")
  /\ UNCHANGED <<recvNotified, pendingFrames, failures>>

RecvReadEnds ==
  /\ recvPc = "drain" /\ (socket = <<>> \/ Len(frames) >= Batch)
  /\ RecvGoes("handover")
  /\ UNCHANGED <<recvNotified, socket, frames, pendingFrames, failures>>

RecvReadTimeout ==
  /\ recvPc = "read" /\ socket = <<>>
  /\ RecvGoes("handover")
  /\ UNCHANGED <<recvNotified, socket, frames, pendingFrames, failures>>

\* A read fails: what was read before is handed over all the same.
RecvReadFails ==
  /\ recvPc \in {"read", "drain"} /\ failures < MaxFailures
  /\ failures' = failures + 1
  /\ RecvGoes("handover")
  /\ UNCHANGED <<recvNotified, socket, frames, pendingFrames>>

\* Mutant: nobody tells the main thread.
HandoverQuietly ==
  /\ recvPc = "handover"
  /\ recvPc' = "enter"
  /\ IF frames = <<>> THEN UNCHANGED <<frames, pendingFrames>>
     ELSE pendingFrames' = frames /\ frames' = pendingFrames
  /\ UNCHANGED <<mainVars, recvNotified, socket, queueVars, flushVars,
                 txnVars, shutdown, arrived, handled, calls, failures>>

Handover ==
  /\ recvPc = "handover"
  /\ recvPc' = "enter"
  /\ IF frames = <<>> THEN UNCHANGED <<mainNotified, frames, pendingFrames>>
     ELSE /\ pendingFrames' = frames
          /\ frames' = pendingFrames
          /\ NotifyMain
  /\ UNCHANGED <<mainPc, mainLeft, genChanged, recvNotified, socket, queueVars, flushVars,
                 txnVars, shutdown, arrived, handled, calls, failures>>

RecvExit ==
  /\ recvPc = "enter" /\ shutdown
  /\ RecvGoes("exited")
  /\ UNCHANGED <<recvNotified, socket, frames, pendingFrames, failures>>

-----------------------------------------------------------------------------
(* The application's threads, the bus and the clock.                       *)

Call == ~shutdown /\ calls < MaxCalls /\ calls' = calls + 1

\* Mutant: doWithLock does not see that timers have changed.
BlockQuietly(c) ==
  /\ Call /\ txn[c] = "idle"
  /\ txn' = [txn EXCEPT ![c] = "waiting"]
  /\ \E d \in Delays : timer' = [timer EXCEPT ![c] = d]
  /\ genChanged' = TRUE
  /\ UNCHANGED <<mainPc, mainNotified, mainLeft, recvVars, pendingFrames, queueVars, flushVars,
                 shutdown, arrived, handled, failures>>

\* blockingTransaction: doWithLock starts the transaction, which schedules
\* its timer; the caller then waits for the callback.
Block(c) ==
  /\ Call /\ txn[c] = "idle"
  /\ txn' = [txn EXCEPT ![c] = "waiting"]
  /\ \E d \in Delays : timer' = [timer EXCEPT ![c] = d]
  /\ genChanged' = TRUE
  /\ NotifyMain
  /\ UNCHANGED <<mainPc, mainLeft, recvVars, pendingFrames, queueVars, flushVars,
                 shutdown, arrived, handled, failures>>

Return(c) ==
  /\ txn[c] = "done"
  /\ txn' = [txn EXCEPT ![c] = "idle"]
  /\ UNCHANGED <<mainVars, recvVars, pendingFrames, queueVars, flushVars, timer,
                 shutdown, arrived, handled, calls, failures>>

\* doWithLock around triggerTPDOOnce: the main thread is notified when
\* pendingTpdos was empty before.
TriggerTPDOOnce(t) ==
  /\ Outside /\ Call
  /\ Request({t})
  /\ pendingTpdos' = pendingTpdos \cup {t}
  /\ IF pendingTpdos = {} THEN NotifyMain ELSE UNCHANGED mainNotified
  /\ moved' = (moved \/ (mainPc = "sending" /\ t \notin pendingTpdos))
  /\ UNCHANGED <<mainPc, mainLeft, genChanged, recvVars, pendingFrames, flushAt, flushEnd,
                 txnVars, shutdown, arrived, handled, failures>>

\* A frame arrives, the answer to a transaction or another.
Arrive ==
  /\ arrived < MaxFrames
  /\ arrived' = arrived + 1
  /\ \E to \in {Nobody} \cup {c \in Callers : txn[c] = "waiting"} :
       socket' = Append(socket, [n |-> arrived + 1, to |-> to])
  /\ UNCHANGED <<mainVars, recvPc, recvNotified, frames, pendingFrames, queueVars, flushVars,
                 txnVars, shutdown, handled, calls, failures>>

Less(left) == IF left > 0 THEN left - 1 ELSE left
Tick ==
  /\ \E c \in Callers : timer[c] > 0
  /\ timer' = [c \in Callers |-> Less(timer[c])]
  /\ mainLeft' = Less(mainLeft)
  /\ UNCHANGED <<mainPc, mainNotified, genChanged, recvVars, pendingFrames, queueVars,
                 flushVars, txn, shutdown, arrived, handled, calls, failures>>

\* ~LinuxCo, when no thread is inside the node any more.
Shutdown ==
  /\ Stops /\ ~shutdown /\ \A c \in Callers : txn[c] = "idle"
  /\ shutdown' = TRUE
  /\ UNCHANGED <<mainVars, recvVars, pendingFrames, queueVars, flushVars, txnVars,
                 arrived, handled, calls, failures>>

MainThread ==
  MainEnter \/ MainNotified \/ MainDeadline \/ FlushStart \/ FlushSend \/ FlushClear \/ MainExit
RecvThread ==
  RecvEnter \/ RecvNotified \/ RecvRead \/ RecvReadEnds \/ RecvReadFails \/ Handover \/ RecvExit
Polls == MainPoll \/ RecvPoll \/ RecvReadTimeout

Next ==
  \/ MainThread \/ RecvThread \/ Polls
  \/ \E c \in Callers : Block(c) \/ Return(c)
  \/ \E t \in Tpdos : TriggerTPDOOnce(t)
  \/ Arrive \/ Tick \/ Shutdown

Spec == Init /\ [][Next]_vars

\* The threads run, and time passes: nothing is said of the Polls.
LoopFairness ==
  /\ WF_vars(MainThread) /\ WF_vars(RecvThread) /\ WF_vars(Tick)
  /\ \A c \in Callers : WF_vars(Return(c))
LoopSpec == Spec /\ LoopFairness
\* The sleeps end after 500 ms at the latest, the read after its timeout.
PollFairness == WF_vars(MainPoll) /\ WF_vars(RecvPoll) /\ WF_vars(RecvReadTimeout)
-----------------------------------------------------------------------------

Frame == [n : 1 .. MaxFrames, to : Callers \cup {Nobody}]
Left == {None, 0} \cup UNION {1 .. d : d \in Delays}

TypeOK ==
  /\ mainPc \in {"enter", "asleep", "flush", "sending", "exited"}
  /\ recvPc \in {"enter", "asleep", "read", "drain", "handover", "exited"}
  /\ {mainNotified, genChanged, recvNotified, moved, shutdown} \subseteq BOOLEAN
  /\ \A q \in {socket, frames, pendingFrames} : q \in Seq(Frame)
  /\ Len(frames) <= Batch /\ Len(pendingFrames) <= Batch
  /\ pendingTpdos \subseteq Tpdos /\ unsent \subseteq Tpdos /\ asyncFrames \in Seq(Tpdos)
  /\ flushAt \in 1 .. flushEnd + 1 /\ flushEnd \in 0 .. Len(asyncFrames)
  /\ mainLeft \in Left
  /\ timer \in [Callers -> Left] /\ txn \in [Callers -> {"idle", "waiting", "done"}]
  /\ arrived \in 0 .. MaxFrames /\ handled \in 0 .. arrived /\ calls \in 0 .. MaxCalls
  /\ failures \in 0 .. MaxFailures

\* A frame is handled once and in the order of arrival: what was handled,
\* what is pending, the batch being read and the socket are consecutive and
\* lose nothing (runRecvThread, runMainThread).
FramesInOrder ==
  pendingFrames \o frames \o socket = [k \in 1 .. arrived - handled |->
    [n |-> handled + k, to |-> (pendingFrames \o frames \o socket)[k].to]]

\* There is one batch: while main has not taken it the receive thread does not
\* read, and it has nothing left of it (runRecvThread).
OneBatch ==
  /\ pendingFrames # <<>> => recvPc \in {"enter", "asleep", "exited"}
  /\ recvPc \in {"enter", "asleep", "read", "exited"} => frames = <<>>

\* Whatever ends a thread's wait has notified it, and the deadline main sleeps to
\* covers every timer but those that changed the generation since.
WakeupsAreKept ==
  /\ mainPc = "asleep" /\ Wakeup => mainNotified
  /\ mainPc = "asleep" /\ ~genChanged =>
       \A c \in Running : mainLeft # None /\ mainLeft <= timer[c]
  /\ recvPc = "asleep" /\ pendingFrames = <<>> => recvNotified

\* A TPDO is queued once for its mark in pendingTpdos, and once more for the
\* iteration that has taken the marks and not flushed yet.
Sends(t) == Cardinality({k \in DOMAIN asyncFrames : asyncFrames[k] = t})
Taken == IF mainPc \in {"flush", "sending"} THEN 1 ELSE 0
Marked(t) == IF t \in pendingTpdos THEN 1 ELSE 0
SendsCounted == \A t \in Tpdos : Sends(t) <= Taken + Marked(t)

\* The types, the order of frames, the hand-over, the notifications and the
\* queue of sends.
LoopInv == TypeOK /\ FramesInOrder /\ OneBatch /\ WakeupsAreKept /\ SendsCounted

\* assert(pendingFrames.empty()) in runRecvThread.
HandoverIntoEmpty == recvPc = "handover" => pendingFrames = <<>>

\* Nobody sleeps through what it waits for: while main sleeps and was not
\* notified there is no frame, no request, no timer main has not seen and
\* none that expires before main wakes; while recv sleeps and was not
\* notified there is a batch for main (doWithLock, the two condition variables).
NoLostWakeup ==
  /\ mainPc = "asleep" /\ ~mainNotified =>
       /\ ~Wakeup
       /\ \A c \in Running : mainLeft # None /\ mainLeft <= timer[c]
  /\ recvPc = "asleep" /\ ~recvNotified => pendingFrames # <<>>

\* However fast other threads request TPDOs, the queue holds at most two
\* sends of each: what the comment at triggerTPDOOnce is about.
SendsBounded == \A t \in Tpdos : Sends(t) <= 2

\* A caller of blockingTransaction returns, answered or not, without the help
\* of the polls.
CallersReturn == \A c \in Callers : txn[c] = "waiting" ~> txn[c] = "idle"

\* Every frame that arrives is handled, without the help of the polls.
FramesHandled == [](arrived > handled => <>(arrived = handled \/ shutdown))

\* A TPDO requested with Success is sent.
RequestsAreSent == \A t \in Tpdos : t \in unsent ~> (t \notin unsent \/ shutdown)

\* The destructor returns: both threads leave their loops, and this takes the
\* polls, for ~LinuxCo wakes nobody.
ShutdownJoins ==
  PollFairness => (shutdown ~> (mainPc = "exited" /\ recvPc = "exited"))
=============================================================================
