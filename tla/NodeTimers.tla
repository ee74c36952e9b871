----------------------------- MODULE NodeTimers -----------------------------
(***************************************************************************)
(* The services of a node as users of the timers of the Teensy and of the  *)
(* ODrive platform: the heartbeat producer, the watch over peers, the SDO  *)
(* transactions and the timeouts of RPDOs keep a handle each, delete and   *)
(* schedule through it and recognise their own callbacks by a generation.  *)
(* The timers of TPDOs, which repeat like the producer's and whose callback *)
(* starts no transfer, are left to Pdo, and so is what enables a PDO.      *)
(*                                                                         *)
(* Teensy: a vector that grows, served in one pass that reads the clock    *)
(* once; lastFireTime and the clock are unsigned, here the slot's age and  *)
(* the time since the pass read the clock (lag), both relative to now.     *)
(* ODrive: an array of fixed size in front of the timers of the firmware   *)
(* (external), which fire one at a time and are never refused here.        *)
(***************************************************************************)
EXTENDS Integers, Sequences, FiniteSets

CONSTANTS Platform,    \* "teensy" or "odrive"
          Producer,    \* the heartbeat producer
          Peers,       \* the peers that are watched
          Transfers,   \* the keys of activeTransactions
          Rpdos,       \* the RPDOs with a timeout callback: keys of rpdoTimers
          Limits,      \* the values given to setRemoteTimeout, 0 for none
          Period,      \* the heartbeat period
          Timeout,     \* the timeout of a transaction
          RpdoPeriod,  \* the event timer of an RPDO
          PoolSize,    \* slots of the ODrive pool: 24 in the code
          MaxSlots,    \* bound: the length of the vector
          Wrap,        \* the range of the millisecond clock: 2^32
          MaxLate,     \* bound: how long a timer that is due waits
          NoOne        \* the user of a slot that is free

ASSUME PlatformAssumption == Platform \in {"teensy", "odrive"}
ASSUME UsersAssumption ==
  /\ Producer \notin Peers \cup Transfers \cup Rpdos
  /\ Peers \cap Transfers = {} /\ Rpdos \cap (Peers \cup Transfers) = {}
ASSUME TimeAssumption ==
  /\ Limits \subseteq Nat /\ Period \in Nat \ {0} /\ Timeout \in Nat \ {0}
  /\ RpdoPeriod \in Nat \ {0} /\ MaxLate \in Nat /\ PoolSize \in Nat /\ Wrap \in Nat
  /\ \A ms \in Limits \cup {3 * Period, Timeout, RpdoPeriod} : ms + 2 * MaxLate < Wrap

VARIABLES slots,       \* System::timers
          handle,      \* user -> the handle it stores
          generation,  \* user -> the generation it stores
          waiting,     \* the users that count on a callback
          limit,       \* peer -> timeoutMs, Unwatched if it is not in peerStates
          pass,        \* where service is: the next slot, 0 outside it
          lag,         \* time since this pass read the clock
          ahead        \* the slots that timeouts of RPDOs took ahead of this pass

vars == <<slots, handle, generation, waiting, limit, pass, lag, ahead>>

Users == {Producer} \cup Peers \cup Transfers \cup Rpdos
NoTimer == 0
\* service's iterator, once the vector has moved: what comes next is undefined.
Dangling == -1
Unwatched == -1

Blank == [available |-> TRUE, enable |-> FALSE, repeat |-> FALSE,
          delay |-> 0, age |-> 0, user |-> NoOne, generation |-> 0]
Armed(ms, u, g) == [Blank EXCEPT !.available = FALSE, !.enable = TRUE,
                                 !.delay = ms, !.user = u, !.generation = g]

Init ==
  /\ slots = IF Platform = "teensy" THEN <<>> ELSE [h \in 1 .. PoolSize |-> Blank]
  /\ handle = [u \in Users |-> NoTimer]
  /\ generation = [u \in Users |-> 0]
  /\ waiting = {}
  /\ limit = [p \in Peers |-> Unwatched]
  /\ pass = 0 /\ lag = 0 /\ ahead = {}

-----------------------------------------------------------------------------
(* The timer tables. A handler composes operations on one record.          *)

Node == [slots |-> slots, handle |-> handle, generation |-> generation, waiting |-> waiting]
Become(s) ==
  /\ Len(s.slots) <= MaxSlots
  /\ slots' = s.slots /\ handle' = s.handle
  /\ generation' = s.generation /\ waiting' = s.waiting

\* Mutant: the handle keeps its value, on every platform.
DeleteKeepsHandle(s, u) ==
  IF s.handle[u] = NoTimer THEN s ELSE [s EXCEPT !.slots[s.handle[u]] = Blank]

\* deleteTimer: Teensy's sets the caller's handle to InvalidTimer, ODrive's
\* does not. Both trust the handle.
Delete(s, u) ==
  IF s.handle[u] = NoTimer THEN s
  ELSE [s EXCEPT !.slots[s.handle[u]] = Blank,
                 !.handle[u] = IF Platform = "teensy" THEN NoTimer ELSE @]

\* The first slot that is available; a new one on Teensy, InvalidTimer on ODrive.
Schedule(s, u, timer) ==
  LET free == {h \in DOMAIN s.slots : s.slots[h].available}
      first == CHOOSE h \in free : \A g \in free : h <= g
      placed == IF free # {} THEN [s EXCEPT !.slots[first] = timer, !.handle[u] = first]
                ELSE IF Platform = "teensy"
                THEN [s EXCEPT !.slots = Append(@, timer), !.handle[u] = Len(s.slots) + 1]
                ELSE [s EXCEPT !.handle[u] = NoTimer]
  IN [placed EXCEPT !.waiting = @ \cup {u}]

\* newGeneration() returns a number nobody holds; only the callbacks of u are
\* compared with the generation of u, so the least one they do not hold will do.
NewGeneration(s, u) ==
  LET held == {s.slots[h].generation : h \in {i \in DOMAIN s.slots : s.slots[i].user = u}}
  IN CHOOSE g \in 0 .. Cardinality(held) : g \notin held

Renewed(s, u) == [s EXCEPT !.generation[u] = NewGeneration(s, u), !.waiting = @ \ {u}]
Delayed(s, u, ms) == Schedule(s, u, Armed(ms, u, s.generation[u]))

-----------------------------------------------------------------------------
(* The services. A transaction's callback, or a state callback, may start  *)
(* a transaction before it returns.                                        *)

\* clientTransaction, or a server's first frame: no transaction is active.
Begin(s, k) == Delayed(Renewed([s EXCEPT !.handle[k] = NoTimer], k), k, Timeout)
Callback(s) == {s} \cup {Begin(s, k) : k \in Transfers \ s.waiting}

\* Mutant: the callback runs before the transaction is removed.
EndsAfterCallback(s, k) ==
  {Delete([t EXCEPT !.waiting = @ \ {k}], k) : t \in Callback(s)}

\* removeTransaction
Ends(s, k) == Callback(Delete([s EXCEPT !.waiting = @ \ {k}], k))

\* Mutant: the frame's timer is added to the last one's.
ContinuesUndeleted(s, k) == Delayed(Renewed(s, k), k, Timeout)

Continues(s, k) == Delayed(Delete(Renewed(s, k), k), k, Timeout)

Elsewhere == UNCHANGED <<limit, pass, lag, ahead>>

StartTransfer(k) ==
  /\ pass = 0 /\ k \notin waiting
  /\ Become(Begin(Node, k)) /\ Elsewhere

ProcessSdo(k) ==
  /\ pass = 0 /\ k \in waiting
  /\ \/ Become(Continues(Node, k))
     \/ \E s \in Ends(Node, k) : Become(s)
  /\ Elsewhere

\* setHeartbeatPeriod: the first expiry is up to two periods late (staggered)
\* on Teensy.
SetHeartbeatPeriod ==
  /\ pass = 0
  /\ \E stagger \in IF Platform = "teensy" THEN 0 .. 2 * Period - 1 ELSE {0} :
       Become(Schedule(Delete(Node, Producer), Producer,
                       [Armed(Period + stagger, Producer, 0) EXCEPT !.repeat = TRUE]))
  /\ Elsewhere

\* setRemoteTimeout, for a peer that is not tracked and for one that is.
SetRemoteTimeout(p, ms) ==
  /\ pass = 0
  /\ LET s == IF limit[p] = Unwatched THEN Renewed([Node EXCEPT !.handle[p] = NoTimer], p)
              ELSE Renewed(Delete(Node, p), p)
     IN Become(IF ms = 0 THEN s ELSE Delayed(s, p, ms))
  /\ limit' = [limit EXCEPT ![p] = IF @ = Unwatched THEN ms ELSE @]
  /\ UNCHANGED <<pass, lag, ahead>>

\* processHeartbeat, and the state callbacks.
ProcessHeartbeat(p) ==
  /\ pass = 0
  /\ LET s == IF limit[p] = Unwatched THEN Renewed([Node EXCEPT !.handle[p] = NoTimer], p)
              ELSE Delete(Renewed(Node, p), p)
     IN \E t \in Callback(IF limit[p] > 0 THEN Delayed(s, p, limit[p]) ELSE s) : Become(t)
  /\ limit' = [limit EXCEPT ![p] = IF @ = Unwatched THEN 0 ELSE @]
  /\ UNCHANGED <<pass, lag, ahead>>

\* enableRpdoEvent
EnableRpdoEvent(r) ==
  /\ pass = 0
  /\ Become(Delayed(Delete(Renewed(Node, r), r), r, RpdoPeriod))
  /\ Elsewhere

\* disablePdoEvents, for one RPDO
DisableRpdoEvent(r) ==
  /\ pass = 0
  /\ Become(Delete(Renewed(Node, r), r))
  /\ Elsewhere

\* A frame restarts a timer that was started once, and its callbacks run.
ProcessRpdo(r) ==
  /\ pass = 0
  /\ LET s == Renewed(Node, r)
     IN \E t \in Callback(IF handle[r] = NoTimer THEN s
                          ELSE Delayed(Delete(s, r), r, RpdoPeriod)) : Become(t)
  /\ Elsewhere

\* sendHeartbeat, peerHeartbeatExpired, rpdoTimeout and transactionTimeout; all
\* but the first do nothing when the generation is an older one. rpdoTimeout calls
\* the application with its slot still taken.
Expire(s, u, g) ==
  IF u = Producer \/ g # s.generation[u] \/ u \in Transfers \ s.waiting THEN {s}
  ELSE IF u \in Peers THEN Callback(Renewed(Delete(s, u), u))
  ELSE IF u \in Rpdos THEN Callback([s EXCEPT !.waiting = @ \ {u}])
  ELSE Ends(s, u)

-----------------------------------------------------------------------------
(* Who serves the timers, and the clock.                                   *)

\* Teensy: now - lastFireTime >= delay, with the pass's now.
Due(h) == slots[h].enable /\ (slots[h].age - lag) % Wrap >= slots[h].delay

StartPass ==
  /\ pass = 0
  /\ \E h \in DOMAIN slots : slots[h].enable /\ slots[h].age >= slots[h].delay
  /\ pass' = 1 /\ lag' = 0
  /\ UNCHANGED <<slots, handle, generation, waiting, limit, ahead>>

\* push_back leaves the iterator as it is when there is room, and dangling when
\* the vector moves.
Serve(h) ==
  /\ pass > 0 /\ h >= pass /\ Due(h)
  /\ \A g \in pass .. h - 1 : ~Due(g)
  /\ LET served == [Node EXCEPT !.slots[h] =
           IF @.repeat THEN [@ EXCEPT !.age = lag, !.delay = Period]
                       ELSE [@ EXCEPT !.enable = FALSE]]
     IN \E s \in Expire(served, slots[h].user, slots[h].generation) : Become(s)
  /\ \/ pass' = h + 1
     \/ Len(slots') > Len(slots) /\ pass' = Dangling
  /\ ahead' = IF slots[h].user \notin Rpdos THEN ahead
              ELSE ahead \cup {g \in DOMAIN slots' :
                     g > h /\ (g \in DOMAIN slots => slots'[g] # slots[g])}
  /\ UNCHANGED <<limit, lag>>

EndPass ==
  /\ pass > 0 /\ \A h \in pass .. Len(slots) : ~Due(h)
  /\ pass' = 0 /\ lag' = 0 /\ ahead' = {}
  /\ UNCHANGED <<slots, handle, generation, waiting, limit>>

\* ODrive: the firmware calls timerHelper, which takes a periodic timer again.
Trigger(h) ==
  /\ slots[h].enable /\ slots[h].age >= slots[h].delay
  /\ LET fired == [Node EXCEPT !.slots[h] =
           IF @.repeat THEN [@ EXCEPT !.age = 0] ELSE [@ EXCEPT !.enable = FALSE]]
     IN \E s \in Expire(fired, slots[h].user, slots[h].generation) : Become(s)
  /\ Elsewhere

\* Time passes also while a callback runs.
Tick ==
  /\ pass # Dangling /\ lag < MaxLate
  /\ \A h \in DOMAIN slots : slots[h].enable => slots[h].age < slots[h].delay + MaxLate
  /\ slots' = [h \in DOMAIN slots |->
                IF slots[h].enable THEN [slots[h] EXCEPT !.age = @ + 1] ELSE slots[h]]
  /\ lag' = IF pass > 0 THEN lag + 1 ELSE 0
  /\ slots' # slots
  /\ UNCHANGED <<handle, generation, waiting, limit, pass, ahead>>

Services ==
  \/ SetHeartbeatPeriod
  \/ \E k \in Transfers : StartTransfer(k) \/ ProcessSdo(k)
  \/ \E p \in Peers : ProcessHeartbeat(p) \/ \E ms \in Limits : SetRemoteTimeout(p, ms)
  \/ \E r \in Rpdos : EnableRpdoEvent(r) \/ DisableRpdoEvent(r) \/ ProcessRpdo(r)

Next == Services \/ Tick \/ StartPass \/ EndPass \/ \E h \in DOMAIN slots : Serve(h)
Spec == Init /\ [][Next]_vars

ODriveNext == Services \/ Tick \/ \E h \in DOMAIN slots : Trigger(h)
ODriveSpec == Init /\ [][ODriveNext]_vars
-----------------------------------------------------------------------------

Slot == [available : BOOLEAN, enable : BOOLEAN, repeat : BOOLEAN, delay : Nat, age : Nat,
         user : Users \cup {NoOne}, generation : Nat]

TypeOK ==
  /\ slots \in Seq(Slot)
  /\ handle \in [Users -> Nat] /\ generation \in [Users -> Nat] /\ waiting \subseteq Users
  /\ limit \in [Peers -> Limits \cup {Unwatched, 0}]
  /\ pass \in Nat \cup {Dangling} /\ lag \in Nat /\ ahead \subseteq Nat

\* Whoever waits has a slot of its own that will call it: armed, with its
\* present generation or, for the producer, again and again, and not the slot
\* of another (deleteTimer and the services that keep its handles, Nmt.cpp,
\* Sdo.cpp).  No transfer is left without its timeout, no peer without its
\* watch, whoever else took and gave back slots meanwhile.
EveryWaitIsTimed ==
  \A u \in waiting :
    /\ handle[u] \in DOMAIN slots
    /\ slots[handle[u]].enable /\ slots[handle[u]].user = u
    /\ slots[handle[u]].repeat <=> u = Producer
    /\ u # Producer => slots[handle[u]].generation = generation[u]

\* An RPDO that has timed out keeps its slot, disabled, until its next frame.
Spent(u) ==
  /\ u \in Rpdos \ waiting /\ handle[u] \in DOMAIN slots
  /\ LET slot == slots[handle[u]]
     IN slot.user = u /\ ~slot.available /\ ~slot.enable

\* A slot that is in use is the slot of somebody who waits, or of an RPDO that
\* has timed out: neither a transfer that ends nor a frame that restarts its
\* timer leaves one behind.
NoSlotLost ==
  \A h \in DOMAIN slots : ~slots[h].available =>
    \E u \in Users : handle[u] = h /\ (u \in waiting \/ Spent(u))

\* Nobody has a handle left that could hit the slot of another, a slot that was
\* given back does not fire, and a peer is watched only when it is tracked
\* (Teensy's deleteTimer).
NoHandleLeft ==
  /\ \A u \in Users \ waiting : handle[u] = NoTimer \/ Spent(u)
  /\ \A h \in DOMAIN slots : slots[h].available => ~slots[h].enable
  /\ \A p \in Peers : limit[p] = Unwatched => p \notin waiting

\* What the pass has yet to look at was scheduled before it read the clock, but
\* for what the timeout of an RPDO has scheduled.
AheadIsOlder ==
  /\ pass = 0 => lag = 0 /\ ahead = {}
  /\ \A h \in DOMAIN slots \ ahead :
       pass > 0 /\ h >= pass /\ slots[h].enable => slots[h].age >= lag

\* The types, and who holds which slot.
TimersInv == TypeOK /\ EveryWaitIsTimed /\ NoSlotLost /\ NoHandleLeft /\ AheadIsOlder

\* No timer fires before its delay has passed on the real clock, although the
\* pass compares unsigned differences with a clock it read earlier: a slot
\* scheduled by a callback behind it would seem to be 2^32 ms old. That happens
\* to the transfer that the timeout callback of an RPDO starts, as it may get a
\* slot the pass has yet to look at (rpdoTimeout), and to no other timer.
NeverEarly ==
  [][\A h \in DOMAIN slots : Serve(h) =>
       slots[h].age >= slots[h].delay \/ h \in ahead]_vars

\* While service walks the vector it grows only under the timeout callback of an
\* RPDO, which is called with its slot still taken (rpdoTimeout). Every other
\* service gives back its slot before it calls the application, so that a
\* transfer started there finds one, and the iterators stay valid.
TableStable ==
  [][pass > 0 => \/ Len(slots') = Len(slots)
                 \/ \E h \in DOMAIN slots : slots[h].user \in Rpdos /\ Serve(h)]_vars
=============================================================================
