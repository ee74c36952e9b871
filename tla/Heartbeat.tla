----------------------------- MODULE Heartbeat ------------------------------
(***************************************************************************)
(* NmtService as producer and consumer of heartbeats, on the timers of the *)
(* Linux platform and the main loop that serves first the timers and then  *)
(* the frames received before this iteration.                              *)
(*                                                                         *)
(* Every handler runs under the node's mutex and is one action; a state    *)
(* callback is the last thing a handler does, so what the application does *)
(* in it is an action of its own between two steps of the main loop.       *)
(***************************************************************************)
EXTENDS Timers, FiniteSets

CONSTANTS Peers,         \* the other nodes
          Reported,      \* the states a heartbeat can report
          Offline,       \* canfetti::State::Offline
          Unknown,       \* no entry in peerStates
          Garbled,       \* a frame of a wrong length or with an invalid state
          Limits,        \* the values given to setRemoteTimeout
          Intervals,     \* the values given to setHeartbeatPeriod
          MaxInbox,      \* bound: frames received and not processed
          MaxCalls,      \* bound: calls of the application
          Mortal         \* the peers that may stop for good

ASSUME LimitsAssumption == Limits \subseteq Nat
\* A period of 0 divides by zero in schedulePeriodic.
ASSUME IntervalsAssumption == Intervals \subseteq Nat \ {0}
ASSUME StatesAssumption ==
  /\ Offline \notin Reported /\ Unknown \notin Reported /\ Garbled \notin Reported
  /\ Offline # Unknown
ASSUME BoundsAssumption == IsFiniteSet(Peers) /\ MaxInbox \in Nat /\ MaxCalls \in Nat

VARIABLES timers,      \* System::timers
          pass,        \* where serviceTimers is: the next slot, 0 outside it
          todo,        \* frames of this iteration that remain
          inbox,       \* heartbeats received: pendingFrames and the socket
          peerStates,  \* NmtService::peerStates
          hbTimer,     \* NmtService::hbTimer
          appTimer,    \* a timer of the application's own
          told,        \* peer -> state of the last notification
          asked,       \* peer -> the last timeout set for it
          period,      \* entry 0x1017, 0 when it does not exist
          dead,        \* peers that have stopped for good
          calls        \* calls made by the application

loopVars == <<timers, pass, todo, inbox>>
nmtVars == <<peerStates, hbTimer, told>>
appVars == <<appTimer, asked, period, calls>>
vars == <<loopVars, nmtVars, appVars, dead>>

Untracked == [state |-> Unknown, timer |-> NoTimer, timeoutMs |-> 0, generation |-> 0]
Tracked(p) == peerStates[p].state # Unknown

Beat == [kind |-> "beat"]
Tone == [kind |-> "app"]
Expiry(g, p) == [kind |-> "expiry", generation |-> g, peer |-> p]

\* newGeneration() returns a number nobody holds: the least such number.
Held ==
  {peerStates[p].generation : p \in Peers} \cup
  {timers[h].callback.generation : h \in {i \in DOMAIN timers : timers[i].callback.kind = "expiry"}}
NewGeneration == CHOOSE g \in 1 .. Cardinality(Held) + 1 : g \notin Held

Init ==
  /\ timers = <<>> /\ pass = 0 /\ todo = 0 /\ inbox = <<>>
  /\ peerStates = [p \in Peers |-> Untracked]
  /\ hbTimer = NoTimer /\ appTimer = NoTimer
  /\ told = [p \in Peers |-> Unknown]
  /\ asked = [p \in Peers |-> 0]
  /\ period = 0 /\ dead = {} /\ calls = 0

-----------------------------------------------------------------------------
(* The application.                                                        *)

Call == calls < MaxCalls /\ calls' = calls + 1

\* Mutant: the timer of a known peer is forgotten instead of deleted.
SetRemoteTimeoutForgets(p, ms) ==
  /\ Call
  /\ LET g == NewGeneration
     IN /\ timers' = IF ms = 0 THEN timers ELSE Schedule(timers, Delayed(ms, Expiry(g, p)))
        /\ peerStates' = [peerStates EXCEPT ![p] =
             [state |-> IF Tracked(p) THEN @.state ELSE Offline,
              timer |-> IF ms = 0 THEN NoTimer ELSE AvailableTimer(timers),
              timeoutMs |-> IF Tracked(p) THEN @.timeoutMs ELSE ms,
              generation |-> g]]
  /\ asked' = [asked EXCEPT ![p] = ms]
  /\ UNCHANGED <<pass, todo, inbox, hbTimer, told, appTimer, period, dead>>

\* setRemoteTimeout and the callback of entry 0x1016. timeoutMs is set only
\* when the peer is new.
SetRemoteTimeout(p, ms) ==
  /\ Call
  /\ LET g == NewGeneration
         ts == DeleteTimer(timers, peerStates[p].timer)
     IN /\ timers' = IF ms = 0 THEN ts ELSE Schedule(ts, Delayed(ms, Expiry(g, p)))
        /\ peerStates' = [peerStates EXCEPT ![p] =
             [state |-> IF Tracked(p) THEN @.state ELSE Offline,
              timer |-> IF ms = 0 THEN NoTimer ELSE AvailableTimer(ts),
              timeoutMs |-> IF Tracked(p) THEN @.timeoutMs ELSE ms,
              generation |-> g]]
  /\ asked' = [asked EXCEPT ![p] = ms]
  /\ UNCHANGED <<pass, todo, inbox, hbTimer, told, appTimer, period, dead>>

\* setHeartbeatPeriod and the callback of entry 0x1017.
SetHeartbeatPeriod(ms) ==
  /\ Call
  /\ LET ts == DeleteTimer(timers, hbTimer)
     IN /\ \E stagger \in Staggers(ms) : timers' = Schedule(ts, Periodic(ms, stagger, Beat))
        /\ hbTimer' = AvailableTimer(ts)
  /\ period' = ms
  /\ UNCHANGED <<pass, todo, inbox, peerStates, told, appTimer, asked, dead>>

\* The application schedules and deletes a timer of its own, which takes and
\* gives back slots between the service's.
AppSchedule ==
  /\ Call /\ appTimer = NoTimer
  /\ timers' = Schedule(timers, Delayed(1, Tone))
  /\ appTimer' = AvailableTimer(timers)
  /\ UNCHANGED <<pass, todo, inbox, nmtVars, asked, period, dead>>

AppDelete ==
  /\ appTimer # NoTimer
  /\ timers' = DeleteTimer(timers, appTimer)
  /\ appTimer' = NoTimer
  /\ UNCHANGED <<pass, todo, inbox, nmtVars, asked, period, calls, dead>>

-----------------------------------------------------------------------------
(* The main loop: one pass over the timers, then the frames.               *)

Loop ==
  /\ pass = 0 /\ todo = 0
  /\ Due(timers) # {} \/ inbox # <<>>
  /\ pass' = 1
  /\ todo' = Len(inbox)
  /\ UNCHANGED <<timers, inbox, nmtVars, appVars, dead>>

EndPass ==
  /\ pass > 0
  /\ \A h \in Due(timers) : h < pass
  /\ pass' = 0
  /\ UNCHANGED <<timers, todo, inbox, nmtVars, appVars, dead>>

Serve(h) ==
  /\ pass > 0 /\ h \in Due(timers) /\ h >= pass
  /\ \A g \in Due(timers) : g >= pass => h <= g
  /\ pass' = h + 1

\* sendHeartbeat
SendHeartbeat(h) ==
  /\ Serve(h) /\ timers[h].callback = Beat
  /\ timers' = Served(timers, h)
  /\ UNCHANGED <<todo, inbox, nmtVars, appVars, dead>>

AppTimer(h) ==
  /\ Serve(h) /\ timers[h].callback = Tone
  /\ timers' = Served(timers, h)
  /\ UNCHANGED <<todo, inbox, nmtVars, appVars, dead>>

PeerHeartbeatExpired(h) ==
  /\ Serve(h) /\ timers[h].callback.kind = "expiry"
  /\ LET p == timers[h].callback.peer
     IN IF ~Tracked(p) \/ peerStates[p].generation # timers[h].callback.generation
        THEN /\ timers' = Served(timers, h)
             /\ UNCHANGED <<peerStates, told>>
        ELSE /\ timers' = DeleteTimer(Served(timers, h), peerStates[p].timer)
             /\ peerStates' = [peerStates EXCEPT ![p] =
                  [state |-> Offline, timer |-> NoTimer,
                   timeoutMs |-> @.timeoutMs, generation |-> NewGeneration]]
             /\ told' = [told EXCEPT ![p] = Offline]
  /\ UNCHANGED <<todo, inbox, hbTimer, appVars, dead>>

\* Mutant: the new state is told and not stored.
HeartbeatOfTrackedTells(p, s) ==
  LET g == NewGeneration
      ts == DeleteTimer(timers, peerStates[p].timer)
      ms == peerStates[p].timeoutMs
  IN /\ Tracked(p)
     /\ timers' = IF ms = 0 THEN ts ELSE Schedule(ts, Delayed(ms, Expiry(g, p)))
     /\ peerStates' = [peerStates EXCEPT ![p].generation = g,
          ![p].timer = IF ms = 0 THEN NoTimer ELSE AvailableTimer(ts)]
     /\ told' = [told EXCEPT ![p] = s]

\* Mutant: a peer that is back after its timeout is not watched again.
HeartbeatOfTrackedOnce(p, s) ==
  LET g == NewGeneration
      ts == DeleteTimer(timers, peerStates[p].timer)
      ms == IF peerStates[p].timer = NoTimer THEN 0 ELSE peerStates[p].timeoutMs
  IN /\ Tracked(p)
     /\ timers' = IF ms = 0 THEN ts ELSE Schedule(ts, Delayed(ms, Expiry(g, p)))
     /\ peerStates' = [peerStates EXCEPT ![p].state = s, ![p].generation = g,
          ![p].timer = IF ms = 0 THEN NoTimer ELSE AvailableTimer(ts)]
     /\ told' = IF peerStates[p].state = s THEN told ELSE [told EXCEPT ![p] = s]

\* processHeartbeat, for a peer that is tracked ...
HeartbeatOfTracked(p, s) ==
  LET g == NewGeneration
      ts == DeleteTimer(timers, peerStates[p].timer)
      ms == peerStates[p].timeoutMs
  IN /\ Tracked(p)
     /\ timers' = IF ms = 0 THEN ts ELSE Schedule(ts, Delayed(ms, Expiry(g, p)))
     /\ peerStates' = [peerStates EXCEPT ![p] =
          [state |-> s, timer |-> IF ms = 0 THEN NoTimer ELSE AvailableTimer(ts),
           timeoutMs |-> ms, generation |-> g]]
     /\ told' = IF peerStates[p].state = s THEN told ELSE [told EXCEPT ![p] = s]

\* ... and for one that is new on the network.
HeartbeatOfNew(p, s) ==
  /\ ~Tracked(p)
  /\ peerStates' = [peerStates EXCEPT ![p] =
       [state |-> s, timer |-> NoTimer, timeoutMs |-> 0, generation |-> NewGeneration]]
  /\ told' = [told EXCEPT ![p] = s]
  /\ UNCHANGED timers

ProcessHeartbeat ==
  /\ pass = 0 /\ todo > 0
  /\ LET p == Head(inbox).peer  s == Head(inbox).state
     IN \/ s \in Reported /\ (HeartbeatOfTracked(p, s) \/ HeartbeatOfNew(p, s))
        \/ s \notin Reported /\ UNCHANGED <<timers, peerStates, told>>
  /\ inbox' = Tail(inbox) /\ todo' = todo - 1
  /\ UNCHANGED <<pass, hbTimer, appVars, dead>>

MainLoop ==
  \/ Loop
  \/ EndPass
  \/ \E h \in DOMAIN timers : SendHeartbeat(h) \/ AppTimer(h) \/ PeerHeartbeatExpired(h)
  \/ ProcessHeartbeat

-----------------------------------------------------------------------------
(* The other nodes and the clock.                                          *)

PeerSends(p, s) ==
  /\ p \notin dead /\ Len(inbox) < MaxInbox
  /\ inbox' = Append(inbox, [peer |-> p, state |-> s])
  /\ UNCHANGED <<timers, pass, todo, nmtVars, appVars, dead>>

PeerDies(p) ==
  /\ p \in Mortal \ dead
  /\ dead' = dead \cup {p}
  /\ UNCHANGED <<loopVars, nmtVars, appVars>>

\* Between two iterations, as late as the scheduler likes: serviceTimers reads
\* the clock once, so that time in the middle of a pass counts for the next.
Tick ==
  /\ pass = 0 /\ todo = 0
  /\ timers' = Elapsed(timers)
  /\ timers' # timers
  /\ UNCHANGED <<pass, todo, inbox, nmtVars, appVars, dead>>

Next ==
  \/ MainLoop
  \/ Tick
  \/ \E p \in Peers :
       \/ \E ms \in Limits : SetRemoteTimeout(p, ms)
       \/ \E s \in Reported \cup {Garbled} : PeerSends(p, s)
       \/ PeerDies(p)
  \/ \E ms \in Intervals : SetHeartbeatPeriod(ms)
  \/ AppSchedule
  \/ AppDelete

Spec == Init /\ [][Next]_vars

\* The main thread keeps running its loop, and time passes.
FairSpec == Spec /\ WF_vars(MainLoop) /\ SF_vars(Tick)
-----------------------------------------------------------------------------

\* The values the variables take: the table has a slot per handle at most.
Callbacks == {Beat, Tone} \cup [kind : {"expiry"}, generation : Nat, peer : Peers]
TypeOK ==
  /\ timers \in Seq(SlotType(Nat, Callbacks)) /\ Len(timers) <= Cardinality(Peers) + 2
  /\ pass \in 0 .. Len(timers) + 1 /\ todo \in 0 .. Len(inbox) /\ Len(inbox) <= MaxInbox
  /\ inbox \in Seq([peer : Peers, state : Reported \cup {Garbled}])
  /\ peerStates \in [Peers -> [state : Reported \cup {Offline, Unknown}, timer : Nat,
                               timeoutMs : Limits \cup {0}, generation : Nat]]
  /\ hbTimer \in Nat /\ appTimer \in Nat
  /\ told \in [Peers -> Reported \cup {Offline, Unknown}]
  /\ asked \in [Peers -> Limits \cup {0}] /\ period \in Intervals \cup {0}
  /\ dead \subseteq Peers /\ calls \in 0 .. MaxCalls

\* No slot is lost and none is shared: every slot that is in use belongs to
\* exactly one handle (a peer's, the producer's or the application's), every
\* handle's slot is in use and carries its owner's callback, and a slot that
\* was given back never fires (deleteTimer, scheduleDelayed, schedulePeriodic
\* and their callers in Nmt.cpp).  A peer's timer also carries the peer's
\* present generation, so that on this platform deleteTimer is enough and no
\* expiry is ever turned away by the check of peerHeartbeatExpired.
Owners(h) == {p \in Peers : peerStates[p].timer = h}
SlotsOwned ==
  /\ \A h \in DOMAIN timers :
       IF timers[h].available
       THEN Owners(h) = {} /\ hbTimer # h /\ appTimer # h /\ ~timers[h].enable
       ELSE CASE timers[h].callback = Beat -> hbTimer = h /\ appTimer # h /\ Owners(h) = {}
              [] timers[h].callback = Tone -> appTimer = h /\ hbTimer # h /\ Owners(h) = {}
              [] OTHER -> /\ hbTimer # h /\ appTimer # h
                          /\ Owners(h) = {timers[h].callback.peer}
                          /\ timers[h].callback.generation =
                               peerStates[timers[h].callback.peer].generation
  /\ \A h \in {hbTimer, appTimer} \cup {peerStates[p].timer : p \in Peers} :
       h \in DOMAIN timers \cup {NoTimer}

\* A peer nobody heard of or asked for has no timer, and a timer that a peer
\* holds is running.
WatchesRun ==
  \A p \in Peers :
    /\ ~Tracked(p) => peerStates[p].timer = NoTimer /\ peerStates[p].timeoutMs = 0
    /\ peerStates[p].timer # NoTimer => timers[peerStates[p].timer].enable

HeartbeatInv == TypeOK /\ SlotsOwned /\ WatchesRun

\* Timers, handles, generations and the reuse of slots together do what the
\* consumer promises (PeerMonitor): the verdict Offline after the silence that
\* was configured, never before, once, and every change is told.
Monitor == INSTANCE PeerMonitor WITH
  status <- [p \in Peers |-> peerStates[p].state],
  limit <- [p \in Peers |-> peerStates[p].timeoutMs],
  due <- [p \in Peers |->
           IF peerStates[p].timer = NoTimer THEN -1 ELSE timers[peerStates[p].timer].left]
PeersMonitored == Monitor!MonitorSpec

\* A peer that has died while a timeout is set for it ends up Offline, for
\* good (setRemoteTimeout, processHeartbeat, peerHeartbeatExpired).
DeadPeerDetected ==
  \A p \in Peers :
    <>[](p \in dead /\ asked[p] # 0) => <>[](peerStates[p].state = Offline)

\* The code keeps that for the peers whose first timeout was not 0: the limit
\* it stores when the peer is new, and no later one.
WatchedPeerDetected ==
  \A p \in Peers :
    <>[](p \in dead /\ asked[p] # 0 /\ peerStates[p].timeoutMs # 0)
      => <>[](peerStates[p].state = Offline)

\* A peer that goes on sending heartbeats is seen alive again and again: a main
\* thread that is late, and serves the timer before the heartbeat that is
\* waiting, declares it Offline for a moment only (serviceTimers and the frames
\* in mainThread).
AlivePeerSeen ==
  \A p \in Peers :
    []<><<\E s \in Reported : PeerSends(p, s)>>_vars => []<>(peerStates[p].state # Offline)

\* A node with a heartbeat period sends heartbeats for ever, whatever the
\* reconfigurations and the other timers do (setHeartbeatPeriod, serviceTimers).
HeartbeatRecurs ==
  <>[](period # 0) => []<><<\E h \in DOMAIN timers : SendHeartbeat(h)>>_vars

=============================================================================
