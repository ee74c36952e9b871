-------------------------------- MODULE Pdo ---------------------------------
(***************************************************************************)
(* PdoService: TPDOs sent by timers, on request and by the application,    *)
(* RPDOs applied to the dictionary and watched by timers, while SDO        *)
(* transfers lock and unlock the mapped entries and the node changes its   *)
(* state.                                                                  *)
(*                                                                         *)
(* Every PDO has a COB-ID of its own and every RPDO a timeout callback. An *)
(* entry's value is one symbol, Partial when an SDO download has written   *)
(* only a part of it. A received frame carries one value per mapped entry; *)
(* the code does not compare the frame's length with the mapping, so that  *)
(* a short frame is one whose other values are whatever its buffer holds.  *)
(*                                                                         *)
(* A segmented or block download holds the lock of the entry it is aimed   *)
(* at from its first frame on, a PDO's parameter and mapping entries       *)
(* included, and get then fails. Where the code asserts that it does not   *)
(* (isEventDriven), what follows is that of a build without assertions.    *)
(***************************************************************************)
EXTENDS Timers, FiniteSets, SequencesExt

CONSTANTS Tpdos,         \* configuredTPDONums, in order
          Rpdos,         \* the RPDOs, in the order of their parameter entries
          Map(_),        \* PDO -> its mapping, a sequence of entries
          Entries,       \* the mapped entries
          Values,        \* the values of the entries
          Initial,       \* their value at the start
          Partial,       \* a value that is half written
          Refused,       \* pairs <<entry, value>> that copyFrom refuses
          Payloads,      \* the payloads of the RPDO frames on the bus
          SdoWrites,     \* the entries SDO downloads write
          LocalWrites,   \* the entries the application writes
          Parameters,    \* pairs <<PDO, entry>>: its own entries that an SDO may hold
          Aborts,        \* may an SDO transfer end before its last frame?
          Periods,       \* values of the event timers, 0 for none
          MaxCalls       \* bound: changes of the configuration or the state

\* A PDO has parameter entries of its own, 0x1400 on for RPDOs and 0x1800 on
\* for TPDOs; a mapping names entries that exist.
ASSUME PdosAssumption ==
  /\ Tpdos \in Seq(Range(Tpdos)) /\ Rpdos \in Seq(Range(Rpdos))
  /\ Range(Tpdos) \cap Range(Rpdos) = {}
  /\ \A p \in Range(Tpdos) \cup Range(Rpdos) : Map(p) \in Seq(Entries)
\* A PDO's own entries: sub-indices 1, 2 and 5, and all those of its mapping.
Subs == {"cobid", "type", "timer", "mapping"}
ASSUME ParametersAssumption == Parameters \subseteq (Range(Tpdos) \cup Range(Rpdos)) \X Subs
\* Event timers have two bytes.
ASSUME PeriodsAssumption == Periods \subseteq 0 .. 256 * 256 - 1
ASSUME ValuesAssumption ==
  /\ Initial \in Values /\ Partial \notin Values
  /\ \A data \in Payloads : data \in Seq(Values) /\ \A r \in Range(Rpdos) : Len(Map(r)) <= Len(data)
ASSUME CallsAssumption == MaxCalls \in Nat

VARIABLES timers,
          operational,   \* state = Operational
          pdoEnabled,
          tpdo,          \* tpdoTimers: TPDO -> handle
          rpdo,          \* rpdoTimers: RPDO -> handle, generation, stored period
          cfg,           \* PDO -> enabled (COB-ID entry), period (event timer entry)
          od,            \* entry -> value, locked, notified value
          held,          \* those of Parameters that are locked
          passedOver,    \* the PDOs whose present entries the service could not read,
                         \* or was not told of
          sent,          \* TPDO -> the last payload sent
          silence,       \* RPDO -> time since its timeout was started or a frame applied
          lost,          \* the RPDOs whose timeout was reported since
          calls

eventVars == <<timers, tpdo, rpdo>>
paramVars == <<held, passedOver>>
vars == <<eventVars, operational, pdoEnabled, cfg, od, paramVars, sent, silence, lost, calls>>

T == Range(Tpdos)
R == Range(Rpdos)

SendOf(t) == [kind |-> "tpdo", pdo |-> t, generation |-> 0]
TimeoutOf(g, r) == [kind |-> "rpdo", pdo |-> r, generation |-> g]
NoPayload == <<>>
Longest == CHOOSE m \in Periods \cup {0} : \A p \in Periods : p <= m

Init ==
  /\ timers = <<>> /\ operational = FALSE /\ pdoEnabled = FALSE
  /\ tpdo = [t \in T |-> NoTimer]
  /\ cfg \in [T \cup R -> [enabled : {TRUE}, period : Periods]]
  /\ rpdo = [r \in R |-> [timer |-> NoTimer, generation |-> 0, periodMs |-> cfg[r].period]]
  /\ od = [i \in Entries |-> [value |-> Initial, locked |-> FALSE, notified |-> Initial]]
  /\ held = {} /\ passedOver = {} /\ sent = [t \in T |-> NoPayload]
  /\ silence = [r \in R |-> 0] /\ lost = {} /\ calls = 0

-----------------------------------------------------------------------------
(* Timers. The service's tables are one record, so that the loops of       *)
(* enablePdoEvents are functions of the tables and of how far they got.    *)

Tables == [timers |-> timers, tpdo |-> tpdo, rpdo |-> rpdo]

Free(p, subs) == \A sub \in subs : <<p, sub>> \notin held

\* What enableTpdoEvent and enableRpdoEvent get, with the entries in H locked.
Readable(p, H) == \A sub \in {"cobid", "timer", "type"} : <<p, sub>> \notin H

\* The walks over the RPDOs end at the first COB-ID that cannot be read.
RpdosReached ==
  {Rpdos[k] : k \in {j \in DOMAIN Rpdos : \A i \in 1 .. j : Free(Rpdos[i], {"cobid"})}}

\* newGeneration() returns a number nobody holds; only the callbacks of r are
\* compared with the generation of r, so the least one they do not hold will do.
NewGeneration(s, r) ==
  LET inUse == {s.rpdo[r].generation} \cup
               {s.timers[h].callback.generation :
                  h \in {i \in DOMAIN s.timers : s.timers[i].callback.pdo = r}}
  IN CHOOSE g \in 0 .. Cardinality(inUse) : g \notin inUse

\* Mutant: the old timer goes on.
EnableTpdoEventKeeps(s, t, c, H, stagger) ==
  IF ~Readable(t, H) \/ ~c.enabled \/ c.period = 0 THEN s
  ELSE [s EXCEPT !.timers = Schedule(s.timers, Periodic(c.period, stagger, SendOf(t))),
                 !.tpdo[t] = AvailableTimer(s.timers)]

\* enableTpdoEvent, once pdoEnabled: the new timer takes its slot before the
\* old one gives back its own.
EnableTpdoEvent(s, t, c, H, stagger) ==
  IF ~Readable(t, H) \/ ~c.enabled \/ c.period = 0 THEN s
  ELSE LET ts == Schedule(s.timers, Periodic(c.period, stagger, SendOf(t)))
       IN [s EXCEPT !.timers = DeleteTimer(ts, s.tpdo[t]),
                    !.tpdo[t] = AvailableTimer(s.timers)]

EnableRpdoEvent(s, r, c, H) ==
  IF ~Readable(r, H) \/ ~c.enabled \/ c.period = 0 THEN s
  ELSE LET g == NewGeneration(s, r)
           ts == DeleteTimer(s.timers, s.rpdo[r].timer)
       IN [s EXCEPT !.timers = Schedule(ts, Delayed(c.period, TimeoutOf(g, r))),
                    !.rpdo[r] = [timer |-> AvailableTimer(ts), generation |-> g,
                                 periodMs |-> c.period]]

Emptied(ts, S) == [h \in DOMAIN ts |-> IF h \in S THEN Blank ELSE ts[h]]

\* Mutant: the RPDOs' timers are forgotten.
DisablePdoEventsOfTpdos(s) ==
  [s EXCEPT !.timers = Emptied(@, Range(s.tpdo)), !.tpdo = [t \in T |-> NoTimer]]

DisablePdoEvents(s) ==
  [timers |-> Emptied(s.timers, Range(s.tpdo) \cup {s.rpdo[r].timer : r \in R}),
   tpdo |-> [t \in T |-> NoTimer],
   rpdo |-> [r \in R |-> [s.rpdo[r] EXCEPT !.timer = NoTimer, !.generation = NewGeneration(s, r)]]]

\* The loop over configuredTPDONums, ...
TpdosOn(s, stagger) ==
  LET on[k \in 0 .. Len(Tpdos)] ==
        IF k = 0 THEN s
        ELSE EnableTpdoEvent(on[k - 1], Tpdos[k], cfg[Tpdos[k]], held, stagger[Tpdos[k]])
  IN on[Len(Tpdos)]

\* ... and the one over the parameter entries of the RPDOs.
RpdosOn(s) ==
  LET on[k \in 0 .. Len(Rpdos)] ==
        IF k = 0 THEN s
        ELSE IF Rpdos[k] \in RpdosReached
        THEN EnableRpdoEvent(on[k - 1], Rpdos[k], cfg[Rpdos[k]], held)
        ELSE on[k - 1]
  IN on[Len(Rpdos)]

EnablePdoEvents(s, stagger) == RpdosOn(TpdosOn(DisablePdoEvents(s), stagger))

Become(s) == timers' = s.timers /\ tpdo' = s.tpdo /\ rpdo' = s.rpdo

\* The watch over r starts again.
Started(r) == silence' = [silence EXCEPT ![r] = 0] /\ lost' = lost \ {r}

Call == calls < MaxCalls /\ calls' = calls + 1

\* LocalNode::setState, from the application or an NMT command.
SetState(op) ==
  /\ Call /\ operational # op
  /\ IF op
     THEN \E stagger \in [T -> 0 .. 2 * Longest] :
            /\ \A t \in T : stagger[t] \in Staggers(cfg[t].period) \cup {0}
            /\ Become(EnablePdoEvents(Tables, stagger))
     ELSE Become(DisablePdoEvents(Tables))
  /\ operational' = op /\ pdoEnabled' = op
  /\ passedOver' = IF op THEN {p \in T \cup R : ~Readable(p, held)} \cup (R \ RpdosReached)
                   ELSE {}
  /\ silence' = [r \in R |-> 0] /\ lost' = {}
  /\ UNCHANGED <<cfg, od, held, sent>>

\* c is what p's entries say from now on, and the service is called back.
Configure(p, c) ==
  /\ \/ \* disablePdo, enablePdo: get and set of the COB-ID
        /\ Free(p, {"cobid"}) /\ c.period = cfg[p].period
        /\ Call /\ UNCHANGED held
     \/ \* updateTpdoEventTime, or an expedited download to the event timer
        /\ Free(p, {"timer"}) /\ c.enabled = cfg[p].enabled
        /\ Call /\ UNCHANGED held
     \/ \* a segmented download to the event timer ends
        /\ <<p, "timer">> \in held /\ c.enabled = cfg[p].enabled
        /\ held' = held \ {<<p, "timer">>} /\ UNCHANGED calls
  /\ cfg' = [cfg EXCEPT ![p] = c]
  /\ passedOver' = IF ~pdoEnabled THEN passedOver
                   ELSE IF Readable(p, held') THEN passedOver \ {p} ELSE passedOver \cup {p}

\* Mutant: the new period counts from the next enablePdoEvents on.
ConfigureTpdoLater(t, c) ==
  /\ Configure(t, c)
  /\ UNCHANGED <<eventVars, operational, pdoEnabled, od, sent, silence, lost>>

\* An entry of a TPDO's parameters is written; its callback is enableTpdoEvent.
ConfigureTpdo(t, c) ==
  /\ Configure(t, c)
  /\ IF pdoEnabled
     THEN \E stagger \in Staggers(c.period) \cup {0} :
            Become(EnableTpdoEvent(Tables, t, c, held', stagger))
     ELSE UNCHANGED eventVars
  /\ UNCHANGED <<operational, pdoEnabled, od, sent, silence, lost>>

\* The same for an RPDO.
ConfigureRpdo(r, c) ==
  /\ Configure(r, c)
  /\ IF pdoEnabled /\ Readable(r, held') /\ c.enabled /\ c.period # 0
     THEN Become(EnableRpdoEvent(Tables, r, c, held')) /\ Started(r)
     ELSE UNCHANGED <<eventVars, silence, lost>>
  /\ UNCHANGED <<operational, pdoEnabled, od, sent>>

-----------------------------------------------------------------------------
(* Sending: sendTxPdo makes all proxies before it reads one.               *)

Locked(p) == \E k \in DOMAIN Map(p) : od[Map(p)[k]].locked
Payload(t) == [k \in DOMAIN Map(t) |-> od[Map(t)[k]].value]

\* Mutant: an entry that is locked is read all the same.
CanSendAnyway(t) == Free(t, {"cobid", "mapping"}) /\ cfg[t].enabled

CanSend(t) == Free(t, {"cobid", "mapping"}) /\ cfg[t].enabled /\ ~Locked(t)

SentAfter(S) == [t \in T |-> IF t \in S THEN Payload(t) ELSE sent[t]]
SendTxPdo(t) == sent' = SentAfter(IF CanSend(t) THEN {t} ELSE {})

TpdoTimer(h) ==
  /\ h \in Due(timers) /\ timers[h].callback.kind = "tpdo"
  /\ timers' = Served(timers, h)
  /\ SendTxPdo(timers[h].callback.pdo)
  /\ UNCHANGED <<tpdo, rpdo, operational, pdoEnabled, cfg, od, paramVars, silence, lost, calls>>

Rtr(t) ==
  /\ operational
  /\ SendTxPdo(t)
  /\ UNCHANGED <<eventVars, operational, pdoEnabled, cfg, od, paramVars, silence, lost, calls>>

TriggerTPDO(t) ==
  /\ SendTxPdo(t)
  /\ UNCHANGED <<eventVars, operational, pdoEnabled, cfg, od, paramVars, silence, lost, calls>>

\* sendAllTpdos skips those that are disabled or whose COB-ID is locked, and
\* stops at the first failure.
SendAllTpdos ==
  LET tried == {k \in DOMAIN Tpdos : Free(Tpdos[k], {"cobid"}) /\ cfg[Tpdos[k]].enabled}
      fails == {k \in tried : ~CanSend(Tpdos[k])}
  IN /\ sent' = SentAfter({Tpdos[k] : k \in {j \in tried : \A f \in fails : j < f}})
     /\ UNCHANGED <<eventVars, operational, pdoEnabled, cfg, od, paramVars, silence, lost, calls>>

-----------------------------------------------------------------------------
(* Receiving.                                                              *)

\* Mutant: the timer runs on.
ResetRpdoTimerNot(s, r) == s

\* Mutant: a timeout that has fired is not started again.
ResetRpdoTimerIfArmed(s, r) ==
  LET g == NewGeneration(s, r)
      ts == DeleteTimer(s.timers, s.rpdo[r].timer)
  IN IF s.rpdo[r].timer = NoTimer \/ ~s.timers[s.rpdo[r].timer].enable
     THEN [s EXCEPT !.rpdo[r].generation = g]
     ELSE [s EXCEPT !.timers = Schedule(ts, Delayed(s.rpdo[r].periodMs, TimeoutOf(g, r))),
                    !.rpdo[r].timer = AvailableTimer(ts),
                    !.rpdo[r].generation = g]

\* The timer goes on with the stored period, if there is one.
ResetRpdoTimer(s, r) ==
  LET g == NewGeneration(s, r)
      ts == DeleteTimer(s.timers, s.rpdo[r].timer)
  IN IF s.rpdo[r].timer = NoTimer THEN [s EXCEPT !.rpdo[r].generation = g]
     ELSE [s EXCEPT !.timers = Schedule(ts, Delayed(s.rpdo[r].periodMs, TimeoutOf(g, r))),
                    !.rpdo[r].timer = AvailableTimer(ts),
                    !.rpdo[r].generation = g]

\* The values up to the first one that is refused.
Accepted(r, data) ==
  {k \in DOMAIN Map(r) : \A j \in 1 .. k : <<Map(r)[j], data[j]>> \notin Refused}
Store(r, data, K, notify) ==
  od' = [i \in Entries |->
    IF \E k \in K : Map(r)[k] = i
    THEN LET v == data[CHOOSE k \in K : Map(r)[k] = i]
         IN [value |-> v, locked |-> FALSE, notified |-> IF notify THEN v ELSE od[i].notified]
    ELSE od[i]]

\* Mutant: the entries that are not locked are written.
RpdoUnavailablePartly(r) ==
  /\ Locked(r)
  /\ \E data \in Payloads :
       Store(r, data, {k \in DOMAIN Map(r) : ~od[Map(r)[k]].locked}, TRUE)
  /\ UNCHANGED <<eventVars, silence, lost>>

\* processMsg for a frame of r: nothing when a proxy cannot be made, ...
RpdoUnavailable(r) ==
  /\ Locked(r)
  /\ UNCHANGED <<eventVars, od, silence, lost>>

\* ... the values before the refused one without callbacks ...
RpdoRefused(r, data) ==
  /\ ~Locked(r) /\ Accepted(r, data) # DOMAIN Map(r)
  /\ Store(r, data, Accepted(r, data), FALSE)
  /\ UNCHANGED <<eventVars, silence, lost>>

\* Mutant: the callbacks are deferred, and dropped.
RpdoAppliedQuietly(r, data) ==
  /\ ~Locked(r) /\ Accepted(r, data) = DOMAIN Map(r)
  /\ Store(r, data, DOMAIN Map(r), FALSE)
  /\ Become(ResetRpdoTimer(Tables, r))
  /\ Started(r)

\* ... or all of them, the timer and then the callbacks.
RpdoApplied(r, data) ==
  /\ ~Locked(r) /\ Accepted(r, data) = DOMAIN Map(r)
  /\ Store(r, data, DOMAIN Map(r), TRUE)
  /\ Become(ResetRpdoTimer(Tables, r))
  /\ Started(r)

ProcessRpdo(r, data) ==
  /\ operational
  /\ r \in RpdosReached /\ cfg[r].enabled /\ Free(r, {"type", "mapping"})
  /\ RpdoUnavailable(r) \/ RpdoRefused(r, data) \/ RpdoApplied(r, data)
  /\ UNCHANGED <<operational, pdoEnabled, cfg, paramVars, sent, calls>>

\* rpdoTimeout: the handle keeps its slot, for the next frame to start again.
RpdoTimeout(h) ==
  /\ h \in Due(timers) /\ timers[h].callback.kind = "rpdo"
  /\ timers' = Served(timers, h)
  /\ LET r == timers[h].callback.pdo
     IN lost' = IF rpdo[r].generation = timers[h].callback.generation
                THEN lost \cup {r} ELSE lost
  /\ UNCHANGED <<tpdo, rpdo, operational, pdoEnabled, cfg, od, paramVars, sent, silence, calls>>

-----------------------------------------------------------------------------
(* SDO transfers of the mapped entries, the application, and the clock.    *)

SdoOpens(i) ==
  /\ ~od[i].locked
  /\ \/ od' = [od EXCEPT ![i].locked = TRUE]
     \/ i \in SdoWrites /\ od' = [od EXCEPT ![i].locked = TRUE, ![i].value = Partial]
  /\ UNCHANGED <<eventVars, operational, pdoEnabled, cfg, paramVars, sent, silence, lost, calls>>

\* An upload ends, or a download with its last value.
SdoCloses(i) ==
  /\ od[i].locked
  /\ \/ od[i].value # Partial /\ od' = [od EXCEPT ![i].locked = FALSE]
     \/ od[i].value = Partial /\ \E v \in Values :
          od' = [od EXCEPT ![i] = [value |-> v, locked |-> FALSE, notified |-> v]]
     \/ Aborts /\ od' = [od EXCEPT ![i].locked = FALSE]
  /\ UNCHANGED <<eventVars, operational, pdoEnabled, cfg, paramVars, sent, silence, lost, calls>>

\* The same for a PDO's own entries. All but the event timer are read-only, and
\* nobody reads what a transfer has written to it before the transfer ends.
SdoHoldsParameter(p, sub) ==
  /\ Call /\ <<p, sub>> \in Parameters \ held
  /\ held' = held \cup {<<p, sub>>}
  /\ UNCHANGED <<eventVars, operational, pdoEnabled, cfg, od, passedOver, sent, silence, lost>>

\* An upload ends, or a download that is refused or aborted, perhaps with one of
\* the period's two bytes written: another period, and no callback.
SdoReleasesParameter(p, sub) ==
  /\ <<p, sub>> \in held
  /\ held' = held \ {<<p, sub>>}
  /\ \/ UNCHANGED <<cfg, passedOver>>
     \/ /\ Aborts /\ sub = "timer"
        /\ \E m \in Periods : cfg' = [cfg EXCEPT ![p].period = m]
        /\ passedOver' = IF pdoEnabled THEN passedOver \cup {p} ELSE passedOver
  /\ UNCHANGED <<eventVars, operational, pdoEnabled, od, sent, silence, lost, calls>>

\* ObjDict::set
LocalSet(i, v) ==
  /\ i \in LocalWrites /\ ~od[i].locked
  /\ od' = [od EXCEPT ![i].value = v, ![i].notified = v]
  /\ UNCHANGED <<eventVars, operational, pdoEnabled, cfg, paramVars, sent, silence, lost, calls>>

Tick ==
  /\ timers' = Elapsed(timers)
  /\ silence' = [r \in R |-> IF silence[r] < Longest THEN silence[r] + 1 ELSE silence[r]]
  /\ UNCHANGED <<tpdo, rpdo, operational, pdoEnabled, cfg, od, paramVars, sent, lost, calls>>

\* serviceTimers serves the timers of p.
TimerOf(p) ==
  \E h \in DOMAIN timers :
    timers[h].callback.pdo = p /\ (TpdoTimer(h) \/ RpdoTimeout(h))

Next ==
  \/ \E op \in BOOLEAN : SetState(op)
  \/ \E c \in [enabled : BOOLEAN, period : Periods] :
       (\E t \in T : ConfigureTpdo(t, c)) \/ (\E r \in R : ConfigureRpdo(r, c))
  \/ \E t \in T : Rtr(t) \/ TriggerTPDO(t)
  \/ SendAllTpdos
  \/ \E r \in R, data \in Payloads : ProcessRpdo(r, data)
  \/ \E p \in T \cup R : TimerOf(p)
  \/ \E i \in Entries : SdoOpens(i) \/ SdoCloses(i) \/ \E v \in Values : LocalSet(i, v)
  \/ \E p \in T \cup R, sub \in Subs : SdoHoldsParameter(p, sub) \/ SdoReleasesParameter(p, sub)
  \/ Tick

Spec == Init /\ [][Next]_vars

\* Every pass of the main loop serves all timers that are due; time passes.
FairSpec == Spec /\ WF_vars(Tick) /\ \A p \in T \cup R : WF_vars(TimerOf(p))
-----------------------------------------------------------------------------

Callbacks == {SendOf(t) : t \in T} \cup [kind : {"rpdo"}, pdo : R, generation : Nat]
TypeOK ==
  /\ timers \in Seq(SlotType(Nat, Callbacks)) /\ Len(timers) <= Cardinality(T \cup R) + 1
  /\ operational \in BOOLEAN /\ pdoEnabled = operational
  /\ tpdo \in [T -> Nat]
  /\ rpdo \in [R -> [timer : Nat, generation : Nat, periodMs : Periods \cup {0}]]
  /\ cfg \in [T \cup R -> [enabled : BOOLEAN, period : Periods]]
  /\ od \in [Entries -> [value : Values \cup {Partial}, locked : BOOLEAN, notified : Values]]
  /\ sent \in [T -> Seq(Values \cup {Partial})]
  /\ held \subseteq Parameters /\ passedOver \subseteq T \cup R
  /\ silence \in [R -> 0 .. Longest] /\ lost \subseteq R /\ calls \in 0 .. MaxCalls

\* Outside Operational no PDO timer runs, whatever was configured before,
\* meanwhile or after (setState, enablePdoEvents, disablePdoEvents).
NoPdoTimerOutsideOperational ==
  ~operational => \A h \in DOMAIN timers : timers[h].available /\ ~timers[h].enable

\* Every slot in use belongs to one handle, and carries its PDO's callback.
SlotsOwned ==
  /\ \A h \in DOMAIN timers : ~timers[h].available =>
       LET cb == timers[h].callback
       IN /\ {t \in T : tpdo[t] = h} = (IF cb.kind = "tpdo" THEN {cb.pdo} ELSE {})
          /\ {r \in R : rpdo[r].timer = h} = (IF cb.kind = "rpdo" THEN {cb.pdo} ELSE {})
  /\ \A h \in Range(tpdo) \cup {rpdo[r].timer : r \in R} :
       h # NoTimer => h \in DOMAIN timers /\ ~timers[h].available

\* In Operational an enabled TPDO with a period has its timer, at that period,
\* whatever was configured, held, started and stopped before (enableTpdoEvent);
\* but for one whose COB-ID, type or event timer an SDO transfer held when the
\* service looked last, or whose event timer an aborted download has changed.
EnabledTpdoIsTimed ==
  \A t \in T \ passedOver : operational /\ cfg[t].enabled /\ cfg[t].period # 0 =>
    /\ tpdo[t] # NoTimer
    /\ timers[tpdo[t]].enable /\ timers[tpdo[t]].interval = cfg[t].period

\* The timeout of an RPDO is reported after a period of silence, not before.
TimeoutMeansSilence == \A r \in lost : silence[r] >= rpdo[r].periodMs

\* A TPDO's timer runs on; an RPDO's carries its present generation and the
\* stored period, and what is left of it is not more than the silence allows.
TimersRun ==
  /\ \A t \in T : tpdo[t] # NoTimer => timers[tpdo[t]].enable /\ timers[tpdo[t]].repeat
  /\ \A r \in R : rpdo[r].timer # NoTimer =>
       LET timer == timers[rpdo[r].timer]
       IN /\ timer.callback = TimeoutOf(rpdo[r].generation, r)
          /\ timer.interval = rpdo[r].periodMs /\ ~timer.repeat
          /\ timer.enable => silence[r] + timer.left >= rpdo[r].periodMs

\* The variables keep their types, so that the table does not grow for ever,
\* and no slot leaks or has two owners (scheduleDelayed, schedulePeriodic,
\* deleteTimer as enableTpdoEvent, enableRpdoEvent and processMsg call them);
\* with the three that follow it is kept by every step.
PdoInv ==
  /\ TypeOK /\ SlotsOwned /\ TimersRun
  /\ NoPdoTimerOutsideOperational /\ EnabledTpdoIsTimed /\ TimeoutMeansSilence

\* An RPDO that falls silent for good while the node stays Operational is
\* reported, also when it had been reported and came back; but for an RPDO whose
\* entries the service could not read when it looked last, because a transfer
\* held them or hid them from its walk, or was not told of (passedOver).
Watched(r) == operational /\ cfg[r].enabled /\ cfg[r].period # 0 /\ r \notin passedOver
SilenceIsReported ==
  \A r \in R :
    <>[]Watched(r) =>
      \/ []<>(r \in lost)
      \/ []<><<silence'[r] = 0>>_silence

\* Values that an RPDO delivers together stay together: with payloads of equal
\* values, and no other writer of their entries, no reader ever sees a mix,
\* neither in the dictionary nor in a TPDO, while SDO transfers lock the
\* entries one by one (the proxies made up front in processMsg and sendTxPdo).
Together(values) == \A j, k \in DOMAIN values : values[j] = values[k]
DeliveredTogether ==
  /\ \A r \in R : Together([k \in DOMAIN Map(r) |-> od[Map(r)[k]].value])
  /\ \A t \in T : Together(sent[t])

\* No TPDO carries a value an SDO download has written in part.
NoPartialValueSent == \A t \in T : Partial \notin Range(sent[t])

\* Whoever follows the dictionary through callbacks knows the value of every
\* entry that is not being written, although an RPDO suppresses them until all
\* its entries are stored (processMsg); but for a frame whose values are
\* refused half-way, and a download that is aborted.
CallbacksFollowChanges ==
  \A i \in Entries : ~od[i].locked => od[i].notified = od[i].value
=============================================================================
