------------------------------- MODULE Timers -------------------------------
(***************************************************************************)
(* The timer pool of the Linux platform (class System). A timer is a slot  *)
(* of a table that only grows; a handle is the number of a slot, NoTimer   *)
(* when it is InvalidTimer. The operators take the table and return the    *)
(* new one, so that a handler that deletes a timer and schedules another   *)
(* composes them in the order of the code.                                 *)
(*                                                                         *)
(* Time is relative: "left" is the time that is left until the deadline, 0 *)
(* when the deadline has passed. A slot that is given back keeps its old   *)
(* fields in the code, where nothing reads them before they are set again: *)
(* here it goes back to Blank.                                             *)
(***************************************************************************)
EXTENDS Integers, Sequences

CONSTANT NoCallback

NoTimer == 0

Blank == [available |-> TRUE, enable |-> FALSE, repeat |-> FALSE,
          interval |-> 0, left |-> 0, callback |-> NoCallback]

Delayed(ms, cb) ==
  [available |-> FALSE, enable |-> TRUE, repeat |-> FALSE,
   interval |-> ms, left |-> ms, callback |-> cb]

\* stagger is the random extra delay before the first expiry.
Periodic(ms, stagger, cb) ==
  [available |-> FALSE, enable |-> TRUE, repeat |-> TRUE,
   interval |-> ms, left |-> ms + stagger, callback |-> cb]

Staggers(ms) == 0 .. 2 * ms - 1

\* The first slot that is available, or a new one at the end.
AvailableTimer(ts) ==
  CHOOSE h \in 1 .. Len(ts) + 1 :
    /\ h <= Len(ts) => ts[h].available
    /\ \A g \in 1 .. h - 1 : ~ts[g].available

Schedule(ts, timer) ==
  IF AvailableTimer(ts) > Len(ts)
  THEN Append(ts, timer)
  ELSE [ts EXCEPT ![AvailableTimer(ts)] = timer]

\* The caller's handle becomes NoTimer.
DeleteTimer(ts, h) == IF h = NoTimer THEN ts ELSE [ts EXCEPT ![h] = Blank]

Due(ts) == {h \in DOMAIN ts : ts[h].enable /\ ts[h].left = 0}

\* Mutant: a periodic timer fires once.
ServedOnce(ts, h) == [ts EXCEPT ![h].enable = FALSE]

\* What serviceTimers does to a due slot before it calls its callback.
Served(ts, h) ==
  IF ts[h].repeat THEN [ts EXCEPT ![h].left = ts[h].interval]
                  ELSE [ts EXCEPT ![h].enable = FALSE]

\* One unit of time passes.
Elapsed(ts) ==
  [h \in DOMAIN ts |->
    IF ts[h].enable /\ ts[h].left > 0 THEN [ts[h] EXCEPT !.left = @ - 1] ELSE ts[h]]

SlotType(Times, Callbacks) ==
  [available : BOOLEAN, enable : BOOLEAN, repeat : BOOLEAN,
   interval : Times, left : Times, callback : Callbacks \cup {NoCallback}]
=============================================================================
