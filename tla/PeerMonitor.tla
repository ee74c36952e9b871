---------------------------- MODULE PeerMonitor -----------------------------
(***************************************************************************)
(* What the heartbeat consumer promises its application, without timers,   *)
(* handles or generations: a peer that is watched with a limit is declared *)
(* Offline once, when nothing was heard of it for that long, and the       *)
(* application is told of every change of a peer's state and of nothing    *)
(* else. A limit set for a peer that is known already counts for the       *)
(* silence that is under way, and not for those after it.                  *)
(***************************************************************************)
EXTENDS Integers

CONSTANTS Peers,     \* the other nodes
          Reported,  \* the states a heartbeat can report
          Offline,   \* the verdict on a silent peer
          Unknown,   \* nothing was heard of the peer and nobody watches it
          Limits     \* the limits the application may set, 0 for none

VARIABLES status,    \* peer -> its state
          limit,     \* peer -> the longest silence allowed, 0 for any
          due,       \* peer -> time left until it is declared Offline, or Never
          told       \* peer -> the last state the application was told

monitorVars == <<status, limit, due, told>>

Never == -1
Countdown(ms) == IF ms = 0 THEN Never ELSE ms

MonitorInit ==
  /\ status = [p \in Peers |-> Unknown]
  /\ limit = [p \in Peers |-> 0]
  /\ due = [p \in Peers |-> Never]
  /\ told = [p \in Peers |-> Unknown]

Watch(p, ms) ==
  /\ limit' = [limit EXCEPT ![p] = IF status[p] = Unknown THEN ms ELSE @]
  /\ due' = [due EXCEPT ![p] = Countdown(ms)]
  /\ status' = [status EXCEPT ![p] = IF @ = Unknown THEN Offline ELSE @]
  /\ UNCHANGED told

Hear(p, s) ==
  /\ due' = [due EXCEPT ![p] = Countdown(limit[p])]
  /\ status' = [status EXCEPT ![p] = s]
  /\ told' = [told EXCEPT ![p] = IF status[p] = s THEN @ ELSE s]
  /\ UNCHANGED limit

Expire(p) ==
  /\ due[p] = 0
  /\ due' = [due EXCEPT ![p] = Never]
  /\ status' = [status EXCEPT ![p] = Offline]
  /\ told' = [told EXCEPT ![p] = Offline]
  /\ UNCHANGED limit

Elapse ==
  /\ due' = [p \in Peers |-> IF due[p] > 0 THEN due[p] - 1 ELSE due[p]]
  /\ UNCHANGED <<status, limit, told>>

MonitorNext ==
  \/ \E p \in Peers :
       \/ \E ms \in Limits : Watch(p, ms)
       \/ \E s \in Reported : Hear(p, s)
       \/ Expire(p)
  \/ Elapse

MonitorSpec == MonitorInit /\ [][MonitorNext]_monitorVars
=============================================================================
