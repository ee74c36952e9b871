------------------------------ MODULE PdoProofs ------------------------------
(***************************************************************************)
(* Proofs about PdoService. The timers, tpdoTimers and rpdoTimers are one  *)
(* value, the tables; every operation of the service takes sound tables to *)
(* sound tables and touches one PDO's slots only. The two loops of         *)
(* enablePdoEvents need an induction over how far they got, which is drawn *)
(* from the least number of rounds for which a claim fails.                *)
(***************************************************************************)
EXTENDS Pdo, TimersProofs

-----------------------------------------------------------------------------
(* Loops. A recursive function over an interval is there, and what each    *)
(* step keeps, it keeps.                                                   *)

\* G[k] is what holds after k rounds.
LEMMA LoopInvariant ==
  ASSUME NEW n \in Nat, NEW G, NEW f, f[0] \in G[0],
         \A k \in 1 .. n : f[k - 1] \in G[k - 1] => f[k] \in G[k]
  PROVE  \A k \in 0 .. n : f[k] \in G[k]
<1> DEFINE Bad == {k \in 0 .. n : f[k] \notin G[k]}
<1>1. CASE Bad # {}
  <2>1. Bad \subseteq Nat
    OBVIOUS
  <2>2. PICK m \in Bad : \A e \in Bad : m <= e
    BY <1>1, <2>1, LeastNumber
  <2>3. m \in 1 .. n /\ m - 1 \in 0 .. n /\ ~ (m <= m - 1)
    BY <2>2
  <2>4. m - 1 \notin Bad
    BY <2>2, <2>3
  <2>5. f[m - 1] \in G[m - 1]
    BY <2>3, <2>4
  <2> QED
    BY <2>2, <2>3, <2>5
<1> QED
  BY <1>1

Runs(D, d, step, m, f) ==
  f \in [0 .. m -> D] /\ f[0] = d /\ \A k \in 1 .. m : f[k] = step[k][f[k - 1]]

\* A loop of n rounds that starts at d has a value for each round.
LEMMA LoopExists ==
  ASSUME NEW D, NEW n \in Nat, NEW d \in D, NEW step \in [1 .. n -> [D -> D]]
  PROVE  \E f : Runs(D, d, step, n, f)
<1> DEFINE G == [m \in 0 .. n |-> {x \in {0} : \E f : Runs(D, d, step, m, f)}]
           zero == [k \in 0 .. n |-> 0]
<1>0. \A m \in 0 .. n : zero[m] \in G[m] <=> \E f : Runs(D, d, step, m, f)
  OBVIOUS
<1> HIDE DEF G, zero
<1>1. zero[0] \in G[0]
  <2>1. Runs(D, d, step, 0, [k \in 0 .. 0 |-> d])
    BY DEF Runs
  <2> QED
    BY <1>0, <2>1
<1>2. ASSUME NEW m \in 1 .. n, zero[m - 1] \in G[m - 1]
      PROVE  zero[m] \in G[m]
  <2>1. PICK f : Runs(D, d, step, m - 1, f)
    BY <1>0, <1>2
  <2> DEFINE g == [k \in 0 .. m |-> IF k = m THEN step[m][f[m - 1]] ELSE f[k]]
  <2>2. f[m - 1] \in D /\ step[m] \in [D -> D]
    BY <2>1 DEF Runs
  <2>3. g \in [0 .. m -> D]
    <3>1. \A k \in 0 .. m : k # m => k \in 0 .. m - 1
      OBVIOUS
    <3> QED
      BY <2>1, <2>2, <3>1 DEF Runs
  <2>4. g[0] = d
    BY <2>1 DEF Runs
  <2>5. ASSUME NEW k \in 1 .. m
        PROVE  g[k] = step[k][g[k - 1]]
    <3>1. g[k - 1] = f[k - 1]
      OBVIOUS
    <3>2. CASE k = m
      BY <3>1, <3>2
    <3>3. CASE k # m
      <4>1. k \in 1 .. m - 1
        BY <3>3
      <4> QED
        BY <2>1, <3>1, <4>1 DEF Runs
    <3> QED
      BY <3>2, <3>3
  <2>6. Runs(D, d, step, m, g)
    BY <2>3, <2>4, <2>5 DEF Runs
  <2> QED
    BY <1>0, <2>6
<1>3. \A k \in 0 .. n : zero[k] \in G[k]
  BY <1>1, <1>2, LoopInvariant
<1>4. \E f : Runs(D, d, step, n, f)
  BY <1>0, <1>3
<1> QED
  BY <1>4

-----------------------------------------------------------------------------
(* The tables.                                                             *)

Users == T \cup R
Handles(s) == [u \in Users |-> IF u \in T THEN s.tpdo[u] ELSE s.rpdo[u].timer]
Owner == [cb \in Callbacks |-> cb.pdo]
Slots == SlotType(Nat, Callbacks)
Watch == [timer : Nat, generation : Nat, periodMs : Periods \cup {0}]
TableType == [timers : Seq(Slots), tpdo : [T -> Nat], rpdo : [R -> Watch]]
Config == [enabled : BOOLEAN, period : Periods]

Sound(s) ==
  /\ s \in TableType
  /\ Len(s.timers) <= Cardinality(Users) + 1
  /\ Owned(s.timers, Handles(s), Owner, Users)

\* Whatever differs between s and r is of u.
Only(u, s, r) ==
  /\ \A w \in Users \ {u} :
       /\ Handles(r)[w] = Handles(s)[w]
       /\ Handles(s)[w] # NoTimer => r.timers[Handles(s)[w]] = s.timers[Handles(s)[w]]
  /\ \A w \in R \ {u} : r.rpdo[w] = s.rpdo[w]

\* A sequence over its own elements has finitely many.
LEMMA SequenceRange ==
  ASSUME NEW q, q \in Seq(Range(q))
  PROVE  /\ DOMAIN q = 1 .. Len(q) /\ Len(q) \in Nat
         /\ \A k \in 1 .. Len(q) : q[k] \in Range(q)
         /\ IsFiniteSet(Range(q))
<1>1. DOMAIN q = 1 .. Len(q) /\ Len(q) \in Nat
  BY LenProperties
<1>2. q \in Surjection(1 .. Len(q), Range(q))
  BY <1>1 DEF Surjection, Range
<1>3. IsFiniteSet(1 .. Len(q))
  BY <1>1, FS_Interval
<1>4. IsFiniteSet(Range(q))
  BY <1>2, <1>3, FS_Surjection
<1> QED
  BY <1>1, <1>4 DEF Range

\* There are finitely many PDOs, and the loops meet each of them.
LEMMA PdosFinite ==
  /\ Len(Tpdos) \in Nat /\ DOMAIN Tpdos = 1 .. Len(Tpdos)
  /\ \A k \in 1 .. Len(Tpdos) : Tpdos[k] \in T
  /\ \A t \in T : \E k \in 1 .. Len(Tpdos) : t = Tpdos[k]
  /\ Len(Rpdos) \in Nat /\ DOMAIN Rpdos = 1 .. Len(Rpdos)
  /\ \A k \in 1 .. Len(Rpdos) : Rpdos[k] \in R
  /\ \A r \in R : \E k \in 1 .. Len(Rpdos) : r = Rpdos[k]
  /\ IsFiniteSet(Users) /\ Cardinality(Users) \in Nat /\ T \cap R = {}
<1>1. Tpdos \in Seq(Range(Tpdos)) /\ Rpdos \in Seq(Range(Rpdos))
  BY PdosAssumption
<1>2. /\ DOMAIN Tpdos = 1 .. Len(Tpdos) /\ Len(Tpdos) \in Nat
      /\ \A k \in 1 .. Len(Tpdos) : Tpdos[k] \in Range(Tpdos)
      /\ IsFiniteSet(Range(Tpdos))
  BY <1>1, SequenceRange
<1>3. /\ DOMAIN Rpdos = 1 .. Len(Rpdos) /\ Len(Rpdos) \in Nat
      /\ \A k \in 1 .. Len(Rpdos) : Rpdos[k] \in Range(Rpdos)
      /\ IsFiniteSet(Range(Rpdos))
  BY <1>1, SequenceRange
<1>4. IsFiniteSet(Users)
  BY <1>2, <1>3, FS_Union DEF Users, T, R
<1>5. /\ \A t \in Range(Tpdos) : \E k \in 1 .. Len(Tpdos) : t = Tpdos[k]
      /\ \A r \in Range(Rpdos) : \E k \in 1 .. Len(Rpdos) : r = Rpdos[k]
  BY <1>2, <1>3 DEF Range
<1> QED
  BY <1>2, <1>3, <1>4, <1>5, FS_CardinalityType, PdosAssumption DEF T, R

\* Longest is the longest period, or 0 when there is none.
LEMMA PeriodFacts ==
  /\ Periods \subseteq Nat
  /\ Longest \in Nat /\ \A p \in Periods \cup {0} : p \in Nat /\ p <= Longest
<1>1. PICK limit \in Nat : Periods \subseteq 0 .. limit
  <2>1. 256 * 256 - 1 \in Nat
    OBVIOUS
  <2> QED
    BY <2>1, PeriodsAssumption
<1>2. Periods \subseteq Nat
  BY <1>1
<1> DEFINE S == {m \in 0 .. limit : \A p \in Periods : p <= m}
           candidates == Periods \cup {0}
<1>3. PICK m \in S : \A e \in S : m <= e
  <2>1. limit \in S /\ S \subseteq Nat
    BY <1>1
  <2> QED
    BY <2>1, LeastNumber
<1>4. m \in candidates
  <2>1. CASE m # 0 /\ m \notin Periods
    <3>1. m \in Nat /\ m - 1 \in 0 .. limit /\ \A p \in Periods : p <= m /\ p # m
      BY <2>1
    <3>2. \A p \in Periods : p <= m - 1
      BY <1>2, <3>1
    <3>3. m - 1 \in S
      BY <3>1, <3>2
    <3>4. ~ (m <= m - 1)
      BY <3>1
    <3> QED
      BY <1>3, <3>3, <3>4
  <2> QED
    BY <2>1
<1>5. \E n \in candidates : \A p \in Periods : p <= n
  BY <1>3, <1>4
<1>6. Longest \in candidates /\ \A p \in Periods : p <= Longest
  BY <1>5 DEF Longest
<1>7. candidates \subseteq Nat
  BY <1>2
<1>8. Longest \in Nat /\ 0 <= Longest
  BY <1>6, <1>7
<1>9. \A p \in Periods \cup {0} : p \in Nat /\ p <= Longest
  BY <1>2, <1>6, <1>8
<1> QED
  BY <1>2, <1>8, <1>9

\* A generation that nobody holds can be had: the table is finite.
LEMMA NewGenerationType ==
  ASSUME NEW s \in TableType, NEW r \in R
  PROVE  NewGeneration(s, r) \in Nat
<1> DEFINE D == {i \in DOMAIN s.timers : s.timers[i].callback.pdo = r}
           f == [h \in D |-> s.timers[h].callback.generation]
           G == {s.timers[h].callback.generation : h \in D}
           inUse == {s.rpdo[r].generation} \cup G
           n == Cardinality(inUse)
<1>1. DOMAIN s.timers = 1 .. Len(s.timers) /\ Len(s.timers) \in Nat
  <2>1. s.timers \in Seq(Slots)
    BY DEF TableType
  <2> QED
    BY <2>1, LenProperties
<1>2. IsFiniteSet(D)
  <2>1. IsFiniteSet(1 .. Len(s.timers))
    BY <1>1, FS_Interval
  <2>2. D \in SUBSET (1 .. Len(s.timers))
    BY <1>1
  <2> QED
    BY <2>1, <2>2, FS_Subset
<1>3. f \in Surjection(D, G)
  BY DEF Surjection
<1>4. IsFiniteSet(G)
  BY <1>2, <1>3, FS_Surjection
<1>5. IsFiniteSet(inUse) /\ n \in Nat
  <2>1. IsFiniteSet(G \cup {s.rpdo[r].generation})
    BY <1>4, FS_AddElement
  <2>2. inUse = G \cup {s.rpdo[r].generation}
    OBVIOUS
  <2> QED
    BY <2>1, <2>2, FS_CardinalityType
<1>6. \E g \in 0 .. n : g \notin inUse
  <2>1. SUFFICES ASSUME 0 .. n \in SUBSET inUse
                 PROVE  FALSE
    OBVIOUS
  <2>2. Cardinality(0 .. n) <= n
    BY <1>5, <2>1, FS_Subset
  <2>3. Cardinality(0 .. n) = n + 1
    BY <1>5, FS_Interval
  <2> QED
    BY <1>5, <2>2, <2>3
<1>7. NewGeneration(s, r) = CHOOSE g \in 0 .. n : g \notin inUse
  BY DEF NewGeneration
<1> HIDE DEF n, inUse
<1>8. NewGeneration(s, r) \in 0 .. n
  BY <1>6, <1>7
<1> QED
  BY <1>5, <1>8

\* tpdoTimers and rpdoTimers, as one function of the PDO.
LEMMA HandlesType ==
  ASSUME NEW s \in TableType
  PROVE  Handles(s) \in [Users -> Nat]
<1>1. s.tpdo \in [T -> Nat] /\ s.rpdo \in [R -> Watch]
  BY DEF TableType
<1>2. \A r \in R : s.rpdo[r].timer \in Nat
  BY <1>1 DEF Watch
<1> QED
  BY <1>1, <1>2 DEF Handles, Users

\* The callbacks are of the PDO that owns them.
LEMMA OwnerFacts ==
  /\ \A t \in T : SendOf(t) \in Callbacks /\ Owner[SendOf(t)] = t
  /\ \A r \in R, g \in Nat : TimeoutOf(g, r) \in Callbacks /\ Owner[TimeoutOf(g, r)] = r
  /\ DOMAIN Owner = Callbacks
  /\ \A cb \in Callbacks : Owner[cb] = cb.pdo
  /\ \A cb \in Callbacks :
       \/ cb.pdo \in T /\ cb.kind = "tpdo" /\ cb = SendOf(cb.pdo)
       \/ cb.pdo \in R /\ cb.kind = "rpdo"
<1>1. \A t \in T : SendOf(t) \in Callbacks /\ SendOf(t).pdo = t /\ SendOf(t).kind = "tpdo"
  BY DEF Callbacks, SendOf
<1>2. \A r \in R, g \in Nat : TimeoutOf(g, r) \in Callbacks /\ TimeoutOf(g, r).pdo = r
  BY DEF Callbacks, TimeoutOf
<1>3. \A cb \in Callbacks :
        \/ cb \in {SendOf(t) : t \in T}
        \/ cb.pdo \in R /\ cb.kind = "rpdo"
  BY DEF Callbacks
<1>4. DOMAIN Owner = Callbacks /\ \A cb \in Callbacks : Owner[cb] = cb.pdo
  BY DEF Owner
<1> QED
  BY <1>1, <1>2, <1>3, <1>4

\* What is scheduled for a PDO is a slot of the table.
LEMMA TimerType ==
  ASSUME NEW p \in Periods \cup {0}
  PROVE  /\ \A stagger \in Nat, t \in T : Periodic(p, stagger, SendOf(t)) \in Slots
         /\ \A g \in Nat, r \in R : Delayed(p, TimeoutOf(g, r)) \in Slots
<1>1. p \in Nat /\ \A stagger \in Nat : p + stagger \in Nat
  BY PeriodFacts
<1> QED
  BY <1>1, OwnerFacts DEF Slots, SlotType, Periodic, Delayed

\* The tables are sound when the slots of u are moved and the rest is left.
LEMMA MovedSound ==
  ASSUME NEW s, Sound(s), NEW u \in Users, NEW timer, NEW r,
         r = [timers |-> r.timers, tpdo |-> r.tpdo, rpdo |-> r.rpdo],
         r.tpdo \in [T -> Nat], r.rpdo \in [R -> Watch],
         \A w \in Users \ {u} : Handles(r)[w] = Handles(s)[w],
         \A w \in R \ {u} : r.rpdo[w] = s.rpdo[w],
         Moved(Callbacks, Users, Owner, s.timers, Handles(s)[u], Handles(r), timer,
               Handles(r)[u], r.timers)
  PROVE  /\ Sound(r) /\ Only(u, s, r)
         /\ Handles(r)[u] # NoTimer /\ r.timers[Handles(r)[u]] = timer
<1>1. r \in TableType
  <2>1. r.timers \in Seq(Slots)
    BY DEF Moved, Slots
  <2> QED
    BY <2>1 DEF TableType
<1>2. Owned(r.timers, Handles(r), Owner, Users)
  BY DEF Moved
<1>3. Len(r.timers) <= Cardinality(Users) + 1
  BY DEF Moved, Sound
<1>4. Handles(r)[u] # NoTimer /\ r.timers[Handles(r)[u]] = timer
  BY DEF Moved
<1>5. ASSUME NEW w \in Users \ {u}, Handles(s)[w] # NoTimer
      PROVE  r.timers[Handles(s)[w]] = s.timers[Handles(s)[w]]
  <2>1. /\ Handles(s)[w] \in DOMAIN s.timers /\ ~s.timers[Handles(s)[w]].available
        /\ Owner[s.timers[Handles(s)[w]].callback] = w
    BY <1>5 DEF Sound, Owned
  <2>2. Handles(s)[w] # Handles(s)[u]
    <3>1. SUFFICES ASSUME Handles(s)[u] = Handles(s)[w]
                   PROVE  FALSE
      OBVIOUS
    <3>2. Owner[s.timers[Handles(s)[u]].callback] = u
      BY <1>5, <3>1 DEF Sound, Owned
    <3> QED
      BY <2>1, <3>1, <3>2
  <2> QED
    BY <2>1, <2>2 DEF Moved
<1>6. Only(u, s, r)
  BY <1>5 DEF Only
<1> QED
  BY <1>1, <1>2, <1>3, <1>4, <1>6 DEF Sound

\* enableTpdoEvent gives t a timer that runs at its period, or changes nothing.
LEMMA TpdoEventFacts ==
  ASSUME NEW s, Sound(s), NEW t \in T, NEW c \in Config, NEW H, NEW stagger \in Nat
  PROVE  LET r == EnableTpdoEvent(s, t, c, H, stagger)
         IN \/ r = s /\ (~Readable(t, H) \/ ~c.enabled \/ c.period = 0)
            \/ /\ Sound(r) /\ Only(t, s, r) /\ r.rpdo = s.rpdo /\ r.tpdo[t] # NoTimer
               /\ r.timers[r.tpdo[t]] = Periodic(c.period, stagger, SendOf(t))
<1> DEFINE r == EnableTpdoEvent(s, t, c, H, stagger)
           timer == Periodic(c.period, stagger, SendOf(t))
           ts == DeleteTimer(Schedule(s.timers, timer), s.tpdo[t])
           tpdos == [s.tpdo EXCEPT ![t] = AvailableTimer(s.timers)]
<1>1. CASE ~Readable(t, H) \/ ~c.enabled \/ c.period = 0
  BY <1>1 DEF EnableTpdoEvent
<1>2. CASE ~ (~Readable(t, H) \/ ~c.enabled \/ c.period = 0)
  <2>1. s \in TableType /\ s.timers \in Seq(Slots) /\ s.tpdo \in [T -> Nat] /\ s.rpdo \in [R -> Watch]
    BY DEF Sound, TableType
  <2>2. r = [timers |-> ts, tpdo |-> tpdos, rpdo |-> s.rpdo]
    BY <1>2, <2>1 DEF EnableTpdoEvent, TableType
  <2>3. AvailableTimer(s.timers) \in Nat
    <3>1. AvailableTimer(s.timers) \in 1 .. Len(s.timers) + 1
      BY <2>1, AvailableFacts
    <3> QED
      BY <3>1
  <2>4. tpdos \in [T -> Nat]
    BY <2>1, <2>3
  <2>5. timer \in Slots /\ ~timer.available /\ timer.callback = SendOf(t)
    <3>1. c.period \in Periods
      BY DEF Config
    <3> QED
      BY <3>1, TimerType DEF Periodic
  <2>6. t \in Users /\ t \notin R /\ T \cap R = {} /\ IsFiniteSet(Users)
    BY PdosFinite DEF Users
  <2>7. Handles(s) \in [Users -> Nat] /\ Handles(s)[t] = s.tpdo[t]
    BY <2>1, <2>6, HandlesType DEF Handles
  <2> HIDE DEF r, timer
  <2>8. /\ Handles(r) \in [Users -> Nat] /\ Handles(r)[t] = AvailableTimer(s.timers)
        /\ r.tpdo[t] = Handles(r)[t]
        /\ \A w \in Users \ {t} : Handles(r)[w] = Handles(s)[w]
    <3>1. r.tpdo = tpdos /\ r.rpdo = s.rpdo
      BY <2>2
    <3>2. tpdos[t] = AvailableTimer(s.timers) /\ \A w \in T \ {t} : tpdos[w] = s.tpdo[w]
      BY <2>1
    <3>3. \A w \in R : s.rpdo[w].timer \in Nat
      BY <2>1 DEF Watch
    <3> HIDE DEF tpdos
    <3> QED
      BY <2>4, <2>6, <3>1, <3>2, <3>3 DEF Handles, Users
  <2>9. Owned(s.timers, Handles(s), Owner, Users)
    BY DEF Sound
  <2>10. timer.callback \in DOMAIN Owner /\ Owner[timer.callback] = t
    BY <2>5, OwnerFacts
  <2>11. ts = DeleteTimer(Schedule(s.timers, timer), Handles(s)[t])
    BY <2>7
  <2> HIDE DEF ts, tpdos
  <2>12. s.timers \in Seq(SlotType(Nat, Callbacks)) /\ timer \in SlotType(Nat, Callbacks)
    BY <2>1, <2>5 DEF Slots
  <2>13. Moved(Callbacks, Users, Owner, s.timers, Handles(s)[t], Handles(r), timer,
               Handles(r)[t], DeleteTimer(Schedule(s.timers, timer), Handles(s)[t]))
    BY <2>5, <2>6, <2>7, <2>8, <2>9, <2>10, <2>12, Move
  <2>14. /\ r.timers = ts /\ r.tpdo = tpdos /\ r.rpdo = s.rpdo
         /\ r = [timers |-> r.timers, tpdo |-> r.tpdo, rpdo |-> r.rpdo]
         /\ r.tpdo \in [T -> Nat] /\ r.rpdo \in [R -> Watch]
         /\ \A w \in R \ {t} : r.rpdo[w] = s.rpdo[w]
    BY <2>1, <2>2, <2>4
  <2>15. /\ Sound(r) /\ Only(t, s, r)
         /\ Handles(r)[t] # NoTimer /\ r.timers[Handles(r)[t]] = timer
    BY <2>6, <2>8, <2>11, <2>13, <2>14, MovedSound
  <2>16. r.rpdo = s.rpdo
    BY <2>2
  <2> QED
    BY <2>8, <2>15, <2>16 DEF r, timer
<1> QED
  BY <1>1, <1>2

\* The timer of r is its own, and is not further than the silence allows.
Watching(s, r, quiet) ==
  s.rpdo[r].timer # NoTimer =>
    LET timer == s.timers[s.rpdo[r].timer]
    IN /\ timer.callback = TimeoutOf(s.rpdo[r].generation, r)
       /\ timer.interval = s.rpdo[r].periodMs /\ ~timer.repeat
       /\ timer.enable => quiet + timer.left >= s.rpdo[r].periodMs

\* A timeout that starts again.
Restarted(s, r, p, g) ==
  LET ts == DeleteTimer(s.timers, s.rpdo[r].timer)
  IN [timers |-> Schedule(ts, Delayed(p, TimeoutOf(g, r))), tpdo |-> s.tpdo,
      rpdo |-> [s.rpdo EXCEPT ![r] = [timer |-> AvailableTimer(ts), generation |-> g,
                                      periodMs |-> p]]]

\* A watch that is started again: only the slot of its RPDO has changed.
LEMMA RestartedFacts ==
  ASSUME NEW s, Sound(s), NEW r \in R, NEW p \in Periods \cup {0}, NEW g \in Nat
  PROVE  LET x == Restarted(s, r, p, g)
         IN /\ Sound(x) /\ Only(r, s, x) /\ x.tpdo = s.tpdo
            /\ x.rpdo[r].periodMs = p /\ Watching(x, r, 0)
<1> DEFINE x == Restarted(s, r, p, g)
           timer == Delayed(p, TimeoutOf(g, r))
           d == DeleteTimer(s.timers, s.rpdo[r].timer)
           ts == Schedule(d, timer)
           watch == [timer |-> AvailableTimer(d), generation |-> g, periodMs |-> p]
           rpdos == [s.rpdo EXCEPT ![r] = watch]
<1>1. s \in TableType /\ s.timers \in Seq(Slots) /\ s.tpdo \in [T -> Nat] /\ s.rpdo \in [R -> Watch]
  BY DEF Sound, TableType
<1>2. /\ x.timers = ts /\ x.tpdo = s.tpdo /\ x.rpdo = rpdos
      /\ x = [timers |-> x.timers, tpdo |-> x.tpdo, rpdo |-> x.rpdo]
  BY DEF Restarted
<1> HIDE DEF x
<1>3. r \in Users /\ r \notin T /\ T \cap R = {} /\ IsFiniteSet(Users)
  BY PdosFinite DEF Users
<1>4. Handles(s) \in [Users -> Nat] /\ Handles(s)[r] = s.rpdo[r].timer
  BY <1>1, <1>3, HandlesType DEF Handles
<1>5. AvailableTimer(d) \in Nat
  <2>1. s.rpdo[r].timer = NoTimer \/ s.rpdo[r].timer \in DOMAIN s.timers
    BY <1>3, <1>4 DEF Sound, Owned
  <2>2. d \in Seq(Slots)
    BY <1>1, <2>1, DeletedType DEF Slots
  <2>3. AvailableTimer(d) \in 1 .. Len(d) + 1 /\ Len(d) \in Nat
    BY <2>2, AvailableFacts, LenProperties
  <2> QED
    BY <2>3
<1>6. rpdos \in [R -> Watch] /\ rpdos[r] = watch /\ \A w \in R \ {r} : rpdos[w] = s.rpdo[w]
  <2>1. watch \in Watch
    BY <1>5 DEF Watch
  <2> HIDE DEF watch
  <2> QED
    BY <1>1, <2>1
<1>7. timer \in Slots /\ ~timer.available /\ timer.callback = TimeoutOf(g, r)
  BY TimerType DEF Delayed
<1>8. timer.enable /\ timer.left = p /\ timer.interval = p /\ ~timer.repeat
  BY DEF Delayed
<1>9. watch.timer = AvailableTimer(d) /\ watch.generation = g /\ watch.periodMs = p
  OBVIOUS
<1> HIDE DEF watch, timer
<1>10. /\ Handles(x) \in [Users -> Nat] /\ Handles(x)[r] = AvailableTimer(d)
       /\ x.rpdo[r].timer = Handles(x)[r]
       /\ \A w \in Users \ {r} : Handles(x)[w] = Handles(s)[w]
  <2>1. \A w \in R : rpdos[w].timer \in Nat
    BY <1>6 DEF Watch
  <2> HIDE DEF rpdos
  <2> QED
    BY <1>1, <1>2, <1>3, <1>6, <1>9, <2>1 DEF Handles, Users
<1>11. Owned(s.timers, Handles(s), Owner, Users)
  BY DEF Sound
<1>12. timer.callback \in DOMAIN Owner /\ Owner[timer.callback] = r
  BY <1>7, OwnerFacts
<1>13. d = DeleteTimer(s.timers, Handles(s)[r])
  BY <1>4
<1>14. s.timers \in Seq(SlotType(Nat, Callbacks)) /\ timer \in SlotType(Nat, Callbacks)
  BY <1>1, <1>7 DEF Slots
<1> HIDE DEF d
<1>15. Handles(x)[r] = AvailableTimer(DeleteTimer(s.timers, Handles(s)[r]))
  BY <1>10, <1>13
<1>16. Taken(Callbacks, Users, Owner, s.timers, Handles(s)[r], Handles(x), timer, Handles(x)[r],
             Schedule(DeleteTimer(s.timers, Handles(s)[r]), timer))
  BY <1>3, <1>4, <1>7, <1>10, <1>11, <1>12, <1>14, <1>15, Replace
<1>17. Moved(Callbacks, Users, Owner, s.timers, Handles(s)[r], Handles(x), timer, Handles(x)[r],
             x.timers)
  <2>1. x.timers = Schedule(DeleteTimer(s.timers, Handles(s)[r]), timer)
    BY <1>2, <1>13
  <2> QED
    BY <1>3, <1>16, <2>1, TakenMoved
<1> HIDE DEF ts, rpdos
<1>18. x.tpdo \in [T -> Nat] /\ x.rpdo \in [R -> Watch] /\ \A w \in R \ {r} : x.rpdo[w] = s.rpdo[w]
  BY <1>1, <1>2, <1>6
<1>19. /\ Sound(x) /\ Only(r, s, x)
       /\ Handles(x)[r] # NoTimer /\ x.timers[Handles(x)[r]] = timer
  BY <1>2, <1>3, <1>10, <1>17, <1>18, MovedSound
<1>20. x.rpdo[r].generation = g /\ x.rpdo[r].periodMs = p /\ x.rpdo[r].timer = Handles(x)[r]
  BY <1>2, <1>6, <1>9, <1>10
<1>21. Watching(x, r, 0)
  <2>1. p \in Nat /\ 0 + p >= p
    BY PeriodFacts
  <2> QED
    BY <1>7, <1>8, <1>19, <1>20, <2>1 DEF Watching
<1> QED
  BY <1>2, <1>19, <1>20, <1>21 DEF x

\* enableRpdoEvent starts the timeout of r with its new period, or changes nothing.
LEMMA RpdoEventFacts ==
  ASSUME NEW s, Sound(s), NEW r \in R, NEW c \in Config, NEW H
  PROVE  LET x == EnableRpdoEvent(s, r, c, H)
         IN \/ x = s /\ (~Readable(r, H) \/ ~c.enabled \/ c.period = 0)
            \/ /\ Sound(x) /\ Only(r, s, x) /\ x.tpdo = s.tpdo
               /\ x.rpdo[r].periodMs = c.period /\ Watching(x, r, 0)
<1> DEFINE x == EnableRpdoEvent(s, r, c, H)
           g == NewGeneration(s, r)
<1>1. CASE ~Readable(r, H) \/ ~c.enabled \/ c.period = 0
  BY <1>1 DEF EnableRpdoEvent
<1>2. CASE ~ (~Readable(r, H) \/ ~c.enabled \/ c.period = 0)
  <2>1. s \in TableType /\ s = [timers |-> s.timers, tpdo |-> s.tpdo, rpdo |-> s.rpdo]
    BY DEF Sound, TableType
  <2>2. x = Restarted(s, r, c.period, g)
    BY <1>2, <2>1 DEF EnableRpdoEvent, Restarted
  <2>3. g \in Nat /\ c.period \in Periods \cup {0}
    BY <2>1, NewGenerationType DEF Config
  <2> HIDE DEF x, g
  <2>4. /\ Sound(x) /\ Only(r, s, x) /\ x.tpdo = s.tpdo
        /\ x.rpdo[r].periodMs = c.period /\ Watching(x, r, 0)
    BY <2>2, <2>3, RestartedFacts
  <2> QED
    BY <2>4 DEF x
<1> QED
  BY <1>1, <1>2

\* A frame starts the timeout of r again with the stored period, if it has one.
LEMMA ResetFacts ==
  ASSUME NEW s, Sound(s), NEW r \in R
  PROVE  LET x == ResetRpdoTimer(s, r)
         IN /\ Sound(x) /\ Only(r, s, x) /\ x.tpdo = s.tpdo
            /\ x.rpdo[r].periodMs = s.rpdo[r].periodMs /\ Watching(x, r, 0)
<1> DEFINE x == ResetRpdoTimer(s, r)
           g == NewGeneration(s, r)
<1>1. /\ s \in TableType /\ s = [timers |-> s.timers, tpdo |-> s.tpdo, rpdo |-> s.rpdo]
      /\ s.rpdo \in [R -> Watch] /\ s.tpdo \in [T -> Nat] /\ s.timers \in Seq(Slots)
  BY DEF Sound, TableType
<1>2. g \in Nat
  BY <1>1, NewGenerationType
<1>3. /\ s.rpdo[r].periodMs \in Periods \cup {0}
      /\ \A h, q : [s.rpdo[r] EXCEPT !.timer = h, !.generation = q]
                   = [timer |-> h, generation |-> q, periodMs |-> s.rpdo[r].periodMs]
  <2>1. s.rpdo[r] \in Watch
    BY <1>1
  <2>2. ASSUME NEW w \in Watch, NEW h, NEW q
        PROVE  [w EXCEPT !.timer = h, !.generation = q]
               = [timer |-> h, generation |-> q, periodMs |-> w.periodMs]
    <3>1. [w EXCEPT !.timer = h]
          = [timer |-> h, generation |-> w.generation, periodMs |-> w.periodMs]
      BY DEF Watch
    <3>2. [w EXCEPT !.timer = h, !.generation = q] = [[w EXCEPT !.timer = h] EXCEPT !.generation = q]
      OBVIOUS
    <3>3. [[timer |-> h, generation |-> w.generation, periodMs |-> w.periodMs] EXCEPT !.generation = q]
          = [timer |-> h, generation |-> q, periodMs |-> w.periodMs]
      OBVIOUS
    <3> QED
      BY <3>1, <3>2, <3>3, Zenon
  <2>3. s.rpdo[r].periodMs \in Periods \cup {0}
    BY <2>1 DEF Watch
  <2> QED
    BY <2>1, <2>2, <2>3
<1>4. CASE s.rpdo[r].timer = NoTimer
  <2>1. x = [timers |-> s.timers, tpdo |-> s.tpdo, rpdo |-> [s.rpdo EXCEPT ![r].generation = g]]
    BY <1>1, <1>4 DEF ResetRpdoTimer
  <2> HIDE DEF g, x
  <2>2. /\ x.timers = s.timers /\ x.tpdo = s.tpdo
        /\ x.rpdo \in [R -> Watch] /\ x.rpdo[r].timer = s.rpdo[r].timer
        /\ x.rpdo[r].periodMs = s.rpdo[r].periodMs
        /\ \A w \in R \ {r} : x.rpdo[w] = s.rpdo[w]
    BY <1>1, <1>2, <2>1 DEF Watch
  <2>3. Handles(x) = Handles(s)
    BY <2>2 DEF Handles, Users
  <2>4. x \in TableType
    BY <1>1, <2>1, <2>2 DEF TableType
  <2>5. Sound(x) /\ Only(r, s, x)
    BY <2>2, <2>3, <2>4 DEF Sound, Only
  <2>6. Watching(x, r, 0)
    BY <1>4, <2>2 DEF Watching
  <2> QED
    BY <2>2, <2>5, <2>6 DEF x
<1>5. CASE s.rpdo[r].timer # NoTimer
  <2>1. x = Restarted(s, r, s.rpdo[r].periodMs, g)
    <3> DEFINE d == DeleteTimer(s.timers, s.rpdo[r].timer)
    <3>1. x = [timers |-> Schedule(d, Delayed(s.rpdo[r].periodMs, TimeoutOf(g, r))),
               tpdo |-> s.tpdo,
               rpdo |-> [s.rpdo EXCEPT ![r] = [s.rpdo[r] EXCEPT !.timer = AvailableTimer(d),
                                                               !.generation = g]]]
      BY <1>1, <1>5 DEF ResetRpdoTimer
    <3> QED
      BY <1>3, <3>1 DEF Restarted
  <2> HIDE DEF x, g
  <2> DEFINE p == s.rpdo[r].periodMs
  <2>2. x = Restarted(s, r, p, g) /\ p \in Periods \cup {0}
    BY <1>3, <2>1
  <2> HIDE DEF p
  <2>3. /\ Sound(x) /\ Only(r, s, x) /\ x.tpdo = s.tpdo
        /\ x.rpdo[r].periodMs = p /\ Watching(x, r, 0)
    BY <1>2, <2>2, RestartedFacts
  <2> QED
    BY <2>3 DEF x, p
<1> QED
  BY <1>4, <1>5

\* disablePdoEvents gives every slot back.
LEMMA DisableFacts ==
  ASSUME NEW s, Sound(s)
  PROVE  LET x == DisablePdoEvents(s)
         IN /\ Sound(x)
            /\ \A t \in T : x.tpdo[t] = NoTimer
            /\ \A r \in R : x.rpdo[r].timer = NoTimer
            /\ \A h \in DOMAIN x.timers : x.timers[h].available /\ ~x.timers[h].enable
<1> DEFINE x == DisablePdoEvents(s)
           S == Range(s.tpdo) \cup {s.rpdo[r].timer : r \in R}
           ts == Emptied(s.timers, S)
           tpdos == [t \in T |-> NoTimer]
           rpdos == [r \in R |-> [s.rpdo[r] EXCEPT !.timer = NoTimer,
                                                   !.generation = NewGeneration(s, r)]]
<1>1. /\ s \in TableType /\ s.rpdo \in [R -> Watch] /\ s.tpdo \in [T -> Nat]
      /\ s.timers \in Seq(Slots) /\ Owned(s.timers, Handles(s), Owner, Users)
  BY DEF Sound, TableType
<1>2. x = [timers |-> ts, tpdo |-> tpdos, rpdo |-> rpdos]
  BY DEF DisablePdoEvents
<1>3. /\ Blank \in Slots /\ Blank.available /\ ~Blank.enable
      /\ NoTimer \in Nat
  BY DEF Blank, Slots, SlotType, NoTimer
<1>4. DOMAIN s.timers = 1 .. Len(s.timers) /\ Len(s.timers) \in Nat
  BY <1>1, LenProperties
<1>5. \A h \in DOMAIN s.timers : ~s.timers[h].available => h \in S
  <2>1. ASSUME NEW h \in DOMAIN s.timers, ~s.timers[h].available
        PROVE  h \in S
    <3>1. PICK u \in Users : Handles(s)[u] = h
      BY <1>1, <2>1 DEF Owned
    <3>2. CASE u \in T
      BY <1>1, <3>1, <3>2 DEF Handles, Range
    <3>3. CASE u \in R /\ u \notin T
      BY <1>1, <3>1, <3>3 DEF Handles
    <3> QED
      BY <3>2, <3>3 DEF Users
  <2> QED
    BY <2>1
<1> HIDE DEF S
<1>6. /\ ts = [h \in 1 .. Len(s.timers) |-> ts[h]]
      /\ \A h \in 1 .. Len(s.timers) : ts[h] = IF h \in S THEN Blank ELSE s.timers[h]
  BY <1>4 DEF Emptied
<1> HIDE DEF ts, x
<1>7. \A h \in 1 .. Len(s.timers) : ts[h] \in Slots /\ ts[h].available /\ ~ts[h].enable
  <2>1. ASSUME NEW h \in 1 .. Len(s.timers)
        PROVE  ts[h] \in Slots /\ ts[h].available /\ ~ts[h].enable
    <3>1. s.timers[h] \in Slots
      BY <1>1, <1>4, <2>1, ElementOfSeq
    <3>2. CASE h \in S
      BY <1>3, <1>6, <3>2
    <3>3. CASE h \notin S
      BY <1>1, <1>4, <1>5, <1>6, <3>1, <3>3 DEF Owned
    <3> QED
      BY <3>2, <3>3
  <2> QED
    BY <2>1
<1>8. ts \in Seq(Slots) /\ DOMAIN ts = 1 .. Len(s.timers)
  <2>1. \A h \in 1 .. Len(s.timers) : ts[h] \in Slots
    BY <1>7
  <2>2. [h \in 1 .. Len(s.timers) |-> ts[h]] \in Seq(Slots)
    BY <1>4, <2>1, IsASeq
  <2>3. DOMAIN [h \in 1 .. Len(s.timers) |-> ts[h]] = 1 .. Len(s.timers)
    OBVIOUS
  <2> QED
    BY <1>6, <2>2, <2>3, Zenon
<1>9. Len(ts) = Len(s.timers)
  BY <1>4, <1>8, LenProperties, SameInterval
<1>10. rpdos \in [R -> Watch] /\ \A r \in R : rpdos[r].timer = NoTimer
  <2>1. ASSUME NEW r \in R
        PROVE  rpdos[r] \in Watch /\ rpdos[r].timer = NoTimer
    <3>1. NewGeneration(s, r) \in Nat
      BY <1>1, NewGenerationType
    <3>2. s.rpdo[r] \in Watch
      BY <1>1
    <3>3. \A w \in Watch, g \in Nat :
            LET v == [w EXCEPT !.timer = NoTimer, !.generation = g]
            IN v \in Watch /\ v.timer = NoTimer
      BY <1>3 DEF Watch
    <3> QED
      BY <3>1, <3>2, <3>3
  <2> QED
    BY <2>1
<1>11. tpdos \in [T -> Nat] /\ \A t \in T : tpdos[t] = NoTimer
  BY <1>3
<1> HIDE DEF tpdos, rpdos
<1>12. x.timers = ts /\ x.tpdo = tpdos /\ x.rpdo = rpdos /\ x \in TableType
  BY <1>2, <1>8, <1>10, <1>11 DEF TableType
<1>13. \A u \in Users : Handles(x)[u] = NoTimer
  BY <1>10, <1>11, <1>12 DEF Handles, Users
<1>14. Owned(x.timers, Handles(x), Owner, Users)
  BY <1>7, <1>8, <1>12, <1>13 DEF Owned
<1>15. Sound(x)
  BY <1>9, <1>12, <1>14 DEF Sound
<1> QED
  BY <1>7, <1>8, <1>10, <1>11, <1>12, <1>15 DEF x

\* A TPDO's timer, once it has one, runs on.
Ticking(s, t) ==
  s.tpdo[t] # NoTimer => s.timers[s.tpdo[t]].enable /\ s.timers[s.tpdo[t]].repeat

TimedAt(s, t, p) ==
  s.tpdo[t] # NoTimer /\ s.timers[s.tpdo[t]].enable /\ s.timers[s.tpdo[t]].interval = p

\* What is changed for u is no matter to the others.
LEMMA OnlyKeeps ==
  ASSUME NEW s, NEW x, NEW u \in Users, Only(u, s, x)
  PROVE  /\ \A t \in T \ {u} : Ticking(s, t) => Ticking(x, t)
         /\ \A p : \A t \in T \ {u} : TimedAt(s, t, p) => TimedAt(x, t, p)
         /\ \A q : \A r \in R \ {u} : Watching(s, r, q) => Watching(x, r, q)
         /\ \A r \in R \ {u} : x.rpdo[r].periodMs = s.rpdo[r].periodMs
<1>1. \A t \in T : Handles(s)[t] = s.tpdo[t] /\ Handles(x)[t] = x.tpdo[t]
  BY DEF Handles, Users
<1>2. \A t \in T \ {u} :
        x.tpdo[t] = s.tpdo[t] /\ (s.tpdo[t] # NoTimer => x.timers[s.tpdo[t]] = s.timers[s.tpdo[t]])
  BY <1>1 DEF Only, Users
<1>3. \A r \in R : Handles(s)[r] = s.rpdo[r].timer
  BY PdosFinite DEF Handles, Users
<1>4. \A r \in R \ {u} :
        /\ x.rpdo[r] = s.rpdo[r]
        /\ s.rpdo[r].timer # NoTimer => x.timers[s.rpdo[r].timer] = s.timers[s.rpdo[r].timer]
  BY <1>3 DEF Only, Users
<1>5. \A t \in T \ {u} : Ticking(s, t) => Ticking(x, t)
  BY <1>2 DEF Ticking
<1>6. \A p : \A t \in T \ {u} : TimedAt(s, t, p) => TimedAt(x, t, p)
  BY <1>2 DEF TimedAt
<1>7. \A q : \A r \in R \ {u} : Watching(s, r, q) => Watching(x, r, q)
  BY <1>4 DEF Watching
<1> QED
  BY <1>4, <1>5, <1>6, <1>7

Settable(t) == Readable(t, held) /\ cfg[t].enabled /\ cfg[t].period # 0

\* The loop of enablePdoEvents over the TPDOs.
LEMMA TpdosOnFacts ==
  ASSUME NEW s, Sound(s), cfg \in [T \cup R -> Config], NEW stagger \in [T -> Nat],
         \A t \in T : Ticking(s, t), \A r \in R : Watching(s, r, 0)
  PROVE  LET x == TpdosOn(s, stagger)
         IN /\ Sound(x)
            /\ \A t \in T : Ticking(x, t) /\ (Settable(t) => TimedAt(x, t, cfg[t].period))
            /\ \A r \in R : Watching(x, r, 0)
<1> DEFINE n == Len(Tpdos)
           Step(x, k) == EnableTpdoEvent(x, Tpdos[k], cfg[Tpdos[k]], held, stagger[Tpdos[k]])
           D == {x \in TableType : Sound(x)}
           step == [k \in 1 .. n |-> [x \in D |-> Step(x, k)]]
           on == CHOOSE f : f = [k \in 0 .. n |-> IF k = 0 THEN s ELSE Step(f[k - 1], k)]
           Done(x, k) ==
             /\ Sound(x)
             /\ \A t \in T : Ticking(x, t)
             /\ \A r \in R : Watching(x, r, 0)
             /\ \A j \in 1 .. k : Settable(Tpdos[j]) => TimedAt(x, Tpdos[j], cfg[Tpdos[j]].period)
           G == [k \in 0 .. n |-> {x \in D : Done(x, k)}]
<1>1. n \in Nat /\ \A k \in 1 .. n : Tpdos[k] \in T
  BY PdosFinite
<1>2. ASSUME NEW k \in 1 .. n, NEW x, Sound(x)
      PROVE  \/ Step(x, k) = x /\ ~Settable(Tpdos[k])
             \/ /\ Sound(Step(x, k)) /\ Only(Tpdos[k], x, Step(x, k))
                /\ Step(x, k).rpdo = x.rpdo /\ Step(x, k).tpdo[Tpdos[k]] # NoTimer
                /\ Step(x, k).timers[Step(x, k).tpdo[Tpdos[k]]]
                   = Periodic(cfg[Tpdos[k]].period, stagger[Tpdos[k]], SendOf(Tpdos[k]))
  <2>1. Tpdos[k] \in T /\ cfg[Tpdos[k]] \in Config /\ stagger[Tpdos[k]] \in Nat
    BY <1>1
  <2> QED
    BY <1>2, <2>1, TpdoEventFacts DEF Settable
<1> HIDE DEF n, Step
<1>3. \A x : Sound(x) <=> x \in D
  BY DEF Sound
<1> HIDE DEF D
<1>4. on = [k \in 0 .. n |-> IF k = 0 THEN s ELSE Step(on[k - 1], k)]
  <2>1. step \in [1 .. n -> [D -> D]]
    BY <1>2, <1>3
  <2> HIDE DEF step
  <2>0. s \in D /\ n \in Nat
    BY <1>1, <1>3
  <2>2. PICK f : Runs(D, s, step, n, f)
    BY <2>0, <2>1, LoopExists
  <2>3. ASSUME NEW k \in 0 .. n
        PROVE  f[k] = IF k = 0 THEN s ELSE Step(f[k - 1], k)
    <3>1. CASE k = 0
      BY <2>2, <3>1 DEF Runs
    <3>2. CASE k # 0
      <4>1. k \in 1 .. n /\ k - 1 \in 0 .. n
        BY <1>1, <3>2
      <4>2. f[k] = step[k][f[k - 1]] /\ f[k - 1] \in D
        BY <2>2, <4>1 DEF Runs
      <4> QED
        BY <3>2, <4>1, <4>2 DEF step
    <3> QED
      BY <3>1, <3>2
  <2>4. f = [k \in 0 .. n |-> IF k = 0 THEN s ELSE Step(f[k - 1], k)]
    BY <2>2, <2>3 DEF Runs
  <2> QED
    BY <2>4
<1>5. TpdosOn(s, stagger) = on[n]
  BY DEF TpdosOn, n, Step
<1> HIDE DEF on
<1>6. on[0] = s /\ \A k \in 1 .. n : on[k] = Step(on[k - 1], k)
  BY <1>1, <1>4
<1>7. \A x, k : k \in 0 .. n => (x \in G[k] <=> Done(x, k))
  BY <1>3
<1>8. on[0] \in G[0]
  <2>1. Done(s, 0)
    OBVIOUS
  <2> HIDE DEF Done, G
  <2> QED
    BY <1>1, <1>6, <1>7, <2>1
<1>9. ASSUME NEW k \in 1 .. n, on[k - 1] \in G[k - 1]
      PROVE  on[k] \in G[k]
  <2> DEFINE x == on[k - 1]
             y == on[k]
             t == Tpdos[k]
  <2>1. Done(x, k - 1) /\ y = Step(x, k) /\ t \in T /\ t \in Users
    BY <1>1, <1>6, <1>7, <1>9 DEF Users
  <2>2. \/ y = x /\ ~Settable(t)
        \/ /\ Sound(y) /\ Only(t, x, y) /\ y.rpdo = x.rpdo /\ y.tpdo[t] # NoTimer
           /\ y.timers[y.tpdo[t]] = Periodic(cfg[t].period, stagger[t], SendOf(t))
    BY <1>2, <2>1
  <2> HIDE DEF x, y
  <2>3. CASE y = x /\ ~Settable(t)
    <3>1. ASSUME NEW j \in 1 .. k, Settable(Tpdos[j])
          PROVE  j \in 1 .. k - 1
      <4>1. j # k
        BY <2>3, <3>1
      <4> QED
        BY <1>1, <4>1
    <3>2. Done(y, k)
      BY <2>1, <2>3, <3>1
    <3> QED
      BY <1>1, <1>7, <3>2 DEF y
  <2>4. CASE /\ Sound(y) /\ Only(t, x, y) /\ y.rpdo = x.rpdo /\ y.tpdo[t] # NoTimer
             /\ y.timers[y.tpdo[t]] = Periodic(cfg[t].period, stagger[t], SendOf(t))
    <3>1. Ticking(y, t) /\ TimedAt(y, t, cfg[t].period)
      BY <2>4 DEF Ticking, TimedAt, Periodic
    <3> HIDE DEF t
    <3>2. \A w \in T : Ticking(y, w)
      BY <2>1, <2>4, <3>1, OnlyKeeps
    <3>3. \A r \in R : Watching(y, r, 0)
      <4>1. t \notin R
        BY <2>1, PdosFinite
      <4> QED
        BY <2>1, <2>4, <4>1, OnlyKeeps
    <3>4. ASSUME NEW j \in 1 .. k, Settable(Tpdos[j])
          PROVE  TimedAt(y, Tpdos[j], cfg[Tpdos[j]].period)
      <4>1. CASE Tpdos[j] = t
        BY <3>1, <4>1
      <4>2. CASE Tpdos[j] # t
        <5>1. j # k /\ j \in 1 .. n
          BY <1>1, <4>2 DEF t
        <5>2. j \in 1 .. k - 1 /\ Tpdos[j] \in T
          BY <1>1, <5>1
        <5>3. TimedAt(x, Tpdos[j], cfg[Tpdos[j]].period)
          BY <2>1, <3>4, <5>2
        <5> QED
          BY <2>1, <2>4, <4>2, <5>2, <5>3, OnlyKeeps
      <4> QED
        BY <4>1, <4>2
    <3>5. Done(y, k)
      BY <2>4, <3>2, <3>3, <3>4
    <3> QED
      BY <1>1, <1>7, <3>5 DEF y
  <2> QED
    BY <2>2, <2>3, <2>4
<1> HIDE DEF G
<1>10. Done(on[n], n)
  BY <1>1, <1>7, <1>8, <1>9, LoopInvariant
<1>11. \A t \in T : Settable(t) => TimedAt(on[n], t, cfg[t].period)
  <2>1. \A t \in T : \E j \in 1 .. n : t = Tpdos[j]
    BY PdosFinite DEF n
  <2> QED
    BY <1>10, <2>1
<1> QED
  BY <1>5, <1>10, <1>11

\* The loop over the RPDOs leaves the TPDOs alone.
LEMMA RpdosOnFacts ==
  ASSUME NEW s, Sound(s), cfg \in [T \cup R -> Config],
         \A r \in R : Watching(s, r, 0)
  PROVE  LET x == RpdosOn(s)
         IN /\ Sound(x)
            /\ \A t \in T : Ticking(s, t) => Ticking(x, t)
            /\ \A p : \A t \in T : TimedAt(s, t, p) => TimedAt(x, t, p)
            /\ \A r \in R : Watching(x, r, 0)
<1> DEFINE n == Len(Rpdos)
           Step(x, k) == IF Rpdos[k] \in RpdosReached
                         THEN EnableRpdoEvent(x, Rpdos[k], cfg[Rpdos[k]], held) ELSE x
           D == {x \in TableType : Sound(x)}
           step == [k \in 1 .. n |-> [x \in D |-> Step(x, k)]]
           on == CHOOSE f : f = [k \in 0 .. n |-> IF k = 0 THEN s ELSE Step(f[k - 1], k)]
           Done(x) ==
             /\ Sound(x)
             /\ \A t \in T : Ticking(s, t) => Ticking(x, t)
             /\ \A p : \A t \in T : TimedAt(s, t, p) => TimedAt(x, t, p)
             /\ \A r \in R : Watching(x, r, 0)
           G == [k \in 0 .. n |-> {x \in D : Done(x)}]
<1>1. n \in Nat /\ \A k \in 1 .. n : Rpdos[k] \in R
  BY PdosFinite
<1>2. ASSUME NEW k \in 1 .. n, NEW x, Sound(x)
      PROVE  \/ Step(x, k) = x
             \/ /\ Sound(Step(x, k)) /\ Only(Rpdos[k], x, Step(x, k))
                /\ Watching(Step(x, k), Rpdos[k], 0)
  <2>1. Rpdos[k] \in R /\ cfg[Rpdos[k]] \in Config
    BY <1>1
  <2> QED
    BY <1>2, <2>1, RpdoEventFacts
<1> HIDE DEF n, Step
<1>3. \A x : Sound(x) <=> x \in D
  BY DEF Sound
<1> HIDE DEF D
<1>4. on = [k \in 0 .. n |-> IF k = 0 THEN s ELSE Step(on[k - 1], k)]
  <2>1. step \in [1 .. n -> [D -> D]]
    BY <1>2, <1>3
  <2> HIDE DEF step
  <2>2. s \in D /\ n \in Nat
    BY <1>1, <1>3
  <2>3. PICK f : Runs(D, s, step, n, f)
    BY <2>1, <2>2, LoopExists
  <2>4. ASSUME NEW k \in 0 .. n
        PROVE  f[k] = IF k = 0 THEN s ELSE Step(f[k - 1], k)
    <3>1. CASE k = 0
      BY <2>3, <3>1 DEF Runs
    <3>2. CASE k # 0
      <4>1. k \in 1 .. n /\ k - 1 \in 0 .. n
        BY <1>1, <3>2
      <4>2. f[k] = step[k][f[k - 1]] /\ f[k - 1] \in D
        BY <2>3, <4>1 DEF Runs
      <4> QED
        BY <3>2, <4>1, <4>2 DEF step
    <3> QED
      BY <3>1, <3>2
  <2>5. f = [k \in 0 .. n |-> IF k = 0 THEN s ELSE Step(f[k - 1], k)]
    BY <2>3, <2>4 DEF Runs
  <2> QED
    BY <2>5
<1>5. RpdosOn(s) = on[n]
  <2>1. on = CHOOSE f : f = [k \in 0 .. n |->
                              IF k = 0 THEN s
                              ELSE IF Rpdos[k] \in RpdosReached
                                   THEN EnableRpdoEvent(f[k - 1], Rpdos[k], cfg[Rpdos[k]], held)
                                   ELSE f[k - 1]]
    BY DEF Step
  <2> QED
    BY <2>1 DEF RpdosOn, n
<1> HIDE DEF on
<1>6. on[0] = s /\ \A k \in 1 .. n : on[k] = Step(on[k - 1], k)
  BY <1>1, <1>4
<1>7. \A x, k : k \in 0 .. n => (x \in G[k] <=> Done(x))
  BY <1>3
<1>8. on[0] \in G[0]
  <2>1. Done(s)
    OBVIOUS
  <2> HIDE DEF Done, G
  <2> QED
    BY <1>1, <1>6, <1>7, <2>1
<1>9. ASSUME NEW k \in 1 .. n, on[k - 1] \in G[k - 1]
      PROVE  on[k] \in G[k]
  <2> DEFINE x == on[k - 1]
             y == on[k]
             r == Rpdos[k]
  <2>1. Done(x) /\ y = Step(x, k) /\ r \in R /\ r \in Users /\ r \notin T
    BY <1>1, <1>6, <1>7, <1>9, PdosFinite DEF Users
  <2>2. y = x \/ (Sound(y) /\ Only(r, x, y) /\ Watching(y, r, 0))
    BY <1>2, <2>1
  <2> HIDE DEF x, y
  <2>3. CASE y = x
    <3>1. Done(y)
      BY <2>1, <2>3
    <3> HIDE DEF Done, G
    <3> QED
      BY <1>1, <1>7, <3>1 DEF y
  <2>4. CASE Sound(y) /\ Only(r, x, y) /\ Watching(y, r, 0)
    <3> HIDE DEF r
    <3>1. \A t \in T : Ticking(s, t) => Ticking(y, t)
      BY <2>1, <2>4, OnlyKeeps
    <3>2. \A p : \A t \in T : TimedAt(s, t, p) => TimedAt(y, t, p)
      BY <2>1, <2>4, OnlyKeeps
    <3>3. \A w \in R : Watching(y, w, 0)
      BY <2>1, <2>4, OnlyKeeps
    <3>4. Done(y)
      BY <2>4, <3>1, <3>2, <3>3
    <3> QED
      BY <1>1, <1>7, <3>4 DEF y
  <2> QED
    BY <2>2, <2>3, <2>4
<1> HIDE DEF G
<1>10. Done(on[n])
  BY <1>1, <1>7, <1>8, <1>9, LoopInvariant
<1> QED
  BY <1>5, <1>10

\* enablePdoEvents: every TPDO that can be set up is timed, every timeout new.
LEMMA EnableFacts ==
  ASSUME NEW s, Sound(s), cfg \in [T \cup R -> Config], NEW stagger \in [T -> Nat]
  PROVE  LET x == EnablePdoEvents(s, stagger)
         IN /\ Sound(x)
            /\ \A t \in T : Ticking(x, t) /\ (Settable(t) => TimedAt(x, t, cfg[t].period))
            /\ \A r \in R : Watching(x, r, 0)
<1> DEFINE d == DisablePdoEvents(s)
           y == TpdosOn(d, stagger)
           x == RpdosOn(y)
<1>1. Sound(d) /\ (\A t \in T : d.tpdo[t] = NoTimer) /\ (\A r \in R : d.rpdo[r].timer = NoTimer)
  BY DisableFacts
<1> HIDE DEF d
<1>2. (\A t \in T : Ticking(d, t)) /\ (\A r \in R : Watching(d, r, 0))
  BY <1>1 DEF Ticking, Watching
<1>3. /\ Sound(y)
      /\ \A t \in T : Ticking(y, t) /\ (Settable(t) => TimedAt(y, t, cfg[t].period))
      /\ \A r \in R : Watching(y, r, 0)
  BY <1>1, <1>2, TpdosOnFacts
<1> HIDE DEF y
<1>4. /\ Sound(x)
      /\ \A t \in T : Ticking(x, t)
      /\ \A p : \A t \in T : TimedAt(y, t, p) => TimedAt(x, t, p)
      /\ \A r \in R : Watching(x, r, 0)
  BY <1>3, RpdosOnFacts
<1> HIDE DEF x
<1>5. EnablePdoEvents(s, stagger) = x
  BY DEF EnablePdoEvents, x, y, d
<1> QED
  BY <1>3, <1>4, <1>5

-----------------------------------------------------------------------------
(* The invariant.                                                          *)

\* The tables, with what the state, the configuration and the silence of the
\* RPDOs say of them.
Right(s, op, c, quiet, late, skipped) ==
  /\ Sound(s)
  /\ \A t \in T : Ticking(s, t)
  /\ \A r \in R : Watching(s, r, quiet[r])
  /\ ~op => \A h \in DOMAIN s.timers : s.timers[h].available /\ ~s.timers[h].enable
  /\ \A t \in T \ skipped : op /\ c[t].enabled /\ c[t].period # 0 => TimedAt(s, t, c[t].period)
  /\ \A r \in late : quiet[r] >= s.rpdo[r].periodMs

Entry == [value : Values \cup {Partial}, locked : BOOLEAN, notified : Values]

\* The types of the other variables.
RestOK ==
  /\ operational \in BOOLEAN /\ pdoEnabled = operational
  /\ cfg \in [T \cup R -> Config]
  /\ od \in [Entries -> Entry]
  /\ sent \in [T -> Seq(Values \cup {Partial})]
  /\ held \subseteq Parameters /\ passedOver \subseteq T \cup R
  /\ silence \in [R -> 0 .. Longest] /\ lost \subseteq R /\ calls \in 0 .. MaxCalls

IInv == Right(Tables, operational, cfg, silence, lost, passedOver) /\ RestOK

\* The invariant of the run follows from the one of the proof.
LEMMA IInvImplies ==
  ASSUME IInv
  PROVE  PdoInv
<1>1. /\ Tables \in TableType /\ Len(timers) <= Cardinality(Users) + 1
      /\ Owned(timers, Handles(Tables), Owner, Users)
  BY DEF IInv, Right, Sound, Tables
<1>2. timers \in Seq(Slots) /\ tpdo \in [T -> Nat] /\ rpdo \in [R -> Watch]
  BY <1>1 DEF TableType, Tables
<1>3. TypeOK
  BY <1>1, <1>2 DEF IInv, RestOK, TypeOK, Slots, Watch, Config, Entry, Users
<1>4. TimersRun
  BY DEF IInv, Right, TimersRun, Ticking, Watching, Tables
<1>5. NoPdoTimerOutsideOperational
  BY DEF IInv, Right, NoPdoTimerOutsideOperational, Tables
<1>6. EnabledTpdoIsTimed
  BY DEF IInv, Right, EnabledTpdoIsTimed, TimedAt, Tables
<1>7. TimeoutMeansSilence
  BY DEF IInv, Right, TimeoutMeansSilence, Tables
<1>8. SlotsOwned
  <2>1. DOMAIN timers = 1 .. Len(timers)
    BY <1>2, LenProperties
  <2>2. \A t \in T : Handles(Tables)[t] = tpdo[t]
    BY DEF Handles, Users, Tables
  <2>3. \A r \in R : Handles(Tables)[r] = rpdo[r].timer
    BY PdosFinite DEF Handles, Users, Tables
  <2> DEFINE H == Handles(Tables)
  <2> HIDE DEF H
  <2>4. /\ \A t \in T : H[t] = tpdo[t]
        /\ \A r \in R : H[r] = rpdo[r].timer
        /\ Owned(timers, H, Owner, Users)
    BY <1>1, <2>2, <2>3 DEF H
  <2>5. ASSUME NEW h \in DOMAIN timers, ~timers[h].available
        PROVE  LET cb == timers[h].callback
               IN /\ {t \in T : tpdo[t] = h} = (IF cb.kind = "tpdo" THEN {cb.pdo} ELSE {})
                  /\ {r \in R : rpdo[r].timer = h} = (IF cb.kind = "rpdo" THEN {cb.pdo} ELSE {})
    <3> DEFINE cb == timers[h].callback
    <3>1. h # NoTimer
      BY <1>2, <2>1, <2>5, LenProperties DEF NoTimer
    <3>2. PICK u \in Users : H[u] = h
      BY <2>4, <2>5 DEF Owned
    <3>3. cb \in DOMAIN Owner /\ Owner[cb] = u
      BY <2>4, <3>1, <3>2 DEF Owned
    <3>4. \A w \in Users : H[w] = h => w = u
      BY <2>4, <3>1, <3>3 DEF Owned
    <3> HIDE DEF cb
    <3>5. /\ cb.pdo = u
          /\ \/ u \in T /\ cb.kind = "tpdo"
             \/ u \in R /\ cb.kind = "rpdo"
      BY <3>3, OwnerFacts
    <3>6. {t \in T : tpdo[t] = h} = (IF cb.kind = "tpdo" THEN {cb.pdo} ELSE {})
      BY <2>4, <3>2, <3>4, <3>5, PdosFinite DEF Users
    <3>7. {r \in R : rpdo[r].timer = h} = (IF cb.kind = "rpdo" THEN {cb.pdo} ELSE {})
      BY <2>4, <3>2, <3>4, <3>5, PdosFinite DEF Users
    <3> QED
      BY <3>6, <3>7 DEF cb
  <2>6. ASSUME NEW h \in Range(tpdo) \cup {rpdo[r].timer : r \in R}, h # NoTimer
        PROVE  h \in DOMAIN timers /\ ~timers[h].available
    <3>1. CASE h \in Range(tpdo)
      <4>1. PICK t \in T : h = tpdo[t]
        BY <1>2, <3>1 DEF Range
      <4> QED
        BY <2>4, <2>6, <4>1 DEF Owned, Users
    <3>2. CASE h \in {rpdo[r].timer : r \in R}
      BY <2>4, <2>6, <3>2 DEF Owned, Users
    <3> QED
      BY <2>6, <3>1, <3>2
  <2> QED
    BY <2>5, <2>6 DEF SlotsOwned
<1> QED
  BY <1>3, <1>4, <1>5, <1>6, <1>7, <1>8 DEF PdoInv

LEMMA InitIInv == Init => IInv
<1> SUFFICES ASSUME Init
             PROVE  IInv
  OBVIOUS
<1>1. timers = <<>> /\ operational = FALSE /\ lost = {}
  BY DEF Init
<1>2. cfg \in [T \cup R -> Config]
  BY DEF Init, Config
<1>3. tpdo \in [T -> Nat] /\ \A t \in T : tpdo[t] = NoTimer
  BY DEF Init, NoTimer
<1>4. rpdo \in [R -> Watch] /\ \A r \in R : rpdo[r].timer = NoTimer
  <2>1. \A r \in R : cfg[r].period \in Periods
    BY <1>2 DEF Config
  <2>2. NoTimer \in Nat /\ 0 \in Nat
    BY DEF NoTimer
  <2> QED
    BY <2>1, <2>2 DEF Init, Watch
<1>5. Tables \in TableType /\ Len(timers) = 0 /\ DOMAIN timers = {}
  <2>1. timers \in Seq(Slots) /\ Len(timers) = 0 /\ DOMAIN timers = {}
    BY <1>1
  <2> QED
    BY <1>3, <1>4, <2>1 DEF TableType, Tables
<1>6. \A u \in Users : Handles(Tables)[u] = NoTimer
  BY <1>3, <1>4 DEF Handles, Users, Tables
<1>7. Owned(timers, Handles(Tables), Owner, Users)
  BY <1>5, <1>6 DEF Owned
<1>8. Sound(Tables)
  <2>1. 0 <= Cardinality(Users) + 1
    BY PdosFinite
  <2> QED
    BY <1>5, <1>7, <2>1 DEF Sound, Tables
<1>9. (\A t \in T : Ticking(Tables, t)) /\ (\A r \in R : Watching(Tables, r, silence[r]))
  BY <1>3, <1>4 DEF Ticking, Watching, Tables
<1>10. Right(Tables, operational, cfg, silence, lost, passedOver)
  BY <1>1, <1>5, <1>8, <1>9 DEF Right, Tables
<1>11. RestOK
  <2>1. 0 \in 0 .. Longest
    BY PeriodFacts
  <2>2. 0 \in 0 .. MaxCalls
    BY CallsAssumption
  <2>3. od \in [Entries -> Entry]
    BY ValuesAssumption DEF Init, Entry
  <2>4. NoPayload \in Seq(Values \cup {Partial})
    BY DEF NoPayload
  <2> QED
    BY <1>2, <2>1, <2>2, <2>3, <2>4 DEF Init, RestOK
<1> QED
  BY <1>10, <1>11 DEF IInv

\* The tables that a step leaves behind.
LEMMA NextTables ==
  ASSUME NEW x, Right(x, operational', cfg', silence', lost', passedOver'), Become(x), RestOK'
  PROVE  IInv'
<1>1. x \in TableType
  BY DEF Right, Sound
<1>2. Tables' = x
  BY <1>1 DEF Become, Tables, TableType
<1>3. Right(Tables', operational', cfg', silence', lost', passedOver')
  BY <1>2
<1> QED
  BY <1>3 DEF IInv

\* The invariant, as the operations on the tables want it.
LEMMA RightTables ==
  ASSUME IInv
  PROVE  /\ Sound(Tables) /\ RestOK
         /\ Tables.timers = timers /\ Tables.tpdo = tpdo /\ Tables.rpdo = rpdo
         /\ Right(Tables, operational, cfg, silence, lost, passedOver)
BY DEF IInv, Right, Tables

\* The bound on calls is kept.
LEMMA CallCounted ==
  ASSUME RestOK, Call
  PROVE  calls' \in 0 .. MaxCalls
BY CallsAssumption DEF RestOK, Call

\* A change of state: all timers end, and in Operational all start again.
LEMMA SetStateStep ==
  ASSUME IInv, NEW op \in BOOLEAN, SetState(op)
  PROVE  IInv'
<1>1. Sound(Tables) /\ RestOK
  BY RightTables
<1>2. /\ operational' = op /\ pdoEnabled' = op /\ silence' = [r \in R |-> 0] /\ lost' = {}
      /\ cfg' = cfg /\ od' = od /\ held' = held /\ sent' = sent
      /\ passedOver' = IF op THEN {p \in T \cup R : ~Readable(p, held)} \cup (R \ RpdosReached)
                       ELSE {}
      /\ calls' \in 0 .. MaxCalls
  BY <1>1, CallCounted DEF SetState
<1>3. cfg \in [T \cup R -> Config]
  BY <1>1 DEF RestOK
<1>4. RestOK'
  <2>1. 0 \in 0 .. Longest
    BY PeriodFacts
  <2>2. passedOver' \subseteq T \cup R
    BY <1>2
  <2>3. silence' \in [R -> 0 .. Longest] /\ lost' \subseteq R
    BY <1>2, <2>1
  <2>4. operational' \in BOOLEAN /\ pdoEnabled' = operational'
    BY <1>2
  <2> QED
    BY <1>1, <1>2, <2>2, <2>3, <2>4 DEF RestOK
<1>5. CASE op
  <2>1. PICK stagger \in [T -> 0 .. 2 * Longest] : Become(EnablePdoEvents(Tables, stagger))
    BY <1>5 DEF SetState
  <2> DEFINE x == EnablePdoEvents(Tables, stagger)
  <2>2. stagger \in [T -> Nat]
    <3>1. 0 .. 2 * Longest \subseteq Nat
      BY PeriodFacts
    <3> QED
      BY <3>1
  <2>3. /\ Sound(x)
        /\ \A t \in T : Ticking(x, t) /\ (Settable(t) => TimedAt(x, t, cfg[t].period))
        /\ \A r \in R : Watching(x, r, 0)
    BY <1>1, <1>3, <2>2, EnableFacts
  <2> HIDE DEF x
  <2>4. ASSUME NEW t \in T \ passedOver', cfg'[t].enabled, cfg'[t].period # 0
        PROVE  TimedAt(x, t, cfg'[t].period)
    <3>1. Settable(t)
      BY <1>2, <1>5, <2>4 DEF Settable
    <3> QED
      BY <1>2, <2>3, <3>1
  <2>5. Right(x, operational', cfg', silence', lost', passedOver')
    BY <1>2, <1>5, <2>3, <2>4 DEF Right
  <2>6. Become(x)
    BY <2>1 DEF x
  <2> QED
    BY <1>4, <2>5, <2>6, NextTables
<1>6. CASE ~op
  <2> DEFINE x == DisablePdoEvents(Tables)
  <2>1. Become(x)
    BY <1>6 DEF SetState
  <2>2. /\ Sound(x)
        /\ \A t \in T : x.tpdo[t] = NoTimer
        /\ \A r \in R : x.rpdo[r].timer = NoTimer
        /\ \A h \in DOMAIN x.timers : x.timers[h].available /\ ~x.timers[h].enable
    BY <1>1, DisableFacts
  <2> HIDE DEF x
  <2>3. Right(x, operational', cfg', silence', lost', passedOver')
    BY <1>2, <1>6, <2>2 DEF Right, Ticking, Watching
  <2> QED
    BY <1>4, <2>1, <2>3, NextTables
<1> QED
  BY <1>5, <1>6

\* The PDO p is set up as c says.
LEMMA ConfigureRest ==
  ASSUME RestOK, NEW p \in T \cup R, NEW c \in Config, Configure(p, c),
         UNCHANGED <<operational, pdoEnabled, od, sent>>,
         silence' \in [R -> 0 .. Longest], lost' \subseteq R
  PROVE  /\ RestOK' /\ cfg' = [cfg EXCEPT ![p] = c] /\ cfg'[p] = c
         /\ \A w \in (T \cup R) \ {p} : cfg'[w] = cfg[w]
         /\ operational /\ p \notin passedOver' => Readable(p, held')
         /\ passedOver \subseteq passedOver' \cup {p}
<1>1. cfg' = [cfg EXCEPT ![p] = c] /\ held' \subseteq Parameters /\ calls' \in 0 .. MaxCalls
  BY CallCounted DEF Configure, RestOK
<1>2. cfg \in [T \cup R -> Config]
  BY DEF RestOK
<1>3. cfg' \in [T \cup R -> Config] /\ cfg'[p] = c
      /\ \A w \in (T \cup R) \ {p} : cfg'[w] = cfg[w]
  BY <1>1, <1>2
<1>4. passedOver' = IF ~pdoEnabled THEN passedOver
                    ELSE IF Readable(p, held') THEN passedOver \ {p} ELSE passedOver \cup {p}
  BY DEF Configure
<1>5. passedOver' \subseteq T \cup R /\ passedOver \subseteq passedOver' \cup {p}
  BY <1>4 DEF RestOK
<1>6. operational /\ p \notin passedOver' => Readable(p, held')
  BY <1>4 DEF RestOK
<1>7. RestOK'
  BY <1>1, <1>3, <1>5 DEF RestOK
<1> QED
  BY <1>1, <1>3, <1>5, <1>6, <1>7

LEMMA ConfigureTpdoStep ==
  ASSUME IInv, NEW t \in T, NEW c \in Config, ConfigureTpdo(t, c)
  PROVE  IInv'
<1>1. /\ Sound(Tables) /\ RestOK
      /\ Right(Tables, operational, cfg, silence, lost, passedOver)
  BY RightTables
<1>2. /\ Configure(t, c) /\ UNCHANGED <<operational, pdoEnabled, od, sent, silence, lost>>
      /\ IF pdoEnabled
         THEN \E stagger \in Staggers(c.period) \cup {0} :
                Become(EnableTpdoEvent(Tables, t, c, held', stagger))
         ELSE UNCHANGED eventVars
  BY DEF ConfigureTpdo
<1>3. /\ RestOK' /\ cfg'[t] = c
      /\ \A w \in (T \cup R) \ {t} : cfg'[w] = cfg[w]
      /\ operational /\ t \notin passedOver' => Readable(t, held')
      /\ passedOver \subseteq passedOver' \cup {t}
  BY <1>1, <1>2, ConfigureRest DEF RestOK
<1>4. t \in Users /\ t \notin R
  BY PdosFinite DEF Users
<1>5. CASE ~operational
  <2>1. ~pdoEnabled
    BY <1>1, <1>5 DEF RestOK
  <2>2. Become(Tables)
    BY <1>2, <2>1 DEF Become, Tables, eventVars
  <2>3. Right(Tables, operational', cfg', silence', lost', passedOver')
    BY <1>1, <1>2, <1>5 DEF Right
  <2> QED
    BY <1>3, <2>2, <2>3, NextTables
<1>6. CASE operational
  <2>1. pdoEnabled
    BY <1>1, <1>6 DEF RestOK
  <2>2. PICK stagger \in Staggers(c.period) \cup {0} :
          Become(EnableTpdoEvent(Tables, t, c, held', stagger))
    BY <1>2, <2>1
  <2>3. stagger \in Nat
    <3>1. c.period \in Nat
      BY PeriodFacts DEF Config
    <3> QED
      BY <3>1 DEF Staggers
  <2> DEFINE x == EnableTpdoEvent(Tables, t, c, held', stagger)
  <2>4. \/ x = Tables /\ (~Readable(t, held') \/ ~c.enabled \/ c.period = 0)
        \/ /\ Sound(x) /\ Only(t, Tables, x) /\ x.rpdo = Tables.rpdo /\ x.tpdo[t] # NoTimer
           /\ x.timers[x.tpdo[t]] = Periodic(c.period, stagger, SendOf(t))
    BY <1>1, <2>3, TpdoEventFacts
  <2>5. Become(x)
    BY <2>2
  <2> HIDE DEF x
  <2>6. CASE x = Tables /\ (~Readable(t, held') \/ ~c.enabled \/ c.period = 0)
    <3>1. ASSUME NEW w \in T \ passedOver', cfg'[w].enabled, cfg'[w].period # 0
          PROVE  TimedAt(x, w, cfg'[w].period)
      <4>1. w # t
        BY <1>3, <1>6, <2>6, <3>1
      <4>2. w \in T \ passedOver /\ cfg'[w] = cfg[w]
        BY <1>3, <3>1, <4>1
      <4> QED
        BY <1>1, <1>6, <2>6, <3>1, <4>2 DEF Right
    <3>2. Right(x, operational', cfg', silence', lost', passedOver')
      BY <1>1, <1>2, <1>6, <2>6, <3>1 DEF Right
    <3> QED
      BY <1>3, <2>5, <3>2, NextTables
  <2>7. CASE /\ Sound(x) /\ Only(t, Tables, x) /\ x.rpdo = Tables.rpdo /\ x.tpdo[t] # NoTimer
             /\ x.timers[x.tpdo[t]] = Periodic(c.period, stagger, SendOf(t))
    <3>1. Ticking(x, t) /\ TimedAt(x, t, c.period)
      BY <2>7 DEF Ticking, TimedAt, Periodic
    <3>2. \A w \in T : Ticking(x, w)
      <4>1. \A w \in T : Ticking(Tables, w)
        BY <1>1 DEF Right
      <4> QED
        BY <1>4, <2>7, <3>1, <4>1, OnlyKeeps
    <3>3. \A r \in R : Watching(x, r, silence[r])
      <4>1. \A r \in R : Watching(Tables, r, silence[r])
        BY <1>1 DEF Right
      <4> QED
        BY <1>4, <2>7, <4>1, OnlyKeeps
    <3>4. ASSUME NEW w \in T \ passedOver', cfg'[w].enabled, cfg'[w].period # 0
          PROVE  TimedAt(x, w, cfg'[w].period)
      <4>1. CASE w = t
        BY <1>3, <3>1, <4>1
      <4>2. CASE w # t
        <5>1. w \in T \ passedOver /\ cfg'[w] = cfg[w]
          BY <1>3, <3>4, <4>2
        <5>2. TimedAt(Tables, w, cfg[w].period)
          BY <1>1, <1>6, <3>4, <5>1 DEF Right
        <5> QED
          BY <1>4, <2>7, <4>2, <5>1, <5>2, OnlyKeeps
      <4> QED
        BY <4>1, <4>2
    <3>5. \A r \in lost : silence[r] >= x.rpdo[r].periodMs
      BY <1>1, <2>7 DEF Right
    <3>6. Right(x, operational', cfg', silence', lost', passedOver')
      BY <1>2, <1>6, <2>7, <3>2, <3>3, <3>4, <3>5 DEF Right
    <3> QED
      BY <1>3, <2>5, <3>6, NextTables
  <2> QED
    BY <2>4, <2>6, <2>7
<1> QED
  BY <1>5, <1>6

\* The timeout of r starts again, and with it the silence.
LEMMA RestartRight ==
  ASSUME IInv, operational, NEW r \in R, NEW x,
         Sound(x), Only(r, Tables, x), Watching(x, r, 0), Started(r),
         operational' = operational, \A t \in T : cfg'[t] = cfg[t],
         passedOver \subseteq passedOver' \cup {r}
  PROVE  /\ Right(x, operational', cfg', silence', lost', passedOver')
         /\ silence' \in [R -> 0 .. Longest] /\ lost' \subseteq R
<1>1. Right(Tables, operational, cfg, silence, lost, passedOver) /\ RestOK
  BY RightTables
<1>2. r \in Users /\ r \notin T
  BY PdosFinite DEF Users
<1>3. /\ silence \in [R -> 0 .. Longest] /\ lost \subseteq R
      /\ silence' = [silence EXCEPT ![r] = 0] /\ lost' = lost \ {r}
  BY <1>1 DEF RestOK, Started
<1>4. silence'[r] = 0 /\ \A w \in R \ {r} : silence'[w] = silence[w]
  BY <1>3
<1>5. silence' \in [R -> 0 .. Longest] /\ lost' \subseteq R
  <2>1. 0 \in 0 .. Longest
    BY PeriodFacts
  <2> QED
    BY <1>3, <2>1
<1>6. \A t \in T : Ticking(x, t)
  <2>1. \A t \in T : Ticking(Tables, t)
    BY <1>1 DEF Right
  <2> QED
    BY <1>2, <2>1, OnlyKeeps
<1>7. ASSUME NEW w \in R
      PROVE  Watching(x, w, silence'[w])
  <2>1. CASE w = r
    BY <1>4, <2>1
  <2>2. CASE w # r
    <3>1. Watching(Tables, w, silence[w])
      BY <1>1 DEF Right
    <3> QED
      BY <1>2, <1>4, <2>2, <3>1, OnlyKeeps
  <2> QED
    BY <2>1, <2>2
<1>8. ASSUME NEW t \in T \ passedOver', cfg'[t].enabled, cfg'[t].period # 0
      PROVE  TimedAt(x, t, cfg'[t].period)
  <2>1. t \in T \ passedOver /\ t # r /\ cfg'[t] = cfg[t]
    BY <1>2
  <2>2. TimedAt(Tables, t, cfg[t].period)
    BY <1>1, <1>8, <2>1 DEF Right
  <2> QED
    BY <1>2, <2>1, <2>2, OnlyKeeps
<1>9. ASSUME NEW w \in lost'
      PROVE  silence'[w] >= x.rpdo[w].periodMs
  <2>1. w \in R \ {r} /\ w \in lost
    BY <1>3
  <2>2. x.rpdo[w].periodMs = Tables.rpdo[w].periodMs
    BY <1>2, <2>1, OnlyKeeps
  <2>3. silence[w] >= Tables.rpdo[w].periodMs
    BY <1>1, <2>1 DEF Right
  <2> QED
    BY <1>4, <2>1, <2>2, <2>3
<1>10. Right(x, operational', cfg', silence', lost', passedOver')
  BY <1>6, <1>7, <1>8, <1>9 DEF Right
<1> QED
  BY <1>5, <1>10

LEMMA ConfigureRpdoStep ==
  ASSUME IInv, NEW r \in R, NEW c \in Config, ConfigureRpdo(r, c)
  PROVE  IInv'
<1>1. /\ Sound(Tables) /\ RestOK
      /\ Right(Tables, operational, cfg, silence, lost, passedOver)
  BY RightTables
<1>2. /\ Configure(r, c) /\ UNCHANGED <<operational, pdoEnabled, od, sent>>
      /\ IF pdoEnabled /\ Readable(r, held') /\ c.enabled /\ c.period # 0
         THEN Become(EnableRpdoEvent(Tables, r, c, held')) /\ Started(r)
         ELSE UNCHANGED <<eventVars, silence, lost>>
  BY DEF ConfigureRpdo
<1>3. r \notin T
  BY PdosFinite
<1>4. ASSUME silence' \in [R -> 0 .. Longest], lost' \subseteq R
      PROVE  RestOK'
  BY <1>1, <1>2, <1>4, ConfigureRest
<1>5. (\A t \in T : cfg'[t] = cfg[t]) /\ passedOver \subseteq passedOver' \cup {r}
  <2>1. cfg' = [cfg EXCEPT ![r] = c] /\ cfg \in [T \cup R -> Config]
    BY <1>1, <1>2 DEF Configure, RestOK
  <2>2. passedOver \subseteq passedOver' \cup {r}
    BY <1>2 DEF Configure
  <2> QED
    BY <1>3, <2>1, <2>2
<1>6. CASE pdoEnabled /\ Readable(r, held') /\ c.enabled /\ c.period # 0
  <2> DEFINE x == EnableRpdoEvent(Tables, r, c, held')
  <2>1. Become(x) /\ Started(r) /\ operational /\ operational' = operational
    BY <1>1, <1>2, <1>6 DEF RestOK
  <2>2. Sound(x) /\ Only(r, Tables, x) /\ Watching(x, r, 0)
    BY <1>1, <1>6, RpdoEventFacts
  <2> HIDE DEF x
  <2>3. /\ Right(x, operational', cfg', silence', lost', passedOver')
        /\ silence' \in [R -> 0 .. Longest] /\ lost' \subseteq R
    BY <1>5, <2>1, <2>2, RestartRight
  <2> QED
    BY <1>4, <2>1, <2>3, NextTables
<1>7. CASE ~ (pdoEnabled /\ Readable(r, held') /\ c.enabled /\ c.period # 0)
  <2>1. UNCHANGED <<eventVars, silence, lost>>
    BY <1>2, <1>7
  <2>2. Become(Tables) /\ silence' = silence /\ lost' = lost
    BY <2>1 DEF Become, Tables, eventVars
  <2>3. \A t \in T \ passedOver' : t \in T \ passedOver
    BY <1>3, <1>5
  <2>4. Right(Tables, operational', cfg', silence', lost', passedOver')
    BY <1>1, <1>2, <1>5, <2>2, <2>3 DEF Right
  <2>5. silence' \in [R -> 0 .. Longest] /\ lost' \subseteq R
    BY <1>1, <2>2 DEF RestOK
  <2> QED
    BY <1>4, <2>2, <2>4, <2>5, NextTables
<1> QED
  BY <1>6, <1>7

\* What the tables are does not depend on the dictionary and on what is sent.
LEMMA TablesKept ==
  ASSUME IInv, UNCHANGED <<eventVars, operational, cfg, silence, lost, passedOver>>, RestOK'
  PROVE  IInv'
<1>1. Right(Tables, operational, cfg, silence, lost, passedOver)
  BY RightTables
<1>2. Become(Tables)
  BY DEF Become, Tables, eventVars
<1>3. Right(Tables, operational', cfg', silence', lost', passedOver')
  BY <1>1
<1> QED
  BY <1>2, <1>3, NextTables

\* A transfer takes or lets go an entry of a PDO's own; one that breaks off may
\* leave another period.
LEMMA ParameterStep ==
  ASSUME IInv, NEW p \in T \cup R, NEW sub \in Subs,
         SdoHoldsParameter(p, sub) \/ SdoReleasesParameter(p, sub)
  PROVE  IInv'
<1>1. RestOK /\ Right(Tables, operational, cfg, silence, lost, passedOver)
  BY RightTables
<1>2. /\ held' \subseteq Parameters /\ calls' \in 0 .. MaxCalls
      /\ UNCHANGED <<eventVars, operational, pdoEnabled, od, sent, silence, lost>>
  BY <1>1, CallCounted DEF SdoHoldsParameter, SdoReleasesParameter, RestOK
<1>3. CASE UNCHANGED <<cfg, passedOver>>
  <2>1. RestOK'
    BY <1>1, <1>2, <1>3 DEF RestOK
  <2> QED
    BY <1>2, <1>3, <2>1, TablesKept
<1>4. CASE /\ \E m \in Periods : cfg' = [cfg EXCEPT ![p].period = m]
           /\ passedOver' = IF pdoEnabled THEN passedOver \cup {p} ELSE passedOver
  <2>1. cfg \in [T \cup R -> Config] /\ pdoEnabled = operational
    BY <1>1 DEF RestOK
  <2>2. PICK m \in Periods : cfg' = [cfg EXCEPT ![p] = [cfg[p] EXCEPT !.period = m]]
    BY <1>4, <2>1
  <2>3. [cfg[p] EXCEPT !.period = m] \in Config
    BY <2>1 DEF Config
  <2>4. cfg' \in [T \cup R -> Config] /\ \A w \in (T \cup R) \ {p} : cfg'[w] = cfg[w]
    BY <2>1, <2>2, <2>3
  <2>5. passedOver' \subseteq T \cup R
    BY <1>1, <1>4 DEF RestOK
  <2>6. RestOK'
    BY <1>1, <1>2, <2>4, <2>5 DEF RestOK
  <2>7. ASSUME NEW t \in T \ passedOver', operational, cfg'[t].enabled, cfg'[t].period # 0
        PROVE  TimedAt(Tables, t, cfg'[t].period)
    <3>1. t \in T \ passedOver /\ cfg'[t] = cfg[t]
      BY <1>4, <2>1, <2>4, <2>7
    <3> QED
      BY <1>1, <2>7, <3>1 DEF Right
  <2>8. Right(Tables, operational', cfg', silence', lost', passedOver')
    BY <1>1, <1>2, <2>7 DEF Right
  <2>9. Become(Tables)
    BY <1>2 DEF Become, Tables, eventVars
  <2> QED
    BY <2>6, <2>8, <2>9, NextTables
<1> QED
  BY <1>3, <1>4 DEF SdoHoldsParameter, SdoReleasesParameter

\* A payload is a sequence of values.
LEMMA SentType ==
  ASSUME RestOK, NEW S
  PROVE  SentAfter(S) \in [T -> Seq(Values \cup {Partial})]
<1>1. ASSUME NEW t \in T
      PROVE  Payload(t) \in Seq(Values \cup {Partial})
  <2>1. Map(t) \in Seq(Entries)
    BY PdosAssumption DEF T
  <2>2. DOMAIN Map(t) = 1 .. Len(Map(t)) /\ Len(Map(t)) \in Nat
    BY <2>1, LenProperties
  <2>3. \A k \in 1 .. Len(Map(t)) : od[Map(t)[k]].value \in Values \cup {Partial}
    <3>1. \A k \in 1 .. Len(Map(t)) : Map(t)[k] \in Entries
      BY <2>1, ElementOfSeq
    <3> QED
      BY <3>1 DEF RestOK, Entry
  <2>4. [k \in 1 .. Len(Map(t)) |-> od[Map(t)[k]].value] \in Seq(Values \cup {Partial})
    BY <2>2, <2>3, IsASeq
  <2> QED
    BY <2>2, <2>4 DEF Payload
<1>2. sent \in [T -> Seq(Values \cup {Partial})]
  BY DEF RestOK
<1> QED
  BY <1>1, <1>2 DEF SentAfter

\* Sending keeps the type of what was sent.
LEMMA SendTxPdoType ==
  ASSUME RestOK, NEW t \in T, SendTxPdo(t)
  PROVE  sent' \in [T -> Seq(Values \cup {Partial})]
BY SentType DEF SendTxPdo

\* A pass of the timers over the table moves no handle and arms nothing.
LEMMA TimedPasses ==
  ASSUME IInv, NEW r, r \in Seq(Slots), Len(r) = Len(timers), DOMAIN r = DOMAIN timers,
         \A g \in DOMAIN timers :
           /\ r[g].available = timers[g].available /\ r[g].callback = timers[g].callback
           /\ r[g].enable => timers[g].enable,
         NEW x, x = [timers |-> r, tpdo |-> tpdo, rpdo |-> rpdo]
  PROVE  /\ Sound(x) /\ Handles(x) = Handles(Tables)
         /\ operational \/ \A h \in DOMAIN r : r[h].available /\ ~r[h].enable
<1>1. /\ Sound(Tables)
      /\ Tables.timers = timers /\ Tables.tpdo = tpdo /\ Tables.rpdo = rpdo
      /\ Right(Tables, operational, cfg, silence, lost, passedOver)
  BY RightTables
<1>2. Handles(x) = Handles(Tables)
  BY <1>1 DEF Handles
<1>3. Owned(r, Handles(x), Owner, Users)
  <2>1. Owned(timers, Handles(x), Owner, Users)
    BY <1>1, <1>2 DEF Sound
  <2> QED
    BY <2>1, SameOwners
<1>4. x \in TableType
  BY <1>1 DEF Sound, TableType
<1>5. Sound(x)
  BY <1>1, <1>2, <1>3, <1>4 DEF Sound
<1>6. operational \/ \A h \in DOMAIN r : r[h].available /\ ~r[h].enable
  BY <1>1 DEF Right
<1> QED
  BY <1>2, <1>5, <1>6

\* A timer served is armed again exactly if it repeats.
LEMMA ServedFields ==
  ASSUME NEW C, NEW ts \in Seq(SlotType(Nat, C)), NEW h \in Due(ts)
  PROVE  LET r == Served(ts, h)
         IN /\ r[h].repeat = ts[h].repeat /\ r[h].interval = ts[h].interval
            /\ r[h].enable <=> ts[h].repeat
<1>1. h \in DOMAIN ts /\ ts[h].enable
  BY DEF Due
<1>2. ts[h] \in SlotType(Nat, C)
  BY <1>1, LenProperties, ElementOfSeq
<1>3. CASE ts[h].repeat
  <2>1. Served(ts, h)[h] = [ts[h] EXCEPT !.left = ts[h].interval]
    BY <1>1, <1>3 DEF Served
  <2> QED
    BY <1>1, <1>2, <1>3, <2>1 DEF SlotType
<1>4. CASE ~ts[h].repeat
  <2>1. Served(ts, h)[h] = [ts[h] EXCEPT !.enable = FALSE]
    BY <1>1, <1>4 DEF Served
  <2> QED
    BY <1>2, <1>4, <2>1 DEF SlotType
<1> QED
  BY <1>3, <1>4

\* Time changes neither the interval of a timer nor whether it repeats.
LEMMA ElapsedFields ==
  ASSUME NEW C, NEW ts \in Seq(SlotType(Nat, C)), NEW g \in DOMAIN ts
  PROVE  Elapsed(ts)[g].repeat = ts[g].repeat /\ Elapsed(ts)[g].interval = ts[g].interval
<1>1. ts[g] \in SlotType(Nat, C)
  BY LenProperties, ElementOfSeq
<1>2. Elapsed(ts)[g] = IF ts[g].enable /\ ts[g].left > 0 THEN [ts[g] EXCEPT !.left = @ - 1] ELSE ts[g]
  BY DEF Elapsed
<1>3. \A v : /\ [ts[g] EXCEPT !.left = v].repeat = ts[g].repeat
             /\ [ts[g] EXCEPT !.left = v].interval = ts[g].interval
  BY <1>1 DEF SlotType
<1> QED
  BY <1>2, <1>3

\* A timer that is due is in use, and its callback tells whose it is.
LEMMA DueOwner ==
  ASSUME IInv, NEW h \in Due(timers)
  PROVE  LET u == timers[h].callback.pdo
         IN /\ h \in DOMAIN timers /\ h # NoTimer /\ timers[h].enable /\ timers[h].left = 0
            /\ timers[h].callback \in Callbacks
            /\ u \in Users /\ Handles(Tables)[u] = h
            /\ \A w \in Users \ {u} : Handles(Tables)[w] # h
<1> DEFINE cb == timers[h].callback
<1>1. Owned(timers, Handles(Tables), Owner, Users) /\ timers \in Seq(Slots)
  BY RightTables DEF Sound, TableType
<1>2. h \in DOMAIN timers /\ timers[h].enable /\ timers[h].left = 0
  BY DEF Due
<1>3. h # NoTimer
  <2>1. DOMAIN timers = 1 .. Len(timers)
    BY <1>1, LenProperties
  <2> QED
    BY <1>2, <2>1 DEF NoTimer
<1>4. ~timers[h].available
  BY <1>1, <1>2 DEF Owned
<1>5. PICK u \in Users : Handles(Tables)[u] = h
  BY <1>1, <1>2, <1>4 DEF Owned
<1>6. cb \in DOMAIN Owner /\ Owner[cb] = u
  BY <1>1, <1>3, <1>5 DEF Owned
<1>7. \A w \in Users \ {u} : Handles(Tables)[w] # h
  BY <1>1, <1>3, <1>6 DEF Owned
<1> HIDE DEF cb
<1>8. cb \in Callbacks /\ cb.pdo = u
  BY <1>6, OwnerFacts
<1> QED
  BY <1>2, <1>3, <1>5, <1>7, <1>8 DEF cb

\* The handles are those of the two maps.
LEMMA HandleOfTables ==
  /\ \A t \in T : Handles(Tables)[t] = tpdo[t]
  /\ \A r \in R : Handles(Tables)[r] = rpdo[r].timer
BY PdosFinite DEF Handles, Tables, Users

\* A timer of a TPDO goes on.
LEMMA TpdoTimerStep ==
  ASSUME IInv, NEW h, TpdoTimer(h)
  PROVE  IInv'
<1> DEFINE x == [timers |-> Served(timers, h), tpdo |-> tpdo, rpdo |-> rpdo]
           t == timers[h].callback.pdo
<1>1. /\ h \in Due(timers) /\ timers[h].callback.kind = "tpdo"
      /\ timers' = Served(timers, h) /\ SendTxPdo(t)
      /\ UNCHANGED <<tpdo, rpdo, operational, pdoEnabled, cfg, od, paramVars, silence, lost, calls>>
  BY DEF TpdoTimer
<1>2. /\ Sound(Tables) /\ RestOK /\ timers \in Seq(Slots)
      /\ Right(Tables, operational, cfg, silence, lost, passedOver)
      /\ Tables.timers = timers /\ Tables.tpdo = tpdo /\ Tables.rpdo = rpdo
  BY RightTables DEF Sound, TableType
<1>3. /\ h \in DOMAIN timers /\ h # NoTimer
      /\ timers[h].callback \in Callbacks /\ t \in Users
      /\ Handles(Tables)[t] = h
      /\ \A w \in Users \ {t} : Handles(Tables)[w] # h
  BY <1>1, DueOwner
<1>4. t \in T /\ tpdo[t] = h /\ timers[h].enable /\ timers[h].repeat
  <2>1. t \in T
    BY <1>1, <1>3, OwnerFacts
  <2>2. tpdo[t] = h
    BY <1>3, <2>1, HandleOfTables
  <2>3. Ticking(Tables, t)
    BY <1>2, <2>1 DEF Right
  <2> QED
    BY <1>2, <1>3, <2>1, <2>2, <2>3 DEF Ticking
<1> HIDE DEF t
<1>5. /\ x.timers \in Seq(Slots) /\ Len(x.timers) = Len(timers) /\ DOMAIN x.timers = DOMAIN timers
      /\ \A g \in DOMAIN timers :
           /\ x.timers[g].available = timers[g].available
           /\ x.timers[g].callback = timers[g].callback
           /\ x.timers[g].enable => timers[g].enable
      /\ \A g \in DOMAIN timers : g # h => x.timers[g] = timers[g]
      /\ x.timers[h].repeat = timers[h].repeat /\ x.timers[h].interval = timers[h].interval
      /\ x.timers[h].enable <=> timers[h].repeat
  BY <1>1, <1>2, ServedFacts, ServedFields DEF Slots
<1>6. x = [timers |-> x.timers, tpdo |-> tpdo, rpdo |-> rpdo] /\ x.tpdo = tpdo /\ x.rpdo = rpdo
  OBVIOUS
<1>7. Become(x)
  BY <1>1 DEF Become
<1> HIDE DEF x
<1>8. /\ Sound(x)
      /\ operational \/ \A g \in DOMAIN x.timers : x.timers[g].available /\ ~x.timers[g].enable
  BY <1>5, <1>6, TimedPasses
<1>9. /\ \A w \in T : tpdo[w] # NoTimer => tpdo[w] \in DOMAIN timers
      /\ \A w \in R : rpdo[w].timer # NoTimer => rpdo[w].timer \in DOMAIN timers /\ rpdo[w].timer # h
  <2>1. \A w \in Users : Handles(Tables)[w] # NoTimer => Handles(Tables)[w] \in DOMAIN timers
    BY <1>2 DEF Sound, Owned
  <2> QED
    BY <1>3, <1>4, <2>1, HandleOfTables, PdosFinite DEF Users
<1>10. \A w \in T : Ticking(x, w)
  <2>1. ASSUME NEW w \in T, tpdo[w] # NoTimer
        PROVE  x.timers[tpdo[w]].enable /\ x.timers[tpdo[w]].repeat
    <3>1. Ticking(Tables, w)
      BY <1>2 DEF Right
    <3>2. timers[tpdo[w]].enable /\ timers[tpdo[w]].repeat /\ tpdo[w] \in DOMAIN timers
      BY <1>2, <1>9, <2>1, <3>1 DEF Ticking
    <3>3. CASE tpdo[w] = h
      BY <1>4, <1>5, <3>3
    <3>4. CASE tpdo[w] # h
      BY <1>5, <3>2, <3>4
    <3> QED
      BY <3>3, <3>4
  <2> QED
    BY <1>6, <2>1 DEF Ticking
<1>11. \A w \in R : Watching(x, w, silence[w])
  <2>1. \A w \in R : Watching(Tables, w, silence[w])
    BY <1>2 DEF Right
  <2> QED
    BY <1>2, <1>5, <1>6, <1>9, <2>1 DEF Watching
<1>12. \A p : \A w \in T : TimedAt(Tables, w, p) => TimedAt(x, w, p)
  BY <1>2, <1>4, <1>5, <1>6, <1>9 DEF TimedAt
<1>13. Right(x, operational, cfg, silence, lost, passedOver)
  BY <1>2, <1>6, <1>8, <1>10, <1>11, <1>12 DEF Right
<1>14. Right(x, operational', cfg', silence', lost', passedOver')
  BY <1>1, <1>13 DEF paramVars
<1>15. RestOK'
  <2>1. sent' \in [T -> Seq(Values \cup {Partial})]
    BY <1>1, <1>2, <1>4, SendTxPdoType
  <2> QED
    BY <1>1, <1>2, <2>1 DEF RestOK, paramVars
<1> QED
  BY <1>7, <1>14, <1>15, NextTables

\* A timeout stops; it is reported when the silence has lasted for it.
LEMMA RpdoTimeoutStep ==
  ASSUME IInv, NEW h, RpdoTimeout(h)
  PROVE  IInv'
<1> DEFINE x == [timers |-> Served(timers, h), tpdo |-> tpdo, rpdo |-> rpdo]
           r == timers[h].callback.pdo
<1>1. /\ h \in Due(timers) /\ timers[h].callback.kind = "rpdo"
      /\ timers' = Served(timers, h)
      /\ lost' = IF rpdo[r].generation = timers[h].callback.generation THEN lost \cup {r} ELSE lost
      /\ UNCHANGED <<tpdo, rpdo, operational, pdoEnabled, cfg, od, paramVars, sent, silence, calls>>
  BY DEF RpdoTimeout
<1>2. /\ Sound(Tables) /\ RestOK /\ timers \in Seq(Slots)
      /\ Right(Tables, operational, cfg, silence, lost, passedOver)
      /\ Tables.timers = timers /\ Tables.tpdo = tpdo /\ Tables.rpdo = rpdo
  BY RightTables DEF Sound, TableType
<1>3. /\ h \in DOMAIN timers /\ h # NoTimer /\ timers[h].enable /\ timers[h].left = 0
      /\ timers[h].callback \in Callbacks /\ r \in Users
      /\ Handles(Tables)[r] = h
      /\ \A w \in Users \ {r} : Handles(Tables)[w] # h
  BY <1>1, DueOwner
<1>4. r \in R /\ r \notin T /\ rpdo[r].timer = h
  <2>1. r \in R
    BY <1>1, <1>3, OwnerFacts
  <2> QED
    BY <1>3, <2>1, HandleOfTables, PdosFinite
<1>5. Watching(Tables, r, silence[r])
  BY <1>2, <1>4 DEF Right
<1>6. ~timers[h].repeat /\ silence[r] >= rpdo[r].periodMs
  <2>1. ~timers[h].repeat /\ silence[r] + timers[h].left >= rpdo[r].periodMs
    BY <1>2, <1>3, <1>4, <1>5 DEF Watching
  <2>2. silence[r] \in Nat
    BY <1>2, <1>4, PeriodFacts DEF RestOK
  <2> QED
    BY <1>3, <2>1, <2>2
<1> HIDE DEF r
<1>7. /\ x.timers \in Seq(Slots) /\ Len(x.timers) = Len(timers) /\ DOMAIN x.timers = DOMAIN timers
      /\ \A g \in DOMAIN timers :
           /\ x.timers[g].available = timers[g].available
           /\ x.timers[g].callback = timers[g].callback
           /\ x.timers[g].enable => timers[g].enable
      /\ \A g \in DOMAIN timers : g # h => x.timers[g] = timers[g]
      /\ x.timers[h].repeat = timers[h].repeat /\ x.timers[h].interval = timers[h].interval
      /\ x.timers[h].enable <=> timers[h].repeat
  BY <1>1, <1>2, ServedFacts, ServedFields DEF Slots
<1>8. x = [timers |-> x.timers, tpdo |-> tpdo, rpdo |-> rpdo] /\ x.tpdo = tpdo /\ x.rpdo = rpdo
  OBVIOUS
<1>9. Become(x)
  BY <1>1 DEF Become
<1> HIDE DEF x
<1>10. /\ Sound(x)
       /\ operational \/ \A g \in DOMAIN x.timers : x.timers[g].available /\ ~x.timers[g].enable
  BY <1>7, <1>8, TimedPasses
<1>11. /\ \A w \in T : tpdo[w] # NoTimer => tpdo[w] \in DOMAIN timers /\ tpdo[w] # h
       /\ \A w \in R \ {r} : rpdo[w].timer # NoTimer =>
                               rpdo[w].timer \in DOMAIN timers /\ rpdo[w].timer # h
  <2>1. \A w \in Users : Handles(Tables)[w] # NoTimer => Handles(Tables)[w] \in DOMAIN timers
    BY <1>2 DEF Sound, Owned
  <2> QED
    BY <1>3, <1>4, <2>1, HandleOfTables, PdosFinite DEF Users
<1>12. /\ \A w \in T : Ticking(x, w)
       /\ \A p : \A w \in T : TimedAt(Tables, w, p) => TimedAt(x, w, p)
  <2>1. \A w \in T : Ticking(Tables, w)
    BY <1>2 DEF Right
  <2> QED
    BY <1>2, <1>7, <1>8, <1>11, <2>1 DEF Ticking, TimedAt
<1>13. \A w \in R : Watching(x, w, silence[w])
  <2>1. \A w \in R : Watching(Tables, w, silence[w])
    BY <1>2 DEF Right
  <2>2. Watching(x, r, silence[r])
    BY <1>2, <1>3, <1>4, <1>5, <1>6, <1>7, <1>8 DEF Watching
  <2>3. \A w \in R \ {r} : Watching(x, w, silence[w])
    BY <1>2, <1>7, <1>8, <1>11, <2>1 DEF Watching
  <2> QED
    BY <2>2, <2>3
<1>14. \A w \in lost' : silence[w] >= x.rpdo[w].periodMs
  BY <1>1, <1>2, <1>6, <1>8 DEF Right
<1>15. Right(x, operational, cfg, silence, lost', passedOver)
  BY <1>2, <1>10, <1>12, <1>13, <1>14 DEF Right
<1>16. Right(x, operational', cfg', silence', lost', passedOver')
  BY <1>1, <1>15 DEF paramVars
<1>17. RestOK'
  <2>1. lost' \subseteq R
    BY <1>1, <1>2, <1>4 DEF RestOK
  <2> QED
    BY <1>1, <1>2, <2>1 DEF RestOK, paramVars
<1> QED
  BY <1>9, <1>16, <1>17, NextTables

\* With the clock the silence grows as the time to a timeout shrinks.
LEMMA TickStep ==
  ASSUME IInv, Tick
  PROVE  IInv'
<1> DEFINE x == [timers |-> Elapsed(timers), tpdo |-> tpdo, rpdo |-> rpdo]
<1>1. /\ timers' = Elapsed(timers)
      /\ silence' = [r \in R |-> IF silence[r] < Longest THEN silence[r] + 1 ELSE silence[r]]
      /\ UNCHANGED <<tpdo, rpdo, operational, pdoEnabled, cfg, od, paramVars, sent, lost, calls>>
  BY DEF Tick
<1>2. /\ Sound(Tables) /\ RestOK /\ timers \in Seq(Slots) /\ rpdo \in [R -> Watch]
      /\ Right(Tables, operational, cfg, silence, lost, passedOver)
      /\ Tables.timers = timers /\ Tables.tpdo = tpdo /\ Tables.rpdo = rpdo
  BY RightTables DEF Sound, TableType
<1>3. /\ x.timers \in Seq(Slots) /\ Len(x.timers) = Len(timers) /\ DOMAIN x.timers = DOMAIN timers
      /\ \A g \in DOMAIN timers :
           /\ x.timers[g].available = timers[g].available
           /\ x.timers[g].callback = timers[g].callback
           /\ x.timers[g].enable = timers[g].enable
           /\ timers[g].enable =>
                x.timers[g].left = IF timers[g].left > 0 THEN timers[g].left - 1 ELSE timers[g].left
           /\ x.timers[g].repeat = timers[g].repeat /\ x.timers[g].interval = timers[g].interval
  BY <1>2, ElapsedFacts, ElapsedFields DEF Slots
<1>4. x = [timers |-> x.timers, tpdo |-> tpdo, rpdo |-> rpdo] /\ x.tpdo = tpdo /\ x.rpdo = rpdo
  OBVIOUS
<1>5. Become(x)
  BY <1>1 DEF Become
<1> HIDE DEF x
<1>6. /\ Sound(x)
      /\ operational \/ \A g \in DOMAIN x.timers : x.timers[g].available /\ ~x.timers[g].enable
  BY <1>3, <1>4, TimedPasses
<1>7. /\ \A w \in T : tpdo[w] # NoTimer => tpdo[w] \in DOMAIN timers
      /\ \A w \in R : rpdo[w].timer # NoTimer => rpdo[w].timer \in DOMAIN timers
  <2>1. \A w \in Users : Handles(Tables)[w] # NoTimer => Handles(Tables)[w] \in DOMAIN timers
    BY <1>2 DEF Sound, Owned
  <2> QED
    BY <2>1, HandleOfTables DEF Users
<1>8. /\ \A w \in T : Ticking(x, w)
      /\ \A p : \A w \in T : TimedAt(Tables, w, p) => TimedAt(x, w, p)
  <2>1. \A w \in T : Ticking(Tables, w)
    BY <1>2 DEF Right
  <2> QED
    BY <1>2, <1>3, <1>4, <1>7, <2>1 DEF Ticking, TimedAt
<1>9. ASSUME NEW w \in R
      PROVE  /\ silence[w] \in 0 .. Longest /\ silence'[w] \in 0 .. Longest
             /\ silence'[w] >= silence[w]
             /\ silence'[w] = silence[w] + 1 \/ silence'[w] = Longest
  <2>1. silence[w] \in 0 .. Longest /\ Longest \in Nat
    BY <1>2, PeriodFacts DEF RestOK
  <2>2. silence'[w] = IF silence[w] < Longest THEN silence[w] + 1 ELSE silence[w]
    BY <1>1
  <2> QED
    BY <2>1, <2>2
<1>10. ASSUME NEW w \in R
       PROVE  Watching(x, w, silence'[w])
  <2>1. CASE rpdo[w].timer = NoTimer
    BY <1>4, <2>1 DEF Watching
  <2>2. CASE rpdo[w].timer # NoTimer
    <3> DEFINE h == rpdo[w].timer
               p == rpdo[w].periodMs
    <3>1. /\ timers[h].callback = TimeoutOf(rpdo[w].generation, w)
          /\ timers[h].interval = p /\ ~timers[h].repeat
          /\ timers[h].enable => silence[w] + timers[h].left >= p
      BY <1>2, <2>2 DEF Right, Watching
    <3>2. h \in DOMAIN timers /\ timers[h] \in Slots
      BY <1>2, <1>7, <2>2, LenProperties, ElementOfSeq
    <3>3. p \in Nat /\ p <= Longest /\ timers[h].left \in Nat
      <4>1. rpdo[w] \in Watch
        BY <1>2
      <4>2. p \in Periods \cup {0}
        BY <4>1 DEF Watch
      <4>3. p \in Nat /\ p <= Longest
        BY <4>2, PeriodFacts
      <4>4. timers[h].left \in Nat
        BY <3>2 DEF Slots, SlotType
      <4> QED
        BY <4>3, <4>4
    <3>4. x.timers[h].enable => silence'[w] + x.timers[h].left >= p
      <4>1. SUFFICES ASSUME x.timers[h].enable
                     PROVE  silence'[w] + x.timers[h].left >= p
        OBVIOUS
      <4>2. silence[w] + timers[h].left >= p
        BY <1>3, <3>1, <3>2, <4>1
      <4>3. x.timers[h].left = IF timers[h].left > 0 THEN timers[h].left - 1 ELSE timers[h].left
        BY <1>3, <3>2, <4>1
      <4> DEFINE a == x.timers[h].left
                 b == timers[h].left
      <4>4. a \in Nat /\ b \in Nat /\ (b = a + 1 \/ (a = b /\ b = 0))
        BY <3>3, <4>3
      <4> HIDE DEF a, b, p
      <4>5. silence[w] + b >= p
        BY <4>2 DEF b
      <4>6. silence'[w] + a >= p
        BY <1>9, <3>3, <4>4, <4>5, PeriodFacts
      <4> QED
        BY <4>6 DEF a
    <3> QED
      BY <1>3, <1>4, <3>1, <3>2, <3>4 DEF Watching
  <2> QED
    BY <2>1, <2>2
<1>11. \A w \in lost : silence'[w] >= x.rpdo[w].periodMs
  <2>1. ASSUME NEW w \in lost
        PROVE  silence'[w] >= x.rpdo[w].periodMs
    <3>1. w \in R /\ silence[w] >= rpdo[w].periodMs
      BY <1>2, <2>1 DEF Right, RestOK
    <3>2. rpdo[w].periodMs \in Nat
      <4>1. rpdo[w] \in Watch
        BY <1>2, <3>1
      <4>2. rpdo[w].periodMs \in Periods \cup {0}
        BY <4>1 DEF Watch
      <4> QED
        BY <4>2, PeriodFacts
    <3> DEFINE p == rpdo[w].periodMs
    <3> HIDE DEF p
    <3>3. silence'[w] >= p
      BY <1>9, <3>1, <3>2, PeriodFacts DEF p
    <3> QED
      BY <1>4, <3>3 DEF p
  <2> QED
    BY <2>1
<1>12. Right(x, operational, cfg, silence', lost, passedOver)
  BY <1>2, <1>6, <1>8, <1>10, <1>11 DEF Right
<1>13. Right(x, operational', cfg', silence', lost', passedOver')
  BY <1>1, <1>12 DEF paramVars
<1>14. RestOK'
  <2>1. silence' \in [R -> 0 .. Longest]
    BY <1>1, <1>9
  <2> QED
    BY <1>1, <1>2, <2>1 DEF RestOK, paramVars
<1> QED
  BY <1>5, <1>13, <1>14, NextTables

\* An entry that is mapped gets one of the values of the frame, the others stay.
Written(r, data, K, i, old, new, told) ==
  \/ new = old /\ \A k \in K : Map(r)[k] # i
  \/ \E k \in K :
       /\ Map(r)[k] = i /\ data[k] \in Values
       /\ new.value = data[k] /\ ~new.locked
       /\ told => new.notified = data[k]

\* Storing a frame: an entry is written with a value of the frame, or left alone.
LEMMA StoreFacts ==
  ASSUME RestOK, NEW r \in R, NEW data \in Payloads, NEW K, K \subseteq DOMAIN Map(r),
         NEW notify \in BOOLEAN, Store(r, data, K, notify)
  PROVE  /\ od' \in [Entries -> Entry]
         /\ \A i \in Entries : Written(r, data, K, i, od[i], od'[i], notify)
<1>1. od \in [Entries -> Entry] /\ \A i \in Entries : od[i].notified \in Values
  BY DEF RestOK, Entry
<1>2. Map(r) \in Seq(Entries) /\ data \in Seq(Values) /\ Len(Map(r)) <= Len(data)
  BY PdosAssumption, ValuesAssumption DEF R
<1>3. \A k \in DOMAIN Map(r) : data[k] \in Values
  <2>1. /\ DOMAIN Map(r) = 1 .. Len(Map(r)) /\ Len(Map(r)) \in Nat
        /\ DOMAIN data = 1 .. Len(data) /\ Len(data) \in Nat
    BY <1>2, LenProperties
  <2>2. \A k \in DOMAIN Map(r) : k \in 1 .. Len(data)
    BY <1>2, <2>1
  <2> QED
    BY <1>2, <2>2, ElementOfSeq
<1> DEFINE new(i) == data[CHOOSE k \in K : Map(r)[k] = i]
           entry(i) == IF \E k \in K : Map(r)[k] = i
                       THEN [value |-> new(i), locked |-> FALSE,
                             notified |-> IF notify THEN new(i) ELSE od[i].notified]
                       ELSE od[i]
<1>4. od' = [i \in Entries |-> entry(i)]
  BY DEF Store
<1>5. ASSUME NEW i \in Entries
      PROVE  entry(i) \in Entry /\ Written(r, data, K, i, od[i], entry(i), notify)
  <2>1. CASE \E k \in K : Map(r)[k] = i
    <3>1. PICK k \in K : Map(r)[k] = i /\ k = CHOOSE q \in K : Map(r)[q] = i
      BY <2>1
    <3>2. data[k] \in Values
      BY <1>3
    <3>3. entry(i) = [value |-> data[k], locked |-> FALSE,
                      notified |-> IF notify THEN data[k] ELSE od[i].notified]
      BY <2>1, <3>1
    <3> HIDE DEF entry
    <3>4. entry(i) \in Entry
      BY <1>1, <3>2, <3>3 DEF Entry
    <3>5. /\ entry(i).value = data[k] /\ ~entry(i).locked
          /\ notify => entry(i).notified = data[k]
      BY <3>3
    <3> QED
      BY <3>1, <3>2, <3>4, <3>5 DEF Written
  <2>2. CASE ~ \E k \in K : Map(r)[k] = i
    BY <1>1, <2>2 DEF Written
  <2> QED
    BY <2>1, <2>2
<1> HIDE DEF entry
<1> QED
  BY <1>4, <1>5

\* A frame that is dropped, refused half way or applied.
LEMMA ProcessRpdoStep ==
  ASSUME IInv, NEW r \in R, NEW data \in Payloads, ProcessRpdo(r, data)
  PROVE  IInv'
<1>1. Sound(Tables) /\ RestOK
  BY RightTables
<1>2. /\ operational
      /\ RpdoUnavailable(r) \/ RpdoRefused(r, data) \/ RpdoApplied(r, data)
      /\ UNCHANGED <<operational, pdoEnabled, cfg, paramVars, sent, calls>>
  BY DEF ProcessRpdo
<1>3. CASE RpdoUnavailable(r)
  <2>1. UNCHANGED <<eventVars, od, silence, lost>>
    BY <1>3 DEF RpdoUnavailable
  <2>2. RestOK'
    BY <1>1, <1>2, <2>1 DEF RestOK, paramVars
  <2> QED
    BY <1>2, <2>1, <2>2, TablesKept DEF paramVars
<1>4. CASE RpdoRefused(r, data)
  <2>1. /\ UNCHANGED <<eventVars, silence, lost>>
        /\ Store(r, data, Accepted(r, data), FALSE)
    BY <1>4 DEF RpdoRefused
  <2>2. Accepted(r, data) \subseteq DOMAIN Map(r)
    BY DEF Accepted
  <2>3. od' \in [Entries -> Entry]
    BY <1>1, <2>1, <2>2, StoreFacts
  <2>4. RestOK'
    BY <1>1, <1>2, <2>1, <2>3 DEF RestOK, paramVars
  <2> QED
    BY <1>2, <2>1, <2>4, TablesKept DEF paramVars
<1>5. CASE RpdoApplied(r, data)
  <2> DEFINE x == ResetRpdoTimer(Tables, r)
  <2>1. /\ Become(x) /\ Started(r)
        /\ Store(r, data, DOMAIN Map(r), TRUE)
    BY <1>5 DEF RpdoApplied
  <2>2. Sound(x) /\ Only(r, Tables, x) /\ Watching(x, r, 0)
    BY <1>1, ResetFacts
  <2> HIDE DEF x
  <2>3. /\ operational' = operational /\ cfg' = cfg /\ passedOver' = passedOver /\ held' = held
    BY <1>2 DEF paramVars
  <2>4. /\ Right(x, operational', cfg', silence', lost', passedOver')
        /\ silence' \in [R -> 0 .. Longest] /\ lost' \subseteq R
    BY <1>2, <2>1, <2>2, <2>3, RestartRight
  <2>5. od' \in [Entries -> Entry]
    BY <1>1, <2>1, StoreFacts
  <2>6. RestOK'
    BY <1>1, <1>2, <2>3, <2>4, <2>5 DEF RestOK
  <2> QED
    BY <2>1, <2>4, <2>6, NextTables
<1> QED
  BY <1>2, <1>3, <1>4, <1>5

\* What SDO transfers and the application do to an entry.
LEMMA EntryStep ==
  ASSUME RestOK, NEW i \in Entries,
         SdoOpens(i) \/ SdoCloses(i) \/ \E v \in Values : LocalSet(i, v)
  PROVE  /\ od' \in [Entries -> Entry] /\ \A j \in Entries \ {i} : od'[j] = od[j]
         /\ UNCHANGED <<eventVars, operational, pdoEnabled, cfg, paramVars, sent, silence, lost, calls>>
<1>1. od \in [Entries -> Entry] /\ od[i] \in Entry
  BY DEF RestOK
<1>2. \E e \in Entry : od' = [od EXCEPT ![i] = e]
  <2>1. CASE SdoOpens(i)
    <3>1. \/ od' = [od EXCEPT ![i] = [od[i] EXCEPT !.locked = TRUE]]
          \/ od' = [od EXCEPT ![i] = [od[i] EXCEPT !.locked = TRUE, !.value = Partial]]
      BY <1>1, <2>1 DEF SdoOpens
    <3>2. /\ [od[i] EXCEPT !.locked = TRUE] \in Entry
          /\ [od[i] EXCEPT !.locked = TRUE, !.value = Partial] \in Entry
      BY <1>1 DEF Entry
    <3> QED
      BY <3>1, <3>2, Zenon
  <2>2. CASE SdoCloses(i)
    <3>1. \/ od' = [od EXCEPT ![i] = [od[i] EXCEPT !.locked = FALSE]]
          \/ \E v \in Values : od' = [od EXCEPT ![i] = [value |-> v, locked |-> FALSE, notified |-> v]]
      BY <1>1, <2>2 DEF SdoCloses
    <3>2. /\ [od[i] EXCEPT !.locked = FALSE] \in Entry
          /\ \A v \in Values : [value |-> v, locked |-> FALSE, notified |-> v] \in Entry
      BY <1>1 DEF Entry
    <3> QED
      BY <3>1, <3>2, Zenon
  <2>3. CASE \E v \in Values : LocalSet(i, v)
    <3>1. \E v \in Values : od' = [od EXCEPT ![i] = [od[i] EXCEPT !.value = v, !.notified = v]]
      BY <1>1, <2>3 DEF LocalSet
    <3>2. \A v \in Values : [od[i] EXCEPT !.value = v, !.notified = v] \in Entry
      BY <1>1 DEF Entry
    <3> QED
      BY <3>1, <3>2, Zenon
  <2> QED
    BY <2>1, <2>2, <2>3
<1>3. od' \in [Entries -> Entry] /\ \A j \in Entries \ {i} : od'[j] = od[j]
  BY <1>1, <1>2
<1>4. UNCHANGED <<eventVars, operational, pdoEnabled, cfg, paramVars, sent, silence, lost, calls>>
  BY DEF SdoOpens, SdoCloses, LocalSet
<1> QED
  BY <1>3, <1>4

\* Every step keeps the invariant.
LEMMA NextIInv == IInv /\ [Next]_vars => IInv'
<1> SUFFICES ASSUME IInv, [Next]_vars
             PROVE  IInv'
  OBVIOUS
<1>0. RestOK
  BY RightTables
<1>1. ASSUME NEW op \in BOOLEAN, SetState(op)
      PROVE  IInv'
  BY <1>1, SetStateStep
<1>2. ASSUME NEW c \in [enabled : BOOLEAN, period : Periods],
             (\E t \in T : ConfigureTpdo(t, c)) \/ (\E r \in R : ConfigureRpdo(r, c))
      PROVE  IInv'
  <2>1. c \in Config
    BY DEF Config
  <2> QED
    BY <1>2, <2>1, ConfigureTpdoStep, ConfigureRpdoStep
<1>3. ASSUME NEW t \in T, Rtr(t) \/ TriggerTPDO(t)
      PROVE  IInv'
  <2>1. /\ SendTxPdo(t)
        /\ UNCHANGED <<eventVars, operational, pdoEnabled, cfg, od, paramVars, silence, lost, calls>>
    BY <1>3 DEF Rtr, TriggerTPDO
  <2>2. RestOK'
    BY <1>0, <2>1, SendTxPdoType DEF RestOK, paramVars
  <2> QED
    BY <2>1, <2>2, TablesKept DEF paramVars
<1>4. CASE SendAllTpdos
  <2>1. /\ \E S : sent' = SentAfter(S)
        /\ UNCHANGED <<eventVars, operational, pdoEnabled, cfg, od, paramVars, silence, lost, calls>>
    BY <1>4 DEF SendAllTpdos
  <2>2. RestOK'
    BY <1>0, <2>1, SentType DEF RestOK, paramVars
  <2> QED
    BY <2>1, <2>2, TablesKept DEF paramVars
<1>5. ASSUME NEW r \in R, NEW data \in Payloads, ProcessRpdo(r, data)
      PROVE  IInv'
  BY <1>5, ProcessRpdoStep
<1>6. ASSUME NEW p \in T \cup R, TimerOf(p)
      PROVE  IInv'
  BY <1>6, TpdoTimerStep, RpdoTimeoutStep DEF TimerOf
<1>7. ASSUME NEW i \in Entries,
             SdoOpens(i) \/ SdoCloses(i) \/ \E v \in Values : LocalSet(i, v)
      PROVE  IInv'
  <2>1. /\ od' \in [Entries -> Entry]
        /\ UNCHANGED <<eventVars, operational, pdoEnabled, cfg, paramVars, sent, silence, lost, calls>>
    BY <1>0, <1>7, EntryStep
  <2>2. RestOK'
    BY <1>0, <2>1 DEF RestOK, paramVars
  <2> QED
    BY <2>1, <2>2, TablesKept DEF paramVars
<1>8. ASSUME NEW p \in T \cup R, NEW sub \in Subs,
             SdoHoldsParameter(p, sub) \/ SdoReleasesParameter(p, sub)
      PROVE  IInv'
  BY <1>8, ParameterStep
<1>9. CASE Tick
  BY <1>9, TickStep
<1>10. CASE UNCHANGED vars
  <2>1. RestOK'
    BY <1>0, <1>10 DEF RestOK, vars, paramVars
  <2> QED
    BY <1>10, <2>1, TablesKept DEF vars, paramVars
<1> QED
  BY <1>1, <1>2, <1>3, <1>4, <1>5, <1>6, <1>7, <1>8, <1>9, <1>10 DEF Next

LEMMA Kept == Spec => []IInv
BY InitIInv, NextIInv, PTL DEF Spec

\* At every moment the timer table is sound: no slot leaks or has two owners,
\* the table has at most one slot more than there are PDOs, and the three
\* properties below hold (PdoService as it calls scheduleDelayed,
\* schedulePeriodic and deleteTimer).
THEOREM PdoSafe == Spec => []PdoInv
BY Kept, IInvImplies, PTL

\* No PDO timer runs while the node is not Operational (disablePdoEvents).
THEOREM NoTimerOutsideOperational == Spec => []NoPdoTimerOutsideOperational
<1>1. PdoInv => NoPdoTimerOutsideOperational
  BY DEF PdoInv
<1> QED
  BY <1>1, PdoSafe, PTL

\* In Operational an enabled TPDO with a period has a timer that runs at it, unless
\* an entry of its own could not be read when the service looked last, or holds
\* what an aborted download has left (enablePdoEvents, enableTpdoEvent).
THEOREM EnabledIsTimed == Spec => []EnabledTpdoIsTimed
<1>1. PdoInv => EnabledTpdoIsTimed
  BY DEF PdoInv
<1> QED
  BY <1>1, PdoSafe, PTL

\* A timeout is reported after a whole period of silence (rpdoTimeout).
THEOREM TimeoutAfterSilence == Spec => []TimeoutMeansSilence
<1>1. PdoInv => TimeoutMeansSilence
  BY DEF PdoInv
<1> QED
  BY <1>1, PdoSafe, PTL

-----------------------------------------------------------------------------
(* The values. What each step does to the dictionary and to what is sent.  *)

\* A step sends payloads of the dictionary as it is, of TPDOs none of whose
\* entries is locked.
Sends == \E S : (\A t \in S \cap T : ~Locked(t)) /\ sent' = SentAfter(S)

\* A step writes one entry, or one frame: its values up to a refused one.
Writes ==
  \/ od' = od
  \/ \E i \in Entries : SdoOpens(i) \/ SdoCloses(i) \/ \E v \in Values : LocalSet(i, v)
  \/ \E r \in R, data \in Payloads :
       \/ RpdoRefused(r, data)
       \/ ~Locked(r) /\ Store(r, data, DOMAIN Map(r), TRUE)

\* What is sent is what the mapped entries hold, none of them locked.
LEMMA SendTxPdoSends ==
  ASSUME NEW t \in T, SendTxPdo(t)
  PROVE  Sends
BY DEF SendTxPdo, CanSend, Sends

\* Every step sends whole payloads, or writes the dictionary in one of these ways.
LEMMA DataSteps ==
  ASSUME IInv, [Next]_vars
  PROVE  (sent' = sent \/ (Sends /\ od' = od)) /\ Writes
<1>0. T \cap R = {}
  BY PdosFinite
<1>1. ASSUME NEW op \in BOOLEAN, SetState(op)
      PROVE  sent' = sent /\ od' = od
  BY <1>1 DEF SetState
<1>2. ASSUME NEW c \in [enabled : BOOLEAN, period : Periods],
             (\E t \in T : ConfigureTpdo(t, c)) \/ (\E r \in R : ConfigureRpdo(r, c))
      PROVE  sent' = sent /\ od' = od
  BY <1>2 DEF ConfigureTpdo, ConfigureRpdo
<1>3. ASSUME NEW t \in T, Rtr(t) \/ TriggerTPDO(t)
      PROVE  Sends /\ od' = od
  BY <1>3, SendTxPdoSends DEF Rtr, TriggerTPDO
<1>4. CASE SendAllTpdos
  <2> DEFINE tried == {k \in DOMAIN Tpdos : Free(Tpdos[k], {"cobid"}) /\ cfg[Tpdos[k]].enabled}
             fails == {k \in tried : ~CanSend(Tpdos[k])}
             S == {Tpdos[k] : k \in {j \in tried : \A f \in fails : j < f}}
  <2>1. sent' = SentAfter(S) /\ od' = od
    BY <1>4 DEF SendAllTpdos
  <2>2. ASSUME NEW t \in S, Locked(t)
        PROVE  FALSE
    <3>1. PICK k \in tried : t = Tpdos[k] /\ \A f \in fails : k < f
      OBVIOUS
    <3>2. k \in fails /\ k \in Nat
      BY <2>2, <3>1, PdosFinite DEF CanSend
    <3>3. k < k
      BY <3>1, <3>2
    <3> QED
      BY <3>2, <3>3
  <2> HIDE DEF S
  <2>3. Sends
    BY <2>1, <2>2 DEF Sends
  <2> QED
    BY <2>1, <2>3 DEF Writes
<1>5. ASSUME NEW r \in R, NEW data \in Payloads, ProcessRpdo(r, data)
      PROVE  sent' = sent /\ Writes
  BY <1>5 DEF ProcessRpdo, RpdoUnavailable, RpdoApplied, Writes
<1>6. ASSUME NEW p \in T \cup R, TimerOf(p)
      PROVE  (sent' = sent \/ Sends) /\ od' = od
  <2>1. PICK h \in DOMAIN timers : TpdoTimer(h) \/ RpdoTimeout(h)
    BY <1>6 DEF TimerOf
  <2>2. CASE TpdoTimer(h)
    <3>1. h \in Due(timers) /\ timers[h].callback.kind = "tpdo" /\ od' = od
          /\ SendTxPdo(timers[h].callback.pdo)
      BY <2>2 DEF TpdoTimer
    <3>2. timers[h].callback \in Callbacks
      BY <3>1, DueOwner
    <3>3. timers[h].callback.pdo \in T
      BY <3>1, <3>2, OwnerFacts
    <3> QED
      BY <3>1, <3>3, SendTxPdoSends
  <2>3. CASE RpdoTimeout(h)
    BY <2>3 DEF RpdoTimeout
  <2> QED
    BY <2>1, <2>2, <2>3
<1>7. ASSUME NEW i \in Entries, SdoOpens(i) \/ SdoCloses(i) \/ \E v \in Values : LocalSet(i, v)
      PROVE  sent' = sent /\ Writes
  BY <1>7 DEF SdoOpens, SdoCloses, LocalSet, Writes
<1>8. ASSUME NEW p \in T \cup R, NEW sub \in Subs,
             SdoHoldsParameter(p, sub) \/ SdoReleasesParameter(p, sub)
      PROVE  sent' = sent /\ od' = od
  BY <1>8 DEF SdoHoldsParameter, SdoReleasesParameter
<1>9. CASE Tick
  BY <1>9 DEF Tick, Writes
<1>10. CASE UNCHANGED vars
  BY <1>10 DEF vars, Writes
<1>11. od' = od => Writes
  BY DEF Writes
<1> QED
  BY <1>1, <1>2, <1>3, <1>4, <1>5, <1>6, <1>7, <1>8, <1>9, <1>10, <1>11 DEF Next

\* What is sent is what the dictionary holds in entries that are not locked.
LEMMA SentFacts ==
  ASSUME Sends, NEW t \in T
  PROVE  \/ sent'[t] = sent[t]
         \/ /\ sent'[t] = Payload(t)
            /\ \A k \in DOMAIN Map(t) : ~od[Map(t)[k]].locked
BY DEF Sends, SentAfter, Locked

\* The mapped entries exist.
LEMMA MapFacts ==
  ASSUME NEW p \in T \cup R
  PROVE  /\ DOMAIN Map(p) = 1 .. Len(Map(p)) /\ Len(Map(p)) \in Nat
         /\ \A k \in DOMAIN Map(p) : Map(p)[k] \in Entries
<1>1. Map(p) \in Seq(Entries)
  BY PdosAssumption DEF T, R
<1>2. DOMAIN Map(p) = 1 .. Len(Map(p)) /\ Len(Map(p)) \in Nat
  BY <1>1, LenProperties
<1>3. \A k \in 1 .. Len(Map(p)) : Map(p)[k] \in Entries
  BY <1>1, ElementOfSeq
<1> QED
  BY <1>2, <1>3

-----------------------------------------------------------------------------
\* While no transfer is aborted, an entry that is written in part is locked.
PartialLocked == \A i \in Entries : od[i].value = Partial => od[i].locked

\* An entry written in part stays locked until it is whole.
LEMMA PartialStep ==
  ASSUME IInv, PartialLocked, Writes, ~Aborts
  PROVE  PartialLocked'
<1>1. RestOK /\ Partial \notin Values
  BY RightTables, ValuesAssumption
<1>2. od \in [Entries -> Entry]
  BY <1>1 DEF RestOK
<1>3. CASE od' = od
  BY <1>3 DEF PartialLocked
<1>4. ASSUME NEW i \in Entries, SdoOpens(i) \/ SdoCloses(i) \/ \E v \in Values : LocalSet(i, v)
      PROVE  PartialLocked'
  <2>1. \A j \in Entries \ {i} : od'[j] = od[j]
    BY <1>1, <1>4, EntryStep
  <2>2. od'[i].value = Partial => od'[i].locked
    <3>1. CASE SdoOpens(i)
      BY <1>2, <3>1 DEF SdoOpens, Entry
    <3>2. CASE SdoCloses(i)
      BY <1>1, <1>2, <3>2 DEF SdoCloses, Entry
    <3>3. CASE \E v \in Values : LocalSet(i, v)
      BY <1>1, <1>2, <3>3 DEF LocalSet, Entry
    <3> QED
      BY <1>4, <3>1, <3>2, <3>3
  <2> QED
    BY <2>1, <2>2 DEF PartialLocked
<1>5. ASSUME NEW r \in R, NEW data \in Payloads, NEW K, NEW notify \in BOOLEAN,
             K \subseteq DOMAIN Map(r), Store(r, data, K, notify)
      PROVE  PartialLocked'
  <2>1. ASSUME NEW i \in Entries, od'[i].value = Partial
        PROVE  od'[i].locked
    <3>1. od'[i] = od[i] \/ \E k \in K : data[k] \in Values /\ od'[i].value = data[k]
      <4>1. Written(r, data, K, i, od[i], od'[i], notify)
        BY <1>1, <1>5, StoreFacts
      <4> QED
        BY <4>1 DEF Written
    <3> QED
      BY <1>1, <2>1, <3>1 DEF PartialLocked
  <2> QED
    BY <2>1 DEF PartialLocked
<1>6. ASSUME NEW r \in R, NEW data \in Payloads,
             \/ RpdoRefused(r, data)
             \/ ~Locked(r) /\ Store(r, data, DOMAIN Map(r), TRUE)
      PROVE  PartialLocked'
  <2>1. Accepted(r, data) \subseteq DOMAIN Map(r)
    BY DEF Accepted
  <2> QED
    BY <1>5, <1>6, <2>1 DEF RpdoRefused
<1> QED
  BY <1>3, <1>4, <1>6 DEF Writes

\* When every SDO download that starts also ends, no TPDO carries a value that
\* is written in part, however its entries are locked and unlocked meanwhile
\* (the proxies made up front in sendTxPdo).
THEOREM NoPartialSent ==
  ASSUME ~Aborts
  PROVE  Spec => []NoPartialValueSent
<1> DEFINE J == PartialLocked /\ NoPartialValueSent
<1>1. Init => J
  <2>1. Init => PartialLocked
    BY ValuesAssumption DEF Init, PartialLocked
  <2>2. Init => NoPartialValueSent
    BY DEF Init, NoPartialValueSent, NoPayload, Range
  <2> QED
    BY <2>1, <2>2
<1>2. IInv /\ J /\ [Next]_vars => J'
  <2> SUFFICES ASSUME IInv, J, [Next]_vars
               PROVE  J'
    OBVIOUS
  <2>1. (sent' = sent \/ (Sends /\ od' = od)) /\ Writes
    BY DataSteps
  <2>2. PartialLocked'
    BY <2>1, PartialStep
  <2>3. ASSUME NEW t \in T, Sends
        PROVE  Partial \notin Range(sent'[t])
    <3>1. CASE sent'[t] = sent[t]
      BY <3>1 DEF NoPartialValueSent
    <3>2. CASE sent'[t] = Payload(t) /\ \A k \in DOMAIN Map(t) : ~od[Map(t)[k]].locked
      <4>1. \A k \in DOMAIN Map(t) : od[Map(t)[k]].value # Partial
        BY <3>2, MapFacts DEF PartialLocked
      <4> QED
        BY <3>2, <4>1 DEF Payload, Range
    <3> QED
      BY <2>3, <3>1, <3>2, SentFacts
  <2>4. NoPartialValueSent'
    BY <2>1, <2>3 DEF NoPartialValueSent
  <2> QED
    BY <2>2, <2>4
<1>3. J => NoPartialValueSent
  OBVIOUS
<1> QED
  BY <1>1, <1>2, <1>3, Kept, PTL DEF Spec

\* Every value of every frame is accepted.
NothingRefused ==
  \A r \in R, data \in Payloads : \A k \in DOMAIN Map(r) : <<Map(r)[k], data[k]>> \notin Refused

\* A frame without a refused value is accepted to its end.
LEMMA AllAccepted ==
  ASSUME NothingRefused, NEW r \in R, NEW data \in Payloads
  PROVE  Accepted(r, data) = DOMAIN Map(r)
<1>1. DOMAIN Map(r) = 1 .. Len(Map(r)) /\ Len(Map(r)) \in Nat
  BY MapFacts
<1>2. \A k \in DOMAIN Map(r) : \A j \in 1 .. k : j \in DOMAIN Map(r)
  BY <1>1
<1> QED
  BY <1>2 DEF NothingRefused, Accepted

\* When every frame is accepted and every download ends, the callbacks of an
\* entry have told its value, whenever it is not locked (RPDOs suppress them
\* until all their entries are stored, and then run them: processMsg).
THEOREM CallbacksFollow ==
  ASSUME ~Aborts, NothingRefused
  PROVE  Spec => []CallbacksFollowChanges
<1> DEFINE Told == \A i \in Entries : od[i].value # Partial => od[i].notified = od[i].value
           J == PartialLocked /\ Told
<1>1. Init => J
  BY ValuesAssumption DEF Init, PartialLocked
<1>2. IInv /\ J /\ [Next]_vars => J'
  <2> SUFFICES ASSUME IInv, J, [Next]_vars
               PROVE  J'
    OBVIOUS
  <2>1. RestOK /\ Partial \notin Values /\ od \in [Entries -> Entry]
    BY RightTables, ValuesAssumption DEF RestOK
  <2>2. Writes
    BY DataSteps
  <2>3. PartialLocked'
    BY <2>2, PartialStep
  <2>4. CASE od' = od
    <3>1. Told'
      BY <2>4
    <3> QED
      BY <2>3, <3>1
  <2>5. ASSUME NEW i \in Entries, SdoOpens(i) \/ SdoCloses(i) \/ \E v \in Values : LocalSet(i, v)
        PROVE  Told'
    <3>1. \A j \in Entries \ {i} : od'[j] = od[j]
      BY <2>1, <2>5, EntryStep
    <3>2. od'[i].value # Partial => od'[i].notified = od'[i].value
      <4>1. CASE SdoOpens(i)
        BY <2>1, <4>1 DEF SdoOpens, Entry
      <4>2. CASE SdoCloses(i)
        BY <2>1, <4>2 DEF SdoCloses, Entry
      <4>3. CASE \E v \in Values : LocalSet(i, v)
        BY <2>1, <4>3 DEF LocalSet, Entry
      <4> QED
        BY <2>5, <4>1, <4>2, <4>3
    <3> QED
      BY <3>1, <3>2
  <2>6. ASSUME NEW r \in R, NEW data \in Payloads, Store(r, data, DOMAIN Map(r), TRUE)
        PROVE  Told'
    <3>1. ASSUME NEW i \in Entries
          PROVE  od'[i] = od[i] \/ od'[i].notified = od'[i].value
      <4>1. Written(r, data, DOMAIN Map(r), i, od[i], od'[i], TRUE)
        BY <2>1, <2>6, StoreFacts
      <4> QED
        BY <4>1 DEF Written
    <3> QED
      BY <3>1
  <2>7. \A r \in R, data \in Payloads : ~RpdoRefused(r, data)
    BY AllAccepted DEF RpdoRefused
  <2> QED
    BY <2>2, <2>3, <2>4, <2>5, <2>6, <2>7 DEF Writes
<1>3. J => CallbacksFollowChanges
  BY DEF PartialLocked, CallbacksFollowChanges
<1> QED
  BY <1>1, <1>2, <1>3, Kept, PTL DEF Spec

-----------------------------------------------------------------------------
\* Nobody but r writes the entries that r maps.
Exclusive(r) ==
  \A k \in DOMAIN Map(r) :
    /\ Map(r)[k] \notin SdoWrites \cup LocalWrites
    /\ \A q \in R \ {r} : \A j \in DOMAIN Map(q) : Map(q)[j] # Map(r)[k]

\* An RPDO of several entries has them for itself, and a TPDO of several
\* entries has them from one such RPDO; the values of a frame are equal.
MappedTogether ==
  /\ \A r \in R : Len(Map(r)) <= 1 \/ Exclusive(r)
  /\ \A t \in T : \/ Len(Map(t)) <= 1
                  \/ \E r \in R : /\ Exclusive(r)
                                  /\ \A k \in DOMAIN Map(t) : \E j \in DOMAIN Map(r) : Map(t)[k] = Map(r)[j]
  /\ \A data \in Payloads : Together(data)

\* The entries of r hold one value.
OneValue(r) ==
  \E v \in Values : \A k \in DOMAIN Map(r) : od[Map(r)[k]].value = v

\* An RPDO that alone writes its entries leaves them equal.
LEMMA OneValueStep ==
  ASSUME IInv, Writes, MappedTogether, NothingRefused, NEW r \in R, Exclusive(r), OneValue(r)
  PROVE  OneValue(r)'
<1>1. RestOK /\ Partial \notin Values /\ od \in [Entries -> Entry]
  BY RightTables, ValuesAssumption DEF RestOK
<1>2. PICK v \in Values : \A k \in DOMAIN Map(r) : od[Map(r)[k]].value = v
  BY DEF OneValue
<1>3. \A k \in DOMAIN Map(r) : Map(r)[k] \in Entries
  BY MapFacts
<1>4. ASSUME \A k \in DOMAIN Map(r) : od'[Map(r)[k]].value = od[Map(r)[k]].value
      PROVE  OneValue(r)'
  BY <1>2, <1>4 DEF OneValue
<1>5. CASE od' = od
  BY <1>4, <1>5
<1>6. ASSUME NEW i \in Entries, SdoOpens(i) \/ SdoCloses(i) \/ \E u \in Values : LocalSet(i, u)
      PROVE  OneValue(r)'
  <2>1. \A j \in Entries \ {i} : od'[j] = od[j]
    BY <1>1, <1>6, EntryStep
  <2>2. ASSUME NEW k \in DOMAIN Map(r), Map(r)[k] = i
        PROVE  od'[i].value = od[i].value
    <3>1. i \notin SdoWrites /\ i \notin LocalWrites /\ od[i].value # Partial
      BY <1>1, <1>2, <2>2 DEF Exclusive
    <3>2. CASE SdoOpens(i)
      BY <1>1, <3>1, <3>2 DEF SdoOpens, Entry
    <3>3. CASE SdoCloses(i)
      BY <1>1, <3>1, <3>3 DEF SdoCloses, Entry
    <3>4. CASE \E u \in Values : LocalSet(i, u)
      BY <3>1, <3>4 DEF LocalSet
    <3> QED
      BY <1>6, <3>2, <3>3, <3>4
  <2>3. \A k \in DOMAIN Map(r) : od'[Map(r)[k]].value = od[Map(r)[k]].value
    BY <1>3, <2>1, <2>2
  <2> QED
    BY <1>4, <2>3
<1>7. ASSUME NEW q \in R, NEW data \in Payloads, Store(q, data, DOMAIN Map(q), TRUE)
      PROVE  OneValue(r)'
  <2>1. \A i \in Entries : Written(q, data, DOMAIN Map(q), i, od[i], od'[i], TRUE)
    BY <1>1, <1>7, StoreFacts
  <2>2. CASE q = r
    <3>1. \A k \in DOMAIN Map(r) : k \in DOMAIN data
      <4>1. data \in Seq(Values) /\ Len(Map(r)) <= Len(data)
        BY ValuesAssumption DEF R
      <4>2. DOMAIN data = 1 .. Len(data) /\ Len(data) \in Nat
        BY <4>1, LenProperties
      <4>3. DOMAIN Map(r) = 1 .. Len(Map(r)) /\ Len(Map(r)) \in Nat
        BY MapFacts
      <4> QED
        BY <4>1, <4>2, <4>3
    <3>2. \A j, k \in DOMAIN Map(r) : data[j] = data[k]
      BY <3>1 DEF MappedTogether, Together
    <3>3. \A k \in DOMAIN Map(r) : od'[Map(r)[k]].value \in Values /\ od'[Map(r)[k]].value = data[k]
      <4>1. ASSUME NEW k \in DOMAIN Map(r)
            PROVE  od'[Map(r)[k]].value \in Values /\ od'[Map(r)[k]].value = data[k]
        <5>1. PICK j \in DOMAIN Map(r) :
                data[j] \in Values /\ od'[Map(r)[k]].value = data[j]
          BY <1>3, <2>1, <2>2 DEF Written
        <5>2. od'[Map(r)[k]].value = data[j] /\ data[j] = data[k]
          BY <3>2, <5>1
        <5> QED
          BY <5>1, <5>2
      <4> QED
        BY <4>1
    <3>4. CASE DOMAIN Map(r) = {}
      BY <1>2, <3>4 DEF OneValue
    <3>5. CASE DOMAIN Map(r) # {}
      <4>1. PICK j \in DOMAIN Map(r) : TRUE
        BY <3>5
      <4>2. \A k \in DOMAIN Map(r) : od'[Map(r)[k]].value = data[j] /\ data[j] \in Values
        BY <3>2, <3>3
      <4> QED
        BY <4>2 DEF OneValue
    <3> QED
      BY <3>4, <3>5
  <2>3. CASE q # r
    <3>1. \A k \in DOMAIN Map(r) : \A j \in DOMAIN Map(q) : Map(q)[j] # Map(r)[k]
      BY <2>3 DEF Exclusive
    <3>2. \A k \in DOMAIN Map(r) : od'[Map(r)[k]].value = od[Map(r)[k]].value
      BY <1>3, <2>1, <3>1 DEF Written
    <3> QED
      BY <1>4, <3>2
  <2> QED
    BY <2>2, <2>3
<1>8. \A q \in R, data \in Payloads : ~RpdoRefused(q, data)
  BY AllAccepted DEF RpdoRefused
<1> QED
  BY <1>5, <1>6, <1>7, <1>8 DEF Writes

\* Values that are delivered together stay together, in the dictionary and in
\* what is sent, whoever locks and unlocks the entries meanwhile (processMsg
\* and sendTxPdo make all proxies before they touch a value).
THEOREM StayTogether ==
  ASSUME MappedTogether, NothingRefused
  PROVE  Spec => []DeliveredTogether
<1> DEFINE One == \A r \in R : Exclusive(r) => OneValue(r)
           Sent == \A t \in T : Together(sent[t])
           J == One /\ Sent
<1>1. Init => J
  <2> SUFFICES ASSUME Init
               PROVE  J
    OBVIOUS
  <2>1. \A i \in Entries : od[i].value = Initial
    BY DEF Init
  <2>2. One
    BY <2>1, MapFacts, ValuesAssumption DEF OneValue
  <2>3. Sent
    BY DEF Init, NoPayload, Together
  <2> QED
    BY <2>2, <2>3
<1>2. IInv /\ J /\ [Next]_vars => J'
  <2> SUFFICES ASSUME IInv, J, [Next]_vars
               PROVE  J'
    OBVIOUS
  <2>1. (sent' = sent \/ (Sends /\ od' = od)) /\ Writes
    BY DataSteps
  <2>2. One'
    <3>1. \A r \in R : Exclusive(r) => OneValue(r)'
      BY <2>1, OneValueStep
    <3> QED
      BY <3>1
  <2>3. ASSUME NEW t \in T, Sends
        PROVE  Together(sent'[t])
    <3>1. CASE sent'[t] = sent[t]
      BY <3>1
    <3>2. CASE sent'[t] = Payload(t)
      <4>1. DOMAIN Map(t) = 1 .. Len(Map(t)) /\ Len(Map(t)) \in Nat
        BY MapFacts
      <4>2. /\ DOMAIN Payload(t) = DOMAIN Map(t)
            /\ \A k \in DOMAIN Map(t) : Payload(t)[k] = od[Map(t)[k]].value
        BY DEF Payload
      <4>3. CASE Len(Map(t)) <= 1
        <5>1. \A j, k \in DOMAIN Map(t) : j = k
          BY <4>1, <4>3
        <5> QED
          BY <3>2, <4>2, <5>1 DEF Together
      <4>4. ASSUME NEW r \in R, Exclusive(r),
                   \A k \in DOMAIN Map(t) : \E j \in DOMAIN Map(r) : Map(t)[k] = Map(r)[j]
            PROVE  Together(sent'[t])
        <5>1. PICK v \in Values : \A j \in DOMAIN Map(r) : od[Map(r)[j]].value = v
          BY <4>4 DEF OneValue
        <5>2. \A k \in DOMAIN Map(t) : Payload(t)[k] = v
          BY <4>2, <4>4, <5>1
        <5> QED
          BY <3>2, <4>2, <5>2 DEF Together
      <4> QED
        BY <4>3, <4>4 DEF MappedTogether
    <3> QED
      BY <2>3, <3>1, <3>2, SentFacts
  <2>4. Sent'
    BY <2>1, <2>3
  <2> QED
    BY <2>2, <2>4
<1>3. J => DeliveredTogether
  <2> SUFFICES ASSUME J, NEW r \in R
               PROVE  Together([k \in DOMAIN Map(r) |-> od[Map(r)[k]].value])
    BY DEF DeliveredTogether
  <2>1. DOMAIN Map(r) = 1 .. Len(Map(r)) /\ Len(Map(r)) \in Nat
    BY MapFacts
  <2>2. CASE Len(Map(r)) <= 1
    <3>1. \A j, k \in DOMAIN Map(r) : j = k
      BY <2>1, <2>2
    <3> QED
      BY <3>1 DEF Together
  <2>3. CASE Exclusive(r)
    BY <2>3 DEF OneValue, Together
  <2> QED
    BY <2>2, <2>3 DEF MappedTogether
<1> QED
  BY <1>1, <1>2, <1>3, Kept, PTL DEF Spec
==============================================================================
