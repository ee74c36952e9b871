----------------------------- MODULE TimersProofs -----------------------------
(***************************************************************************)
(* Lemmas about the timer table of the Linux platform: what schedule and   *)
(* delete do to the slots, and that users who give back the slot they hold *)
(* before they forget its handle neither lose a slot nor share one.        *)
(*                                                                         *)
(* U are the users, H the handles they keep, own says whose a callback is. *)
(***************************************************************************)
EXTENDS Timers, FunctionTheorems, FiniteSetTheorems, SequenceTheorems,
        WellFoundedInduction, TLAPS

\* A set of natural numbers has a least one.
LEMMA LeastNumber ==
  ASSUME NEW S, S \subseteq Nat, S # {}
  PROVE  \E d \in S : \A e \in S : d <= e
<1>1. \E d \in S : \A e \in S : ~ (<<e, d>> \in OpToRel(<, Nat))
  BY NatLessThanWellFounded, WFMin
<1>2. PICK d \in S : \A e \in S : ~ (<<e, d>> \in OpToRel(<, Nat))
  BY <1>1
<1>3. \A e \in S : ~ (e < d)
  BY <1>2 DEF OpToRel
<1> QED
  BY <1>3

\* An interval from 1 tells its end.
LEMMA SameInterval ==
  ASSUME NEW a \in Nat, NEW b \in Nat, 1 .. a = 1 .. b
  PROVE  a = b
<1>1. ~ (a < b)
  <2>1. b \in 1 .. b => b \in 1 .. a
    OBVIOUS
  <2> QED
    BY <2>1
<1>2. ~ (b < a)
  <2>1. a \in 1 .. a => a \in 1 .. b
    OBVIOUS
  <2> QED
    BY <2>1
<1> QED
  BY <1>1, <1>2

\* deleteTimer leaves a table.
LEMMA DeletedType ==
  ASSUME NEW C, NEW ts \in Seq(SlotType(Nat, C)), NEW h, h = NoTimer \/ h \in DOMAIN ts
  PROVE  DeleteTimer(ts, h) \in Seq(SlotType(Nat, C))
<1>1. Blank \in SlotType(Nat, C)
  BY DEF Blank, SlotType
<1>2. DOMAIN ts = 1 .. Len(ts)
  BY LenProperties
<1>3. CASE h # NoTimer
  BY <1>1, <1>2, <1>3, ExceptSeq DEF DeleteTimer
<1> QED
  BY <1>3 DEF DeleteTimer

\* The slot that schedule takes: the first that is free, or a new one.
LEMMA AvailableFacts ==
  ASSUME NEW S, NEW ts \in Seq(S)
  PROVE  /\ AvailableTimer(ts) \in 1 .. Len(ts) + 1
         /\ AvailableTimer(ts) <= Len(ts) => ts[AvailableTimer(ts)].available
         /\ \A g \in 1 .. Len(ts) : g < AvailableTimer(ts) => ~ts[g].available
<1> DEFINE n == Len(ts)
           F == {h \in 1 .. n + 1 : h <= n => ts[h].available}
           Fits(h) == /\ h <= n => ts[h].available
                      /\ \A g \in 1 .. h - 1 : ~ts[g].available
<1>1. n \in Nat
  BY LenProperties
<1> HIDE DEF n
<1>2. n + 1 \in F /\ F \subseteq Nat
  BY <1>1
<1>3. PICK d \in F : \A e \in F : d <= e
  BY <1>2, LeastNumber
<1>4. d \in 1 .. n + 1 /\ Fits(d)
  <2>1. ASSUME NEW g \in 1 .. d - 1
        PROVE  ~ts[g].available
    <3>1. g \in 1 .. n /\ g \in 1 .. n + 1 /\ ~ (d <= g)
      BY <1>1, <1>3, <2>1
    <3>2. g \notin F
      BY <1>3, <3>1
    <3> QED
      BY <3>1, <3>2
  <2> QED
    BY <1>3, <2>1
<1>5. AvailableTimer(ts) = CHOOSE h \in 1 .. n + 1 : Fits(h)
  BY DEF AvailableTimer, n
<1> HIDE DEF Fits
<1>6. AvailableTimer(ts) \in 1 .. n + 1 /\ Fits(AvailableTimer(ts))
  BY <1>4, <1>5
<1>7. \A g \in 1 .. n : g < AvailableTimer(ts) => g \in 1 .. AvailableTimer(ts) - 1
  BY <1>1, <1>6
<1> QED
  BY <1>6, <1>7 DEF Fits, n

\* r is ts with the timer in slot h.
Scheduled(S, ts, timer, h, r) ==
  /\ r \in Seq(S) /\ h \in Nat \ {0} /\ r[h] = timer
  /\ DOMAIN r = DOMAIN ts \cup {h}
  /\ \A g \in DOMAIN ts : g # h => r[g] = ts[g]
  /\ \/ h \in DOMAIN ts /\ ts[h].available /\ Len(r) = Len(ts)
     \/ /\ h = Len(ts) + 1 /\ Len(r) = Len(ts) + 1
        /\ \A g \in DOMAIN ts : ~ts[g].available

\* schedule puts the timer into its slot and leaves the others alone; the table
\* grows only when no slot is free.
LEMMA ScheduleFacts ==
  ASSUME NEW S, NEW ts \in Seq(S), NEW timer \in S
  PROVE  Scheduled(S, ts, timer, AvailableTimer(ts), Schedule(ts, timer))
<1> DEFINE h == AvailableTimer(ts)
           r == Schedule(ts, timer)
<1> SUFFICES Scheduled(S, ts, timer, h, r)
  OBVIOUS
<1> USE DEF Scheduled
<1>0. h = AvailableTimer(ts) /\ r = Schedule(ts, timer)
  OBVIOUS
<1> HIDE DEF h, r
<1>1. Len(ts) \in Nat /\ DOMAIN ts = 1 .. Len(ts)
  BY LenProperties
<1>2. /\ h \in 1 .. Len(ts) + 1
      /\ h <= Len(ts) => ts[h].available
      /\ \A g \in 1 .. Len(ts) : g < h => ~ts[g].available
  BY <1>0, AvailableFacts
<1>3. r = IF h > Len(ts) THEN Append(ts, timer) ELSE [ts EXCEPT ![h] = timer]
  BY <1>0 DEF Schedule
<1>4. CASE h = Len(ts) + 1
  <2>1. r = Append(ts, timer)
    <3>1. Len(ts) + 1 > Len(ts)
      BY <1>1
    <3>2. h > Len(ts)
      BY <1>4, <3>1, Zenon
    <3> QED
      BY <1>3, <3>2, Zenon
  <2>2. /\ r \in Seq(S) /\ Len(r) = Len(ts) + 1 /\ r[h] = timer
        /\ \A g \in 1 .. Len(ts) : r[g] = ts[g]
    BY <1>4, <2>1, AppendProperties
  <2>3. DOMAIN r = 1 .. Len(ts) + 1
    BY <2>2, LenProperties
  <2>4. \A g \in DOMAIN ts : ~ts[g].available
    BY <1>1, <1>2, <1>4
  <2>5. DOMAIN r = DOMAIN ts \cup {h} /\ h \in Nat \ {0}
    BY <1>1, <1>4, <2>3
  <2> QED
    BY <1>1, <1>4, <2>2, <2>4, <2>5
<1>5. CASE h \in 1 .. Len(ts)
  <2>1. r = [ts EXCEPT ![h] = timer]
    <3>1. \A g \in 1 .. Len(ts) : ~ (g > Len(ts))
      BY <1>1
    <3>2. ~ (h > Len(ts))
      BY <1>5, <3>1, Zenon
    <3> QED
      BY <1>3, <3>2, Zenon
  <2>2. /\ r \in Seq(S) /\ Len(r) = Len(ts)
        /\ \A g \in 1 .. Len(ts) : r[g] = IF g = h THEN timer ELSE ts[g]
    BY <1>5, <2>1, ExceptSeq
  <2>3. DOMAIN r = 1 .. Len(ts)
    BY <2>2, LenProperties
  <2>4. ts[h].available
    BY <1>1, <1>2, <1>5
  <2>5. DOMAIN r = DOMAIN ts \cup {h} /\ h \in Nat \ {0}
    BY <1>1, <1>5, <2>3
  <2>6. r[h] = timer /\ \A g \in DOMAIN ts : g # h => r[g] = ts[g]
    BY <1>1, <1>5, <2>2
  <2>7. h \in DOMAIN ts
    BY <1>1, <1>5, Zenon
  <2> QED
    BY <2>2, <2>4, <2>5, <2>6, <2>7
<1> QED
  BY <1>1, <1>2, <1>4, <1>5

-----------------------------------------------------------------------------
(* Who owns which slot.                                                    *)

Owned(ts, H, own, U) ==
  /\ \A u \in U : H[u] # NoTimer =>
       /\ H[u] \in DOMAIN ts /\ ~ts[H[u]].available
       /\ ts[H[u]].callback \in DOMAIN own /\ own[ts[H[u]].callback] = u
  /\ \A h \in DOMAIN ts : ~ts[h].available => \E u \in U : H[u] = h
  /\ \A h \in DOMAIN ts : ts[h].available => ~ts[h].enable

\* r is ts without the slot h; K are the handles that are left.
Freed(C, U, own, ts, h, K, r) ==
  /\ r \in Seq(SlotType(Nat, C)) /\ Len(r) = Len(ts) /\ DOMAIN r = DOMAIN ts
  /\ Owned(r, K, own, U)
  /\ \A g \in DOMAIN ts : g # h => r[g] = ts[g]

\* r is ts with the timer in slot h, whose owner had the slot old before.
Taken(C, U, own, ts, old, K, timer, h, r) ==
  /\ r \in Seq(SlotType(Nat, C)) /\ Len(r) >= Len(ts)
  /\ Len(r) = Len(ts) \/ Len(r) <= Cardinality(U)
  /\ Owned(r, K, own, U)
  /\ h \in DOMAIN r /\ h # NoTimer /\ r[h] = timer
  /\ \A g \in DOMAIN ts : ~ts[g].available /\ g # old => g \in DOMAIN r /\ r[g] = ts[g]

\* deleteTimer gives back the slot of u and no other, and its handle is forgotten.
LEMMA GiveBack ==
  ASSUME NEW C, NEW U, NEW own, NEW ts \in Seq(SlotType(Nat, C)), NEW H \in [U -> Nat],
         Owned(ts, H, own, U), NEW u \in U, NEW K \in [U -> Nat],
         K[u] = NoTimer, \A w \in U \ {u} : K[w] = H[w]
  PROVE  Freed(C, U, own, ts, H[u], K, DeleteTimer(ts, H[u]))
<1> DEFINE r == DeleteTimer(ts, H[u])
<1> USE DEF Freed
<1>1. Blank \in SlotType(Nat, C) /\ Blank.available /\ ~Blank.enable
  BY DEF Blank, SlotType
<1>2. DOMAIN ts = 1 .. Len(ts) /\ Len(ts) \in Nat
  BY LenProperties
<1>3. CASE H[u] = NoTimer
  <2>1. r = ts /\ K = H
    BY <1>3 DEF DeleteTimer
  <2> QED
    BY <2>1
<1>4. CASE H[u] # NoTimer
  <2>1. H[u] \in 1 .. Len(ts) /\ own[ts[H[u]].callback] = u
    BY <1>2, <1>4 DEF Owned
  <2>2. r = [ts EXCEPT ![H[u]] = Blank]
    BY <1>4 DEF DeleteTimer
  <2>3. /\ r \in Seq(SlotType(Nat, C)) /\ Len(r) = Len(ts)
        /\ \A h \in 1 .. Len(ts) : r[h] = IF h = H[u] THEN Blank ELSE ts[h]
    BY <1>1, <2>1, <2>2, ExceptSeq
  <2>4. DOMAIN r = DOMAIN ts
    BY <1>2, <2>3, LenProperties
  <2> HIDE DEF r
  <2>5. ASSUME NEW w \in U, K[w] # NoTimer
        PROVE  /\ K[w] \in DOMAIN r /\ ~r[K[w]].available
               /\ r[K[w]].callback \in DOMAIN own /\ own[r[K[w]].callback] = w
    <3>1. w # u /\ K[w] = H[w]
      BY <2>5
    <3>2. /\ H[w] \in DOMAIN ts /\ ~ts[H[w]].available
          /\ ts[H[w]].callback \in DOMAIN own /\ own[ts[H[w]].callback] = w
      BY <2>5, <3>1 DEF Owned
    <3>3. H[w] # H[u]
      BY <2>1, <3>1, <3>2
    <3>4. r[K[w]] = ts[H[w]]
      BY <1>2, <2>3, <3>1, <3>2, <3>3
    <3> QED
      BY <2>4, <3>1, <3>2, <3>4
  <2>6. ASSUME NEW h \in DOMAIN r, ~r[h].available
        PROVE  \E w \in U : K[w] = h
    <3>1. h \in DOMAIN ts /\ h # H[u] /\ ~ts[h].available
      BY <1>1, <1>2, <2>3, <2>4, <2>6
    <3>2. PICK w \in U : H[w] = h
      BY <3>1 DEF Owned
    <3> QED
      BY <3>1, <3>2
  <2>7. \A h \in DOMAIN r : r[h].available => ~r[h].enable
    BY <1>1, <1>2, <2>3, <2>4 DEF Owned
  <2>8. Owned(r, K, own, U)
    BY <2>5, <2>6, <2>7 DEF Owned
  <2> QED
    BY <1>2, <2>3, <2>4, <2>8 DEF r
<1> QED
  BY <1>3, <1>4

\* Slots that all have an owner are not more than their owners.
LEMMA FullTable ==
  ASSUME NEW V, IsFiniteSet(V), NEW H, NEW n \in Nat, \A g \in 1 .. n : \E w \in V : H[w] = g
  PROVE  n <= Cardinality(V)
<1> DEFINE f == [g \in 1 .. n |-> CHOOSE w \in V : H[w] = g]
<1>1. \A g \in 1 .. n : f[g] \in V /\ H[f[g]] = g
  OBVIOUS
<1>2. f \in Injection(1 .. n, V)
  <2>1. f \in [1 .. n -> V]
    BY <1>1
  <2> HIDE DEF f
  <2> QED
    BY <1>1, <2>1 DEF Injection, IsInjective
<1> HIDE DEF f
<1>3. Cardinality(1 .. n) <= Cardinality(V)
  BY <1>2, FS_Injection
<1>4. Cardinality(1 .. n) = n
  <2>1. Cardinality(1 .. n) = IF 1 > n THEN 0 ELSE n - 1 + 1
    BY FS_Interval
  <2> QED
    BY <2>1
<1> QED
  BY <1>3, <1>4

\* schedule gives u a slot of its own; the slots in use stay as they are, and
\* the table grows only while there are more users than slots.
LEMMA Take ==
  ASSUME NEW C, NEW U, NEW own, NEW ts \in Seq(SlotType(Nat, C)), NEW H \in [U -> Nat],
         Owned(ts, H, own, U), NEW u \in U, H[u] = NoTimer,
         NEW timer \in SlotType(Nat, C), ~timer.available,
         timer.callback \in DOMAIN own, own[timer.callback] = u,
         NEW K \in [U -> Nat],
         K[u] = AvailableTimer(ts), \A w \in U \ {u} : K[w] = H[w],
         IsFiniteSet(U)
  PROVE  Taken(C, U, own, ts, NoTimer, K, timer, K[u], Schedule(ts, timer))
<1> DEFINE h == AvailableTimer(ts)
           r == Schedule(ts, timer)
           S == SlotType(Nat, C)
<1>1. /\ r \in Seq(S) /\ h \in Nat \ {0} /\ r[h] = timer
      /\ DOMAIN r = DOMAIN ts \cup {h}
      /\ \A g \in DOMAIN ts : g # h => r[g] = ts[g]
      /\ \/ h \in DOMAIN ts /\ ts[h].available /\ Len(r) = Len(ts)
         \/ /\ h = Len(ts) + 1 /\ Len(r) = Len(ts) + 1
            /\ \A g \in DOMAIN ts : ~ts[g].available
  <2>1. ts \in Seq(S) /\ timer \in S
    OBVIOUS
  <2> HIDE DEF S
  <2>2. Scheduled(S, ts, timer, AvailableTimer(ts), Schedule(ts, timer))
    BY <2>1, ScheduleFacts
  <2> QED
    BY <2>2 DEF Scheduled
<1>2. DOMAIN ts = 1 .. Len(ts) /\ Len(ts) \in Nat /\ Cardinality(U) \in Nat
  BY LenProperties, FS_CardinalityType
<1> HIDE DEF h, r, S
<1>3. K[u] = h
  BY DEF h
<1>4. ASSUME NEW w \in U, K[w] # NoTimer
      PROVE  /\ K[w] \in DOMAIN r /\ ~r[K[w]].available
             /\ r[K[w]].callback \in DOMAIN own /\ own[r[K[w]].callback] = w
  <2>1. CASE w = u
    BY <1>1, <1>3, <2>1
  <2>2. CASE w # u
    <3>1. /\ H[w] \in DOMAIN ts /\ ~ts[H[w]].available /\ K[w] = H[w]
          /\ ts[H[w]].callback \in DOMAIN own /\ own[ts[H[w]].callback] = w
      BY <1>4, <2>2 DEF Owned
    <3>2. H[w] # h /\ r[H[w]] = ts[H[w]]
      BY <1>1, <3>1
    <3> QED
      BY <1>1, <3>1, <3>2
  <2> QED
    BY <2>1, <2>2
<1>5. ASSUME NEW g \in DOMAIN r, ~r[g].available
      PROVE  \E w \in U : K[w] = g
  <2>1. CASE g = h
    BY <1>3, <2>1
  <2>2. CASE g # h
    <3>1. g \in DOMAIN ts /\ ~ts[g].available
      BY <1>1, <1>5, <2>2
    <3>2. PICK w \in U : H[w] = g
      BY <3>1 DEF Owned
    <3>3. w # u
      BY <1>2, <3>1, <3>2 DEF NoTimer
    <3> QED
      BY <3>2, <3>3
  <2> QED
    BY <2>1, <2>2
<1>6. \A g \in DOMAIN r : r[g].available => ~r[g].enable
  BY <1>1 DEF Owned
<1>7. Owned(r, K, own, U)
  BY <1>4, <1>5, <1>6 DEF Owned
<1>8. Len(r) >= Len(ts) /\ (Len(r) = Len(ts) \/ Len(r) <= Cardinality(U))
  <2>1. CASE h \in DOMAIN ts /\ ts[h].available /\ Len(r) = Len(ts)
    BY <1>2, <2>1
  <2>2. CASE /\ h = Len(ts) + 1 /\ Len(r) = Len(ts) + 1
             /\ \A g \in DOMAIN ts : ~ts[g].available
    <3> DEFINE V == U \ {u}
    <3>1. \A g \in 1 .. Len(ts) : \E w \in V : H[w] = g
      <4>1. \A g \in DOMAIN ts : ~ts[g].available
        BY <2>2
      <4>2. \A g \in DOMAIN ts : \E w \in U : H[w] = g
        BY <4>1 DEF Owned
      <4> QED
        BY <1>2, <4>2 DEF NoTimer
    <3>2. IsFiniteSet(V) /\ Cardinality(V) = Cardinality(U) - 1
      BY FS_RemoveElement
    <3> HIDE DEF V
    <3>3. Len(ts) <= Cardinality(V)
      BY <1>2, <3>1, <3>2, FullTable
    <3>4. Len(r) = Len(ts) + 1
      BY <2>2
    <3>5. Len(ts) + 1 >= Len(ts) /\ Len(ts) + 1 <= Cardinality(U)
      BY <1>2, <3>2, <3>3
    <3> QED
      BY <3>4, <3>5, Zenon
  <2>3. \/ h \in DOMAIN ts /\ ts[h].available /\ Len(r) = Len(ts)
        \/ /\ h = Len(ts) + 1 /\ Len(r) = Len(ts) + 1
           /\ \A g \in DOMAIN ts : ~ts[g].available
    BY <1>1
  <2> QED
    BY <2>1, <2>2, <2>3, Zenon
<1>9. \A g \in DOMAIN ts :
        ~ts[g].available /\ g # NoTimer => g \in DOMAIN r /\ r[g] = ts[g]
  BY <1>1
<1> QED
  BY <1>1, <1>3, <1>7, <1>8, <1>9 DEF r, S, NoTimer, Taken

\* deleteTimer and then schedule: u goes from the slot it may have to another.
LEMMA Replace ==
  ASSUME NEW C, NEW U, NEW own, NEW ts \in Seq(SlotType(Nat, C)), NEW H \in [U -> Nat],
         Owned(ts, H, own, U), NEW u \in U,
         NEW timer \in SlotType(Nat, C), ~timer.available,
         timer.callback \in DOMAIN own, own[timer.callback] = u,
         NEW K \in [U -> Nat],
         K[u] = AvailableTimer(DeleteTimer(ts, H[u])), \A w \in U \ {u} : K[w] = H[w],
         IsFiniteSet(U)
  PROVE  Taken(C, U, own, ts, H[u], K, timer, K[u], Schedule(DeleteTimer(ts, H[u]), timer))
<1> DEFINE d == DeleteTimer(ts, H[u])
           r == Schedule(d, timer)
           J == [w \in U |-> IF w = u THEN NoTimer ELSE H[w]]
<1>1. J \in [U -> Nat] /\ J[u] = NoTimer /\ \A w \in U \ {u} : J[w] = H[w]
  BY DEF NoTimer
<1> HIDE DEF J
<1>2. Freed(C, U, own, ts, H[u], J, d)
  BY <1>1, GiveBack
<1>3. K[u] = AvailableTimer(d) /\ \A w \in U \ {u} : K[w] = J[w]
  BY <1>1
<1> HIDE DEF d
<1>4. d \in Seq(SlotType(Nat, C)) /\ Owned(d, J, own, U)
  BY <1>2 DEF Freed
<1>5. Taken(C, U, own, d, NoTimer, K, timer, K[u], r)
  BY <1>1, <1>3, <1>4, Take
<1> HIDE DEF r
<1>6. ASSUME NEW h \in DOMAIN ts, ~ts[h].available, h # H[u]
      PROVE  h \in DOMAIN r /\ r[h] = ts[h]
  <2>1. h \in DOMAIN d /\ d[h] = ts[h] /\ h # NoTimer
    <3>1. DOMAIN ts = 1 .. Len(ts)
      BY LenProperties
    <3> QED
      BY <1>2, <1>6, <3>1 DEF Freed, NoTimer
  <2> QED
    BY <1>5, <1>6, <2>1 DEF Taken
<1>7. Taken(C, U, own, ts, H[u], K, timer, K[u], r)
  BY <1>2, <1>5, <1>6 DEF Freed, Taken
<1> QED
  BY <1>7 DEF r, d

\* The same but for the table, which may have one slot more than there are users.
Moved(C, U, own, ts, old, K, timer, h, r) ==
  /\ r \in Seq(SlotType(Nat, C))
  /\ Len(r) = Len(ts) \/ Len(r) <= Cardinality(U) + 1
  /\ Owned(r, K, own, U)
  /\ h \in DOMAIN r /\ h # NoTimer /\ r[h] = timer
  /\ \A g \in DOMAIN ts : ~ts[g].available /\ g # old => g \in DOMAIN r /\ r[g] = ts[g]

\* A slot taken, or exchanged, is one that has moved.
LEMMA TakenMoved ==
  ASSUME NEW C, NEW U, IsFiniteSet(U), NEW own, NEW ts, NEW old, NEW K, NEW timer, NEW h, NEW r,
         Taken(C, U, own, ts, old, K, timer, h, r)
  PROVE  Moved(C, U, own, ts, old, K, timer, h, r)
<1>1. Len(r) <= Cardinality(U) => Len(r) <= Cardinality(U) + 1
  <2>1. r \in Seq(SlotType(Nat, C))
    BY DEF Taken
  <2>2. Len(r) \in Nat /\ Cardinality(U) \in Nat
    BY <2>1, LenProperties, FS_CardinalityType
  <2> QED
    BY <2>2
<1> QED
  BY <1>1 DEF Taken, Moved

\* schedule and then deleteTimer: u has two slots for a while.
LEMMA Move ==
  ASSUME NEW C, NEW U, NEW own, NEW ts \in Seq(SlotType(Nat, C)), NEW H \in [U -> Nat],
         Owned(ts, H, own, U), NEW u \in U,
         NEW timer \in SlotType(Nat, C), ~timer.available,
         timer.callback \in DOMAIN own, own[timer.callback] = u,
         NEW K \in [U -> Nat],
         K[u] = AvailableTimer(ts), \A w \in U \ {u} : K[w] = H[w],
         IsFiniteSet(U)
  PROVE  Moved(C, U, own, ts, H[u], K, timer, K[u], DeleteTimer(Schedule(ts, timer), H[u]))
<1> DEFINE h == AvailableTimer(ts)
           m == Schedule(ts, timer)
           r == DeleteTimer(m, H[u])
           S == SlotType(Nat, C)
<1>0. Blank \in S /\ Blank.available /\ ~Blank.enable
  BY DEF Blank, SlotType
<1>1. /\ m \in Seq(S) /\ h \in Nat \ {0} /\ m[h] = timer
      /\ DOMAIN m = DOMAIN ts \cup {h}
      /\ \A g \in DOMAIN ts : g # h => m[g] = ts[g]
      /\ \/ h \in DOMAIN ts /\ ts[h].available /\ Len(m) = Len(ts)
         \/ /\ h = Len(ts) + 1 /\ Len(m) = Len(ts) + 1
            /\ \A g \in DOMAIN ts : ~ts[g].available
  <2>1. ts \in Seq(S) /\ timer \in S
    OBVIOUS
  <2> HIDE DEF S
  <2>2. Scheduled(S, ts, timer, AvailableTimer(ts), Schedule(ts, timer))
    BY <2>1, ScheduleFacts
  <2> QED
    BY <2>2 DEF Scheduled
<1>2. /\ DOMAIN ts = 1 .. Len(ts) /\ Len(ts) \in Nat /\ Cardinality(U) \in Nat
      /\ DOMAIN m = 1 .. Len(m)
  BY <1>1, LenProperties, FS_CardinalityType
<1>3. K[u] = h
  OBVIOUS
<1>4. H[u] # NoTimer => H[u] \in DOMAIN ts /\ ~ts[H[u]].available /\ own[ts[H[u]].callback] = u
  BY DEF Owned
<1>5. h # H[u] /\ h \in DOMAIN m /\ h # NoTimer
  <2>1. h \notin DOMAIN ts \/ ts[h].available
    BY <1>1, <1>2
  <2> QED
    BY <1>1, <1>4, <2>1 DEF NoTimer
<1>6. /\ r \in Seq(S) /\ Len(r) = Len(m) /\ DOMAIN r = DOMAIN m
      /\ \A g \in DOMAIN m : r[g] = IF H[u] # NoTimer /\ g = H[u] THEN Blank ELSE m[g]
  <2>1. CASE H[u] = NoTimer
    BY <1>1, <2>1 DEF DeleteTimer
  <2>2. CASE H[u] # NoTimer
    <3>1. H[u] \in 1 .. Len(m) /\ r = [m EXCEPT ![H[u]] = Blank]
      BY <1>1, <1>2, <1>4, <2>2 DEF DeleteTimer
    <3>2. /\ r \in Seq(S) /\ Len(r) = Len(m)
          /\ \A g \in 1 .. Len(m) : r[g] = IF g = H[u] THEN Blank ELSE m[g]
      BY <1>0, <1>1, <3>1, ExceptSeq
    <3>3. DOMAIN r = 1 .. Len(r)
      BY <3>2, LenProperties
    <3> QED
      BY <1>2, <2>2, <3>2, <3>3
  <2> QED
    BY <2>1, <2>2
<1> HIDE DEF h, m, r, S
<1>7. ASSUME NEW g \in DOMAIN ts, ~ts[g].available, g # H[u]
      PROVE  g \in DOMAIN r /\ r[g] = ts[g]
  <2>1. g # h
    BY <1>1, <1>2, <1>7
  <2> QED
    BY <1>1, <1>6, <1>7, <2>1
<1>8. r[h] = timer
  BY <1>1, <1>5, <1>6
<1>9. ASSUME NEW w \in U, K[w] # NoTimer
      PROVE  /\ K[w] \in DOMAIN r /\ ~r[K[w]].available
             /\ r[K[w]].callback \in DOMAIN own /\ own[r[K[w]].callback] = w
  <2>1. CASE w = u
    BY <1>3, <1>5, <1>6, <1>8, <2>1
  <2>2. CASE w # u
    <3>1. /\ H[w] \in DOMAIN ts /\ ~ts[H[w]].available /\ K[w] = H[w]
          /\ ts[H[w]].callback \in DOMAIN own /\ own[ts[H[w]].callback] = w
      BY <1>9, <2>2 DEF Owned
    <3>2. H[w] # H[u]
      BY <1>4, <1>9, <2>2, <3>1
    <3>3. H[w] \in DOMAIN r /\ r[H[w]] = ts[H[w]]
      BY <1>7, <3>1, <3>2
    <3> QED
      BY <3>1, <3>3
  <2> QED
    BY <2>1, <2>2
<1>10. ASSUME NEW g \in DOMAIN r, ~r[g].available
       PROVE  \E w \in U : K[w] = g
  <2>1. CASE g = h
    BY <1>3, <2>1
  <2>2. CASE g # h
    <3>1. g \in DOMAIN ts /\ r[g] = (IF H[u] # NoTimer /\ g = H[u] THEN Blank ELSE m[g]) /\ m[g] = ts[g]
      BY <1>1, <1>6, <2>2
    <3>2. ~ (H[u] # NoTimer /\ g = H[u]) /\ ~ts[g].available
      BY <1>0, <1>10, <3>1
    <3>3. g # NoTimer
      BY <1>2, <3>1 DEF NoTimer
    <3>4. PICK w \in U : H[w] = g
      BY <3>1, <3>2 DEF Owned
    <3>5. w # u
      BY <3>2, <3>3, <3>4
    <3> QED
      BY <3>4, <3>5
  <2> QED
    BY <2>1, <2>2
<1>11. ASSUME NEW g \in DOMAIN r, r[g].available
       PROVE  ~r[g].enable
  <2>1. CASE g = h
    BY <1>8, <1>11, <2>1
  <2>2. CASE g # h
    <3>1. g \in DOMAIN ts /\ r[g] = (IF H[u] # NoTimer /\ g = H[u] THEN Blank ELSE m[g]) /\ m[g] = ts[g]
      BY <1>1, <1>6, <2>2
    <3> QED
      BY <1>0, <1>11, <3>1 DEF Owned
  <2> QED
    BY <2>1, <2>2
<1>12. Owned(r, K, own, U)
  BY <1>9, <1>10, <1>11 DEF Owned
<1>13. Len(r) = Len(ts) \/ Len(r) <= Cardinality(U) + 1
  <2>1. CASE Len(m) = Len(ts) + 1 /\ \A g \in DOMAIN ts : ~ts[g].available
    <3>1. \A g \in 1 .. Len(ts) : \E w \in U : H[w] = g
      BY <1>2, <2>1 DEF Owned
    <3>2. Len(ts) <= Cardinality(U)
      BY <1>2, <3>1, FullTable
    <3>3. Len(ts) + 1 <= Cardinality(U) + 1
      BY <1>2, <3>2
    <3> QED
      BY <1>6, <2>1, <3>3, Zenon
  <2> QED
    BY <1>1, <1>6, <2>1
<1> QED
  BY <1>3, <1>5, <1>6, <1>7, <1>8, <1>12, <1>13 DEF Moved, r, m, S

\* What serviceTimers and the clock do to a slot is no matter to its owner.
LEMMA SameOwners ==
  ASSUME NEW ts, NEW r, NEW H, NEW own, NEW U, Owned(ts, H, own, U),
         DOMAIN r = DOMAIN ts,
         \A h \in DOMAIN ts :
           /\ r[h].available = ts[h].available /\ r[h].callback = ts[h].callback
           /\ r[h].enable => ts[h].enable
  PROVE  Owned(r, H, own, U)
BY DEF Owned

LEMMA ServedFacts ==
  ASSUME NEW C, NEW ts \in Seq(SlotType(Nat, C)), NEW h \in Due(ts)
  PROVE  LET r == Served(ts, h)
         IN /\ r \in Seq(SlotType(Nat, C)) /\ Len(r) = Len(ts) /\ DOMAIN r = DOMAIN ts
            /\ \A g \in DOMAIN ts :
                 /\ r[g].available = ts[g].available /\ r[g].callback = ts[g].callback
                 /\ r[g].enable => ts[g].enable
            /\ \A g \in DOMAIN ts : g # h => r[g] = ts[g]
<1> DEFINE r == Served(ts, h)
           x == [ts[h] EXCEPT !.left = ts[h].interval]
           y == [ts[h] EXCEPT !.enable = FALSE]
           z == IF ts[h].repeat THEN x ELSE y
<1>1. DOMAIN ts = 1 .. Len(ts) /\ Len(ts) \in Nat /\ h \in 1 .. Len(ts) /\ ts[h].enable
  BY LenProperties DEF Due
<1>2. ts[h] \in SlotType(Nat, C)
  BY <1>1, ElementOfSeq
<1>3. /\ x \in SlotType(Nat, C) /\ x.available = ts[h].available
      /\ x.callback = ts[h].callback
  BY <1>2 DEF SlotType
<1>4. /\ y \in SlotType(Nat, C) /\ y.available = ts[h].available
      /\ y.callback = ts[h].callback
  BY <1>2 DEF SlotType
<1> HIDE DEF x, y
<1>5. /\ z \in SlotType(Nat, C) /\ z.available = ts[h].available
      /\ z.callback = ts[h].callback
  BY <1>3, <1>4
<1>6. r = [ts EXCEPT ![h] = z]
  BY DEF Served, x, y
<1> HIDE DEF z
<1>7. /\ r \in Seq(SlotType(Nat, C)) /\ Len(r) = Len(ts)
      /\ \A g \in 1 .. Len(ts) : r[g] = IF g = h THEN z ELSE ts[g]
  BY <1>1, <1>5, <1>6, ExceptSeq
<1>8. DOMAIN r = DOMAIN ts
  BY <1>1, <1>7, LenProperties
<1> HIDE DEF r
<1>9. ASSUME NEW g \in DOMAIN ts
      PROVE  /\ r[g].available = ts[g].available /\ r[g].callback = ts[g].callback
             /\ r[g].enable => ts[g].enable
  BY <1>1, <1>5, <1>7
<1>10. \A g \in DOMAIN ts : g # h => r[g] = ts[g]
  BY <1>1, <1>7
<1> QED
  BY <1>7, <1>8, <1>9, <1>10 DEF r

LEMMA ElapsedFacts ==
  ASSUME NEW C, NEW ts \in Seq(SlotType(Nat, C))
  PROVE  LET r == Elapsed(ts)
         IN /\ r \in Seq(SlotType(Nat, C)) /\ Len(r) = Len(ts) /\ DOMAIN r = DOMAIN ts
            /\ \A g \in DOMAIN ts :
                 /\ r[g].available = ts[g].available /\ r[g].callback = ts[g].callback
                 /\ r[g].enable = ts[g].enable
                 /\ ts[g].enable =>
                      r[g].left = IF ts[g].left > 0 THEN ts[g].left - 1 ELSE ts[g].left
<1> DEFINE r == Elapsed(ts)
           S == SlotType(Nat, C)
<1>1. DOMAIN ts = 1 .. Len(ts) /\ Len(ts) \in Nat
  BY LenProperties
<1>2. ASSUME NEW g \in 1 .. Len(ts)
      PROVE  /\ r[g] \in S
             /\ r[g].available = ts[g].available /\ r[g].callback = ts[g].callback
             /\ r[g].enable = ts[g].enable
             /\ ts[g].enable =>
                  r[g].left = IF ts[g].left > 0 THEN ts[g].left - 1 ELSE ts[g].left
  <2>1. ts[g] \in S
    BY ElementOfSeq
  <2>2. r[g] = IF ts[g].enable /\ ts[g].left > 0 THEN [ts[g] EXCEPT !.left = @ - 1] ELSE ts[g]
    BY <1>1 DEF Elapsed
  <2> HIDE DEF r
  <2>3. CASE ts[g].enable /\ ts[g].left > 0
    <3>1. r[g] = [ts[g] EXCEPT !.left = ts[g].left - 1] /\ ts[g].left - 1 \in Nat
      BY <2>1, <2>2, <2>3 DEF SlotType
    <3> QED
      BY <2>1, <2>3, <3>1 DEF SlotType
  <2>4. CASE ~(ts[g].enable /\ ts[g].left > 0)
    BY <2>1, <2>2, <2>4
  <2> QED
    BY <2>3, <2>4
<1>3. r = [g \in 1 .. Len(ts) |-> r[g]]
  BY <1>1 DEF Elapsed
<1> HIDE DEF r, S
<1>4. r \in Seq(S)
  BY <1>1, <1>2, <1>3, IsASeq
<1>5. DOMAIN r = 1 .. Len(ts)
  BY <1>3
<1>6. Len(r) = Len(ts)
  BY <1>1, <1>4, <1>5, LenProperties
<1> QED
  BY <1>1, <1>2, <1>4, <1>5, <1>6 DEF r, S
=============================================================================
