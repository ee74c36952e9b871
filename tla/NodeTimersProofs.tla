--------------------------- MODULE NodeTimersProofs ---------------------------
(***************************************************************************)
(* Proofs about NodeTimers on the Teensy, for any number of peers, keys,   *)
(* RPDOs and timeouts: who waits owns a slot that will call it; but for    *)
(* what the timeout of an RPDO calls, no timer is early although the clock *)
(* wraps, and the vector does not grow while it is served.                 *)
(***************************************************************************)
EXTENDS NodeTimers, FunctionTheorems, FiniteSetTheorems, SequenceTheorems,
        WellFoundedInduction, TLAPS

-----------------------------------------------------------------------------
(* The record a handler works on, and who holds what in it.                *)

State == [slots : Seq(Slot), handle : [Users -> Nat],
          generation : [Users -> Nat], waiting : SUBSET Users]

\* The slot of u will call u.
Calls(s, u) ==
  /\ s.handle[u] \in DOMAIN s.slots
  /\ s.slots[s.handle[u]].enable /\ s.slots[s.handle[u]].user = u
  /\ s.slots[s.handle[u]].repeat <=> u = Producer
  /\ u # Producer => s.slots[s.handle[u]].generation = s.generation[u]

\* u keeps the slot of a timer that has fired.
Keeps(s, u) ==
  /\ u \in Rpdos /\ s.handle[u] \in DOMAIN s.slots
  /\ s.slots[s.handle[u]].user = u
  /\ ~s.slots[s.handle[u]].available /\ ~s.slots[s.handle[u]].enable

\* The users in W hold armed slots, others at most one that has fired.
Held(s, W) ==
  /\ W \subseteq Users
  /\ \A w \in W : Calls(s, w)
  /\ \A h \in DOMAIN s.slots : s.slots[h].available => ~s.slots[h].enable
  /\ \A h \in DOMAIN s.slots : ~s.slots[h].available => \E w \in Users : s.handle[w] = h
  /\ \A w \in Users \ W : s.handle[w] = NoTimer \/ Keeps(s, w)

\* The same with u as one who may have a slot that is not to call it.
Leaving(s, W, u) ==
  /\ W \subseteq Users \ {u}
  /\ \A w \in W : Calls(s, w)
  /\ \A h \in DOMAIN s.slots : s.slots[h].available => ~s.slots[h].enable
  /\ \A h \in DOMAIN s.slots : ~s.slots[h].available => \E w \in Users : s.handle[w] = h
  /\ \A w \in (Users \ W) \ {u} : s.handle[w] = NoTimer \/ Keeps(s, w)
  /\ \/ s.handle[u] = NoTimer
     \/ s.handle[u] \in DOMAIN s.slots /\ s.slots[s.handle[u]].user = u

Good(s) == s \in State /\ Held(s, s.waiting)

\* The slots beyond b are as they were, and no more of them.
SameBeyond(s, t, b) ==
  /\ Len(t.slots) = Len(s.slots)
  /\ \A h \in DOMAIN s.slots : h > b => t.slots[h] = s.slots[h]

\* A slot that is free, and one that is armed.
LEMMA BlankFacts ==
  /\ Blank \in Slot /\ Blank.available /\ ~Blank.enable
  /\ \A ms \in Nat, u \in Users, g \in Nat :
       LET timer == Armed(ms, u, g)
       IN /\ timer \in Slot /\ ~timer.available /\ timer.enable
          /\ timer.user = u /\ timer.generation = g /\ ~timer.repeat
<1>1. Blank \in Slot /\ Blank.available /\ ~Blank.enable
  BY DEF Blank, Slot
<1>2. ASSUME NEW ms \in Nat, NEW u \in Users, NEW g \in Nat
      PROVE  LET timer == Armed(ms, u, g)
             IN /\ timer \in Slot /\ ~timer.available /\ timer.enable
                /\ timer.user = u /\ timer.generation = g /\ ~timer.repeat
  BY <1>2 DEF Armed, Blank, Slot
<1> QED
  BY <1>1, <1>2

\* A set of natural numbers has a least one.
LEMMA LeastNumber ==
  ASSUME NEW S, S \subseteq Nat, S # {}
  PROVE  \E d \in S : \A e \in S : d <= e
<1>1. \E d \in S : \A e \in S : ~ (<<e, d>> \in OpToRel(<, Nat))
  BY NatLessThanWellFounded, WFMin
<1>2. PICK d \in S : \A e \in S : ~ (<<e, d>> \in OpToRel(<, Nat))
  BY <1>1
<1>3. \A e \in S : ~ (e < d)
  BY <1>2 DEF OpToRel
<1> QED
  BY <1>3

\* A fresh generation is a number (newGeneration).
LEMMA NewGenerationType ==
  ASSUME NEW s \in State, NEW u \in Users
  PROVE  NewGeneration(s, u) \in Nat
<1> DEFINE D == {i \in DOMAIN s.slots : s.slots[i].user = u}
           f == [h \in D |-> s.slots[h].generation]
           T == {s.slots[h].generation : h \in D}
           n == Cardinality(T)
<1>1. DOMAIN s.slots = 1 .. Len(s.slots) /\ Len(s.slots) \in Nat
  <2>1. s.slots \in Seq(Slot)
    BY DEF State
  <2> QED
    BY <2>1, LenProperties
<1>2. IsFiniteSet(D)
  <2>1. IsFiniteSet(1 .. Len(s.slots))
    BY <1>1, FS_Interval
  <2>2. D \in SUBSET (1 .. Len(s.slots))
    BY <1>1
  <2> QED
    BY <2>1, <2>2, FS_Subset
<1>3. f \in Surjection(D, T)
  BY DEF Surjection
<1>4. IsFiniteSet(T)
  BY <1>2, <1>3, FS_Surjection
<1>5. n \in Nat
  BY <1>4, FS_CardinalityType
<1>6. \E g \in 0 .. n : g \notin T
  <2>1. SUFFICES ASSUME 0 .. n \in SUBSET T
                 PROVE  FALSE
    OBVIOUS
  <2>2. Cardinality(0 .. n) <= n
    BY <1>4, <2>1, FS_Subset
  <2>3. Cardinality(0 .. n) = n + 1
    BY <1>5, FS_Interval
  <2> QED
    BY <1>5, <2>2, <2>3
<1>7. NewGeneration(s, u) = CHOOSE g \in 0 .. n : g \notin T
  BY DEF NewGeneration
<1> HIDE DEF n, T
<1>8. NewGeneration(s, u) \in 0 .. n
  BY <1>6, <1>7
<1> QED
  BY <1>5, <1>8

\* What Renewed changes: the generation of u, who no longer waits.
LEMMA RenewedFacts ==
  ASSUME NEW s \in State, NEW u \in Users
  PROVE  /\ Renewed(s, u) \in State
         /\ Renewed(s, u).slots = s.slots /\ Renewed(s, u).handle = s.handle
         /\ Renewed(s, u).waiting = s.waiting \ {u}
         /\ \A w \in Users \ {u} : Renewed(s, u).generation[w] = s.generation[w]
<1>1. NewGeneration(s, u) \in Nat
  BY NewGenerationType
<1> DEFINE r == Renewed(s, u)
           fresh == [s.generation EXCEPT ![u] = NewGeneration(s, u)]
<1>2. /\ r.slots = s.slots /\ r.handle = s.handle
      /\ r.waiting = s.waiting \ {u} /\ r.generation = fresh
  BY DEF Renewed, State
<1>3. fresh \in [Users -> Nat] /\ \A w \in Users \ {u} : fresh[w] = s.generation[w]
  BY <1>1 DEF State
<1>4. r \in State
  <2>1. [s EXCEPT !.generation = fresh] \in State
    BY <1>3 DEF State
  <2>2. \A q \in State : [q EXCEPT !.waiting = s.waiting \ {u}] \in State
    BY DEF State
  <2>3. r = [[s EXCEPT !.generation = fresh] EXCEPT !.waiting = s.waiting \ {u}]
    BY DEF Renewed
  <2> QED
    BY <2>1, <2>2, <2>3
<1> HIDE DEF r, fresh
<1> QED
  BY <1>2, <1>3, <1>4 DEF r

\* A new generation for u is no matter to whoever else holds slots.
LEMMA RenewedHeld ==
  ASSUME NEW s \in State, NEW u \in Users, NEW W, u \notin W
  PROVE  /\ Held(s, W) => Held(Renewed(s, u), W)
         /\ Leaving(s, W, u) => Leaving(Renewed(s, u), W, u)
<1> DEFINE r == Renewed(s, u)
<1>1. /\ r.slots = s.slots /\ r.handle = s.handle
      /\ \A w \in Users \ {u} : r.generation[w] = s.generation[w]
  BY RenewedFacts
<1> HIDE DEF r
<1>2. ASSUME NEW w \in Users \ {u}, Calls(s, w)
      PROVE  Calls(r, w)
  BY <1>1, <1>2 DEF Calls
<1>3. Held(s, W) => Held(r, W)
  BY <1>1, <1>2 DEF Held, Keeps
<1>4. Leaving(s, W, u) => Leaving(r, W, u)
  BY <1>1, <1>2 DEF Leaving, Keeps
<1> QED
  BY <1>3, <1>4 DEF r

\* Whoever stops waiting may keep a slot of its own.
LEMMA HeldLeaving ==
  ASSUME NEW s, NEW W, NEW u \in Users, Held(s, W)
  PROVE  Leaving(s, W \ {u}, u)
BY DEF Held, Leaving, Calls, Keeps

-----------------------------------------------------------------------------
(* deleteTimer and schedule.                                               *)

\* A state with the set of those who wait replaced.
LEMMA WithWaiting ==
  ASSUME NEW s \in State, NEW W \in SUBSET Users
  PROVE  LET r == [s EXCEPT !.waiting = W]
         IN /\ r \in State /\ r.slots = s.slots /\ r.handle = s.handle
            /\ r.generation = s.generation /\ r.waiting = W
BY DEF State

\* Who gives back a slot leaves the slots of others alone.
LEMMA DeleteHeld ==
  ASSUME Platform = "teensy", NEW s \in State, NEW u \in Users, NEW W, Leaving(s, W, u)
  PROVE  LET d == Delete(s, u)
         IN /\ d \in State /\ Held(d, W) /\ d.handle[u] = NoTimer
            /\ d.waiting = s.waiting /\ d.generation = s.generation
            /\ Len(d.slots) = Len(s.slots)
            /\ \A h \in DOMAIN s.slots : h # s.handle[u] => d.slots[h] = s.slots[h]
            /\ s.handle[u] # NoTimer => d.slots[s.handle[u]].available
<1> DEFINE d == Delete(s, u)
           h == s.handle[u]
<1>1. /\ s.slots \in Seq(Slot) /\ s.handle \in [Users -> Nat]
      /\ DOMAIN s.slots = 1 .. Len(s.slots) /\ Len(s.slots) \in Nat
  <2>1. s.slots \in Seq(Slot) /\ s.handle \in [Users -> Nat]
    BY DEF State
  <2> QED
    BY <2>1, LenProperties
<1>2. CASE h = NoTimer
  <2>1. d = s
    BY <1>2 DEF Delete
  <2>2. Held(s, W)
    BY <1>2 DEF Leaving, Held
  <2> QED
    BY <1>2, <2>1, <2>2
<1>3. CASE h # NoTimer
  <2> DEFINE x == [s.slots EXCEPT ![h] = Blank]
             y == [s.handle EXCEPT ![u] = NoTimer]
  <2>1. h \in DOMAIN s.slots /\ s.slots[h].user = u
    BY <1>3 DEF Leaving
  <2>2. /\ x \in Seq(Slot) /\ Len(x) = Len(s.slots)
        /\ \A g \in DOMAIN s.slots : x[g] = IF g = h THEN Blank ELSE s.slots[g]
    BY <1>1, <2>1, BlankFacts, ExceptSeq
  <2>3. /\ y \in [Users -> Nat] /\ y[u] = NoTimer
        /\ \A w \in Users \ {u} : y[w] = s.handle[w]
    BY <1>1 DEF NoTimer
  <2>4. d = [s EXCEPT !.slots = x, !.handle = y]
    BY <1>3 DEF Delete
  <2>5. /\ d \in State /\ d.slots = x /\ d.handle = y
        /\ d.generation = s.generation /\ d.waiting = s.waiting
    BY <2>2, <2>3, <2>4 DEF State
  <2>6. DOMAIN x = DOMAIN s.slots
    BY <1>1, <2>2, LenProperties
  <2> HIDE DEF d, x, y
  <2>7. ASSUME NEW w \in W
        PROVE  Calls(d, w)
    <3>1. Calls(s, w) /\ w \in Users \ {u}
      BY <2>7 DEF Leaving
    <3>2. s.handle[w] # h
      BY <2>1, <3>1 DEF Calls
    <3> QED
      BY <2>2, <2>3, <2>5, <2>6, <3>1, <3>2 DEF Calls
  <2>8. \A g \in DOMAIN d.slots : d.slots[g].available => ~d.slots[g].enable
    BY <2>2, <2>5, <2>6, BlankFacts DEF Leaving
  <2>9. ASSUME NEW g \in DOMAIN d.slots, ~d.slots[g].available
        PROVE  \E w \in Users : d.handle[w] = g
    <3>1. g \in DOMAIN s.slots /\ g # h /\ ~s.slots[g].available
      BY <2>2, <2>5, <2>6, <2>9, BlankFacts
    <3>2. PICK w \in Users : s.handle[w] = g
      BY <3>1 DEF Leaving
    <3> QED
      BY <2>3, <2>5, <3>1, <3>2
  <2>10. ASSUME NEW w \in Users \ W
         PROVE  d.handle[w] = NoTimer \/ Keeps(d, w)
    <3>1. CASE w = u
      BY <2>3, <2>5, <3>1
    <3>2. CASE w # u /\ s.handle[w] = NoTimer
      BY <2>3, <2>5, <3>2
    <3>3. CASE w # u /\ Keeps(s, w)
      BY <2>1, <2>2, <2>3, <2>5, <2>6, <3>3 DEF Keeps
    <3> QED
      BY <3>1, <3>2, <3>3 DEF Leaving
  <2>11. Held(d, W)
    BY <2>7, <2>8, <2>9, <2>10 DEF Held, Leaving
  <2>12. d.slots[h].available
    BY <2>1, <2>2, <2>5, BlankFacts
  <2> QED
    BY <2>2, <2>3, <2>5, <2>11, <2>12 DEF d
<1> QED
  BY <1>2, <1>3

\* What a slot that is given to u takes from the free ones: the first, or a new one.
LEMMA PlacedHeld ==
  ASSUME NEW s \in State, NEW W, Held(s, W), NEW u \in Users \ W, s.handle[u] = NoTimer,
         NEW timer \in Slot, timer.enable, ~timer.available, timer.user = u,
         timer.repeat <=> u = Producer, u # Producer => timer.generation = s.generation[u],
         NEW t \in State, NEW h \in Nat,
         t.generation = s.generation, t.waiting = W \cup {u},
         t.handle[u] = h, \A w \in Users \ {u} : t.handle[w] = s.handle[w],
         h \in DOMAIN t.slots, DOMAIN s.slots \subseteq DOMAIN t.slots,
         DOMAIN t.slots \subseteq DOMAIN s.slots \cup {h},
         h \in DOMAIN s.slots => s.slots[h].available,
         t.slots[h] = timer,
         \A g \in DOMAIN s.slots : g # h => t.slots[g] = s.slots[g]
  PROVE  Good(t)
<1>1. t.handle[u] = h /\ \A w \in Users \ {u} : t.handle[w] = s.handle[w]
  OBVIOUS
<1>2. W \subseteq Users \ {u}
  BY DEF Held
<1>3. ASSUME NEW w \in W
      PROVE  Calls(t, w)
  <2>1. Calls(s, w)
    BY <1>3 DEF Held
  <2>2. s.handle[w] # h
    BY <2>1 DEF Calls, Held
  <2> QED
    BY <1>1, <1>2, <1>3, <2>1, <2>2 DEF Calls
<1>4. Calls(t, u)
  BY <1>1 DEF Calls
<1>5. \A g \in DOMAIN t.slots : t.slots[g].available => ~t.slots[g].enable
  BY DEF Held
<1>6. ASSUME NEW g \in DOMAIN t.slots, ~t.slots[g].available
      PROVE  \E w \in Users : t.handle[w] = g
  <2>1. CASE g = h
    BY <1>1, <2>1
  <2>2. CASE g # h
    <3>1. g \in DOMAIN s.slots /\ ~s.slots[g].available
      BY <1>6, <2>2
    <3>2. PICK w \in Users : s.handle[w] = g
      BY <3>1 DEF Held
    <3>3. g # NoTimer
      <4>1. s.slots \in Seq(Slot)
        BY DEF State
      <4>2. g \in 1 .. Len(s.slots)
        BY <3>1, <4>1, LenProperties
      <4> QED
        BY <4>2 DEF NoTimer
    <3> QED
      BY <1>1, <3>2, <3>3
  <2> QED
    BY <2>1, <2>2
<1>7. ASSUME NEW w \in Users \ t.waiting
      PROVE  t.handle[w] = NoTimer \/ Keeps(t, w)
  <2>1. w # u /\ w \in Users \ W /\ t.handle[w] = s.handle[w]
    BY <1>1
  <2>2. CASE s.handle[w] = NoTimer
    BY <2>1, <2>2
  <2>3. CASE Keeps(s, w)
    BY <2>1, <2>3 DEF Keeps
  <2> QED
    BY <2>1, <2>2, <2>3 DEF Held
<1> QED
  BY <1>2, <1>3, <1>4, <1>5, <1>6, <1>7 DEF Good, Held

\* Scheduling gives u a slot of its own; with a free slot up to b the table stays
\* as long as it is and is not touched beyond b.
LEMMA ScheduleGood ==
  ASSUME Platform = "teensy", NEW s \in State, NEW W, Held(s, W),
         NEW u \in Users \ W, s.waiting \cup {u} = W \cup {u}, s.handle[u] = NoTimer,
         NEW timer \in Slot, timer.enable, ~timer.available, timer.user = u,
         timer.repeat <=> u = Producer, u # Producer => timer.generation = s.generation[u]
  PROVE  LET t == Schedule(s, u, timer)
         IN /\ Good(t) /\ t.waiting = s.waiting \cup {u}
            /\ \A b \in Nat : (\E h \in DOMAIN s.slots : h <= b /\ s.slots[h].available)
                              => SameBeyond(s, t, b)
<1> DEFINE t == Schedule(s, u, timer)
           free == {h \in DOMAIN s.slots : s.slots[h].available}
           first == CHOOSE h \in free : \A g \in free : h <= g
           all == s.waiting \cup {u}
<1>1. /\ s \in State /\ s.slots \in Seq(Slot) /\ s.handle \in [Users -> Nat]
      /\ DOMAIN s.slots = 1 .. Len(s.slots) /\ Len(s.slots) \in Nat
      /\ Held(s, W) /\ all \in SUBSET Users
  <2>1. /\ s \in State /\ s.slots \in Seq(Slot) /\ s.handle \in [Users -> Nat]
        /\ Held(s, W) /\ all \in SUBSET Users
    BY DEF State, Good
  <2> QED
    BY <2>1, LenProperties
<1>2. CASE free # {}
  <2> DEFINE x == [s.slots EXCEPT ![first] = timer]
             y == [s.handle EXCEPT ![u] = first]
             p == [s EXCEPT !.slots = x, !.handle = y]
  <2>1. first \in free /\ \A g \in free : first <= g
    <3>1. free \subseteq Nat
      BY <1>1
    <3>2. \E h \in free : \A g \in free : h <= g
      BY <1>2, <3>1, LeastNumber
    <3> HIDE DEF free
    <3> QED
      BY <3>2
  <2>2. /\ x \in Seq(Slot) /\ Len(x) = Len(s.slots)
        /\ \A g \in DOMAIN s.slots : x[g] = IF g = first THEN timer ELSE s.slots[g]
    <3> HIDE DEF first
    <3> QED
      BY <1>1, <2>1, ExceptSeq
  <2>3. first \in Nat /\ first \in DOMAIN s.slots /\ s.slots[first].available
    <3> HIDE DEF first
    <3> QED
      BY <1>1, <2>1
  <2>4. y \in [Users -> Nat]
    <3> HIDE DEF first
    <3> QED
      BY <1>1, <2>3
  <2>5. t = [p EXCEPT !.waiting = p.waiting \cup {u}]
    BY <1>2 DEF Schedule
  <2> HIDE DEF first, x
  <2>6. /\ p \in State /\ p.slots = x /\ p.handle = y
        /\ p.generation = s.generation /\ p.waiting = s.waiting
    <3> HIDE DEF y
    <3> QED
      BY <1>1, <2>2, <2>4 DEF State
  <2> HIDE DEF p
  <2>7. /\ t \in State /\ t.slots = x /\ t.handle = y
        /\ t.generation = s.generation /\ t.waiting = all
    <3> HIDE DEF y, t
    <3>1. t = [p EXCEPT !.waiting = all]
      BY <2>5, <2>6
    <3> QED
      BY <1>1, <2>6, <3>1, WithWaiting
  <2>8. DOMAIN x = DOMAIN s.slots
    BY <1>1, <2>2, LenProperties
  <2> HIDE DEF t
  <2>9. Good(t)
    <3>1. t.handle[u] = first /\ \A w \in Users \ {u} : t.handle[w] = s.handle[w]
      BY <1>1, <2>7
    <3>2. /\ first \in DOMAIN t.slots /\ t.slots[first] = timer
          /\ DOMAIN t.slots = DOMAIN s.slots \cup {first}
          /\ \A g \in DOMAIN s.slots : g # first => t.slots[g] = s.slots[g]
      BY <2>2, <2>3, <2>7, <2>8
    <3>3. /\ s \in State /\ Held(s, W) /\ t \in State /\ first \in Nat
          /\ t.generation = s.generation /\ t.waiting = W \cup {u}
      BY <1>1, <2>3, <2>7
    <3>4. s.slots[first].available
      BY <2>3
    <3> HIDE DEF y, free, all
    <3> QED
      BY <3>1, <3>2, <3>3, <3>4, PlacedHeld
  <2>10. ASSUME NEW b \in Nat, \E h \in DOMAIN s.slots : h <= b /\ s.slots[h].available
         PROVE  SameBeyond(s, t, b)
    <3>1. first <= b
      BY <1>1, <2>1, <2>3, <2>10
    <3> QED
      BY <1>1, <2>2, <2>3, <2>7, <3>1 DEF SameBeyond
  <2> QED
    BY <2>7, <2>9, <2>10 DEF t
<1>3. CASE free = {}
  <2> DEFINE x == Append(s.slots, timer)
             y == [s.handle EXCEPT ![u] = Len(s.slots) + 1]
             p == [s EXCEPT !.slots = x, !.handle = y]
  <2>1. /\ x \in Seq(Slot) /\ Len(x) = Len(s.slots) + 1
        /\ x[Len(s.slots) + 1] = timer
        /\ \A g \in DOMAIN s.slots : x[g] = s.slots[g]
    BY <1>1, AppendProperties
  <2>2. y \in [Users -> Nat]
    BY <1>1
  <2>3. t = [p EXCEPT !.waiting = p.waiting \cup {u}]
    BY <1>3 DEF Schedule
  <2> HIDE DEF x
  <2>4. /\ p \in State /\ p.slots = x /\ p.handle = y
        /\ p.generation = s.generation /\ p.waiting = s.waiting
    <3> HIDE DEF y
    <3> QED
      BY <1>1, <2>1, <2>2 DEF State
  <2> HIDE DEF p
  <2>5. /\ t \in State /\ t.slots = x /\ t.handle = y
        /\ t.generation = s.generation /\ t.waiting = all
    <3> HIDE DEF y, t
    <3>1. t = [p EXCEPT !.waiting = all]
      BY <2>3, <2>4
    <3> QED
      BY <1>1, <2>4, <3>1, WithWaiting
  <2>6. DOMAIN x = 1 .. Len(s.slots) + 1
    BY <1>1, <2>1, LenProperties
  <2> HIDE DEF t
  <2>7. Good(t)
    <3> DEFINE new == Len(s.slots) + 1
    <3>1. t.handle[u] = new /\ \A w \in Users \ {u} : t.handle[w] = s.handle[w]
      BY <1>1, <2>5
    <3>2. /\ new \in Nat /\ new \notin DOMAIN s.slots /\ t.slots[new] = timer
          /\ DOMAIN t.slots = DOMAIN s.slots \cup {new}
          /\ \A g \in DOMAIN s.slots : t.slots[g] = s.slots[g]
      BY <1>1, <2>1, <2>5, <2>6
    <3>3. /\ t \in State /\ t.generation = s.generation /\ t.waiting = W \cup {u}
          /\ new \in DOMAIN t.slots
      BY <2>5, <3>2
    <3>4. s \in State /\ Held(s, W)
      BY <1>1
    <3> HIDE DEF new, x, y, all, free, first
    <3> QED
      BY <3>1, <3>2, <3>3, <3>4, PlacedHeld
  <2> QED
    BY <1>3, <2>5, <2>7 DEF t
<1> QED
  BY <1>2, <1>3

-----------------------------------------------------------------------------
(* What the services compose of them.                                      *)

\* The same for a one-shot timer with the user's present generation.
LEMMA DelayedGood ==
  ASSUME Platform = "teensy", NEW s, Good(s), NEW u \in (Users \ s.waiting) \ {Producer},
         s.handle[u] = NoTimer, NEW ms \in Nat
  PROVE  LET t == Delayed(s, u, ms)
         IN /\ Good(t) /\ t.waiting = s.waiting \cup {u}
            /\ \A b \in Nat : (\E h \in DOMAIN s.slots : h <= b /\ s.slots[h].available)
                              => SameBeyond(s, t, b)
<1> DEFINE timer == Armed(ms, u, s.generation[u])
<1>1. s.generation[u] \in Nat /\ u \in Users \ s.waiting
  BY DEF Good, State
<1>2. /\ timer \in Slot /\ timer.enable /\ ~timer.available
      /\ timer.user = u /\ timer.generation = s.generation[u] /\ ~timer.repeat
  BY <1>1, BlankFacts
<1>3. Delayed(s, u, ms) = Schedule(s, u, timer)
  BY DEF Delayed
<1> HIDE DEF timer
<1>4. s \in State /\ Held(s, s.waiting)
  BY DEF Good
<1> QED
  BY <1>1, <1>2, <1>3, <1>4, ScheduleGood

\* Only RPDOs keep slots when they do not wait.
LEMMA NobodyElseKeeps ==
  ASSUME NEW s, Good(s), NEW u \in (Users \ s.waiting) \ Rpdos
  PROVE  s.handle[u] = NoTimer
BY DEF Good, Held, Keeps

\* Who has no slot may forget its handle.
LEMMA ForgetGood ==
  ASSUME NEW s, Good(s), NEW u \in (Users \ s.waiting) \ Rpdos
  PROVE  [s EXCEPT !.handle[u] = NoTimer] = s
<1>1. s.handle[u] = NoTimer /\ s.handle \in [Users -> Nat]
  BY NobodyElseKeeps DEF Good, State
<1>2. [s.handle EXCEPT ![u] = NoTimer] = s.handle
  BY <1>1
<1>3. s = [s EXCEPT !.handle = s.handle]
  BY DEF Good, State
<1> QED
  BY <1>2, <1>3

\* A new generation for somebody who has no slot.
LEMMA RenewedGood ==
  ASSUME NEW s, Good(s), NEW u \in Users \ s.waiting
  PROVE  /\ Good(Renewed(s, u)) /\ Renewed(s, u).waiting = s.waiting
         /\ Renewed(s, u).slots = s.slots /\ Renewed(s, u).handle = s.handle
<1>1. s \in State /\ Held(s, s.waiting) /\ s.waiting \ {u} = s.waiting
  BY DEF Good
<1>2. /\ Renewed(s, u) \in State /\ Renewed(s, u).slots = s.slots
      /\ Renewed(s, u).waiting = s.waiting /\ Renewed(s, u).handle = s.handle
  BY <1>1, RenewedFacts
<1>3. Held(Renewed(s, u), s.waiting)
  BY <1>1, RenewedHeld
<1> QED
  BY <1>2, <1>3 DEF Good

\* A transaction that begins has its timeout.
LEMMA BeginGood ==
  ASSUME Platform = "teensy", NEW s, Good(s), NEW k \in Transfers \ s.waiting
  PROVE  LET t == Begin(s, k)
         IN /\ Good(t) /\ t.waiting = s.waiting \cup {k}
            /\ \A b \in Nat : (\E h \in DOMAIN s.slots : h <= b /\ s.slots[h].available)
                              => SameBeyond(s, t, b)
<1> DEFINE r == Renewed(s, k)
<1>1. k \in (Users \ s.waiting) \ Rpdos /\ k # Producer /\ Timeout \in Nat
  BY UsersAssumption, TimeAssumption DEF Users
<1>3. Good(r) /\ r.slots = s.slots /\ r.waiting = s.waiting /\ r.handle[k] = NoTimer
  BY <1>1, RenewedGood, NobodyElseKeeps
<1>5. Begin(s, k) = Delayed(r, k, Timeout)
  BY <1>1, ForgetGood DEF Begin
<1> HIDE DEF r
<1>7. /\ Good(Delayed(r, k, Timeout))
      /\ Delayed(r, k, Timeout).waiting = s.waiting \cup {k}
      /\ \A b \in Nat : (\E h \in DOMAIN r.slots : h <= b /\ r.slots[h].available)
                        => SameBeyond(r, Delayed(r, k, Timeout), b)
  BY <1>1, <1>3, DelayedGood
<1> QED
  BY <1>3, <1>5, <1>7 DEF SameBeyond

\* The application's callback may begin a transaction or none.
LEMMA CallbackGood ==
  ASSUME Platform = "teensy", NEW s, Good(s), NEW t \in Callback(s)
  PROVE  /\ Good(t) /\ t.waiting \subseteq s.waiting \cup Transfers
         /\ \A b \in Nat : (\E h \in DOMAIN s.slots : h <= b /\ s.slots[h].available)
                           => SameBeyond(s, t, b)
<1>1. CASE t = s
  BY <1>1 DEF SameBeyond
<1>2. ASSUME NEW k \in Transfers \ s.waiting, t = Begin(s, k)
      PROVE  /\ Good(t) /\ t.waiting \subseteq s.waiting \cup Transfers
             /\ \A b \in Nat : (\E h \in DOMAIN s.slots : h <= b /\ s.slots[h].available)
                               => SameBeyond(s, t, b)
  BY <1>2, BeginGood
<1> QED
  BY <1>1, <1>2 DEF Callback

\* Who gives back its slot stops waiting; the slot is free then.
LEMMA EndGood ==
  ASSUME Platform = "teensy", NEW s \in State, NEW u \in Users,
         Leaving(s, s.waiting \ {u}, u)
  PROVE  LET d == Delete([s EXCEPT !.waiting = @ \ {u}], u)
             r == Renewed(Delete(s, u), u)
         IN /\ Good(d) /\ d.waiting = s.waiting \ {u}
            /\ Good(r) /\ r.waiting = s.waiting \ {u}
            /\ s.handle[u] # NoTimer =>
                 /\ SameBeyond(s, d, s.handle[u]) /\ d.slots[s.handle[u]].available
                 /\ SameBeyond(s, r, s.handle[u]) /\ r.slots[s.handle[u]].available
<1> DEFINE W == s.waiting \ {u}
           q == [s EXCEPT !.waiting = W]
           d == Delete(q, u)
           e == Delete(s, u)
           r == Renewed(e, u)
<1>1. s.handle[u] \in Nat /\ W \in SUBSET Users
  BY DEF State
<1>2. /\ q \in State /\ q.slots = s.slots /\ q.handle = s.handle
      /\ q.generation = s.generation /\ q.waiting = W
  BY <1>1, WithWaiting
<1> HIDE DEF q
<1>3. Leaving(q, W, u)
  BY <1>2 DEF Leaving, Calls, Keeps
<1> HIDE DEF W
<1>4. /\ d \in State /\ Held(d, W) /\ d.waiting = W
      /\ Len(d.slots) = Len(s.slots)
      /\ \A h \in DOMAIN s.slots : h # s.handle[u] => d.slots[h] = s.slots[h]
      /\ s.handle[u] # NoTimer => d.slots[s.handle[u]].available
  BY <1>2, <1>3, DeleteHeld
<1>5. /\ e \in State /\ Held(e, W) /\ e.waiting = s.waiting
      /\ Len(e.slots) = Len(s.slots)
      /\ \A h \in DOMAIN s.slots : h # s.handle[u] => e.slots[h] = s.slots[h]
      /\ s.handle[u] # NoTimer => e.slots[s.handle[u]].available
  BY DeleteHeld DEF W
<1>6. r \in State /\ r.slots = e.slots /\ r.waiting = W
  <2> HIDE DEF e
  <2> QED
    BY <1>5, RenewedFacts DEF W
<1>7. Held(r, W)
  <2> HIDE DEF e
  <2> QED
    BY <1>5, RenewedHeld DEF W
<1> HIDE DEF d, r, e
<1>8. Good(d) /\ Good(r)
  BY <1>4, <1>6, <1>7 DEF Good
<1>9. \A h \in DOMAIN s.slots : h > s.handle[u] => h # s.handle[u]
  <2>1. s.slots \in Seq(Slot)
    BY DEF State
  <2>2. DOMAIN s.slots \subseteq Nat
    BY <2>1, LenProperties
  <2> QED
    BY <1>1, <2>2
<1>10. SameBeyond(s, d, s.handle[u]) /\ SameBeyond(s, r, s.handle[u])
  BY <1>4, <1>5, <1>6, <1>9 DEF SameBeyond
<1> QED
  BY <1>4, <1>5, <1>6, <1>8, <1>10 DEF W, d, r, e, q

\* A frame of a transaction or RPDO and a heartbeat: the old timer goes, a new one may come.
LEMMA ContinuesGood ==
  ASSUME Platform = "teensy", NEW s, Good(s), NEW u \in Users \ {Producer}, NEW ms \in Nat
  PROVE  LET d == Delete(Renewed(s, u), u)
             t == Delayed(d, u, ms)
         IN /\ Good(d) /\ d.waiting = s.waiting \ {u}
            /\ Good(t) /\ t.waiting = s.waiting \cup {u}
<1> DEFINE r == Renewed(s, u)
           W == s.waiting \ {u}
           d == Delete(r, u)
<1>1. s \in State /\ Held(s, s.waiting) /\ u \notin W
  BY DEF Good
<1>2. r \in State /\ r.waiting = W
  BY <1>1, RenewedFacts
<1>3. Leaving(r, W, u)
  BY <1>1, HeldLeaving, RenewedHeld
<1> HIDE DEF r
<1>4. d \in State /\ Held(d, W) /\ d.waiting = W /\ d.handle[u] = NoTimer
  BY <1>2, <1>3, DeleteHeld
<1> HIDE DEF d
<1>5. Good(d) /\ u \in (Users \ d.waiting) \ {Producer}
  BY <1>4 DEF Good
<1>6. Good(Delayed(d, u, ms)) /\ Delayed(d, u, ms).waiting = s.waiting \cup {u}
  BY <1>4, <1>5, DelayedGood
<1> QED
  BY <1>4, <1>5, <1>6 DEF d, r

-----------------------------------------------------------------------------
(* The invariant.                                                          *)

\* The invariant is a good record, and what follows of the table.
LEMMA NodeGood ==
  ASSUME TimersInv
  PROVE  /\ Node \in State /\ Held(Node, waiting) /\ Good(Node)
         /\ slots \in Seq(Slot) /\ Len(slots) \in Nat /\ DOMAIN slots = 1 .. Len(slots)
<1>1. /\ slots \in Seq(Slot) /\ handle \in [Users -> Nat]
      /\ generation \in [Users -> Nat] /\ waiting \subseteq Users
  BY DEF TimersInv, TypeOK
<1>2. /\ Node \in State /\ Node.slots = slots /\ Node.handle = handle
      /\ Node.generation = generation /\ Node.waiting = waiting
  BY <1>1 DEF Node, State
<1>3. Held(Node, waiting)
  <2> HIDE DEF Node
  <2>1. \A u \in waiting : Calls(Node, u)
    BY <1>2 DEF TimersInv, EveryWaitIsTimed, Calls
  <2>2. \A u \in Users : Spent(u) => Keeps(Node, u)
    BY <1>2 DEF Spent, Keeps
  <2> QED
    BY <1>1, <1>2, <2>1, <2>2 DEF Held, TimersInv, NoSlotLost, NoHandleLeft
<1>4. Len(slots) \in Nat /\ DOMAIN slots = 1 .. Len(slots)
  BY <1>1, LenProperties
<1> QED
  BY <1>1, <1>2, <1>3, <1>4 DEF Good

\* A handler that leaves a good record keeps all but the clauses on the pass.
LEMMA BecomeGood ==
  ASSUME TimersInv, NEW t, Good(t), Become(t),
         limit' \in [Peers -> Limits \cup {Unwatched, 0}],
         pass' \in Nat \cup {Dangling}, lag' \in Nat, ahead' \subseteq Nat,
         \A p \in Peers : limit'[p] = Unwatched => p \notin t.waiting,
         AheadIsOlder'
  PROVE  TimersInv'
<1>1. /\ slots' = t.slots /\ handle' = t.handle
      /\ generation' = t.generation /\ waiting' = t.waiting
  BY DEF Become
<1>2. t \in State /\ Held(t, t.waiting)
  BY DEF Good
<1>3. TypeOK'
  BY <1>1, <1>2 DEF TypeOK, State
<1>4. EveryWaitIsTimed'
  BY <1>1, <1>2 DEF EveryWaitIsTimed, Held, Calls
<1>5. \A u \in Users \ waiting' : handle'[u] = NoTimer \/ Spent(u)'
  BY <1>1, <1>2 DEF Held, Keeps, Spent
<1>6. NoHandleLeft'
  BY <1>1, <1>2, <1>5 DEF NoHandleLeft, Held
<1>7. NoSlotLost'
  <2> SUFFICES ASSUME NEW h \in DOMAIN slots', ~slots'[h].available
               PROVE  \E u \in Users : handle'[u] = h /\ (u \in waiting' \/ Spent(u)')
    BY DEF NoSlotLost
  <2>1. PICK u \in Users : handle'[u] = h
    BY <1>1, <1>2 DEF Held
  <2>2. h # NoTimer
    <3>1. t.slots \in Seq(Slot)
      BY <1>2 DEF State
    <3>2. h \in 1 .. Len(t.slots)
      BY <1>1, <3>1, LenProperties
    <3> QED
      BY <3>2 DEF NoTimer
  <2> QED
    BY <1>5, <2>1, <2>2
<1> QED
  BY <1>3, <1>4, <1>6, <1>7 DEF TimersInv

\* The same between two passes.
LEMMA BetweenPasses ==
  ASSUME TimersInv, NEW t, Good(t), Become(t), pass = 0, UNCHANGED <<pass, lag, ahead>>,
         limit' \in [Peers -> Limits \cup {Unwatched, 0}],
         \A p \in Peers : limit'[p] = Unwatched => p \notin t.waiting
  PROVE  TimersInv'
<1>1. AheadIsOlder'
  BY DEF TimersInv, AheadIsOlder
<1>2. pass' \in Nat \cup {Dangling} /\ lag' \in Nat /\ ahead' \subseteq Nat
  BY DEF TimersInv, TypeOK
<1> QED
  BY <1>1, <1>2, BecomeGood

\* Limits stay as they are, and nobody but a tracked peer begins to wait.
LEMMA LimitsKept ==
  ASSUME TimersInv, limit' = limit, NEW W, W \subseteq waiting \cup Transfers \cup Rpdos \cup {Producer}
  PROVE  /\ limit' \in [Peers -> Limits \cup {Unwatched, 0}]
         /\ \A p \in Peers : limit'[p] = Unwatched => p \notin W
BY UsersAssumption DEF TimersInv, TypeOK, NoHandleLeft

\* Each action of the services keeps the invariant.
LEMMA StartTransferInv ==
  ASSUME Platform = "teensy", TimersInv, NEW k \in Transfers, StartTransfer(k)
  PROVE  TimersInv'
<1>1. Good(Node) /\ Node.waiting = waiting
  BY NodeGood DEF Node
<1>2. /\ k \notin waiting /\ Become(Begin(Node, k))
      /\ pass = 0 /\ limit' = limit /\ UNCHANGED <<pass, lag, ahead>>
  BY DEF StartTransfer, Elsewhere
<1>3. Good(Begin(Node, k)) /\ Begin(Node, k).waiting = waiting \cup {k}
  BY <1>1, <1>2, BeginGood
<1> QED
  BY <1>2, <1>3, BetweenPasses, LimitsKept

\* A frame goes on with its transaction or ends it.
LEMMA ProcessSdoInv ==
  ASSUME Platform = "teensy", TimersInv, NEW k \in Transfers, ProcessSdo(k)
  PROVE  TimersInv'
<1>1. Good(Node) /\ Node \in State /\ Held(Node, waiting) /\ Node.waiting = waiting
  BY NodeGood DEF Node
<1>2. pass = 0 /\ limit' = limit /\ UNCHANGED <<pass, lag, ahead>>
  BY DEF ProcessSdo, Elsewhere
<1>3. k \in Users \ {Producer} /\ Timeout \in Nat
  BY UsersAssumption, TimeAssumption DEF Users
<1>4. CASE Become(Continues(Node, k))
  <2>1. /\ Good(Continues(Node, k))
        /\ Continues(Node, k).waiting = waiting \cup {k}
    BY <1>1, <1>3, ContinuesGood DEF Continues
  <2> QED
    BY <1>2, <1>4, <2>1, BetweenPasses, LimitsKept
<1>5. ASSUME NEW s \in Ends(Node, k), Become(s)
      PROVE  TimersInv'
  <2> DEFINE d == Delete([Node EXCEPT !.waiting = @ \ {k}], k)
  <2>1. Leaving(Node, waiting \ {k}, k)
    BY <1>1, <1>3, HeldLeaving
  <2>2. Good(d) /\ d.waiting = waiting \ {k}
    BY <1>1, <1>3, <2>1, EndGood
  <2>3. s \in Callback(d)
    BY <1>5 DEF Ends
  <2> HIDE DEF d
  <2>4. Good(s) /\ s.waiting \subseteq waiting \cup Transfers
    BY <2>2, <2>3, CallbackGood
  <2> QED
    BY <1>2, <1>5, <2>4, BetweenPasses, LimitsKept
<1> QED
  BY <1>4, <1>5 DEF ProcessSdo

\* A new period replaces the producer's timer.
LEMMA SetHeartbeatPeriodInv ==
  ASSUME Platform = "teensy", TimersInv, SetHeartbeatPeriod
  PROVE  TimersInv'
<1>1. Good(Node) /\ Node \in State /\ Held(Node, waiting) /\ Node.waiting = waiting
  BY NodeGood DEF Node
<1>2. pass = 0 /\ limit' = limit /\ UNCHANGED <<pass, lag, ahead>>
  BY DEF SetHeartbeatPeriod, Elsewhere
<1>3. PICK stagger \in 0 .. 2 * Period - 1 :
        Become(Schedule(Delete(Node, Producer), Producer,
                        [Armed(Period + stagger, Producer, 0) EXCEPT !.repeat = TRUE]))
  BY DEF SetHeartbeatPeriod
<1> DEFINE d == Delete(Node, Producer)
           once == Armed(Period + stagger, Producer, 0)
           timer == [once EXCEPT !.repeat = TRUE]
<1>4. Producer \in Users
  BY DEF Users
<1>5. /\ d \in State /\ Held(d, waiting \ {Producer}) /\ d.waiting = waiting
      /\ d.handle[Producer] = NoTimer
  BY <1>1, <1>4, HeldLeaving, DeleteHeld
<1>6. /\ timer \in Slot /\ timer.enable /\ ~timer.available
      /\ timer.user = Producer /\ timer.repeat
  <2>1. Period + stagger \in Nat
    BY TimeAssumption
  <2>2. once \in Slot /\ once.enable /\ ~once.available /\ once.user = Producer
    BY <1>4, <2>1, BlankFacts
  <2> HIDE DEF once
  <2> QED
    BY <2>2 DEF Slot
<1> HIDE DEF d, timer
<1>7. /\ Good(Schedule(d, Producer, timer))
      /\ Schedule(d, Producer, timer).waiting = waiting \cup {Producer}
  <2>1. Producer \in Users \ (waiting \ {Producer})
    BY <1>4
  <2>2. d.waiting \cup {Producer} = (waiting \ {Producer}) \cup {Producer}
    BY <1>5
  <2> QED
    BY <1>5, <1>6, <2>1, <2>2, ScheduleGood
<1>8. Become(Schedule(d, Producer, timer))
  BY <1>3 DEF d, timer
<1> QED
  BY <1>2, <1>7, <1>8, BetweenPasses, LimitsKept

\* A watch on a peer that is new, or on one that is tracked.
LEMMA SetRemoteTimeoutInv ==
  ASSUME Platform = "teensy", TimersInv, NEW p \in Peers, NEW ms \in Limits,
         SetRemoteTimeout(p, ms)
  PROVE  TimersInv'
<1>1. Good(Node) /\ Node \in State /\ Held(Node, waiting) /\ Node.waiting = waiting
  BY NodeGood DEF Node
<1>2. p \in (Users \ {Producer}) \ Rpdos /\ ms \in Nat /\ Unwatched \notin Nat
  BY UsersAssumption, TimeAssumption DEF Users, Unwatched
<1> DEFINE s == IF limit[p] = Unwatched THEN Renewed([Node EXCEPT !.handle[p] = NoTimer], p)
                ELSE Renewed(Delete(Node, p), p)
           t == IF ms = 0 THEN s ELSE Delayed(s, p, ms)
<1>3. /\ Become(t) /\ pass = 0 /\ UNCHANGED <<pass, lag, ahead>>
      /\ limit' = [limit EXCEPT ![p] = IF @ = Unwatched THEN ms ELSE @]
  BY DEF SetRemoteTimeout
<1>4. limit \in [Peers -> Limits \cup {Unwatched, 0}]
  BY DEF TimersInv, TypeOK
<1>5. /\ limit' \in [Peers -> Limits \cup {Unwatched, 0}]
      /\ limit'[p] # Unwatched
      /\ \A q \in Peers \ {p} : limit'[q] = limit[q]
  BY <1>2, <1>3, <1>4
<1>6. Good(s) /\ s.waiting = waiting \ {p}
  <2>1. CASE limit[p] = Unwatched
    <3>1. p \notin waiting
      BY <2>1 DEF TimersInv, NoHandleLeft
    <3>2. s = Renewed(Node, p)
      BY <1>1, <1>2, <2>1, <3>1, ForgetGood
    <3> HIDE DEF Node
    <3>3. Good(Renewed(Node, p)) /\ Renewed(Node, p).waiting = waiting
      BY <1>1, <1>2, <3>1, RenewedGood
    <3> QED
      BY <3>1, <3>2, <3>3
  <2>2. CASE limit[p] # Unwatched
    <3> HIDE DEF Node
    <3>1. Leaving(Node, waiting \ {p}, p)
      BY <1>1, <1>2, HeldLeaving
    <3> QED
      BY <1>1, <1>2, <2>2, <3>1, EndGood
  <2> QED
    BY <2>1, <2>2
<1> HIDE DEF s
<1>7. Good(t) /\ t.waiting \subseteq waiting \cup {p}
  <2>1. p \in (Users \ s.waiting) \ {Producer} /\ s.handle[p] = NoTimer
    BY <1>2, <1>6, NobodyElseKeeps
  <2> QED
    BY <1>2, <1>6, <2>1, DelayedGood
<1> HIDE DEF t
<1>8. \A q \in Peers : limit'[q] = Unwatched => q \notin t.waiting
  BY <1>5, <1>7 DEF TimersInv, NoHandleLeft
<1> QED
  BY <1>3, <1>5, <1>7, <1>8, BetweenPasses

\* A heartbeat renews the watch; the state callback may begin a transaction.
LEMMA ProcessHeartbeatInv ==
  ASSUME Platform = "teensy", TimersInv, NEW p \in Peers, ProcessHeartbeat(p)
  PROVE  TimersInv'
<1>1. Good(Node) /\ Node \in State /\ Held(Node, waiting) /\ Node.waiting = waiting
  BY NodeGood DEF Node
<1>2. p \in (Users \ {Producer}) \ Rpdos /\ Unwatched \notin Nat /\ Limits \subseteq Nat
  BY UsersAssumption, TimeAssumption DEF Users, Unwatched
<1> DEFINE s == IF limit[p] = Unwatched THEN Renewed([Node EXCEPT !.handle[p] = NoTimer], p)
                ELSE Delete(Renewed(Node, p), p)
           r == IF limit[p] > 0 THEN Delayed(s, p, limit[p]) ELSE s
<1>3. /\ pass = 0 /\ UNCHANGED <<pass, lag, ahead>>
      /\ limit' = [limit EXCEPT ![p] = IF @ = Unwatched THEN 0 ELSE @]
  BY DEF ProcessHeartbeat
<1>4. PICK t \in Callback(r) : Become(t)
  BY DEF ProcessHeartbeat
<1>5. limit \in [Peers -> Limits \cup {Unwatched, 0}]
  BY DEF TimersInv, TypeOK
<1>6. /\ limit' \in [Peers -> Limits \cup {Unwatched, 0}]
      /\ limit'[p] # Unwatched
      /\ \A q \in Peers \ {p} : limit'[q] = limit[q]
  BY <1>2, <1>3, <1>5
<1>7. Good(s) /\ s.waiting = waiting \ {p}
  <2>1. CASE limit[p] = Unwatched
    <3>1. p \notin waiting
      BY <2>1 DEF TimersInv, NoHandleLeft
    <3>2. s = Renewed(Node, p)
      BY <1>1, <1>2, <2>1, <3>1, ForgetGood
    <3> HIDE DEF Node
    <3>3. Good(Renewed(Node, p)) /\ Renewed(Node, p).waiting = waiting
      BY <1>1, <1>2, <3>1, RenewedGood
    <3> QED
      BY <3>1, <3>2, <3>3
  <2>2. CASE limit[p] # Unwatched
    <3> HIDE DEF Node
    <3>1. 0 \in Nat
      OBVIOUS
    <3> QED
      BY <1>1, <1>2, <2>2, <3>1, ContinuesGood
  <2> QED
    BY <2>1, <2>2
<1> HIDE DEF s
<1>8. Good(r) /\ r.waiting \subseteq waiting \cup {p}
  <2>1. p \in (Users \ s.waiting) \ {Producer} /\ s.handle[p] = NoTimer
    BY <1>2, <1>7, NobodyElseKeeps
  <2>2. limit[p] > 0 => limit[p] \in Nat
    <3>1. limit[p] \in Limits \cup {Unwatched, 0}
      BY <1>5
    <3>2. limit[p] \in Limits => limit[p] \in Nat
      BY <1>2
    <3>3. ~ (Unwatched > 0)
      BY DEF Unwatched
    <3> QED
      BY <3>1, <3>2, <3>3
  <2> QED
    BY <1>7, <2>1, <2>2, DelayedGood
<1> HIDE DEF r
<1>9. Good(t) /\ t.waiting \subseteq waiting \cup {p} \cup Transfers
  BY <1>4, <1>8, CallbackGood
<1>10. \A q \in Peers : limit'[q] = Unwatched => q \notin t.waiting
  BY <1>6, <1>9, UsersAssumption DEF TimersInv, NoHandleLeft
<1> QED
  BY <1>3, <1>4, <1>6, <1>9, <1>10, BetweenPasses

\* The timer of an RPDO is started, stopped or restarted by a frame.
LEMMA RpdoInv ==
  ASSUME Platform = "teensy", TimersInv, NEW r \in Rpdos,
         EnableRpdoEvent(r) \/ DisableRpdoEvent(r) \/ ProcessRpdo(r)
  PROVE  TimersInv' /\ pass = 0
<1>1. Good(Node) /\ Held(Node, waiting) /\ Node.waiting = waiting /\ Node.handle = handle
  BY NodeGood DEF Node
<1>2. pass = 0 /\ limit' = limit /\ UNCHANGED <<pass, lag, ahead>>
  BY DEF EnableRpdoEvent, DisableRpdoEvent, ProcessRpdo, Elsewhere
<1>3. r \in Users \ {Producer} /\ RpdoPeriod \in Nat
  BY UsersAssumption, TimeAssumption DEF Users
<1> DEFINE n == Renewed(Node, r)
           d == Delete(n, r)
           t == Delayed(d, r, RpdoPeriod)
<1>4. /\ Good(d) /\ d.waiting \subseteq waiting \cup Rpdos
      /\ Good(t) /\ t.waiting \subseteq waiting \cup Rpdos
  BY <1>1, <1>3, ContinuesGood
<1>5. CASE ProcessRpdo(r)
  <2> DEFINE q == IF handle[r] = NoTimer THEN n ELSE t
  <2>1. Good(q) /\ q.waiting \subseteq waiting \cup Rpdos
    <3>1. CASE handle[r] = NoTimer
      <4>1. r \notin waiting
        <5>1. NoTimer \notin DOMAIN slots
          BY NodeGood DEF NoTimer
        <5> QED
          BY <3>1, <5>1 DEF TimersInv, EveryWaitIsTimed
      <4>2. Good(n) /\ n.waiting = waiting
        BY <1>1, <1>3, <4>1, RenewedGood
      <4> QED
        BY <3>1, <4>2
    <3>2. CASE handle[r] # NoTimer
      BY <1>4, <3>2
    <3> QED
      BY <3>1, <3>2
  <2>2. PICK c \in Callback(q) : Become(c)
    BY <1>5 DEF ProcessRpdo
  <2> HIDE DEF q
  <2>3. Good(c) /\ c.waiting \subseteq waiting \cup Rpdos \cup Transfers
    BY <2>1, <2>2, CallbackGood
  <2> QED
    BY <1>2, <2>2, <2>3, BetweenPasses, LimitsKept
<1>6. CASE EnableRpdoEvent(r) \/ DisableRpdoEvent(r)
  <2>1. Become(d) \/ Become(t)
    BY <1>6 DEF EnableRpdoEvent, DisableRpdoEvent
  <2> HIDE DEF d, t
  <2> QED
    BY <1>2, <1>4, <2>1, BetweenPasses, LimitsKept
<1> QED
  BY <1>2, <1>5, <1>6

\* A timer that is due is served to its owner; the slots ahead stay as they are,
\* unless it is the timeout of an RPDO.
LEMMA ServeGood ==
  ASSUME Platform = "teensy", TimersInv, NEW h \in DOMAIN slots, Serve(h)
  PROVE  \E t : /\ Good(t) /\ Become(t) /\ t.waiting \subseteq waiting \cup Transfers
                /\ slots[h].user \in Rpdos \/ SameBeyond(Node, t, h)
<1> DEFINE u == slots[h].user
           once == IF slots[h].repeat THEN [slots[h] EXCEPT !.age = lag, !.delay = Period]
                   ELSE [slots[h] EXCEPT !.enable = FALSE]
           x == [slots EXCEPT ![h] = once]
           served == [Node EXCEPT !.slots[h] =
                        IF @.repeat THEN [@ EXCEPT !.age = lag, !.delay = Period]
                        ELSE [@ EXCEPT !.enable = FALSE]]
<1>1. /\ Node \in State /\ Held(Node, waiting)
      /\ slots \in Seq(Slot) /\ Len(slots) \in Nat /\ DOMAIN slots = 1 .. Len(slots)
      /\ Node.slots = slots /\ Node.handle = handle
      /\ Node.generation = generation /\ Node.waiting = waiting
  BY NodeGood DEF Node
<1>2. PICK t \in Expire(served, u, slots[h].generation) : Become(t)
  BY DEF Serve
<1>3. slots[h] \in Slot /\ h \in Nat /\ slots[h].enable
  <2>1. slots[h] \in Slot
    BY <1>1, ElementOfSeq
  <2> QED
    BY <1>1, <2>1 DEF Serve, Due
<1>4. /\ u \in waiting /\ u \in Users /\ handle[u] = h
      /\ slots[h].repeat <=> u = Producer
      /\ u # Producer => slots[h].generation = generation[u]
  <2>1. ~slots[h].available
    BY <1>3 DEF TimersInv, NoHandleLeft
  <2>2. PICK w \in waiting : handle[w] = h
    BY <1>3, <2>1 DEF TimersInv, NoSlotLost, Spent
  <2>3. w = u
    BY <2>2 DEF TimersInv, EveryWaitIsTimed
  <2> QED
    BY <2>2, <2>3 DEF TimersInv, EveryWaitIsTimed, TypeOK
<1>5. /\ once \in Slot /\ once.user = u /\ once.repeat = slots[h].repeat
      /\ once.generation = slots[h].generation /\ once.available = slots[h].available
      /\ once.enable = slots[h].repeat
  <2>1. lag \in Nat /\ Period \in Nat
    BY TimeAssumption DEF TimersInv, TypeOK
  <2> QED
    BY <1>3, <2>1 DEF Slot
<1>6. ~once.available
  BY <1>3, <1>5 DEF TimersInv, NoHandleLeft
<1> HIDE DEF once
<1>7. /\ x \in Seq(Slot) /\ Len(x) = Len(slots) /\ DOMAIN x = DOMAIN slots
      /\ \A g \in DOMAIN slots : x[g] = IF g = h THEN once ELSE slots[g]
  <2>1. /\ x \in Seq(Slot) /\ Len(x) = Len(slots)
        /\ \A g \in DOMAIN slots : x[g] = IF g = h THEN once ELSE slots[g]
    BY <1>1, <1>5, ExceptSeq
  <2> QED
    BY <1>1, <2>1, LenProperties
<1>8. /\ served \in State /\ served.slots = x /\ served.handle = handle
      /\ served.generation = generation /\ served.waiting = waiting
  <2>1. served = [Node EXCEPT !.slots = x]
    BY <1>1 DEF once
  <2> HIDE DEF served, x, Node
  <2> QED
    BY <1>1, <1>7, <2>1 DEF State
<1> HIDE DEF x, served
<1>9. SameBeyond(Node, served, h)
  BY <1>1, <1>3, <1>7, <1>8 DEF SameBeyond
<1>10. ASSUME NEW w \in waiting, w # u
       PROVE  Calls(served, w)
  <2>1. Calls(Node, w)
    BY <1>1, <1>10 DEF Held
  <2>2. handle[w] # h
    BY <1>1, <1>10, <2>1 DEF Calls
  <2> QED
    BY <1>1, <1>7, <1>8, <2>1, <2>2 DEF Calls
<1>11. /\ \A g \in DOMAIN x : x[g].available => ~x[g].enable
       /\ \A g \in DOMAIN x : ~x[g].available => \E w \in Users : handle[w] = g
       /\ \A w \in Users \ waiting : handle[w] = NoTimer \/ Keeps(served, w)
  <2>1. \A g \in DOMAIN slots : x[g].available => ~x[g].enable
    BY <1>1, <1>6, <1>7 DEF Held
  <2>2. \A g \in DOMAIN slots : ~x[g].available => \E w \in Users : handle[w] = g
    BY <1>1, <1>4, <1>7 DEF Held
  <2>3. \A w \in Users \ waiting : handle[w] = NoTimer \/ Keeps(served, w)
    <3> SUFFICES ASSUME NEW w \in Users \ waiting, Keeps(Node, w)
                 PROVE  Keeps(served, w)
      BY <1>1 DEF Held
    <3>1. handle[w] # h
      BY <1>1, <1>3 DEF Keeps
    <3> QED
      BY <1>1, <1>7, <1>8, <3>1 DEF Keeps
  <2> QED
    BY <1>7, <2>1, <2>2, <2>3
<1>12. Leaving(served, waiting \ {u}, u)
  <2>1. waiting \subseteq Users
    BY DEF TimersInv, TypeOK
  <2>2. served.handle[u] \in DOMAIN served.slots /\ served.slots[served.handle[u]].user = u
    BY <1>4, <1>5, <1>7, <1>8
  <2> QED
    BY <1>4, <1>8, <1>10, <1>11, <2>1, <2>2 DEF Leaving
<1>13. CASE u = Producer
  <2>1. t = served
    BY <1>2, <1>13 DEF Expire
  <2>2. Calls(served, u)
    BY <1>4, <1>5, <1>7, <1>8, <1>13 DEF Calls
  <2>3. Good(served)
    <3>1. waiting \subseteq Users
      BY DEF TimersInv, TypeOK
    <3> QED
      BY <1>8, <1>10, <1>11, <2>2, <3>1 DEF Good, Held
  <2> QED
    BY <1>2, <1>8, <1>9, <2>1, <2>3
<1>14. CASE u \in Rpdos
  <2> DEFINE W == waiting \ {u}
             e == [served EXCEPT !.waiting = W]
  <2>1. W \in SUBSET Users
    BY DEF TimersInv, TypeOK
  <2>2. u # Producer /\ u \notin Peers
    BY <1>14, UsersAssumption
  <2>3. t \in Callback(e)
    <3>1. ~ (u = Producer \/ slots[h].generation # served.generation[u]
             \/ u \in Transfers \ served.waiting)
      BY <1>4, <1>8, <2>2
    <3> QED
      BY <1>2, <1>8, <1>14, <2>2, <3>1 DEF Expire
  <2>4. /\ e \in State /\ e.slots = x /\ e.handle = handle
        /\ e.generation = generation /\ e.waiting = W
    <3> HIDE DEF W
    <3> QED
      BY <1>8, <2>1, WithWaiting
  <2> HIDE DEF e
  <2>5. Keeps(e, u)
    BY <1>4, <1>5, <1>6, <1>7, <1>14, <2>2, <2>4 DEF Keeps
  <2>6. \A w \in W : Calls(e, w)
    BY <1>8, <1>10, <2>4 DEF Calls
  <2>7. \A w \in Users \ W : e.handle[w] = NoTimer \/ Keeps(e, w)
    BY <1>8, <1>11, <2>4, <2>5 DEF Keeps
  <2>8. Good(e)
    BY <1>11, <2>1, <2>4, <2>6, <2>7 DEF Good, Held
  <2>9. Good(t) /\ t.waiting \subseteq waiting \cup Transfers
    BY <2>3, <2>4, <2>8, CallbackGood
  <2> QED
    BY <1>2, <1>14, <2>9
<1>15. CASE u # Producer /\ u \notin Rpdos
  <2> DEFINE d == Delete([served EXCEPT !.waiting = @ \ {u}], u)
             r == Renewed(Delete(served, u), u)
             e == IF u \in Peers THEN r ELSE d
  <2>1. t \in Callback(e)
    <3>1. ~ (u = Producer \/ slots[h].generation # served.generation[u]
             \/ u \in Transfers \ served.waiting)
      BY <1>4, <1>8, <1>15
    <3> QED
      BY <1>2, <1>15, <3>1 DEF Expire, Ends
  <2>2. /\ Good(d) /\ d.waiting = waiting \ {u} /\ Good(r) /\ r.waiting = waiting \ {u}
        /\ SameBeyond(served, d, h) /\ d.slots[h].available
        /\ SameBeyond(served, r, h) /\ r.slots[h].available
    <3>1. served.handle[u] = h /\ h # NoTimer
      BY <1>1, <1>4, <1>8 DEF NoTimer
    <3>2. Leaving(served, served.waiting \ {u}, u)
      BY <1>8, <1>12
    <3> QED
      BY <1>4, <1>8, <3>1, <3>2, EndGood
  <2> HIDE DEF d, r
  <2>3. /\ Good(e) /\ e.waiting = waiting \ {u}
        /\ SameBeyond(served, e, h) /\ e.slots[h].available
    BY <2>2
  <2> HIDE DEF e
  <2>4. Good(t) /\ t.waiting \subseteq waiting \cup Transfers
    BY <2>1, <2>3, CallbackGood
  <2>5. DOMAIN e.slots = DOMAIN slots
    <3>1. e.slots \in Seq(Slot) /\ Len(e.slots) = Len(slots)
      BY <1>1, <1>9, <2>3 DEF Good, State, SameBeyond
    <3> QED
      BY <1>1, <3>1, LenProperties
  <2>6. SameBeyond(e, t, h)
    <3>1. \E g \in DOMAIN e.slots : g <= h /\ e.slots[g].available
      BY <1>3, <2>3, <2>5
    <3> QED
      BY <1>3, <2>1, <2>3, <3>1, CallbackGood
  <2>7. SameBeyond(Node, t, h)
    BY <1>1, <1>7, <1>8, <1>9, <2>3, <2>5, <2>6 DEF SameBeyond
  <2> QED
    BY <1>2, <2>4, <2>7
<1> QED
  BY <1>13, <1>14, <1>15

\* What is ahead of the pass stays older than the pass's clock, but for what an
\* RPDO's timeout schedules.
LEMMA ServeInv ==
  ASSUME Platform = "teensy", TimersInv, NEW h \in DOMAIN slots, Serve(h)
  PROVE  TimersInv' /\ (Len(slots') = Len(slots) \/ slots[h].user \in Rpdos)
<1>1. PICK t : /\ Good(t) /\ Become(t) /\ t.waiting \subseteq waiting \cup Transfers
               /\ slots[h].user \in Rpdos \/ SameBeyond(Node, t, h)
  BY ServeGood
<1>2. /\ slots \in Seq(Slot) /\ Len(slots) \in Nat /\ DOMAIN slots = 1 .. Len(slots)
      /\ Node.slots = slots
  BY NodeGood DEF Node
<1>3. /\ slots' = t.slots /\ slots' \in Seq(Slot)
      /\ Len(slots') \in Nat /\ DOMAIN slots' = 1 .. Len(slots')
  <2>1. slots' = t.slots /\ slots' \in Seq(Slot)
    BY <1>1 DEF Become, Good, State
  <2> QED
    BY <2>1, LenProperties
<1>4. /\ pass' = h + 1 \/ pass' = Dangling
      /\ lag' = lag /\ limit' = limit /\ pass > 0 /\ h >= pass
      /\ ahead' = IF slots[h].user \notin Rpdos THEN ahead
                  ELSE ahead \cup {g \in DOMAIN slots' :
                         g > h /\ (g \in DOMAIN slots => slots'[g] # slots[g])}
  BY DEF Serve
<1>5. /\ pass \in Nat /\ lag \in Nat /\ h \in Nat /\ Dangling \notin Nat
      /\ pass' \in Nat \cup {Dangling} /\ pass' # 0
  <2>1. Dangling = -1
    BY DEF Dangling
  <2>2. pass # Dangling /\ h \in Nat
    BY <1>2, <1>4, <2>1
  <2> QED
    BY <1>2, <1>4, <2>1, <2>2 DEF TimersInv, TypeOK
<1>6. ahead' \subseteq Nat /\ ahead \subseteq ahead'
  BY <1>3, <1>4 DEF TimersInv, TypeOK
<1>7. ASSUME NEW g \in DOMAIN slots' \ ahead', g > h
      PROVE  g \in DOMAIN slots \ ahead /\ slots'[g] = slots[g]
  <2>1. CASE slots[h].user \in Rpdos
    BY <1>4, <1>7, <2>1
  <2>2. CASE slots[h].user \notin Rpdos
    <3>1. SameBeyond(Node, t, h) /\ ahead' = ahead
      BY <1>1, <1>4, <2>2
    <3>2. Len(slots') = Len(slots)
      BY <1>2, <1>3, <3>1 DEF SameBeyond
    <3> QED
      BY <1>2, <1>3, <1>7, <3>1, <3>2 DEF SameBeyond
  <2> QED
    BY <2>1, <2>2
<1>8. AheadIsOlder'
  <2>1. ASSUME NEW g \in DOMAIN slots' \ ahead', pass' > 0, g >= pass', slots'[g].enable
        PROVE  slots'[g].age >= lag'
    <3>1. pass' = h + 1
      BY <1>4, <2>1 DEF Dangling
    <3>2. g > h /\ g >= pass
      BY <1>3, <1>4, <1>5, <2>1, <3>1
    <3>3. g \in DOMAIN slots \ ahead /\ slots'[g] = slots[g]
      BY <1>7, <3>2
    <3> QED
      BY <1>4, <2>1, <3>2, <3>3 DEF TimersInv, AheadIsOlder
  <2> QED
    BY <1>5, <2>1 DEF AheadIsOlder
<1>9. TimersInv'
  BY <1>1, <1>4, <1>5, <1>6, <1>8, BecomeGood, LimitsKept
<1>10. Len(slots') = Len(slots) \/ slots[h].user \in Rpdos
  BY <1>1, <1>2, <1>3 DEF SameBeyond
<1> QED
  BY <1>9, <1>10

\* An interval from 1 tells its end.
LEMMA SameInterval ==
  ASSUME NEW a \in Nat, NEW b \in Nat, 1 .. a = 1 .. b
  PROVE  a = b
<1>1. ~ (a < b)
  <2>1. b \in 1 .. b => b \in 1 .. a
    OBVIOUS
  <2> QED
    BY <2>1
<1>2. ~ (b < a)
  <2>1. a \in 1 .. a => a \in 1 .. b
    OBVIOUS
  <2> QED
    BY <2>1
<1> QED
  BY <1>1, <1>2

\* Time makes every armed slot older, and what is ahead of the pass with it.
LEMMA TickInv ==
  ASSUME TimersInv, Tick
  PROVE  TimersInv' /\ Len(slots') = Len(slots)
<1>1. slots \in Seq(Slot) /\ Len(slots) \in Nat /\ DOMAIN slots = 1 .. Len(slots)
  BY NodeGood
<1>2. slots' = [h \in DOMAIN slots |->
                 IF slots[h].enable THEN [slots[h] EXCEPT !.age = @ + 1] ELSE slots[h]]
  BY DEF Tick
<1>3. ASSUME NEW h \in DOMAIN slots
      PROVE  /\ slots'[h] \in Slot
             /\ slots'[h].available = slots[h].available
             /\ slots'[h].enable = slots[h].enable
             /\ slots'[h].repeat = slots[h].repeat
             /\ slots'[h].user = slots[h].user
             /\ slots'[h].generation = slots[h].generation
             /\ slots[h].enable => slots'[h].age = slots[h].age + 1
  <2>1. slots[h] \in Slot
    BY <1>1, ElementOfSeq
  <2>2. CASE slots[h].enable
    <3>1. slots'[h] = [slots[h] EXCEPT !.age = @ + 1]
      BY <1>2, <2>2
    <3> QED
      BY <2>1, <3>1 DEF Slot
  <2>3. CASE ~slots[h].enable
    BY <1>2, <2>1, <2>3
  <2> QED
    BY <2>2, <2>3
<1>4. slots' \in [1 .. Len(slots) -> Slot]
  BY <1>1, <1>2, <1>3
<1>5. /\ slots' \in Seq(Slot) /\ Len(slots') = Len(slots) /\ DOMAIN slots' = DOMAIN slots
  <2>1. slots' \in Seq(Slot)
    BY <1>1, <1>4, SeqDef
  <2>2. Len(slots') \in Nat /\ DOMAIN slots' = 1 .. Len(slots')
    BY <2>1, LenProperties
  <2>3. DOMAIN slots' = 1 .. Len(slots)
    BY <1>4
  <2>4. Len(slots') = Len(slots)
    BY <1>1, <2>2, <2>3, SameInterval
  <2> QED
    BY <1>1, <2>1, <2>3, <2>4
<1>6. UNCHANGED <<handle, generation, waiting, limit, pass, ahead>>
  BY DEF Tick
<1>7. lag \in Nat /\ pass \in Nat \cup {Dangling} /\ lag' = IF pass > 0 THEN lag + 1 ELSE 0
  BY DEF Tick, TimersInv, TypeOK
<1>8. TypeOK'
  BY <1>5, <1>6, <1>7 DEF TimersInv, TypeOK
<1>9. EveryWaitIsTimed'
  BY <1>3, <1>5, <1>6 DEF TimersInv, EveryWaitIsTimed
<1>10. NoSlotLost' /\ NoHandleLeft'
  BY <1>3, <1>5, <1>6 DEF TimersInv, NoSlotLost, NoHandleLeft, Spent
<1>11. AheadIsOlder'
  <2>1. ASSUME NEW h \in DOMAIN slots' \ ahead', pass' > 0, h >= pass', slots'[h].enable
        PROVE  slots'[h].age >= lag'
    <3>1. slots[h].age \in Nat
      <4>1. slots[h] \in Slot
        BY <1>1, <1>5, <2>1, ElementOfSeq
      <4> QED
        BY <4>1 DEF Slot
    <3>2. h \in DOMAIN slots /\ slots[h].enable /\ slots'[h].age = slots[h].age + 1
      BY <1>3, <1>5, <2>1
    <3>3. slots[h].age >= lag
      BY <1>6, <2>1, <3>2 DEF TimersInv, AheadIsOlder
    <3> QED
      BY <1>6, <1>7, <2>1, <3>1, <3>2, <3>3
  <2>2. pass' = 0 => lag' = 0 /\ ahead' = {}
    BY <1>6, <1>7 DEF TimersInv, AheadIsOlder
  <2> QED
    BY <2>1, <2>2 DEF AheadIsOlder
<1> QED
  BY <1>5, <1>8, <1>9, <1>10, <1>11 DEF TimersInv

\* A pass begins and ends with no time gone by.
LEMMA PassInv ==
  ASSUME TimersInv, StartPass \/ EndPass
  PROVE  TimersInv' /\ Len(slots') = Len(slots)
<1>1. /\ UNCHANGED <<slots, handle, generation, waiting, limit>>
      /\ pass' \in {0, 1} /\ lag' = 0 /\ ahead' = {}
  BY DEF StartPass, EndPass, TimersInv, AheadIsOlder
<1>2. slots \in Seq(Slot) /\ DOMAIN slots = 1 .. Len(slots)
  BY NodeGood
<1>3. ASSUME NEW h \in DOMAIN slots
      PROVE  slots[h].age \in Nat
  <2>1. slots[h] \in Slot
    BY <1>2, ElementOfSeq
  <2> QED
    BY <2>1 DEF Slot
<1>4. AheadIsOlder'
  BY <1>1, <1>3 DEF AheadIsOlder
<1>5. TypeOK' /\ EveryWaitIsTimed' /\ NoSlotLost' /\ NoHandleLeft'
  BY <1>1 DEF TimersInv, TypeOK, EveryWaitIsTimed, NoSlotLost, NoHandleLeft, Spent
<1> QED
  BY <1>1, <1>4, <1>5 DEF TimersInv

\* The empty table.
LEMMA InitInv ==
  ASSUME Platform = "teensy", Init
  PROVE  TimersInv
<1>1. /\ slots = <<>> /\ slots \in Seq(Slot) /\ DOMAIN slots = {}
  <2>1. slots = <<>>
    BY DEF Init
  <2> QED
    BY <2>1
<1>2. TypeOK
  BY <1>1 DEF Init, TypeOK, NoTimer
<1> QED
  BY <1>1, <1>2 DEF Init, TimersInv, EveryWaitIsTimed, NoSlotLost, NoHandleLeft, AheadIsOlder

\* What the length of the table may do in a pass.
Stable ==
  pass > 0 => \/ Len(slots') = Len(slots)
              \/ \E h \in DOMAIN slots : slots[h].user \in Rpdos /\ Serve(h)

\* Every step keeps the invariant, and those of a pass the length of the table.
LEMMA NextInv ==
  ASSUME Platform = "teensy", TimersInv, [Next]_vars
  PROVE  TimersInv' /\ Stable
<1>1. ASSUME NEW k \in Transfers, StartTransfer(k)
      PROVE  TimersInv' /\ pass = 0
  BY <1>1, StartTransferInv DEF StartTransfer
<1>2. ASSUME NEW k \in Transfers, ProcessSdo(k)
      PROVE  TimersInv' /\ pass = 0
  BY <1>2, ProcessSdoInv DEF ProcessSdo
<1>3. CASE SetHeartbeatPeriod
  <2>1. TimersInv'
    BY <1>3, SetHeartbeatPeriodInv
  <2>2. pass = 0
    BY <1>3 DEF SetHeartbeatPeriod
  <2> QED
    BY <2>1, <2>2 DEF Stable
<1>4. ASSUME NEW p \in Peers, ProcessHeartbeat(p)
      PROVE  TimersInv' /\ pass = 0
  BY <1>4, ProcessHeartbeatInv DEF ProcessHeartbeat
<1>5. ASSUME NEW p \in Peers, NEW ms \in Limits, SetRemoteTimeout(p, ms)
      PROVE  TimersInv' /\ pass = 0
  BY <1>5, SetRemoteTimeoutInv DEF SetRemoteTimeout
<1>6. CASE Tick
  BY <1>6, TickInv DEF Stable
<1>7. CASE StartPass \/ EndPass
  BY <1>7, PassInv DEF Stable
<1>8. ASSUME NEW h \in DOMAIN slots, Serve(h)
      PROVE  TimersInv' /\ Stable
  BY <1>8, ServeInv DEF Stable
<1>9. CASE UNCHANGED vars
  BY <1>9 DEF vars, TimersInv, TypeOK, EveryWaitIsTimed, NoSlotLost, NoHandleLeft, Spent,
              AheadIsOlder, Stable
<1>10. ASSUME NEW r \in Rpdos, EnableRpdoEvent(r) \/ DisableRpdoEvent(r) \/ ProcessRpdo(r)
       PROVE  TimersInv' /\ pass = 0
  BY <1>10, RpdoInv
<1> QED
  BY <1>1, <1>2, <1>3, <1>4, <1>5, <1>6, <1>7, <1>8, <1>9, <1>10 DEF Next, Services, Stable

-----------------------------------------------------------------------------
(* The theorems.                                                           *)

\* On the Teensy the users of timers and the slots stay in step: who waits has
\* an armed slot of its own, an RPDO that timed out keeps its spent one, no slot is
\* left behind, no handle is stale (TyCo.cpp with Nmt.cpp, Sdo.cpp and Pdo.cpp).
THEOREM SlotsAreOwned == Platform = "teensy" => (Spec => []TimersInv)
<1> SUFFICES ASSUME Platform = "teensy"
             PROVE  Spec => []TimersInv
  OBVIOUS
<1>1. Init => TimersInv
  BY InitInv
<1>2. TimersInv /\ [Next]_vars => TimersInv'
  BY NextInv
<1> QED
  BY <1>1, <1>2, PTL DEF Spec

\* No transfer waits without its timeout and no peer without its watch
\* (transactionTimeout, peerHeartbeatExpired).
THEOREM WaitsAreTimed == Platform = "teensy" => (Spec => []EveryWaitIsTimed)
<1> SUFFICES ASSUME Platform = "teensy"
             PROVE  Spec => []EveryWaitIsTimed
  OBVIOUS
<1>1. TimersInv => EveryWaitIsTimed
  BY DEF TimersInv
<1>2. Spec => []TimersInv
  BY SlotsAreOwned
<1> QED
  BY <1>1, <1>2, PTL

\* The pass that reads the clock once fires nothing early, in spite of
\* callbacks that schedule behind it and of a clock that wraps, but for a transfer
\* that an RPDO's timeout has started (System::service of TyCo.cpp, rpdoTimeout).
THEOREM NothingFiresEarly == Platform = "teensy" => (Spec => NeverEarly)
<1> SUFFICES ASSUME Platform = "teensy"
             PROVE  Spec => NeverEarly
  OBVIOUS
<1>1. TimersInv => [\A h \in DOMAIN slots : Serve(h) =>
                      slots[h].age >= slots[h].delay \/ h \in ahead]_vars
  <2> SUFFICES ASSUME TimersInv, NEW h \in DOMAIN slots, Serve(h), h \notin ahead
               PROVE  slots[h].age >= slots[h].delay
    OBVIOUS
  <2>1. slots[h] \in Slot
    <3>1. slots \in Seq(Slot) /\ DOMAIN slots = 1 .. Len(slots)
      BY NodeGood
    <3> QED
      BY <3>1, ElementOfSeq
  <2>2. slots[h].age \in Nat /\ slots[h].delay \in Nat /\ lag \in Nat
    BY <2>1 DEF Slot, TimersInv, TypeOK
  <2>3. slots[h].age >= lag /\ (slots[h].age - lag) % Wrap >= slots[h].delay
    BY DEF Serve, Due, TimersInv, AheadIsOlder
  <2>4. Wrap \in Nat \ {0}
    BY TimeAssumption
  <2> DEFINE since == slots[h].age - lag
  <2>5. since \in Nat /\ since <= slots[h].age
    BY <2>2, <2>3
  <2>6. since >= slots[h].delay
    <3>1. since % Wrap >= slots[h].delay
      BY <2>3
    <3> HIDE DEF since
    <3> QED
      BY <2>2, <2>4, <2>5, <3>1
  <2> QED
    BY <2>2, <2>5, <2>6
<1>2. Spec => []TimersInv
  BY SlotsAreOwned
<1> QED
  BY <1>1, <1>2, PTL DEF NeverEarly

\* The vector that service iterates over grows under its iterators only when the
\* timeout callback of an RPDO schedules (System::service, scheduleDelayed of
\* TyCo.cpp, rpdoTimeout).
THEOREM IteratorsStayValid == Platform = "teensy" => (Spec => TableStable)
<1> SUFFICES ASSUME Platform = "teensy"
             PROVE  Spec => TableStable
  OBVIOUS
<1>1. TimersInv /\ [Next]_vars =>
        [pass > 0 => \/ Len(slots') = Len(slots)
                     \/ \E h \in DOMAIN slots : slots[h].user \in Rpdos /\ Serve(h)]_vars
  BY NextInv DEF Stable
<1>2. Spec => []TimersInv
  BY SlotsAreOwned
<1> QED
  BY <1>1, <1>2, PTL DEF Spec, TableStable
=============================================================================
