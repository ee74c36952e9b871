---------------------------- MODULE HeartbeatProofs ----------------------------
(***************************************************************************)
(* Proofs about Heartbeat, for any peers, states, limits and intervals: no *)
(* slot of the timer table is lost or shared, and timers, handles and      *)
(* generations together implement PeerMonitor.                             *)
(***************************************************************************)
EXTENDS Heartbeat, TimersProofs

-----------------------------------------------------------------------------
(* The users of the table and the handles they keep.                       *)

Producer == <<"beat", 0>>
App == <<"app", 0>>
Peer(p) == <<"peer", p>>
Users == {Peer(p) : p \in Peers} \cup {Producer} \cup {App}

PeerState == [state : Reported \cup {Offline, Unknown}, timer : Nat,
              timeoutMs : Limits \cup {0}, generation : Nat]

HandleOf(ps, hb, app) ==
  [u \in Users |-> IF u = Producer THEN hb ELSE IF u = App THEN app ELSE ps[u[2]].timer]

Owner == [cb \in Callbacks |-> IF cb.kind = "expiry" THEN Peer(cb.peer) ELSE <<cb.kind, 0>>]

\* A peer that is not tracked has no timer, and a peer's timer will call it.
Watching(ts, ps) ==
  \A p \in Peers :
    /\ ps[p].state = Unknown => ps[p].timer = NoTimer /\ ps[p].timeoutMs = 0
    /\ ps[p].timer # NoTimer =>
         /\ ts[ps[p].timer].enable
         /\ ts[ps[p].timer].callback = Expiry(ps[p].generation, p)

Kept(ts, ps, hb, app) ==
  /\ ts \in Seq(SlotType(Nat, Callbacks)) /\ Len(ts) <= Cardinality(Users)
  /\ ps \in [Peers -> PeerState] /\ hb \in Nat /\ app \in Nat
  /\ Owned(ts, HandleOf(ps, hb, app), Owner, Users)
  /\ Watching(ts, ps)

\* The time that PeerMonitor sees: what is left on each peer's timer.
Left(ts, ps) ==
  [p \in Peers |-> IF ps[p].timer = NoTimer THEN -1 ELSE ts[ps[p].timer].left]

\* There are as many users as peers, the producer and the application.
LEMMA UsersFacts ==
  /\ IsFiniteSet(Users) /\ Cardinality(Users) = Cardinality(Peers) + 2
  /\ Producer \in Users /\ App \in Users /\ Producer # App
  /\ \A p \in Peers : Peer(p) \in Users /\ Peer(p) # Producer /\ Peer(p) # App
  /\ \A p, q \in Peers : Peer(p) = Peer(q) => p = q
<1> DEFINE T == {Peer(p) : p \in Peers}
           f == [p \in Peers |-> Peer(p)]
<1>1. /\ Producer # App
      /\ \A p \in Peers : Peer(p) # Producer /\ Peer(p) # App
      /\ \A p, q \in Peers : Peer(p) = Peer(q) => p = q
  BY DEF Producer, App, Peer
<1>2. f \in Bijection(Peers, T)
  BY <1>1 DEF Bijection, Injection, Surjection, IsInjective
<1>3. IsFiniteSet(T) /\ Cardinality(T) = Cardinality(Peers)
  <2> HIDE DEF T, f
  <2>1. IsFiniteSet(Peers)
    BY BoundsAssumption
  <2>2. IsFiniteSet(T) /\ Cardinality(Peers) = Cardinality(T)
    BY <1>2, <2>1, FS_Bijection DEF ExistsBijection
  <2> QED
    BY <2>2
<1>4. Cardinality(Peers) \in Nat
  BY BoundsAssumption, FS_CardinalityType
<1>5. Producer \notin T /\ App \notin T \cup {Producer}
  BY <1>1
<1> HIDE DEF T, f
<1>6. IsFiniteSet(T \cup {Producer}) /\ Cardinality(T \cup {Producer}) = Cardinality(T) + 1
  BY <1>3, <1>5, FS_AddElement
<1>7. /\ IsFiniteSet((T \cup {Producer}) \cup {App})
      /\ Cardinality((T \cup {Producer}) \cup {App}) = Cardinality(T \cup {Producer}) + 1
  BY <1>5, <1>6, FS_AddElement
<1>8. Users = (T \cup {Producer}) \cup {App}
  BY DEF Users, T
<1>9. Cardinality(Users) = Cardinality(Peers) + 2
  BY <1>3, <1>4, <1>6, <1>7, <1>8
<1>10. \A p \in Peers : Peer(p) \in Users
  BY DEF Users
<1> QED
  BY <1>1, <1>7, <1>8, <1>9, <1>10

\* Who holds which handle.
Handles(H, ps, hb, app) ==
  /\ H \in [Users -> Nat] /\ H[Producer] = hb /\ H[App] = app
  /\ \A p \in Peers : H[Peer(p)] = ps[p].timer

LEMMA HandleFacts ==
  ASSUME NEW ps \in [Peers -> PeerState], NEW hb \in Nat, NEW app \in Nat
  PROVE  Handles(HandleOf(ps, hb, app), ps, hb, app)
<1> DEFINE H == HandleOf(ps, hb, app)
<1>1. H[Producer] = hb /\ H[App] = app
  BY UsersFacts DEF HandleOf
<1>2. ASSUME NEW p \in Peers
      PROVE  H[Peer(p)] = ps[p].timer /\ H[Peer(p)] \in Nat
  <2>1. H[Peer(p)] = ps[Peer(p)[2]].timer
    BY UsersFacts DEF HandleOf
  <2>2. Peer(p)[2] = p
    BY DEF Peer
  <2>3. ps[p].timer \in Nat
    BY DEF PeerState
  <2> QED
    BY <2>1, <2>2, <2>3
<1>3. \A u \in Users : H[u] \in Nat
  BY <1>1, <1>2 DEF Users
<1>4. H = [u \in Users |-> H[u]]
  BY DEF HandleOf
<1> HIDE DEF H
<1>5. H \in [Users -> Nat]
  BY <1>3, <1>4
<1> QED
  BY <1>1, <1>2, <1>5 DEF Handles, H

\* Whose a callback is.
LEMMA OwnerFacts ==
  /\ DOMAIN Owner = Callbacks
  /\ Beat \in Callbacks /\ Owner[Beat] = Producer
  /\ Tone \in Callbacks /\ Owner[Tone] = App
  /\ \A g \in Nat, p \in Peers : Expiry(g, p) \in Callbacks /\ Owner[Expiry(g, p)] = Peer(p)
  /\ \A cb \in Callbacks :
       \/ cb = Beat
       \/ cb = Tone
       \/ cb.kind = "expiry" /\ cb.peer \in Peers /\ Owner[cb] = Peer(cb.peer)
<1>1. DOMAIN Owner = Callbacks
  BY DEF Owner
<1>2. Beat \in Callbacks /\ Owner[Beat] = Producer
  <2>1. Beat \in Callbacks /\ Beat.kind = "beat"
    BY DEF Beat, Callbacks
  <2> QED
    BY <2>1 DEF Owner, Producer
<1>3. Tone \in Callbacks /\ Owner[Tone] = App
  <2>1. Tone \in Callbacks /\ Tone.kind = "app"
    BY DEF Tone, Callbacks
  <2> QED
    BY <2>1 DEF Owner, App
<1>4. ASSUME NEW g \in Nat, NEW p \in Peers
      PROVE  Expiry(g, p) \in Callbacks /\ Owner[Expiry(g, p)] = Peer(p)
  <2>1. /\ Expiry(g, p) \in Callbacks
        /\ Expiry(g, p).kind = "expiry" /\ Expiry(g, p).peer = p
    BY DEF Expiry, Callbacks
  <2> QED
    BY <2>1 DEF Owner
<1>5. ASSUME NEW cb \in Callbacks
      PROVE  \/ cb = Beat
             \/ cb = Tone
             \/ cb.kind = "expiry" /\ cb.peer \in Peers /\ Owner[cb] = Peer(cb.peer)
  <2>1. cb \in {Beat, Tone} \/ (cb.kind = "expiry" /\ cb.peer \in Peers)
    BY DEF Callbacks
  <2> QED
    BY <2>1 DEF Owner
<1> QED
  BY <1>1, <1>2, <1>3, <1>4, <1>5

-----------------------------------------------------------------------------
(* What the handlers do to the table.                                      *)

\* r and qs are what a handler makes of ts and ps: slots and handles agree, and
\* only the countdown of p is another one.
PeerChanged(ts, ps, hb, app, r, qs, p, left) ==
  /\ Kept(r, qs, hb, app) /\ Len(r) >= Len(ts)
  /\ Left(r, qs) = [Left(ts, ps) EXCEPT ![p] = left]

\* The facts that the lemmas about peers share.
LEMMA PeerSlots ==
  ASSUME NEW ts, NEW ps, NEW hb, NEW app, Kept(ts, ps, hb, app),
         NEW p \in Peers, NEW q \in Peers \ {p}, ps[q].timer # NoTimer
  PROVE  /\ ps[q].timer \in DOMAIN ts /\ ~ts[ps[q].timer].available
         /\ ps[q].timer # ps[p].timer
<1> DEFINE H == HandleOf(ps, hb, app)
<1>1. H[Peer(q)] = ps[q].timer /\ Peer(q) \in Users
  BY HandleFacts, UsersFacts DEF Kept, Handles
<1> HIDE DEF H
<1>2. ps[q].timer \in DOMAIN ts /\ ~ts[ps[q].timer].available
  <2>1. Owned(ts, H, Owner, Users)
    BY DEF Kept, H
  <2> QED
    BY <1>1, <2>1 DEF Owned
<1>3. ts[ps[q].timer].callback = Expiry(ps[q].generation, q)
  BY DEF Kept, Watching
<1>4. ps[p].timer # NoTimer => ts[ps[p].timer].callback = Expiry(ps[p].generation, p)
  BY DEF Kept, Watching
<1>5. Expiry(ps[q].generation, q) # Expiry(ps[p].generation, p)
  BY DEF Expiry
<1> QED
  BY <1>2, <1>3, <1>4, <1>5

\* A peer's timer is deleted.
LEMMA PeerLetsGo ==
  ASSUME NEW ts, NEW ps, NEW hb, NEW app, Kept(ts, ps, hb, app),
         NEW p \in Peers, NEW rec \in PeerState, rec.timer = NoTimer,
         rec.state = Unknown => rec.timeoutMs = 0
  PROVE  PeerChanged(ts, ps, hb, app, DeleteTimer(ts, ps[p].timer),
                     [ps EXCEPT ![p] = rec], p, -1)
<1> DEFINE r == DeleteTimer(ts, ps[p].timer)
           qs == [ps EXCEPT ![p] = rec]
           H == HandleOf(ps, hb, app)
           K == HandleOf(qs, hb, app)
<1>1. /\ ts \in Seq(SlotType(Nat, Callbacks)) /\ Len(ts) <= Cardinality(Users)
      /\ ps \in [Peers -> PeerState] /\ hb \in Nat /\ app \in Nat
      /\ Owned(ts, H, Owner, Users)
  BY DEF Kept
<1>2. /\ qs \in [Peers -> PeerState] /\ qs[p] = rec
      /\ \A q \in Peers \ {p} : qs[q] = ps[q]
  BY <1>1
<1> HIDE DEF qs
<1>3. /\ H \in [Users -> Nat] /\ H[Producer] = hb /\ H[App] = app
      /\ \A q \in Peers : H[Peer(q)] = ps[q].timer
  BY <1>1, HandleFacts DEF Handles
<1>4. /\ K \in [Users -> Nat] /\ K[Producer] = hb /\ K[App] = app
      /\ \A q \in Peers : K[Peer(q)] = qs[q].timer
  BY <1>1, <1>2, HandleFacts DEF Handles
<1> HIDE DEF H, K
<1>5. K[Peer(p)] = NoTimer /\ \A w \in Users \ {Peer(p)} : K[w] = H[w]
  BY <1>2, <1>3, <1>4 DEF Users
<1>6. Freed(Callbacks, Users, Owner, ts, H[Peer(p)], K, DeleteTimer(ts, H[Peer(p)]))
  BY <1>1, <1>3, <1>4, <1>5, UsersFacts, GiveBack
<1>7. Freed(Callbacks, Users, Owner, ts, ps[p].timer, K, r)
  BY <1>3, <1>6
<1> HIDE DEF r
<1>8. ASSUME NEW q \in Peers \ {p}, qs[q].timer # NoTimer
      PROVE  r[qs[q].timer] = ts[ps[q].timer] /\ qs[q] = ps[q]
  <2>1. qs[q] = ps[q]
    BY <1>2
  <2>2. ps[q].timer \in DOMAIN ts /\ ps[q].timer # ps[p].timer
    BY <1>8, <2>1, PeerSlots
  <2> QED
    BY <1>7, <2>1, <2>2 DEF Freed
<1>9. Watching(r, qs)
  <2>1. Watching(ts, ps)
    BY DEF Kept
  <2>2. ASSUME NEW q \in Peers \ {p}
        PROVE  /\ qs[q].state = Unknown => qs[q].timer = NoTimer /\ qs[q].timeoutMs = 0
               /\ qs[q].timer # NoTimer =>
                    /\ r[qs[q].timer].enable
                    /\ r[qs[q].timer].callback = Expiry(qs[q].generation, q)
    BY <1>2, <1>8, <2>1 DEF Watching
  <2> QED
    BY <1>2, <2>2 DEF Watching
<1>10. Kept(r, qs, hb, app)
  BY <1>1, <1>2, <1>7, <1>9 DEF Freed, Kept, K
<1>11. Left(r, qs) = [Left(ts, ps) EXCEPT ![p] = -1]
  <2>1. \A q \in Peers \ {p} :
          qs[q].timer = ps[q].timer /\ (ps[q].timer # NoTimer => r[qs[q].timer] = ts[ps[q].timer])
    BY <1>2, <1>8
  <2> QED
    BY <1>2, <2>1 DEF Left
<1>12. Len(r) >= Len(ts)
  <2>1. Len(ts) \in Nat
    BY <1>1, LenProperties
  <2> QED
    BY <1>7, <2>1 DEF Freed
<1> QED
  BY <1>10, <1>11, <1>12 DEF PeerChanged, r, qs

\* The fields of a timer that is armed.
LEMMA DelayedFacts ==
  ASSUME NEW C, NEW ms \in Nat, NEW cb \in C
  PROVE  LET t == Delayed(ms, cb)
         IN /\ t \in SlotType(Nat, C) /\ ~t.available /\ t.enable
            /\ t.left = ms /\ t.callback = cb
BY DEF Delayed, SlotType

\* The slot that schedule will take is the number of one.
LEMMA AvailableType ==
  ASSUME NEW S, NEW ts \in Seq(S)
  PROVE  AvailableTimer(ts) \in Nat
BY AvailableFacts, LenProperties

\* A peer's timer is deleted and another one scheduled.
LEMMA PeerRearms ==
  ASSUME NEW ts, NEW ps, NEW hb, NEW app, Kept(ts, ps, hb, app),
         NEW p \in Peers, NEW ms \in Nat, NEW rec \in PeerState,
         rec.timer = AvailableTimer(DeleteTimer(ts, ps[p].timer)),
         rec.state # Unknown
  PROVE  PeerChanged(ts, ps, hb, app,
                     Schedule(DeleteTimer(ts, ps[p].timer), Delayed(ms, Expiry(rec.generation, p))),
                     [ps EXCEPT ![p] = rec], p, ms)
<1> DEFINE timer == Delayed(ms, Expiry(rec.generation, p))
           r == Schedule(DeleteTimer(ts, ps[p].timer), timer)
           qs == [ps EXCEPT ![p] = rec]
           H == HandleOf(ps, hb, app)
           K == HandleOf(qs, hb, app)
<1>1. /\ ts \in Seq(SlotType(Nat, Callbacks)) /\ Len(ts) <= Cardinality(Users)
      /\ ps \in [Peers -> PeerState] /\ hb \in Nat /\ app \in Nat
      /\ Owned(ts, H, Owner, Users)
  BY DEF Kept
<1>2. /\ qs \in [Peers -> PeerState] /\ qs[p] = rec
      /\ \A q \in Peers \ {p} : qs[q] = ps[q]
  BY <1>1
<1> HIDE DEF qs
<1>3. /\ H \in [Users -> Nat] /\ H[Producer] = hb /\ H[App] = app
      /\ \A q \in Peers : H[Peer(q)] = ps[q].timer
  BY <1>1, HandleFacts DEF Handles
<1>4. /\ K \in [Users -> Nat] /\ K[Producer] = hb /\ K[App] = app
      /\ \A q \in Peers : K[Peer(q)] = qs[q].timer
  <2>1. qs \in [Peers -> PeerState] /\ hb \in Nat /\ app \in Nat
    BY <1>1, <1>2
  <2> HIDE DEF timer, r
  <2> QED
    BY <2>1, HandleFacts DEF Handles
<1> HIDE DEF H, K
<1>5. /\ K[Peer(p)] = AvailableTimer(DeleteTimer(ts, H[Peer(p)]))
      /\ \A w \in Users \ {Peer(p)} : K[w] = H[w]
  BY <1>2, <1>3, <1>4 DEF Users
<1>6. /\ timer \in SlotType(Nat, Callbacks) /\ ~timer.available /\ timer.enable
      /\ timer.left = ms /\ timer.callback = Expiry(rec.generation, p)
      /\ timer.callback \in DOMAIN Owner /\ Owner[timer.callback] = Peer(p)
  <2>1. rec.generation \in Nat
    BY DEF PeerState
  <2>2. /\ Expiry(rec.generation, p) \in Callbacks /\ DOMAIN Owner = Callbacks
        /\ Owner[Expiry(rec.generation, p)] = Peer(p)
    BY <2>1, OwnerFacts
  <2>3. /\ timer \in SlotType(Nat, Callbacks) /\ ~timer.available /\ timer.enable
        /\ timer.left = ms /\ timer.callback = Expiry(rec.generation, p)
    BY <2>2, DelayedFacts
  <2> QED
    BY <2>2, <2>3
<1> HIDE DEF timer
<1>7. IsFiniteSet(Users) /\ Peer(p) \in Users
  BY UsersFacts
<1>8. Taken(Callbacks, Users, Owner, ts, H[Peer(p)], K, timer, K[Peer(p)],
            Schedule(DeleteTimer(ts, H[Peer(p)]), timer))
  BY <1>1, <1>3, <1>4, <1>5, <1>6, <1>7, Replace
<1>9. Taken(Callbacks, Users, Owner, ts, ps[p].timer, K, timer, rec.timer, r)
  BY <1>2, <1>3, <1>4, <1>8
<1> HIDE DEF r
<1>10. ASSUME NEW q \in Peers \ {p}, qs[q].timer # NoTimer
       PROVE  r[qs[q].timer] = ts[ps[q].timer] /\ qs[q] = ps[q]
  <2>1. qs[q] = ps[q]
    BY <1>2
  <2>2. /\ ps[q].timer \in DOMAIN ts /\ ~ts[ps[q].timer].available
        /\ ps[q].timer # ps[p].timer
    BY <1>10, <2>1, PeerSlots
  <2> QED
    BY <1>9, <2>1, <2>2 DEF Taken
<1>11. Watching(r, qs)
  <2>1. Watching(ts, ps)
    BY DEF Kept
  <2>2. ASSUME NEW q \in Peers \ {p}
        PROVE  /\ qs[q].state = Unknown => qs[q].timer = NoTimer /\ qs[q].timeoutMs = 0
               /\ qs[q].timer # NoTimer =>
                    /\ r[qs[q].timer].enable
                    /\ r[qs[q].timer].callback = Expiry(qs[q].generation, q)
    BY <1>2, <1>10, <2>1 DEF Watching
  <2>3. r[rec.timer].enable /\ r[rec.timer].callback = Expiry(rec.generation, p)
    BY <1>6, <1>9 DEF Taken
  <2> QED
    BY <1>2, <2>2, <2>3 DEF Watching
<1>12. Kept(r, qs, hb, app)
  BY <1>1, <1>2, <1>9, <1>11 DEF Taken, Kept, K
<1>13. Left(r, qs) = [Left(ts, ps) EXCEPT ![p] = ms]
  <2>1. \A q \in Peers \ {p} :
          qs[q].timer = ps[q].timer /\ (ps[q].timer # NoTimer => r[qs[q].timer] = ts[ps[q].timer])
    BY <1>2, <1>10
  <2>2. qs[p].timer # NoTimer /\ r[qs[p].timer].left = ms
    BY <1>2, <1>6, <1>9 DEF Taken
  <2> QED
    BY <2>1, <2>2 DEF Left
<1> QED
  BY <1>9, <1>12, <1>13 DEF PeerChanged, Taken, r, qs, timer

\* r is the table a handler leaves that is no peer's: the peers' slots in it are
\* those of ts.
Unmoved(ts, ps, r, hb, app) ==
  Kept(r, ps, hb, app) /\ Len(r) >= Len(ts) /\ Left(r, ps) = Left(ts, ps)

LEMMA PeersKeep ==
  ASSUME NEW ts, NEW ps, NEW hb, NEW app, Kept(ts, ps, hb, app),
         NEW r \in Seq(SlotType(Nat, Callbacks)),
         Len(r) <= Cardinality(Users), Len(r) >= Len(ts),
         NEW hb2 \in Nat, NEW app2 \in Nat,
         Owned(r, HandleOf(ps, hb2, app2), Owner, Users),
         \A p \in Peers : ps[p].timer # NoTimer => r[ps[p].timer] = ts[ps[p].timer]
  PROVE  Unmoved(ts, ps, r, hb2, app2)
<1>1. Watching(r, ps)
  BY DEF Kept, Watching
<1>2. Kept(r, ps, hb2, app2)
  BY <1>1 DEF Kept
<1>3. Left(r, ps) = Left(ts, ps)
  BY DEF Left
<1> QED
  BY <1>2, <1>3 DEF Unmoved

\* A peer's slot is in use, will call the peer, and is nobody else's.
LEMMA PeerSlot ==
  ASSUME NEW ts, NEW ps, NEW hb, NEW app, Kept(ts, ps, hb, app),
         NEW p \in Peers, ps[p].timer # NoTimer
  PROVE  /\ ps[p].timer \in DOMAIN ts /\ ~ts[ps[p].timer].available
         /\ ts[ps[p].timer].enable
         /\ ts[ps[p].timer].callback = Expiry(ps[p].generation, p)
         /\ ps[p].timer # hb /\ ps[p].timer # app
<1> DEFINE H == HandleOf(ps, hb, app)
<1>1. /\ H[Peer(p)] = ps[p].timer /\ H[Producer] = hb /\ H[App] = app
      /\ Peer(p) \in Users /\ Producer \in Users /\ App \in Users
      /\ Peer(p) # Producer /\ Peer(p) # App
  BY HandleFacts, UsersFacts DEF Kept, Handles
<1> HIDE DEF H
<1>2. Owned(ts, H, Owner, Users)
  BY DEF Kept, H
<1>3. /\ ps[p].timer \in DOMAIN ts /\ ~ts[ps[p].timer].available
      /\ ps[p].timer # hb /\ ps[p].timer # app
  BY <1>1, <1>2 DEF Owned
<1> QED
  BY <1>3 DEF Kept, Watching

\* The node or the application deletes its timer and schedules another one.
LEMMA OwnRearms ==
  ASSUME NEW ts, NEW ps, NEW hb, NEW app, Kept(ts, ps, hb, app),
         NEW u, NEW old, NEW hb2 \in Nat, NEW app2 \in Nat,
         \/ /\ u = Producer /\ old = hb /\ app2 = app
            /\ hb2 = AvailableTimer(DeleteTimer(ts, old))
         \/ /\ u = App /\ old = app /\ hb2 = hb
            /\ app2 = AvailableTimer(DeleteTimer(ts, old)),
         NEW timer \in SlotType(Nat, Callbacks), ~timer.available,
         timer.callback \in DOMAIN Owner, Owner[timer.callback] = u
  PROVE  Unmoved(ts, ps, Schedule(DeleteTimer(ts, old), timer), hb2, app2)
<1> DEFINE r == Schedule(DeleteTimer(ts, old), timer)
           H == HandleOf(ps, hb, app)
           K == HandleOf(ps, hb2, app2)
<1>1. /\ ts \in Seq(SlotType(Nat, Callbacks)) /\ Len(ts) <= Cardinality(Users)
      /\ ps \in [Peers -> PeerState] /\ hb \in Nat /\ app \in Nat
      /\ Owned(ts, H, Owner, Users)
  BY DEF Kept
<1>2. /\ H \in [Users -> Nat] /\ H[Producer] = hb /\ H[App] = app
      /\ \A q \in Peers : H[Peer(q)] = ps[q].timer
  <2> HIDE DEF r
  <2> QED
    BY <1>1, HandleFacts DEF Handles
<1>3. /\ K \in [Users -> Nat] /\ K[Producer] = hb2 /\ K[App] = app2
      /\ \A q \in Peers : K[Peer(q)] = ps[q].timer
  <2> HIDE DEF r
  <2>1. Handles(HandleOf(ps, hb2, app2), ps, hb2, app2)
    BY <1>1, HandleFacts, Zenon
  <2> QED
    BY <2>1, Zenon DEF Handles
<1> HIDE DEF H, K
<1>4. u \in Users /\ IsFiniteSet(Users)
  BY UsersFacts
<1>5. H[u] = old /\ K[u] = AvailableTimer(DeleteTimer(ts, H[u]))
  BY <1>2, <1>3
<1>6. \A w \in Users \ {u} : K[w] = H[w]
  BY <1>2, <1>3 DEF Users
<1>7. Taken(Callbacks, Users, Owner, ts, H[u], K, timer, K[u],
            Schedule(DeleteTimer(ts, H[u]), timer))
  BY <1>1, <1>2, <1>3, <1>4, <1>5, <1>6, Replace
<1>8. Taken(Callbacks, Users, Owner, ts, old, K, timer, K[u], r)
  BY <1>5, <1>7
<1> HIDE DEF r
<1>9. \A p \in Peers : ps[p].timer # NoTimer => r[ps[p].timer] = ts[ps[p].timer]
  BY <1>8, PeerSlot DEF Taken
<1>10. /\ r \in Seq(SlotType(Nat, Callbacks)) /\ Len(r) <= Cardinality(Users)
       /\ Len(r) >= Len(ts) /\ Owned(r, HandleOf(ps, hb2, app2), Owner, Users)
  BY <1>1, <1>8 DEF Taken, K
<1> QED
  BY <1>9, <1>10, PeersKeep DEF r

\* The application deletes its timer.
LEMMA AppLetsGo ==
  ASSUME NEW ts, NEW ps, NEW hb, NEW app, Kept(ts, ps, hb, app)
  PROVE  Unmoved(ts, ps, DeleteTimer(ts, app), hb, NoTimer)
<1> DEFINE r == DeleteTimer(ts, app)
           H == HandleOf(ps, hb, app)
           K == HandleOf(ps, hb, NoTimer)
<1>1. /\ ts \in Seq(SlotType(Nat, Callbacks)) /\ Len(ts) <= Cardinality(Users)
      /\ ps \in [Peers -> PeerState] /\ hb \in Nat /\ app \in Nat /\ NoTimer \in Nat
      /\ Owned(ts, H, Owner, Users)
  BY DEF Kept, NoTimer
<1>2. /\ H \in [Users -> Nat] /\ H[Producer] = hb /\ H[App] = app
      /\ \A q \in Peers : H[Peer(q)] = ps[q].timer
  <2> HIDE DEF r
  <2> QED
    BY <1>1, HandleFacts DEF Handles
<1>3. /\ K \in [Users -> Nat] /\ K[Producer] = hb /\ K[App] = NoTimer
      /\ \A q \in Peers : K[Peer(q)] = ps[q].timer
  <2> HIDE DEF r
  <2> QED
    BY <1>1, HandleFacts DEF Handles
<1> HIDE DEF H, K
<1>4. App \in Users
  BY UsersFacts
<1>5. \A w \in Users \ {App} : K[w] = H[w]
  BY <1>2, <1>3 DEF Users
<1>6. Freed(Callbacks, Users, Owner, ts, H[App], K, DeleteTimer(ts, H[App]))
  BY <1>1, <1>2, <1>3, <1>4, <1>5, GiveBack
<1>7. Freed(Callbacks, Users, Owner, ts, app, K, r)
  BY <1>2, <1>6
<1> HIDE DEF r
<1>8. \A p \in Peers : ps[p].timer # NoTimer => r[ps[p].timer] = ts[ps[p].timer]
  BY <1>7, PeerSlot DEF Freed
<1>9. /\ r \in Seq(SlotType(Nat, Callbacks)) /\ Len(r) <= Cardinality(Users)
      /\ Len(r) >= Len(ts) /\ Owned(r, HandleOf(ps, hb, NoTimer), Owner, Users)
  <2>1. Len(ts) \in Nat
    BY <1>1, LenProperties
  <2> QED
    BY <1>1, <1>7, <2>1 DEF Freed, K
<1> QED
  BY <1>1, <1>8, <1>9, PeersKeep DEF r

\* A timer of the node's or the application's fires.
LEMMA OwnFires ==
  ASSUME NEW ts, NEW ps, NEW hb, NEW app, Kept(ts, ps, hb, app),
         NEW h \in Due(ts), ts[h].callback \in {Beat, Tone}
  PROVE  Unmoved(ts, ps, Served(ts, h), hb, app)
<1> DEFINE r == Served(ts, h)
           H == HandleOf(ps, hb, app)
<1>1. /\ ts \in Seq(SlotType(Nat, Callbacks)) /\ Len(ts) <= Cardinality(Users)
      /\ hb \in Nat /\ app \in Nat /\ Owned(ts, H, Owner, Users)
  BY DEF Kept
<1>2. /\ r \in Seq(SlotType(Nat, Callbacks)) /\ Len(r) = Len(ts) /\ DOMAIN r = DOMAIN ts
      /\ \A g \in DOMAIN ts :
           /\ r[g].available = ts[g].available /\ r[g].callback = ts[g].callback
           /\ r[g].enable => ts[g].enable
      /\ \A g \in DOMAIN ts : g # h => r[g] = ts[g]
  BY <1>1, ServedFacts
<1> HIDE DEF r
<1>3. Owned(r, H, Owner, Users)
  BY <1>1, <1>2, SameOwners
<1>4. ASSUME NEW p \in Peers, ps[p].timer # NoTimer
      PROVE  r[ps[p].timer] = ts[ps[p].timer]
  <2>1. /\ ps[p].timer \in DOMAIN ts
        /\ ts[ps[p].timer].callback = Expiry(ps[p].generation, p)
    BY <1>4, PeerSlot
  <2>2. Expiry(ps[p].generation, p) \notin {Beat, Tone}
    BY DEF Expiry, Beat, Tone
  <2> QED
    BY <1>2, <2>1, <2>2
<1>5. Len(r) >= Len(ts)
  <2>1. Len(ts) \in Nat
    BY <1>1, LenProperties
  <2> QED
    BY <1>2, <2>1
<1> QED
  BY <1>1, <1>2, <1>3, <1>4, <1>5, PeersKeep DEF r

\* A timer that fires and is deleted in its callback.
LEMMA FiredAndDeleted ==
  ASSUME NEW C, NEW ts \in Seq(SlotType(Nat, C)), NEW h \in Due(ts)
  PROVE  DeleteTimer(Served(ts, h), h) = DeleteTimer(ts, h)
<1>1. DOMAIN ts = 1 .. Len(ts) /\ Len(ts) \in Nat /\ h \in 1 .. Len(ts) /\ h # NoTimer
  BY LenProperties DEF Due, NoTimer
<1>2. ts \in [1 .. Len(ts) -> SlotType(Nat, C)]
  BY LenProperties
<1>3. DeleteTimer(Served(ts, h), h) = [Served(ts, h) EXCEPT ![h] = Blank]
  BY <1>1 DEF DeleteTimer
<1>4. DeleteTimer(ts, h) = [ts EXCEPT ![h] = Blank]
  BY <1>1 DEF DeleteTimer
<1> QED
  BY <1>1, <1>2, <1>3, <1>4 DEF Served

\* The timer of a peer fires: it is the peer's present one.
LEMMA ExpiryIsCurrent ==
  ASSUME NEW ts, NEW ps, NEW hb, NEW app, Kept(ts, ps, hb, app),
         NEW h \in Due(ts), ts[h].callback.kind = "expiry"
  PROVE  LET p == ts[h].callback.peer
         IN /\ p \in Peers /\ ps[p].timer = h /\ ps[p].state # Unknown
            /\ ps[p].generation = ts[h].callback.generation
            /\ Left(ts, ps)[p] = 0
            /\ DeleteTimer(Served(ts, h), ps[p].timer) = DeleteTimer(ts, ps[p].timer)
<1> DEFINE H == HandleOf(ps, hb, app)
           cb == ts[h].callback
           p == cb.peer
<1>1. /\ ts \in Seq(SlotType(Nat, Callbacks))
      /\ ps \in [Peers -> PeerState] /\ hb \in Nat /\ app \in Nat
      /\ Owned(ts, H, Owner, Users)
  BY DEF Kept
<1>2. /\ H \in [Users -> Nat] /\ H[Producer] = hb /\ H[App] = app
      /\ \A q \in Peers : H[Peer(q)] = ps[q].timer
  BY <1>1, HandleFacts DEF Handles
<1> HIDE DEF H
<1>3. h \in DOMAIN ts /\ h # NoTimer /\ ts[h].enable /\ ts[h].left = 0
  <2>1. DOMAIN ts = 1 .. Len(ts)
    BY <1>1, LenProperties
  <2> QED
    BY <2>1 DEF Due, NoTimer
<1>4. PICK u \in Users : H[u] = h
  BY <1>1, <1>3 DEF Owned
<1>5. cb \in Callbacks /\ Owner[cb] = u
  BY <1>1, <1>3, <1>4, OwnerFacts DEF Owned
<1>6. cb # Beat /\ cb # Tone
  BY DEF Beat, Tone
<1>7. p \in Peers /\ u = Peer(p)
  BY <1>5, <1>6, OwnerFacts
<1>8. ps[p].timer = h
  BY <1>2, <1>4, <1>7
<1>9. ps[p].state # Unknown /\ cb = Expiry(ps[p].generation, p)
  BY <1>3, <1>7, <1>8 DEF Kept, Watching
<1>10. cb.generation = ps[p].generation
  <2> HIDE DEF cb, p
  <2> QED
    BY <1>9 DEF Expiry
<1>11. Left(ts, ps)[p] = 0
  BY <1>3, <1>7, <1>8 DEF Left
<1>12. DeleteTimer(Served(ts, h), h) = DeleteTimer(ts, h)
  BY <1>1, FiredAndDeleted
<1> QED
  BY <1>7, <1>8, <1>9, <1>10, <1>11, <1>12

\* Time passes.
LEMMA TimePasses ==
  ASSUME NEW ts, NEW ps, NEW hb, NEW app, Kept(ts, ps, hb, app)
  PROVE  LET r == Elapsed(ts)
             left == Left(ts, ps)
         IN /\ Kept(r, ps, hb, app) /\ Len(r) = Len(ts)
            /\ Left(r, ps) = [p \in Peers |-> IF left[p] > 0 THEN left[p] - 1 ELSE left[p]]
<1> DEFINE r == Elapsed(ts)
           H == HandleOf(ps, hb, app)
<1>1. /\ ts \in Seq(SlotType(Nat, Callbacks)) /\ Len(ts) <= Cardinality(Users)
      /\ Owned(ts, H, Owner, Users)
  BY DEF Kept
<1>2. /\ r \in Seq(SlotType(Nat, Callbacks)) /\ Len(r) = Len(ts) /\ DOMAIN r = DOMAIN ts
      /\ \A g \in DOMAIN ts :
           /\ r[g].available = ts[g].available /\ r[g].callback = ts[g].callback
           /\ r[g].enable = ts[g].enable
           /\ ts[g].enable =>
                r[g].left = IF ts[g].left > 0 THEN ts[g].left - 1 ELSE ts[g].left
  BY <1>1, ElapsedFacts
<1> HIDE DEF r
<1>3. Owned(r, H, Owner, Users)
  BY <1>1, <1>2, SameOwners
<1>4. ASSUME NEW p \in Peers, ps[p].timer # NoTimer
      PROVE  /\ r[ps[p].timer].enable
             /\ r[ps[p].timer].callback = ts[ps[p].timer].callback
             /\ r[ps[p].timer].left = IF ts[ps[p].timer].left > 0 THEN ts[ps[p].timer].left - 1
                                      ELSE ts[ps[p].timer].left
  BY <1>2, <1>4, PeerSlot
<1>5. Watching(r, ps)
  BY <1>4 DEF Kept, Watching
<1>6. Kept(r, ps, hb, app)
  BY <1>1, <1>2, <1>3, <1>5 DEF Kept
<1>7. ASSUME NEW p \in Peers
      PROVE  Left(r, ps)[p] = IF Left(ts, ps)[p] > 0 THEN Left(ts, ps)[p] - 1 ELSE Left(ts, ps)[p]
  BY <1>4 DEF Left
<1>8. Left(r, ps) = [p \in Peers |-> Left(r, ps)[p]]
  BY DEF Left
<1> QED
  BY <1>2, <1>6, <1>7, <1>8 DEF r

-----------------------------------------------------------------------------
(* The inductive invariant.                                                *)

Now == Kept(timers, peerStates, hbTimer, appTimer)
PassOK == pass \in 0 .. Len(timers) + 1
RestOK ==
  /\ todo \in 0 .. Len(inbox) /\ Len(inbox) <= MaxInbox
  /\ inbox \in Seq([peer : Peers, state : Reported \cup {Garbled}])
  /\ told \in [Peers -> Reported \cup {Offline, Unknown}]
  /\ asked \in [Peers -> Limits \cup {0}] /\ period \in Intervals \cup {0}
  /\ dead \subseteq Peers /\ calls \in 0 .. MaxCalls

Ind == Now /\ PassOK /\ RestOK

\* What the mapping to PeerMonitor reads.
StateOf(ps) == [p \in Peers |-> ps[p].state]
LimitOf(ps) == [p \in Peers |-> ps[p].timeoutMs]

\* A step that PeerMonitor allows.
Allowed == [Monitor!MonitorNext]_(Monitor!monitorVars)

\* A step that changes no peer's state, limit or countdown is a stutter there.
LEMMA Stutters ==
  ASSUME peerStates' = peerStates, told' = told,
         Left(timers', peerStates) = Left(timers, peerStates)
  PROVE  Allowed
BY DEF Allowed, Monitor!monitorVars, Left

\* The invariant gives the one that is checked.
LEMMA IndImplies ==
  ASSUME Ind
  PROVE  HeartbeatInv
<1> DEFINE H == HandleOf(peerStates, hbTimer, appTimer)
<1>1. /\ timers \in Seq(SlotType(Nat, Callbacks)) /\ Len(timers) <= Cardinality(Users)
      /\ peerStates \in [Peers -> PeerState] /\ hbTimer \in Nat /\ appTimer \in Nat
      /\ Owned(timers, H, Owner, Users)
  BY DEF Ind, Now, Kept
<1>2. /\ H \in [Users -> Nat] /\ H[Producer] = hbTimer /\ H[App] = appTimer
      /\ \A p \in Peers : H[Peer(p)] = peerStates[p].timer
  BY <1>1, HandleFacts DEF Handles
<1> HIDE DEF H
<1>3. DOMAIN timers = 1 .. Len(timers)
  BY <1>1, LenProperties
<1>4. TypeOK
  <2>1. Len(timers) <= Cardinality(Peers) + 2
    BY <1>1, UsersFacts
  <2> QED
    BY <1>1, <2>1 DEF Ind, PassOK, RestOK, TypeOK, PeerState
<1>5. ASSUME NEW h \in DOMAIN timers, NEW u \in Users, H[u] = h
      PROVE  /\ ~timers[h].available /\ timers[h].callback \in Callbacks
             /\ Owner[timers[h].callback] = u
  BY <1>1, <1>3, <1>5, OwnerFacts DEF Owned, NoTimer
<1>6. ASSUME NEW h \in DOMAIN timers, timers[h].available
      PROVE  Owners(h) = {} /\ hbTimer # h /\ appTimer # h /\ ~timers[h].enable
  <2>1. \A u \in Users : H[u] # h
    BY <1>5, <1>6
  <2>2. ~timers[h].enable
    BY <1>1, <1>6 DEF Owned
  <2> QED
    BY <1>2, <2>1, <2>2, UsersFacts DEF Owners
<1>7. ASSUME NEW h \in DOMAIN timers, ~timers[h].available
      PROVE  CASE timers[h].callback = Beat -> hbTimer = h /\ appTimer # h /\ Owners(h) = {}
               [] timers[h].callback = Tone -> appTimer = h /\ hbTimer # h /\ Owners(h) = {}
               [] OTHER -> /\ hbTimer # h /\ appTimer # h
                           /\ Owners(h) = {timers[h].callback.peer}
                           /\ timers[h].callback.generation =
                                peerStates[timers[h].callback.peer].generation
  <2> DEFINE cb == timers[h].callback
  <2>1. PICK u \in Users : H[u] = h
    BY <1>1, <1>7 DEF Owned
  <2>2. cb \in Callbacks /\ Owner[cb] = u /\ \A w \in Users : H[w] = h => w = u
    BY <1>5, <2>1
  <2>3. hbTimer = h <=> u = Producer
    BY <1>2, <2>1, <2>2, UsersFacts
  <2>4. appTimer = h <=> u = App
    BY <1>2, <2>1, <2>2, UsersFacts
  <2>5. \A p \in Peers : p \in Owners(h) <=> u = Peer(p)
    BY <1>2, <2>1, <2>2, UsersFacts DEF Owners
  <2>6. Beat # Tone
    BY DEF Beat, Tone
  <2> HIDE DEF cb
  <2>7. CASE cb = Beat
    <3>1. u = Producer
      BY <2>2, <2>7, OwnerFacts
    <3>2. Owners(h) = {}
      BY <2>5, <3>1, UsersFacts DEF Owners
    <3> QED
      <4>1. hbTimer = h /\ appTimer # h /\ timers[h].callback = Beat
        BY <2>3, <2>4, <2>7, <3>1, UsersFacts DEF cb
      <4> QED
        BY <2>6, <3>2, <4>1
  <2>8. CASE cb = Tone
    <3>1. u = App
      BY <2>2, <2>8, OwnerFacts
    <3>2. Owners(h) = {}
      BY <2>5, <3>1, UsersFacts DEF Owners
    <3> QED
      <4>1. appTimer = h /\ hbTimer # h /\ timers[h].callback = Tone
        BY <2>3, <2>4, <2>8, <3>1, UsersFacts DEF cb
      <4> QED
        BY <2>6, <3>2, <4>1
  <2>9. CASE cb # Beat /\ cb # Tone
    <3>1. cb.peer \in Peers /\ u = Peer(cb.peer)
      BY <2>2, <2>9, OwnerFacts
    <3>2. Owners(h) = {cb.peer}
      BY <2>5, <3>1, UsersFacts DEF Owners
    <3>3. hbTimer # h /\ appTimer # h
      BY <2>3, <2>4, <3>1, UsersFacts
    <3>4. peerStates[cb.peer].timer = h
      BY <1>2, <2>1, <3>1
    <3>5. cb = Expiry(peerStates[cb.peer].generation, cb.peer)
      <4>1. h # NoTimer
        BY <1>3 DEF NoTimer
      <4> QED
        BY <3>1, <3>4, <4>1 DEF Ind, Now, Kept, Watching, cb
    <3>6. cb.generation = peerStates[cb.peer].generation
      BY <3>5 DEF Expiry
    <3>7. /\ timers[h].callback # Beat /\ timers[h].callback # Tone
          /\ Owners(h) = {timers[h].callback.peer}
          /\ timers[h].callback.generation =
               peerStates[timers[h].callback.peer].generation
      BY <2>9, <3>2, <3>6 DEF cb
    <3> QED
      BY <3>3, <3>7
  <2> QED
    BY <2>7, <2>8, <2>9
<1>8. \A h \in {hbTimer, appTimer} \cup {peerStates[p].timer : p \in Peers} :
        h \in DOMAIN timers \cup {NoTimer}
  <2>1. \A u \in Users : H[u] \in DOMAIN timers \cup {NoTimer}
    BY <1>1 DEF Owned
  <2> QED
    BY <1>2, <2>1, UsersFacts
<1>9. SlotsOwned
  BY <1>6, <1>7, <1>8 DEF SlotsOwned
<1>10. WatchesRun
  BY DEF Ind, Now, Kept, Watching, WatchesRun, Tracked
<1> QED
  BY <1>4, <1>9, <1>10 DEF HeartbeatInv

LEMMA InitInd ==
  ASSUME Init
  PROVE  Ind
<1>1. /\ timers = <<>> /\ timers \in Seq(SlotType(Nat, Callbacks)) /\ Len(timers) = 0
      /\ DOMAIN timers = {}
  <2>1. timers = <<>> /\ timers \in Seq(SlotType(Nat, Callbacks)) /\ Len(timers) = 0
    BY EmptySeq DEF Init
  <2>2. DOMAIN timers = 1 .. Len(timers)
    BY <2>1, LenProperties
  <2> QED
    BY <2>1, <2>2
<1>2. peerStates \in [Peers -> PeerState] /\ hbTimer = NoTimer /\ appTimer = NoTimer
  BY DEF Init, Untracked, PeerState, NoTimer
<1> DEFINE H == HandleOf(peerStates, hbTimer, appTimer)
<1>3. \A u \in Users : H[u] = NoTimer
  <2>1. hbTimer \in Nat /\ appTimer \in Nat
    BY <1>2 DEF NoTimer
  <2>2. /\ H[Producer] = NoTimer /\ H[App] = NoTimer
        /\ \A p \in Peers : H[Peer(p)] = peerStates[p].timer
    BY <1>2, <2>1, HandleFacts DEF Handles
  <2>3. \A p \in Peers : peerStates[p].timer = NoTimer
    BY DEF Init, Untracked
  <2> HIDE DEF H
  <2> QED
    BY <2>2, <2>3 DEF Users
<1>4. Owned(timers, HandleOf(peerStates, hbTimer, appTimer), Owner, Users)
  BY <1>1, <1>3 DEF Owned
<1>5. Watching(timers, peerStates)
  BY DEF Init, Untracked, Watching
<1>6. Now
  <2>1. Cardinality(Users) \in Nat
    BY UsersFacts, FS_CardinalityType
  <2> QED
    BY <1>1, <1>2, <1>4, <1>5, <2>1 DEF Now, Kept, NoTimer
<1>7. PassOK
  BY <1>1 DEF Init, PassOK
<1>8. RestOK
  <2>1. inbox \in Seq([peer : Peers, state : Reported \cup {Garbled}]) /\ Len(inbox) = 0
    BY EmptySeq DEF Init
  <2> QED
    BY <2>1, BoundsAssumption DEF Init, RestOK
<1> QED
  BY <1>6, <1>7, <1>8 DEF Ind

-----------------------------------------------------------------------------
(* The steps.                                                              *)

\* newGeneration finds a number: only finitely many are held.
LEMMA NewGenerationType ==
  ASSUME Now
  PROVE  NewGeneration \in Nat
<1> DEFINE D == {i \in DOMAIN timers : timers[i].callback.kind = "expiry"}
           S == {peerStates[p].generation : p \in Peers}
           T == {timers[h].callback.generation : h \in D}
           f == [p \in Peers |-> peerStates[p].generation]
           g == [h \in D |-> timers[h].callback.generation]
           n == Cardinality(Held)
<1>1. DOMAIN timers = 1 .. Len(timers) /\ Len(timers) \in Nat
  BY LenProperties DEF Now, Kept
<1>2. IsFiniteSet(D)
  <2>1. IsFiniteSet(1 .. Len(timers))
    BY <1>1, FS_Interval
  <2>2. D \in SUBSET (1 .. Len(timers))
    BY <1>1
  <2> QED
    BY <2>1, <2>2, FS_Subset
<1>3. IsFiniteSet(T)
  <2>1. g \in Surjection(D, T)
    BY DEF Surjection
  <2> HIDE DEF D, T, g
  <2> QED
    BY <1>2, <2>1, FS_Surjection
<1>4. IsFiniteSet(S)
  <2>1. f \in Surjection(Peers, S) /\ IsFiniteSet(Peers)
    BY BoundsAssumption DEF Surjection
  <2> HIDE DEF S, f
  <2> QED
    BY <2>1, FS_Surjection
<1>5. IsFiniteSet(Held) /\ n \in Nat
  <2>1. Held = S \cup T
    BY DEF Held
  <2> HIDE DEF S, T
  <2>2. IsFiniteSet(Held)
    BY <1>3, <1>4, <2>1, FS_Union
  <2> QED
    BY <2>2, FS_CardinalityType
<1>6. \E k \in 1 .. n + 1 : k \notin Held
  <2>1. SUFFICES ASSUME 1 .. n + 1 \in SUBSET Held
                 PROVE  FALSE
    OBVIOUS
  <2> HIDE DEF n
  <2>2. Cardinality(1 .. n + 1) <= n
    BY <1>5, <2>1, FS_Subset DEF n
  <2>3. Cardinality(1 .. n + 1) = n + 1
    BY <1>5, FS_Interval
  <2> QED
    BY <1>5, <2>2, <2>3
<1>7. NewGeneration = CHOOSE k \in 1 .. n + 1 : k \notin Held
  BY DEF NewGeneration
<1> HIDE DEF n
<1>8. NewGeneration \in 1 .. n + 1
  BY <1>6, <1>7
<1> QED
  BY <1>5, <1>8

\* A handler watches p for ms from now on, or not at all.
LEMMA PeerHandler ==
  ASSUME NEW ts, NEW ps, NEW hb, NEW app, Kept(ts, ps, hb, app),
         NEW p \in Peers, NEW ms \in Nat, NEW state \in Reported \cup {Offline},
         NEW limit \in Limits \cup {0}, NEW g \in Nat
  PROVE  LET d == DeleteTimer(ts, ps[p].timer)
             rec == [state |-> state,
                     timer |-> IF ms = 0 THEN NoTimer ELSE AvailableTimer(d),
                     timeoutMs |-> limit, generation |-> g]
         IN PeerChanged(ts, ps, hb, app,
                        IF ms = 0 THEN d ELSE Schedule(d, Delayed(ms, Expiry(g, p))),
                        [ps EXCEPT ![p] = rec], p, IF ms = 0 THEN -1 ELSE ms)
<1> DEFINE d == DeleteTimer(ts, ps[p].timer)
           rec == [state |-> state,
                   timer |-> IF ms = 0 THEN NoTimer ELSE AvailableTimer(d),
                   timeoutMs |-> limit, generation |-> g]
           none == [state |-> Offline, timer |-> NoTimer, timeoutMs |-> 0, generation |-> 0]
<1>1. d \in Seq(SlotType(Nat, Callbacks))
  <2>1. none \in PeerState /\ none.timer = NoTimer /\ (none.state = Unknown => none.timeoutMs = 0)
    BY DEF PeerState, NoTimer
  <2> HIDE DEF none
  <2>2. PeerChanged(ts, ps, hb, app, d, [ps EXCEPT ![p] = none], p, -1)
    BY <2>1, PeerLetsGo
  <2> QED
    BY <2>2 DEF PeerChanged, Kept
<1>2. AvailableTimer(d) \in Nat
  BY <1>1, AvailableType
<1>3. rec \in PeerState /\ rec.generation = g /\ rec.state # Unknown
  BY <1>2, StatesAssumption DEF PeerState, NoTimer
<1>4. CASE ms = 0
  <2>1. rec.timer = NoTimer
    BY <1>4
  <2>2. PeerChanged(ts, ps, hb, app, d, [ps EXCEPT ![p] = rec], p, -1)
    <3> HIDE DEF rec
    <3> QED
      BY <1>3, <2>1, PeerLetsGo
  <2> QED
    BY <1>4, <2>2
<1>5. CASE ms # 0
  <2>1. rec.timer = AvailableTimer(DeleteTimer(ts, ps[p].timer))
    BY <1>5
  <2>2. PeerChanged(ts, ps, hb, app,
                    Schedule(DeleteTimer(ts, ps[p].timer), Delayed(ms, Expiry(rec.generation, p))),
                    [ps EXCEPT ![p] = rec], p, ms)
    <3> HIDE DEF rec
    <3> QED
      BY <1>3, <2>1, PeerRearms
  <2> QED
    BY <1>3, <1>5, <2>2
<1> QED
  BY <1>4, <1>5

\* A pass stays within the table, which never shrinks.
LEMMA PassStays ==
  ASSUME Now, Now', PassOK, Len(timers') >= Len(timers), pass' = pass
  PROVE  PassOK'
<1>1. Len(timers) \in Nat /\ Len(timers') \in Nat
  BY LenProperties DEF Now, Kept
<1> QED
  BY <1>1 DEF PassOK

LEMMA StepSetRemoteTimeout ==
  ASSUME Ind, NEW p \in Peers, NEW ms \in Limits, SetRemoteTimeout(p, ms)
  PROVE  Ind' /\ Monitor!Watch(p, ms)
<1> DEFINE d == DeleteTimer(timers, peerStates[p].timer)
           state == IF Tracked(p) THEN peerStates[p].state ELSE Offline
           limit == IF Tracked(p) THEN peerStates[p].timeoutMs ELSE ms
           rec == [state |-> state,
                   timer |-> IF ms = 0 THEN NoTimer ELSE AvailableTimer(d),
                   timeoutMs |-> limit, generation |-> NewGeneration]
<1>1. /\ timers' = IF ms = 0 THEN d ELSE Schedule(d, Delayed(ms, Expiry(NewGeneration, p)))
      /\ peerStates' = [peerStates EXCEPT ![p] = rec]
      /\ asked' = [asked EXCEPT ![p] = ms]
      /\ calls < MaxCalls /\ calls' = calls + 1
      /\ UNCHANGED <<pass, todo, inbox, hbTimer, told, appTimer, period, dead>>
  BY DEF SetRemoteTimeout, Call
<1>2. Now /\ PassOK /\ RestOK /\ peerStates \in [Peers -> PeerState] /\ ms \in Nat
  BY LimitsAssumption DEF Ind, Now, Kept
<1>3. NewGeneration \in Nat
  BY <1>2, NewGenerationType
<1>4. state \in Reported \cup {Offline} /\ limit \in Limits \cup {0}
  BY <1>2 DEF PeerState, Tracked
<1> HIDE DEF state, limit
<1>5. PeerChanged(timers, peerStates, hbTimer, appTimer, timers', peerStates', p,
                  IF ms = 0 THEN -1 ELSE ms)
  <2>1. Kept(timers, peerStates, hbTimer, appTimer)
    BY <1>2 DEF Now
  <2>2. PeerChanged(timers, peerStates, hbTimer, appTimer,
          IF ms = 0 THEN d ELSE Schedule(d, Delayed(ms, Expiry(NewGeneration, p))),
          [peerStates EXCEPT ![p] = rec], p, IF ms = 0 THEN -1 ELSE ms)
    BY <1>2, <1>3, <1>4, <2>1, PeerHandler
  <2> QED
    BY <1>1, <2>2
<1>6. Now' /\ Len(timers') >= Len(timers)
  BY <1>1, <1>5 DEF PeerChanged, Now
<1>7. PassOK'
  BY <1>1, <1>2, <1>6, PassStays
<1>8. RestOK'
  BY <1>1, <1>2, BoundsAssumption DEF RestOK
<1>9. Monitor!Watch(p, ms)
  <2>1. rec.state = state /\ rec.timeoutMs = limit
    OBVIOUS
  <2> HIDE DEF rec
  <2>2. /\ StateOf(peerStates') = [StateOf(peerStates) EXCEPT ![p] = state]
        /\ LimitOf(peerStates') = [LimitOf(peerStates) EXCEPT ![p] = limit]
    <3>1. /\ StateOf([peerStates EXCEPT ![p] = rec]) = [StateOf(peerStates) EXCEPT ![p] = rec.state]
          /\ LimitOf([peerStates EXCEPT ![p] = rec]) =
               [LimitOf(peerStates) EXCEPT ![p] = rec.timeoutMs]
      BY <1>2 DEF StateOf, LimitOf
    <3>2. peerStates' = [peerStates EXCEPT ![p] = rec]
      BY <1>1
    <3> QED
      BY <2>1, <3>1, <3>2
  <2>3. Left(timers', peerStates') =
          [Left(timers, peerStates) EXCEPT ![p] = IF ms = 0 THEN -1 ELSE ms]
    BY <1>5 DEF PeerChanged
  <2>4. state = IF StateOf(peerStates)[p] = Unknown THEN Offline ELSE StateOf(peerStates)[p]
    BY DEF state, Tracked, StateOf
  <2>5. limit = IF StateOf(peerStates)[p] = Unknown THEN ms ELSE LimitOf(peerStates)[p]
    BY DEF limit, Tracked, StateOf, LimitOf
  <2> HIDE DEF state, limit
  <2> QED
    BY <1>1, <2>2, <2>3, <2>4, <2>5
    DEF Monitor!Watch, Monitor!Countdown, Monitor!Never, StateOf, LimitOf, Left
<1> QED
  BY <1>6, <1>7, <1>8, <1>9 DEF Ind

LEMMA StepSetHeartbeatPeriod ==
  ASSUME Ind, NEW ms \in Intervals, SetHeartbeatPeriod(ms)
  PROVE  Ind' /\ Allowed
<1> DEFINE d == DeleteTimer(timers, hbTimer)
<1>1. PICK stagger \in Staggers(ms) : timers' = Schedule(d, Periodic(ms, stagger, Beat))
  BY DEF SetHeartbeatPeriod
<1>2. /\ hbTimer' = AvailableTimer(d) /\ period' = ms
      /\ calls < MaxCalls /\ calls' = calls + 1
      /\ UNCHANGED <<pass, todo, inbox, peerStates, told, appTimer, asked, dead>>
  BY DEF SetHeartbeatPeriod, Call
<1>3. Now /\ PassOK /\ RestOK
  BY DEF Ind
<1>4. Unmoved(timers, peerStates, timers', hbTimer', appTimer')
  <2> DEFINE timer == Periodic(ms, stagger, Beat)
  <2>1. Kept(timers, peerStates, hbTimer, appTimer)
    BY <1>3 DEF Now
  <2>2. /\ timer \in SlotType(Nat, Callbacks) /\ ~timer.available
        /\ timer.callback = Beat
    <3>1. ms \in Nat /\ stagger \in Nat /\ ms + stagger \in Nat
      BY IntervalsAssumption DEF Staggers
    <3>2. Beat \in Callbacks
      BY OwnerFacts
    <3> QED
      BY <3>1, <3>2 DEF Periodic, SlotType
  <2>3. timer.callback \in DOMAIN Owner /\ Owner[timer.callback] = Producer
    BY <2>2, OwnerFacts
  <2>4. hbTimer' \in Nat /\ appTimer' \in Nat /\ appTimer' = appTimer
    <3>1. hbTimer \in Nat /\ (hbTimer = NoTimer \/ hbTimer \in DOMAIN timers) /\ appTimer \in Nat
      <4>1. /\ HandleOf(peerStates, hbTimer, appTimer)[Producer] = hbTimer
            /\ Producer \in Users /\ hbTimer \in Nat /\ appTimer \in Nat
        BY <2>1, HandleFacts, UsersFacts DEF Kept, Handles
      <4> QED
        BY <2>1, <4>1 DEF Kept, Owned
    <3>2. d \in Seq(SlotType(Nat, Callbacks))
      <4>1. timers \in Seq(SlotType(Nat, Callbacks))
        BY <2>1 DEF Kept
      <4> QED
        BY <3>1, <4>1, DeletedType
    <3> QED
      BY <1>2, <3>1, <3>2, AvailableType
  <2> HIDE DEF timer
  <2>5. Unmoved(timers, peerStates, Schedule(DeleteTimer(timers, hbTimer), timer),
                hbTimer', appTimer')
    BY <1>2, <2>1, <2>2, <2>3, <2>4, OwnRearms
  <2> QED
    BY <1>1, <2>5 DEF timer
<1>5. Now' /\ Len(timers') >= Len(timers) /\ Left(timers', peerStates) = Left(timers, peerStates)
  BY <1>2, <1>4 DEF Unmoved, Now
<1>6. PassOK'
  BY <1>2, <1>3, <1>5, PassStays
<1>7. RestOK'
  BY <1>2, <1>3, BoundsAssumption DEF RestOK
<1>8. Allowed
  BY <1>2, <1>5, Stutters
<1> QED
  BY <1>5, <1>6, <1>7, <1>8 DEF Ind

LEMMA StepAppSchedule ==
  ASSUME Ind, AppSchedule
  PROVE  Ind' /\ Allowed
<1> DEFINE timer == Delayed(1, Tone)
<1>1. /\ timers' = Schedule(timers, timer) /\ appTimer' = AvailableTimer(timers)
      /\ appTimer = NoTimer /\ calls < MaxCalls /\ calls' = calls + 1
      /\ UNCHANGED <<pass, todo, inbox, nmtVars, asked, period, dead>>
  BY DEF AppSchedule, Call
<1>2. Now /\ PassOK /\ RestOK
  BY DEF Ind
<1>3. Kept(timers, peerStates, hbTimer, appTimer)
  BY <1>2 DEF Now
<1>4. Unmoved(timers, peerStates, timers', hbTimer', appTimer')
  <2>1. DeleteTimer(timers, appTimer) = timers
    BY <1>1 DEF DeleteTimer
  <2>2. timer \in SlotType(Nat, Callbacks) /\ ~timer.available /\ timer.callback = Tone
    BY OwnerFacts, DelayedFacts
  <2>3. timer.callback \in DOMAIN Owner /\ Owner[timer.callback] = App
    BY <2>2, OwnerFacts
  <2>4. hbTimer' \in Nat /\ appTimer' \in Nat /\ hbTimer' = hbTimer
    <3>1. timers \in Seq(SlotType(Nat, Callbacks)) /\ hbTimer \in Nat
      BY <1>3 DEF Kept
    <3> QED
      BY <1>1, <3>1, AvailableType DEF nmtVars
  <2> HIDE DEF timer
  <2>5. appTimer' = AvailableTimer(DeleteTimer(timers, appTimer))
    BY <1>1, <2>1
  <2>6. Unmoved(timers, peerStates, Schedule(DeleteTimer(timers, appTimer), timer),
                hbTimer', appTimer')
    BY <1>3, <2>2, <2>3, <2>4, <2>5, OwnRearms
  <2> QED
    BY <1>1, <2>1, <2>6
<1>5. Now' /\ Len(timers') >= Len(timers) /\ Left(timers', peerStates) = Left(timers, peerStates)
  BY <1>1, <1>4 DEF Unmoved, Now, nmtVars
<1>6. PassOK'
  BY <1>1, <1>2, <1>5, PassStays
<1>7. RestOK'
  BY <1>1, <1>2, BoundsAssumption DEF RestOK, nmtVars
<1>8. Allowed
  BY <1>1, <1>5, Stutters DEF nmtVars
<1> QED
  BY <1>5, <1>6, <1>7, <1>8 DEF Ind

LEMMA StepAppDelete ==
  ASSUME Ind, AppDelete
  PROVE  Ind' /\ Allowed
<1>1. /\ timers' = DeleteTimer(timers, appTimer) /\ appTimer' = NoTimer
      /\ UNCHANGED <<pass, todo, inbox, nmtVars, asked, period, calls, dead>>
  BY DEF AppDelete
<1>2. Now /\ PassOK /\ RestOK
  BY DEF Ind
<1>3. Unmoved(timers, peerStates, timers', hbTimer', appTimer')
  <2>1. Kept(timers, peerStates, hbTimer, appTimer)
    BY <1>2 DEF Now
  <2>2. Unmoved(timers, peerStates, DeleteTimer(timers, appTimer), hbTimer, NoTimer)
    BY <2>1, AppLetsGo
  <2> QED
    BY <1>1, <2>2 DEF nmtVars
<1>4. Now' /\ Len(timers') >= Len(timers) /\ Left(timers', peerStates) = Left(timers, peerStates)
  BY <1>1, <1>3 DEF Unmoved, Now, nmtVars
<1>5. PassOK'
  BY <1>1, <1>2, <1>4, PassStays
<1>6. RestOK'
  BY <1>1, <1>2 DEF RestOK, nmtVars
<1>7. Allowed
  BY <1>1, <1>4, Stutters DEF nmtVars
<1> QED
  BY <1>4, <1>5, <1>6, <1>7 DEF Ind

\* The pass goes on behind the slot it served.
LEMMA PassGoesOn ==
  ASSUME Now, Now', NEW h \in DOMAIN timers, Len(timers') >= Len(timers), pass' = h + 1
  PROVE  PassOK'
<1>1. Len(timers) \in Nat /\ Len(timers') \in Nat /\ h \in 1 .. Len(timers)
  BY LenProperties DEF Now, Kept
<1> QED
  BY <1>1 DEF PassOK

LEMMA StepOwnTimer ==
  ASSUME Ind, NEW h \in DOMAIN timers, SendHeartbeat(h) \/ AppTimer(h)
  PROVE  Ind' /\ Allowed
<1>1. /\ timers' = Served(timers, h) /\ h \in Due(timers) /\ pass' = h + 1
      /\ timers[h].callback \in {Beat, Tone}
      /\ UNCHANGED <<todo, inbox, nmtVars, appVars, dead>>
  BY DEF SendHeartbeat, AppTimer, Serve
<1>2. Now /\ RestOK
  BY DEF Ind
<1>3. Unmoved(timers, peerStates, timers', hbTimer, appTimer)
  <2>1. Kept(timers, peerStates, hbTimer, appTimer)
    BY <1>2 DEF Now
  <2>2. Unmoved(timers, peerStates, Served(timers, h), hbTimer, appTimer)
    BY <1>1, <2>1, OwnFires
  <2> QED
    BY <1>1, <2>2
<1>4. Now' /\ Len(timers') >= Len(timers) /\ Left(timers', peerStates) = Left(timers, peerStates)
  BY <1>1, <1>3 DEF Unmoved, Now, nmtVars, appVars
<1>5. PassOK'
  BY <1>1, <1>2, <1>4, PassGoesOn
<1>6. RestOK'
  BY <1>1, <1>2 DEF RestOK, nmtVars, appVars
<1>7. Allowed
  BY <1>1, <1>4, Stutters DEF nmtVars
<1> QED
  BY <1>4, <1>5, <1>6, <1>7 DEF Ind

LEMMA StepExpired ==
  ASSUME Ind, NEW h \in DOMAIN timers, PeerHeartbeatExpired(h)
  PROVE  Ind' /\ \E p \in Peers : Monitor!Expire(p)
<1>0. PICK p \in Peers : p = timers[h].callback.peer
  <2>1. Now /\ h \in Due(timers) /\ timers[h].callback.kind = "expiry"
    BY DEF Ind, PeerHeartbeatExpired, Serve
  <2>2. timers[h].callback.peer \in Peers
    BY <2>1, ExpiryIsCurrent DEF Now
  <2> QED
    BY <2>2
<1> DEFINE rec == [state |-> Offline, timer |-> NoTimer,
                   timeoutMs |-> peerStates[p].timeoutMs, generation |-> NewGeneration]
<1>1. /\ h \in Due(timers) /\ pass' = h + 1 /\ timers[h].callback.kind = "expiry"
      /\ UNCHANGED <<todo, inbox, hbTimer, appVars, dead>>
  BY DEF PeerHeartbeatExpired, Serve
<1>2. Now /\ RestOK /\ peerStates \in [Peers -> PeerState]
  BY DEF Ind, Now, Kept
<1>3. /\ p \in Peers /\ peerStates[p].timer = h /\ peerStates[p].state # Unknown
      /\ peerStates[p].generation = timers[h].callback.generation
      /\ Left(timers, peerStates)[p] = 0
      /\ DeleteTimer(Served(timers, h), peerStates[p].timer)
           = DeleteTimer(timers, peerStates[p].timer)
  BY <1>0, <1>1, <1>2, ExpiryIsCurrent DEF Now
<1>4. /\ timers' = DeleteTimer(Served(timers, h), peerStates[p].timer)
      /\ peerStates' = [peerStates EXCEPT ![p] = rec]
      /\ told' = [told EXCEPT ![p] = Offline]
  BY <1>0, <1>3 DEF PeerHeartbeatExpired, Tracked
<1>5. rec \in PeerState /\ rec.timer = NoTimer /\ rec.state # Unknown
  BY <1>2, <1>3, NewGenerationType, StatesAssumption DEF PeerState, NoTimer
<1>6. rec.state = Offline /\ rec.timeoutMs = peerStates[p].timeoutMs
  OBVIOUS
<1> HIDE DEF rec
<1>7. PeerChanged(timers, peerStates, hbTimer, appTimer, timers', peerStates', p, -1)
  <2>1. Kept(timers, peerStates, hbTimer, appTimer)
    BY <1>2 DEF Now
  <2>2. PeerChanged(timers, peerStates, hbTimer, appTimer,
                    DeleteTimer(timers, peerStates[p].timer),
                    [peerStates EXCEPT ![p] = rec], p, -1)
    BY <1>3, <1>5, <2>1, PeerLetsGo
  <2> QED
    BY <1>3, <1>4, <2>2
<1>8. Now' /\ Len(timers') >= Len(timers)
  BY <1>1, <1>7 DEF PeerChanged, Now, appVars
<1>9. PassOK'
  BY <1>1, <1>2, <1>8, PassGoesOn
<1>10. RestOK'
  BY <1>1, <1>2, <1>3, <1>4 DEF RestOK, appVars
<1>11. Monitor!Expire(p)
  <2>1. /\ StateOf(peerStates') = [StateOf(peerStates) EXCEPT ![p] = Offline]
        /\ LimitOf(peerStates') = LimitOf(peerStates)
    <3>1. /\ StateOf([peerStates EXCEPT ![p] = rec]) = [StateOf(peerStates) EXCEPT ![p] = rec.state]
          /\ LimitOf([peerStates EXCEPT ![p] = rec]) = LimitOf(peerStates)
      BY <1>2, <1>3, <1>6 DEF StateOf, LimitOf
    <3> QED
      BY <1>4, <1>6, <3>1
  <2>2. Left(timers', peerStates') = [Left(timers, peerStates) EXCEPT ![p] = -1]
    BY <1>7 DEF PeerChanged
  <2> QED
    BY <1>3, <1>4, <2>1, <2>2 DEF Monitor!Expire, Monitor!Never, StateOf, LimitOf, Left
<1> QED
  BY <1>8, <1>9, <1>10, <1>11 DEF Ind

\* A heartbeat of p, whether it is tracked or new.
LEMMA StepHeard ==
  ASSUME Ind, NEW p \in Peers, NEW s \in Reported,
         HeartbeatOfTracked(p, s) \/ HeartbeatOfNew(p, s),
         UNCHANGED <<hbTimer, appTimer>>
  PROVE  /\ Now' /\ Len(timers') >= Len(timers)
         /\ told' \in [Peers -> Reported \cup {Offline, Unknown}]
         /\ Monitor!Hear(p, s)
<1> DEFINE ms == peerStates[p].timeoutMs
           d == DeleteTimer(timers, peerStates[p].timer)
           rec == [state |-> s,
                   timer |-> IF ms = 0 THEN NoTimer ELSE AvailableTimer(d),
                   timeoutMs |-> ms, generation |-> NewGeneration]
<1>1. Now /\ RestOK /\ peerStates \in [Peers -> PeerState]
  BY DEF Ind, Now, Kept
<1>2. ms \in Limits \cup {0} /\ ms \in Nat /\ NewGeneration \in Nat
  <2>1. ms \in Limits \cup {0}
    BY <1>1 DEF PeerState
  <2>2. NewGeneration \in Nat
    BY <1>1, NewGenerationType
  <2> HIDE DEF ms
  <2> QED
    BY <2>1, <2>2, LimitsAssumption
<1>3. ~Tracked(p) => ms = 0 /\ peerStates[p].timer = NoTimer
  BY <1>1 DEF Now, Kept, Watching, Tracked
<1>4. /\ timers' = IF ms = 0 THEN d ELSE Schedule(d, Delayed(ms, Expiry(NewGeneration, p)))
      /\ peerStates' = [peerStates EXCEPT ![p] = rec]
      /\ told' = IF peerStates[p].state = s THEN told ELSE [told EXCEPT ![p] = s]
  <2>1. CASE HeartbeatOfTracked(p, s)
    BY <2>1 DEF HeartbeatOfTracked
  <2>2. CASE HeartbeatOfNew(p, s)
    <3>1. ~Tracked(p) /\ UNCHANGED timers /\ told' = [told EXCEPT ![p] = s]
          /\ peerStates' = [peerStates EXCEPT ![p] =
               [state |-> s, timer |-> NoTimer, timeoutMs |-> 0, generation |-> NewGeneration]]
      BY <2>2 DEF HeartbeatOfNew
    <3>2. d = timers /\ ms = 0
      BY <1>3, <3>1 DEF DeleteTimer
    <3>3. peerStates[p].state # s
      BY <3>1, StatesAssumption DEF Tracked
    <3> QED
      BY <3>1, <3>2, <3>3
  <2> QED
    BY <2>1, <2>2
<1>5. rec.state = s /\ rec.timeoutMs = ms
  OBVIOUS
<1> HIDE DEF ms
<1>6. PeerChanged(timers, peerStates, hbTimer, appTimer, timers', peerStates', p,
                  IF ms = 0 THEN -1 ELSE ms)
  <2>1. Kept(timers, peerStates, hbTimer, appTimer)
    BY <1>1 DEF Now
  <2>2. PeerChanged(timers, peerStates, hbTimer, appTimer,
          IF ms = 0 THEN d ELSE Schedule(d, Delayed(ms, Expiry(NewGeneration, p))),
          [peerStates EXCEPT ![p] = rec], p, IF ms = 0 THEN -1 ELSE ms)
    BY <1>2, <2>1, PeerHandler
  <2> QED
    BY <1>4, <2>2
<1> HIDE DEF rec
<1>7. Now' /\ Len(timers') >= Len(timers)
  BY <1>6 DEF PeerChanged, Now
<1>8. told' \in [Peers -> Reported \cup {Offline, Unknown}]
  BY <1>1, <1>4 DEF RestOK
<1>9. Monitor!Hear(p, s)
  <2>1. /\ StateOf(peerStates') = [StateOf(peerStates) EXCEPT ![p] = s]
        /\ LimitOf(peerStates') = LimitOf(peerStates)
    <3>1. /\ StateOf([peerStates EXCEPT ![p] = rec]) = [StateOf(peerStates) EXCEPT ![p] = rec.state]
          /\ LimitOf([peerStates EXCEPT ![p] = rec]) = LimitOf(peerStates)
      BY <1>1, <1>5 DEF StateOf, LimitOf, ms
    <3> QED
      BY <1>4, <1>5, <3>1
  <2>2. Left(timers', peerStates') =
          [Left(timers, peerStates) EXCEPT ![p] = IF ms = 0 THEN -1 ELSE ms]
    BY <1>6 DEF PeerChanged
  <2>3. ms = LimitOf(peerStates)[p] /\ peerStates[p].state = StateOf(peerStates)[p]
    BY DEF ms, StateOf, LimitOf
  <2>4. told' = [told EXCEPT ![p] = IF StateOf(peerStates)[p] = s THEN told[p] ELSE s]
    BY <1>1, <1>4, <2>3 DEF RestOK
  <2> QED
    BY <2>1, <2>2, <2>3, <2>4
    DEF Monitor!Hear, Monitor!Countdown, Monitor!Never, StateOf, LimitOf, Left
<1> QED
  BY <1>7, <1>8, <1>9

LEMMA StepProcessHeartbeat ==
  ASSUME Ind, ProcessHeartbeat
  PROVE  Ind' /\ Allowed
<1> DEFINE p == Head(inbox).peer
           s == Head(inbox).state
           M == [peer : Peers, state : Reported \cup {Garbled}]
<1>1. /\ pass = 0 /\ todo > 0 /\ inbox' = Tail(inbox) /\ todo' = todo - 1
      /\ UNCHANGED <<pass, hbTimer, appVars, dead>>
  BY DEF ProcessHeartbeat
<1>2. \/ s \in Reported /\ (HeartbeatOfTracked(p, s) \/ HeartbeatOfNew(p, s))
      \/ UNCHANGED <<timers, peerStates, told>>
  BY DEF ProcessHeartbeat
<1>3. Now /\ PassOK /\ RestOK
  BY DEF Ind
<1>4. /\ inbox \in Seq(M) /\ Len(inbox) \in Nat /\ todo \in 0 .. Len(inbox)
      /\ Len(inbox) <= MaxInbox /\ inbox # <<>>
  <2>1. inbox \in Seq(M) /\ todo \in 0 .. Len(inbox) /\ Len(inbox) <= MaxInbox
    BY <1>3 DEF RestOK
  <2>2. Len(inbox) \in Nat
    BY <2>1, LenProperties
  <2>3. inbox # <<>>
    <3>1. Len(inbox) # 0
      BY <1>1, <2>1, <2>2
    <3> QED
      BY <3>1, EmptySeq
  <2> QED
    BY <2>1, <2>2, <2>3
<1>5. p \in Peers /\ Tail(inbox) \in Seq(M) /\ Len(Tail(inbox)) = Len(inbox) - 1
  <2> HIDE DEF M
  <2>1. Head(inbox) \in M /\ Tail(inbox) \in Seq(M) /\ Len(Tail(inbox)) = Len(inbox) - 1
    BY <1>4, HeadTailProperties
  <2> QED
    BY <2>1 DEF M
<1>6. /\ Now' /\ Len(timers') >= Len(timers) /\ Allowed
      /\ told' \in [Peers -> Reported \cup {Offline, Unknown}]
  <2>1. CASE s \in Reported /\ (HeartbeatOfTracked(p, s) \/ HeartbeatOfNew(p, s))
    <3> HIDE DEF p, s
    <3>0. PICK q \in Peers, t \in Reported : HeartbeatOfTracked(q, t) \/ HeartbeatOfNew(q, t)
      <4>1. PICK q \in Peers, t \in Reported : q = p /\ t = s
        BY <1>5, <2>1
      <4>2. HeartbeatOfTracked(q, t) \/ HeartbeatOfNew(q, t)
        BY <2>1, <4>1 DEF HeartbeatOfTracked, HeartbeatOfNew
      <4> QED
        BY <4>2
    <3>1. UNCHANGED <<hbTimer, appTimer>>
      BY <1>1 DEF appVars
    <3>2. /\ Now' /\ Len(timers') >= Len(timers)
          /\ told' \in [Peers -> Reported \cup {Offline, Unknown}]
          /\ Monitor!Hear(q, t)
      BY <3>0, <3>1, StepHeard
    <3>3. Monitor!MonitorNext
      BY <3>2 DEF Monitor!MonitorNext
    <3> QED
      BY <3>2, <3>3 DEF Allowed
  <2>2. CASE UNCHANGED <<timers, peerStates, told>>
    <3>1. Allowed
      BY <2>2, Stutters
    <3>2. Now' /\ Len(timers') >= Len(timers)
      <4>1. Len(timers) \in Nat
        BY <1>3, LenProperties DEF Now, Kept
      <4> QED
        BY <1>1, <1>3, <2>2, <4>1 DEF Now, appVars
    <3> QED
      BY <1>3, <2>2, <3>1, <3>2 DEF RestOK
  <2> QED
    BY <1>2, <2>1, <2>2
<1>7. PassOK'
  BY <1>1, <1>3, <1>6, PassStays
<1>8. RestOK'
  <2>1. todo' \in 0 .. Len(inbox') /\ Len(inbox') <= MaxInbox /\ inbox' \in Seq(M)
    BY <1>1, <1>4, <1>5, BoundsAssumption
  <2> QED
    BY <1>1, <1>3, <1>6, <2>1 DEF RestOK, appVars
<1> QED
  BY <1>6, <1>7, <1>8 DEF Ind

\* The steps that touch neither timers nor peers.
LEMMA StepQuiet ==
  ASSUME Ind,
         \/ Loop \/ EndPass
         \/ \E p \in Peers : PeerDies(p) \/ \E s \in Reported \cup {Garbled} : PeerSends(p, s)
  PROVE  Ind' /\ Allowed
<1>1. Now /\ PassOK /\ RestOK
  BY DEF Ind
<1>2. UNCHANGED <<timers, nmtVars, appVars>>
  BY DEF Loop, EndPass, PeerDies, PeerSends, loopVars
<1>3. Now' /\ Allowed
  BY <1>1, <1>2, Stutters DEF Now, nmtVars, appVars
<1>4. Len(timers) \in Nat
  BY <1>1, LenProperties DEF Now, Kept
<1>5. PassOK'
  <2>1. timers' = timers /\ pass' \in {pass, 0, 1}
    BY <1>2 DEF Loop, EndPass, PeerDies, PeerSends, loopVars
  <2> QED
    BY <1>1, <1>4, <2>1 DEF PassOK
<1>6. RestOK'
  <2>1. Len(inbox) \in Nat
    BY <1>1, LenProperties DEF RestOK
  <2>2. CASE Loop
    BY <1>1, <1>2, <2>1, <2>2 DEF Loop, RestOK, nmtVars, appVars
  <2>3. CASE EndPass
    BY <1>1, <1>2, <2>3 DEF EndPass, RestOK, nmtVars, appVars
  <2>4. ASSUME NEW p \in Peers, PeerDies(p)
        PROVE  RestOK'
    BY <1>1, <1>2, <2>4 DEF PeerDies, RestOK, loopVars, nmtVars, appVars
  <2>5. ASSUME NEW p \in Peers, NEW s \in Reported \cup {Garbled}, PeerSends(p, s)
        PROVE  RestOK'
    <3> DEFINE M == [peer : Peers, state : Reported \cup {Garbled}]
               m == [peer |-> p, state |-> s]
    <3>1. m \in M /\ inbox \in Seq(M) /\ inbox' = Append(inbox, m) /\ Len(inbox) < MaxInbox
      BY <1>1, <2>5 DEF PeerSends, RestOK
    <3> HIDE DEF M, m
    <3>2. inbox' \in Seq(M) /\ Len(inbox') = Len(inbox) + 1
      BY <3>1, AppendProperties
    <3>3. todo' \in 0 .. Len(inbox') /\ Len(inbox') <= MaxInbox
      BY <1>1, <2>1, <2>5, <3>1, <3>2, BoundsAssumption DEF PeerSends, RestOK
    <3> QED
      BY <1>1, <1>2, <2>5, <3>2, <3>3 DEF PeerSends, RestOK, nmtVars, appVars, M
  <2> QED
    BY <2>2, <2>3, <2>4, <2>5
<1> QED
  BY <1>3, <1>5, <1>6 DEF Ind

LEMMA StepTick ==
  ASSUME Ind, Tick
  PROVE  Ind' /\ Monitor!Elapse
<1>1. Now /\ PassOK /\ RestOK
  BY DEF Ind
<1>2. timers' = Elapsed(timers) /\ UNCHANGED <<pass, todo, inbox, nmtVars, appVars, dead>>
  BY DEF Tick
<1>3. Kept(timers, peerStates, hbTimer, appTimer)
  BY <1>1 DEF Now
<1>4. /\ Kept(Elapsed(timers), peerStates, hbTimer, appTimer)
      /\ Len(Elapsed(timers)) = Len(timers)
      /\ Left(Elapsed(timers), peerStates) =
           [p \in Peers |-> IF Left(timers, peerStates)[p] > 0 THEN Left(timers, peerStates)[p] - 1
                            ELSE Left(timers, peerStates)[p]]
  BY <1>3, TimePasses
<1>5. Now' /\ PassOK'
  BY <1>1, <1>2, <1>4 DEF Now, PassOK, nmtVars, appVars
<1>6. RestOK'
  BY <1>1, <1>2 DEF RestOK, nmtVars, appVars
<1>7. Monitor!Elapse
  <2>1. UNCHANGED <<peerStates, told>>
    BY <1>2 DEF nmtVars
  <2>2. Left(timers', peerStates') =
          [p \in Peers |-> IF Left(timers, peerStates)[p] > 0 THEN Left(timers, peerStates)[p] - 1
                           ELSE Left(timers, peerStates)[p]]
    BY <1>2, <1>4, <2>1
  <2> QED
    BY <2>1, <2>2 DEF Monitor!Elapse, Left
<1> QED
  BY <1>5, <1>6, <1>7 DEF Ind

LEMMA StepInd ==
  ASSUME Ind, [Next]_vars
  PROVE  Ind' /\ Allowed
<1>1. CASE UNCHANGED vars
  <2>1. Ind'
    BY <1>1 DEF Ind, Now, PassOK, RestOK, vars, loopVars, nmtVars, appVars
  <2>2. Allowed
    BY <1>1, Stutters DEF vars, loopVars, nmtVars
  <2> QED
    BY <2>1, <2>2
<1>2. CASE MainLoop
  <2>1. CASE Loop \/ EndPass
    BY <2>1, StepQuiet
  <2>2. ASSUME NEW h \in DOMAIN timers, SendHeartbeat(h) \/ AppTimer(h)
        PROVE  Ind' /\ Allowed
    BY <2>2, StepOwnTimer
  <2>3. ASSUME NEW h \in DOMAIN timers, PeerHeartbeatExpired(h)
        PROVE  Ind' /\ Allowed
    <3>1. Ind' /\ \E p \in Peers : Monitor!Expire(p)
      BY <2>3, StepExpired
    <3>2. Monitor!MonitorNext
      BY <3>1 DEF Monitor!MonitorNext
    <3> QED
      BY <3>1, <3>2 DEF Allowed
  <2>4. CASE ProcessHeartbeat
    BY <2>4, StepProcessHeartbeat
  <2> QED
    BY <1>2, <2>1, <2>2, <2>3, <2>4 DEF MainLoop
<1>3. CASE Tick
  BY <1>3, StepTick DEF Allowed, Monitor!MonitorNext
<1>4. ASSUME NEW p \in Peers, NEW ms \in Limits, SetRemoteTimeout(p, ms)
      PROVE  Ind' /\ Allowed
  <2>1. Ind' /\ Monitor!MonitorNext
    BY <1>4, StepSetRemoteTimeout DEF Monitor!MonitorNext
  <2> QED
    BY <2>1 DEF Allowed
<1>5. ASSUME NEW p \in Peers,
             PeerDies(p) \/ \E s \in Reported \cup {Garbled} : PeerSends(p, s)
      PROVE  Ind' /\ Allowed
  BY <1>5, StepQuiet
<1>6. ASSUME NEW ms \in Intervals, SetHeartbeatPeriod(ms)
      PROVE  Ind' /\ Allowed
  BY <1>6, StepSetHeartbeatPeriod
<1>7. CASE AppSchedule
  BY <1>7, StepAppSchedule
<1>8. CASE AppDelete
  BY <1>8, StepAppDelete
<1> QED
  BY <1>1, <1>2, <1>3, <1>4, <1>5, <1>6, <1>7, <1>8 DEF Next

-----------------------------------------------------------------------------
(* The theorems.                                                           *)

LEMMA Inductive == Spec => []Ind
<1>1. Init => Ind
  BY InitInd
<1>2. Ind /\ [Next]_vars => Ind'
  BY StepInd
<1> QED
  BY <1>1, <1>2, PTL DEF Spec

\* Whatever the application sets and deletes, whichever peers fall silent or
\* come back and however late the main loop is, every slot of the table that is
\* in use has exactly one owner, whose callback it carries
\* (System::scheduleDelayed, deleteTimer and their callers in Nmt.cpp).
THEOREM HeartbeatSafe == Spec => []HeartbeatInv
<1>1. Ind => HeartbeatInv
  BY IndImplies
<1> QED
  BY <1>1, Inductive, PTL

\* Timers, handles and generations implement the countdown of each peer: the
\* verdict comes after the silence that was configured and never before, once,
\* and every change is told (setRemoteTimeout, processHeartbeat,
\* peerHeartbeatExpired).
THEOREM PeersAreMonitored == Spec => PeersMonitored
<1>1. Init => Monitor!MonitorInit
  BY DEF Init, Untracked, NoTimer, Monitor!MonitorInit, Monitor!Never
<1>2. Ind /\ [Next]_vars => [Monitor!MonitorNext]_(Monitor!monitorVars)
  BY StepInd DEF Allowed
<1> QED
  BY <1>1, <1>2, Inductive, PTL DEF Spec, PeersMonitored, Monitor!MonitorSpec
=============================================================================
