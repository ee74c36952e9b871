----------------------------- MODULE ObjDictProofs -----------------------------
(***************************************************************************)
(* Proofs about ObjDict, for any keys, values, listeners and transfers:    *)
(* DictInv is inductive as it stands, and the two properties of listeners  *)
(* and generations follow from it.  The second part is about Emcy: the     *)
(* theorems on the dictionary hold of the node that raises and clears      *)
(* emergencies as well, and the last clear is announced.                   *)
(***************************************************************************)
EXTENDS Emcy, SequenceTheorems, TLAPS

AccessesMatch(e) == e.accesses = IF e.locked /\ Dynamic(e) THEN 1 ELSE 0

\* What an update leaves alone.
SameButData(e, f) ==
  f.type = e.type /\ f.access = e.access /\ f.callbacks = e.callbacks

-----------------------------------------------------------------------------
(* The operations on one entry.                                            *)

\* lock leaves the value alone and opens the one access a dynamic variable may
\* have (OdEntry::lock).
LEMMA LockEntry ==
  ASSUME NEW e \in Entry, AccessesMatch(e)
  PROVE  /\ Lock(e) \in Entry /\ AccessesMatch(Lock(e)) /\ Lock(e).locked
         /\ SameButData(e, Lock(e))
         /\ Lock(e).data = e.data /\ Lock(e).published = e.published
         /\ Lock(e).resized = e.resized
<1>1. CASE e.locked
  BY <1>1 DEF Lock, SameButData
<1>2. CASE ~e.locked
  <2> DEFINE n == IF Dynamic(e) THEN 1 ELSE 0
  <2>1. e.accesses = 0 /\ n \in Int
    BY <1>2 DEF AccessesMatch
  <2>2. Lock(e) = [e EXCEPT !.locked = TRUE, !.accesses = n]
    BY <1>2, <2>1 DEF Lock, Entry
  <2> HIDE DEF n
  <2>3. /\ Lock(e) \in Entry /\ Lock(e).locked = TRUE /\ Lock(e).accesses = n
        /\ SameButData(e, Lock(e))
        /\ Lock(e).data = e.data /\ Lock(e).published = e.published
         /\ Lock(e).resized = e.resized
    BY <2>1, <2>2 DEF Entry, SameButData
  <2>4. AccessesMatch(Lock(e))
    BY <2>3 DEF n, AccessesMatch, Dynamic, SameButData
  <2> QED
    BY <2>3, <2>4
<1> QED
  BY <1>1, <1>2

\* unlock closes it (OdEntry::unlock).
LEMMA UnlockEntry ==
  ASSUME NEW e \in Entry, AccessesMatch(e)
  PROVE  /\ Unlock(e) \in Entry /\ AccessesMatch(Unlock(e)) /\ ~Unlock(e).locked
         /\ SameButData(e, Unlock(e))
         /\ Unlock(e).data = e.data /\ Unlock(e).published = e.published
         /\ Unlock(e).resized = e.resized
<1>1. (IF e.locked /\ Dynamic(e) THEN e.accesses - 1 ELSE e.accesses) = 0
  BY DEF AccessesMatch
<1> DEFINE n == 0
<1>2. Unlock(e) = [e EXCEPT !.locked = FALSE, !.accesses = n]
  BY <1>1 DEF Unlock
<1>n. n \in Int
  OBVIOUS
<1> HIDE DEF n
<1>3. /\ Unlock(e) \in Entry /\ Unlock(e).locked = FALSE /\ Unlock(e).accesses = n
      /\ SameButData(e, Unlock(e))
      /\ Unlock(e).data = e.data /\ Unlock(e).published = e.published
         /\ Unlock(e).resized = e.resized
  BY <1>2, <1>n DEF Entry, SameButData
<1>4. AccessesMatch(Unlock(e))
  BY <1>3 DEF n, AccessesMatch
<1> QED
  BY <1>3, <1>4

\* The generation moves to the value there is (OdEntry::bumpGeneration).
LEMMA BumpEntry ==
  ASSUME NEW e \in Entry, AccessesMatch(e)
  PROVE  /\ BumpGeneration(e) \in Entry /\ AccessesMatch(BumpGeneration(e))
         /\ BumpGeneration(e).locked = e.locked
         /\ SameButData(e, BumpGeneration(e))
         /\ BumpGeneration(e).data = e.data /\ BumpGeneration(e).published = e.data
  BY DEF BumpGeneration, Entry, AccessesMatch, Dynamic, SameButData

\* A set of either kind leaves the entry unlocked, with the new value.
LEMMA WrittenEntry ==
  ASSUME NEW e \in Entry, AccessesMatch(e), NEW v \in Data
  PROVE  /\ Written(e, v) \in Entry /\ AccessesMatch(Written(e, v)) /\ ~Written(e, v).locked
         /\ SameButData(e, Written(e, v)) /\ Written(e, v).data = v
<1> DEFINE f == [Lock(e) EXCEPT !.data = v]
<1>1. f \in Entry /\ AccessesMatch(f) /\ f.data = v /\ SameButData(e, f)
  BY LockEntry DEF Entry, AccessesMatch, Dynamic, SameButData
<1> QED
  BY <1>1, UnlockEntry DEF Written, SameButData

\* A change of length keeps type, lock and generation (OdProxy::resize, reset).
LEMMA ResizedEntry ==
  ASSUME NEW e \in Entry, AccessesMatch(e), NEW v \in Data
  PROVE  /\ Resized(e, v) \in Entry /\ AccessesMatch(Resized(e, v))
         /\ Resized(e, v).locked = e.locked /\ SameButData(e, Resized(e, v))
         /\ Resized(e, v).resized = TRUE
  BY DEF Resized, Entry, AccessesMatch, Dynamic, SameButData

\* A proxy that is dropped leaves the entry unlocked (~OdProxy).
LEMMA ReleasedEntry ==
  ASSUME NEW e \in Entry, AccessesMatch(e), NEW p
  PROVE  /\ Released(e, p) \in Entry /\ AccessesMatch(Released(e, p)) /\ ~Released(e, p).locked
         /\ SameButData(e, Released(e, p)) /\ Released(e, p).data = e.data
         /\ Released(e, p).published = IF p.changed THEN e.data ELSE e.published
         /\ ~p.changed => Released(e, p).resized = e.resized
  BY UnlockEntry, BumpEntry DEF Released, SameButData

-----------------------------------------------------------------------------
(* Callbacks.                                                              *)

Callbacks ==
  /\ running \in Seq([key : Inserted, at : Nat, all : BOOLEAN])
  /\ \A n \in DOMAIN running : running[n].at <= Len(table[running[n].key].callbacks)
  /\ announced \in [Keys -> Data \cup {Unheard}]
  /\ heard \in [Keys -> [Listeners -> Data \cup {Unheard}]]

\* Every loop is over the callbacks of an entry there is.
LEMMA LoopsOverEntries ==
  ASSUME TypeOK
  PROVE  /\ DOMAIN running = 1 .. Len(running) /\ Len(running) \in Nat
         /\ \A n \in DOMAIN running : running[n] \in [key : Inserted, at : Nat, all : BOOLEAN]
<1>1. running \in Seq([key : Inserted, at : Nat, all : BOOLEAN])
  BY DEF TypeOK
<1> QED
  BY <1>1, ElementOfSeq, LenProperties

\* A change of entries that fires the callbacks of the one that has changed
\* leaves every listener served.
LEMMA FireServes ==
  ASSUME TypeOK, ListenersAreServed, NEW k \in Inserted, Fire(k),
         Inserted' = Inserted, table' \in [Inserted -> Entry],
         \A j \in Inserted : table'[j].callbacks = table[j].callbacks,
         \A j \in Inserted \ {k} : table'[j].data = table[j].data
  PROVE  Callbacks' /\ ListenersAreServed'
<1> DEFINE n == Len(running) + 1
<1>1. /\ running' = Append(running, Loop(k)) /\ heard' = heard
      /\ announced' = [announced EXCEPT ![k] = table'[k].data]
  BY DEF Fire
<1>2. /\ running' \in Seq([key : Inserted, at : Nat, all : BOOLEAN])
      /\ DOMAIN running' = 1 .. n /\ running'[n] = Loop(k)
      /\ \A m \in DOMAIN running : m \in 1 .. n /\ running'[m] = running[m]
      /\ \A m \in 1 .. n : m = n \/ m \in DOMAIN running
  BY <1>1 DEF TypeOK, Loop
<1>3. Callbacks'
  <2>1. announced' \in [Keys -> Data \cup {Unheard}]
    BY <1>1 DEF TypeOK, Entry
  <2>2. \A m \in DOMAIN running' : running'[m].at <= Len(table'[running'[m].key].callbacks)
    <3> SUFFICES ASSUME NEW m \in 1 .. n
                 PROVE  running'[m].at <= Len(table'[running'[m].key].callbacks)
      BY <1>2
    <3>1. CASE m = n
      <4>1. Len(table'[k].callbacks) \in Nat
        BY DEF Entry
      <4> QED
        BY <1>2, <3>1, <4>1 DEF Loop
    <3>2. CASE m \in DOMAIN running
      BY <1>2, <3>2, LoopsOverEntries DEF TypeOK
    <3> QED
      BY <1>2, <3>1, <3>2
  <2> QED
    BY <1>1, <1>2, <2>1, <2>2 DEF Callbacks, TypeOK
<1>4. ListenersAreServed'
  <2> SUFFICES ASSUME NEW j \in Inserted
               PROVE  /\ Firing(j)' => table'[j].data = announced'[j]
                      /\ \A i \in DOMAIN table'[j].callbacks :
                           \/ heard'[j][table'[j].callbacks[i]] = announced'[j]
                           \/ \E f \in Range(running') : f.key = j /\ f.all /\ f.at < i
    BY DEF ListenersAreServed
  <2>1. CASE j = k
    <3>1. Loop(k) \in Range(running')
      BY <1>2 DEF Range
    <3>2. \A i \in DOMAIN table'[k].callbacks : 0 < i
      BY DEF Entry
    <3> QED
      BY <1>1, <2>1, <3>1, <3>2 DEF Loop, TypeOK
  <2>2. CASE j # k
    <3>1. \A f \in Range(running') : f.key = j => f \in Range(running)
      BY <1>2, <2>2 DEF Range, Loop
    <3>2. Range(running) \subseteq Range(running')
      BY <1>2 DEF Range
    <3>3. announced'[j] = announced[j] /\ heard'[j] = heard[j] /\ table'[j].data = table[j].data
      BY <1>1, <2>2 DEF TypeOK
    <3>4. Firing(j)' => Firing(j)
      BY <3>1 DEF Firing
    <3> QED
      BY <3>1, <3>2, <3>3, <3>4 DEF ListenersAreServed
  <2> QED
    BY <2>1, <2>2
<1> QED
  BY <1>3, <1>4

\* So does a step that fires nothing and changes the values of no entry whose
\* callbacks run.
LEMMA StayServes ==
  ASSUME TypeOK, ListenersAreServed, Stay,
         Inserted' = Inserted, table' \in [Inserted -> Entry],
         \A j \in Inserted : table'[j].callbacks = table[j].callbacks,
         running = <<>> \/ \A j \in Inserted : table'[j].data = table[j].data
  PROVE  Callbacks' /\ ListenersAreServed'
<1>1. running' = running /\ announced' = announced /\ heard' = heard
  BY DEF Stay
<1>2. Callbacks'
  BY <1>1, LoopsOverEntries DEF Callbacks, TypeOK
<1>3. \A j \in Inserted : Firing(j) => table'[j].data = table[j].data
  <2>1. running = <<>> => Range(running) = {}
    BY DEF Range
  <2> QED
    BY <2>1 DEF Firing
<1>4. ListenersAreServed'
  BY <1>1, <1>3 DEF ListenersAreServed, Firing
<1> QED
  BY <1>2, <1>4

-----------------------------------------------------------------------------
(* Steps that change one entry.                                            *)

\* The accesses of an entry of a reachable dictionary match its lock.
LEMMA EntriesMatch ==
  ASSUME LocksAreHeld, NEW k \in Inserted
  PROVE  AccessesMatch(table[k])
  BY DEF LocksAreHeld, AccessesMatch

\* The dictionary with one entry updated is the old one elsewhere.
LEMMA UpdatedEntry ==
  ASSUME TypeOK, NEW k \in Inserted, NEW f \in Entry, SameButData(table[k], f),
         table' = [table EXCEPT ![k] = f]
  PROVE  /\ Inserted' = Inserted /\ table' \in [Inserted -> Entry] /\ table'[k] = f
         /\ \A j \in Inserted \ {k} : table'[j] = table[j]
         /\ \A j \in Inserted : table'[j].callbacks = table[j].callbacks
<1>1. table \in [Inserted -> Entry]
  BY DEF TypeOK
<1>2. Inserted' = Inserted /\ table' \in [Inserted -> Entry] /\ table'[k] = f
  BY <1>1 DEF Inserted
<1>3. \A j \in Inserted \ {k} : table'[j] = table[j]
  BY <1>1
<1> QED
  BY <1>2, <1>3 DEF SameButData

\* An update that leaves the lock and the proxies alone keeps them matched.
LEMMA UpdateKeepsLocks ==
  ASSUME TypeOK, LocksAreHeld, NEW k \in Inserted, NEW f \in Entry, SameButData(table[k], f),
         table' = [table EXCEPT ![k] = f], AccessesMatch(f), f.locked = table[k].locked,
         \A t \in Transfers : proxies'[t].key = proxies[t].key
  PROVE  LocksAreHeld'
<1> SUFFICES ASSUME NEW j \in Inserted
             PROVE  /\ table'[j].locked <=> \E t \in Transfers : proxies'[t].key = j
                    /\ \A s, t \in Transfers :
                         proxies'[s].key = j /\ proxies'[t].key = j => s = t
                    /\ table'[j].accesses = IF table'[j].locked /\ Dynamic(table'[j]) THEN 1 ELSE 0
  BY UpdatedEntry DEF LocksAreHeld
<1>1. table'[j].locked = table[j].locked
  BY UpdatedEntry
<1>2. table'[j].accesses = IF table'[j].locked /\ Dynamic(table'[j]) THEN 1 ELSE 0
  <2>1. CASE j = k
    BY <2>1, UpdatedEntry DEF AccessesMatch
  <2>2. CASE j # k
    BY <2>2, UpdatedEntry DEF LocksAreHeld
  <2> QED
    BY <2>1, <2>2
<1> QED
  BY <1>1, <1>2 DEF LocksAreHeld

\* What TypeOK says of the proxies.
Holders ==
  /\ proxies \in [Transfers -> [key : Keys \cup {-1}, changed : BOOLEAN, finished : BOOLEAN]]
  /\ \A t \in Transfers : proxies[t] = NoProxy \/ proxies[t].key \in Inserted

\* TypeOK by its parts.
LEMMA TypesByParts ==
  ASSUME Inserted \subseteq Keys, table \in [Inserted -> Entry], Holders, Callbacks
  PROVE  TypeOK
  BY DEF TypeOK, Holders, Callbacks

\* A step that changes nothing of the dictionary.
LEMMA NothingChanges ==
  ASSUME DictInv, UNCHANGED dictVars
  PROVE  DictInv'
  BY DEF DictInv, dictVars, TypeOK, LocksAreHeld, ChangesAreNoted, ListenersAreServed, Inserted,
         Firing, Dynamic, OnlyResized, Resizable

\* A locked entry stays as lock finds it.
LEMMA LockedAlready ==
  ASSUME DictInv, NEW k \in Inserted, table[k].locked,
         table' = [table EXCEPT ![k] = Lock(@)], UNCHANGED proxies, Stay
  PROVE  DictInv'
<1>1. Lock(table[k]) = table[k]
  BY DEF Lock
<1>2. table' = table
  BY <1>1 DEF DictInv, TypeOK
<1> QED
  BY <1>2, NothingChanges DEF Stay, dictVars

\* A free entry that is written and its callbacks fired, with the generation
\* moved or in an entry whose generation tells nothing.
LEMMA WriteStep ==
  ASSUME DictInv, NEW k \in Inserted, ~table[k].locked, NEW v \in Data, NEW f \in Entry,
         f = Written(table[k], v) \/ f = BumpGeneration(Written(table[k], v)),
         f.published = f.data \/ k \in BufferKeys,
         table' = [table EXCEPT ![k] = f], UNCHANGED proxies, Fire(k)
  PROVE  DictInv'
<1>1. table[k] \in Entry /\ AccessesMatch(table[k])
  BY EntriesMatch DEF DictInv, TypeOK
<1>2. /\ AccessesMatch(f) /\ f.locked = FALSE /\ SameButData(table[k], f)
  <2>1. CASE f = Written(table[k], v)
    BY <1>1, <2>1, WrittenEntry DEF Entry
  <2>2. CASE f = BumpGeneration(Written(table[k], v))
    <3> DEFINE e == Written(table[k], v)
    <3>1. e \in Entry /\ AccessesMatch(e) /\ ~e.locked /\ SameButData(table[k], e)
      BY <1>1, WrittenEntry
    <3> HIDE DEF e
    <3>2. AccessesMatch(BumpGeneration(e)) /\ BumpGeneration(e).locked = e.locked
          /\ SameButData(e, BumpGeneration(e))
      BY <3>1, BumpEntry
    <3>3. e.locked = FALSE
      BY <3>1 DEF Entry
    <3> QED
      BY <2>2, <3>1, <3>2, <3>3 DEF e, SameButData
  <2> QED
    BY <2>1, <2>2
<1>3. table[k].locked = FALSE
  BY <1>1 DEF Entry
<1>4. LocksAreHeld'
  BY <1>2, <1>3, UpdateKeepsLocks DEF DictInv
<1>5. /\ Inserted' = Inserted /\ table' \in [Inserted -> Entry] /\ table'[k] = f
      /\ \A j \in Inserted \ {k} : table'[j] = table[j]
      /\ \A j \in Inserted : table'[j].callbacks = table[j].callbacks
  BY <1>2, UpdatedEntry DEF DictInv
<1>6. Callbacks' /\ ListenersAreServed'
  BY <1>5, FireServes DEF DictInv
<1>7. TypeOK'
  BY <1>5, <1>6, TypesByParts DEF DictInv, TypeOK, Holders, Callbacks
<1>8. ChangesAreNoted'
  BY <1>5 DEF DictInv, ChangesAreNoted, OnlyResized, Resizable
<1> QED
  BY <1>4, <1>6, <1>7, <1>8 DEF DictInv

-----------------------------------------------------------------------------
(* The calls of the application.                                           *)

\* Every answer of set<T>, from a callback or not, keeps the invariant.
LEMMA SetStep ==
  ASSUME DictInv, NEW k \in Keys, NEW v \in Values, Set(k, v)
  PROVE  DictInv'
<1>1. PICK type \in {"u8", "vector"} : Put(k, type, v)
  BY DEF Set
<1>2. CASE AccessError(k, type) = "Success"
  <2>1. k \in Inserted /\ ~table[k].locked
    BY <1>2 DEF AccessError
  <2> DEFINE f == BumpGeneration(Written(table[k], v))
  <2>2. f \in Entry /\ f.published = f.data
    <3> DEFINE e == Written(table[k], v)
    <3>1. v \in Data
      BY DEF Data
    <3>2. table[k] \in Entry /\ AccessesMatch(table[k])
      BY <2>1, EntriesMatch DEF DictInv, TypeOK
    <3>3. e \in Entry /\ AccessesMatch(e)
      BY <3>1, <3>2, WrittenEntry
    <3> HIDE DEF e
    <3> QED
      BY <3>3, BumpEntry DEF e
  <2>3. table' = [table EXCEPT ![k] = f] /\ UNCHANGED proxies /\ Fire(k)
    BY <1>1, <1>2 DEF Put
  <2>4. v \in Data
    BY DEF Data
  <2> HIDE DEF f
  <2> QED
    BY <2>1, <2>2, <2>3, <2>4, WriteStep DEF f
<1>3. CASE AccessError(k, type) = "Timeout"
  <2>1. k \in Inserted /\ table[k].locked
    BY <1>3 DEF AccessError
  <2>2. table' = [table EXCEPT ![k] = Lock(@)] /\ UNCHANGED proxies /\ Stay
    BY <1>1, <1>3 DEF Put
  <2> QED
    BY <2>1, <2>2, LockedAlready
<1>4. CASE AccessError(k, type) \notin {"Success", "Timeout"}
  <2>1. UNCHANGED dictVars
    BY <1>1, <1>4 DEF Put, Stay, dictVars
  <2> QED
    BY <2>1, NothingChanges
<1> QED
  BY <1>2, <1>3, <1>4

\* So does set<OdBuffer>: its generation stays behind, on entries of its own.
LEMMA SetBufferStep ==
  ASSUME DictInv, NEW k \in BufferKeys, SetBuffer(k)
  PROVE  DictInv'
<1>1. k \in Inserted /\ UNCHANGED proxies
  BY DEF SetBuffer
<1>2. CASE table[k].locked
  <2>1. table' = [table EXCEPT ![k] = Lock(@)] /\ Stay
    BY <1>2 DEF SetBuffer
  <2> QED
    BY <1>1, <1>2, <2>1, LockedAlready
<1>3. CASE ~table[k].locked
  <2>1. table[k] \in Entry /\ AccessesMatch(table[k])
    BY <1>1, EntriesMatch DEF DictInv, TypeOK
  <2>2. PICK v \in Values \cup {table[k].data} :
          table' = [table EXCEPT ![k] = Written(table[k], v)]
    BY <1>3 DEF SetBuffer
  <2>3. v \in Data /\ Fire(k)
    BY <1>3, <2>1 DEF SetBuffer, Data, Entry
  <2>4. Written(table[k], v) \in Entry
    BY <2>1, <2>3, WrittenEntry
  <2> QED
    BY <1>1, <1>3, <2>2, <2>3, <2>4, WriteStep
<1> QED
  BY <1>2, <1>3

\* A callback registered while those of its entry run is ahead of the loop
\* that runs them (OdEntry::registerCallback, fireCallbacks).
LEMMA RegisterStep ==
  ASSUME DictInv, NEW k \in Keys, NEW l \in Listeners, RegisterCallback(k, l)
  PROVE  DictInv'
<1> DEFINE cbs == table[k].callbacks
           f == [table[k] EXCEPT !.callbacks = Append(cbs, l)]
<1>1. /\ k \in Inserted /\ l \notin Range(cbs)
      /\ table' = [table EXCEPT ![k] = f]
      /\ heard' = [heard EXCEPT ![k][l] = IF Firing(k) THEN Unheard ELSE announced[k]]
      /\ UNCHANGED <<proxies, running, announced>>
  BY DEF RegisterCallback
<1>2. TypeOK /\ table \in [Inserted -> Entry] /\ table[k] \in Entry
  BY <1>1 DEF DictInv, TypeOK
<1>3. cbs \in Seq(Listeners) /\ Len(cbs) \in Nat /\ DOMAIN cbs = 1 .. Len(cbs)
  BY <1>2 DEF Entry
<1>4. /\ Append(cbs, l) \in Seq(Listeners) /\ DOMAIN Append(cbs, l) = 1 .. Len(cbs) + 1
      /\ Len(Append(cbs, l)) = Len(cbs) + 1 /\ Append(cbs, l)[Len(cbs) + 1] = l
      /\ \A i \in 1 .. Len(cbs) : Append(cbs, l)[i] = cbs[i]
  BY <1>3
<1>5. /\ f \in Entry /\ f.callbacks = Append(cbs, l) /\ f.data = table[k].data
      /\ f.published = table[k].published /\ f.locked = table[k].locked
      /\ f.accesses = table[k].accesses /\ f.type = table[k].type
      /\ f.resized = table[k].resized
  BY <1>2, <1>4 DEF Entry
<1> HIDE DEF f
<1>6. /\ Inserted' = Inserted /\ table' \in [Inserted -> Entry] /\ table'[k] = f
      /\ \A j \in Inserted \ {k} : table'[j] = table[j]
  BY <1>1, <1>2, <1>5 DEF Inserted
<1>7. heard' \in [Keys -> [Listeners -> Data \cup {Unheard}]]
  BY <1>1, <1>2 DEF TypeOK
<1>8. Callbacks'
  <2>1. \A n \in DOMAIN running : running[n].at <= Len(table'[running[n].key].callbacks)
    <3> SUFFICES ASSUME NEW n \in DOMAIN running
                 PROVE  running[n].at <= Len(table'[running[n].key].callbacks)
      OBVIOUS
    <3>1. running[n].at \in Nat /\ running[n].key \in Inserted
          /\ running[n].at <= Len(table[running[n].key].callbacks)
      BY <1>2, LoopsOverEntries DEF TypeOK
    <3>2. CASE running[n].key = k
      BY <1>3, <1>4, <1>5, <1>6, <3>1, <3>2
    <3>3. CASE running[n].key # k
      BY <1>6, <3>1, <3>3
    <3> QED
      BY <3>2, <3>3
  <2> QED
    BY <1>1, <1>2, <1>6, <1>7, <2>1 DEF TypeOK, Callbacks
<1>9. TypeOK'
  BY <1>1, <1>2, <1>6, <1>8, TypesByParts DEF TypeOK, Holders, Callbacks
<1>10. LocksAreHeld'
  BY <1>1, <1>5, <1>6 DEF DictInv, LocksAreHeld, Dynamic
<1>11. ChangesAreNoted'
  BY <1>1, <1>5, <1>6 DEF DictInv, ChangesAreNoted, OnlyResized, Resizable
<1>12. ListenersAreServed'
  <2> SUFFICES ASSUME NEW j \in Inserted
               PROVE  /\ Firing(j) => table'[j].data = announced[j]
                      /\ \A i \in DOMAIN table'[j].callbacks :
                           \/ heard'[j][table'[j].callbacks[i]] = announced[j]
                           \/ \E g \in Range(running) : g.key = j /\ g.all /\ g.at < i
    BY <1>1, <1>6 DEF ListenersAreServed, Firing
  <2>1. Firing(j) => table'[j].data = announced[j]
    BY <1>5, <1>6 DEF DictInv, ListenersAreServed
  <2>2. CASE j # k
    BY <1>1, <1>2, <1>6, <2>1, <2>2 DEF DictInv, ListenersAreServed, TypeOK
  <2>3. CASE j = k
    <3>0. table'[k].callbacks = Append(cbs, l)
      BY <1>5, <1>6
    <3> SUFFICES ASSUME NEW i \in 1 .. Len(cbs) + 1
                 PROVE  \/ heard'[k][Append(cbs, l)[i]] = announced[k]
                        \/ \E g \in Range(running) : g.key = k /\ g.all /\ g.at < i
      <4> HIDE DEF cbs
      <4> QED
        BY <1>4, <2>1, <2>3, <3>0
    <3>1. CASE i = Len(cbs) + 1
      <4>1. CASE Firing(k)
        <5>1. PICK n \in DOMAIN running : running[n].key = k /\ running[n].all
          BY <4>1 DEF Firing, Range
        <5>2. running[n].at \in Nat /\ running[n].at <= Len(cbs)
          BY <1>2, <5>1, LoopsOverEntries DEF TypeOK
        <5> QED
          BY <1>3, <3>1, <5>1, <5>2 DEF Range
      <4>2. CASE ~Firing(k)
        BY <1>1, <1>2, <1>4, <3>1, <4>2 DEF TypeOK
      <4> QED
        BY <4>1, <4>2
    <3>2. CASE i \in 1 .. Len(cbs)
      <4>1. cbs[i] \in Listeners /\ cbs[i] # l
        <5>1. cbs[i] \in Range(cbs)
          BY <1>3, <3>2 DEF Range
        <5>2. cbs[i] \in Listeners
          BY <1>3, <3>2, ElementOfSeq
        <5> QED
          BY <1>1, <5>1, <5>2
      <4>2. heard'[k][cbs[i]] = heard[k][cbs[i]]
        BY <1>1, <1>2, <4>1 DEF TypeOK
      <4> QED
        BY <1>1, <1>3, <1>4, <3>2, <4>2 DEF DictInv, ListenersAreServed
    <3> QED
      BY <1>3, <3>1, <3>2
  <2> QED
    BY <2>2, <2>3
<1> QED
  BY <1>9, <1>10, <1>11, <1>12 DEF DictInv

\* The application fires the callbacks of an entry it has not written.
LEMMA FireStep ==
  ASSUME DictInv, NEW k \in Keys, FireCallbacks(k)
  PROVE  DictInv'
<1>1. k \in Inserted /\ table' = table /\ proxies' = proxies /\ Fire(k)
  BY DEF FireCallbacks
<1>2. Callbacks' /\ ListenersAreServed'
  BY <1>1, FireServes DEF DictInv, TypeOK, Inserted
<1> QED
  BY <1>1, <1>2 DEF DictInv, TypeOK, Callbacks, LocksAreHeld, ChangesAreNoted, Inserted, Dynamic,
                     OnlyResized, Resizable

\* A new entry is free, unheard of by nobody and in no loop but, maybe, that
\* of its one callback (insert, autoInsert, _buildSubEntry).
LEMMA InsertStep ==
  ASSUME DictInv, NEW k \in Keys, k \notin Inserted,
         NEW ty \in OdVariant, NEW ac \in Access, NEW cbs \in Seq(Listeners),
         BuildSubEntry(k, ty, ac, cbs),
         \/ running' = running
         \/ running' = Append(running, Single(k)) /\ Len(cbs) = 1
  PROVE  DictInv'
<1> DEFINE f == OdEntry(ty, ac, Initial, cbs)
<1>1. /\ table' = [j \in Inserted \cup {k} |-> IF j = k THEN f ELSE table[j]]
      /\ announced' = [announced EXCEPT ![k] = Initial] /\ proxies' = proxies
      /\ heard' = [heard EXCEPT ![k] =
                     [l \in Listeners |-> IF l \in Range(cbs) THEN Initial ELSE @[l]]]
  BY DEF BuildSubEntry
<1>2. TypeOK
  BY DEF DictInv
<1>3. /\ f \in Entry /\ f.callbacks = cbs /\ f.data = Initial /\ f.published = Initial
      /\ f.locked = FALSE /\ f.accesses = 0
  BY DEF OdEntry, Entry, Data
<1> HIDE DEF f
<1>4. /\ Inserted' = Inserted \cup {k} /\ table'[k] = f
      /\ \A j \in Inserted : j # k /\ table'[j] = table[j]
      /\ table' \in [Inserted' -> Entry]
  BY <1>1, <1>2, <1>3 DEF TypeOK, Inserted
<1>5. \A t \in Transfers : proxies[t].key # k
  <2>1. -1 # k
    BY KeysAssumption
  <2> QED
    BY <1>2, <2>1 DEF TypeOK, NoProxy
<1>6. /\ announced' \in [Keys -> Data \cup {Unheard}]
      /\ heard' \in [Keys -> [Listeners -> Data \cup {Unheard}]]
      /\ announced'[k] = Initial /\ \A l \in Listeners \cap Range(cbs) : heard'[k][l] = Initial
      /\ \A j \in Inserted : announced'[j] = announced[j] /\ heard'[j] = heard[j]
  BY <1>1, <1>2, <1>4 DEF TypeOK, Data
<1>7. /\ running' \in Seq([key : Inserted', at : Nat, all : BOOLEAN])
      /\ \A n \in DOMAIN running' :
           \/ running'[n] = Single(k) /\ Len(cbs) = 1
           \/ n \in DOMAIN running /\ running'[n] = running[n]
      /\ Range(running) \subseteq Range(running')
  <2> DEFINE S == [key : Inserted', at : Nat, all : BOOLEAN]
  <2>1. running \in Seq(S)
    <3>1. [key : Inserted, at : Nat, all : BOOLEAN] \subseteq S
      BY <1>4
    <3> HIDE DEF S
    <3> QED
      BY <1>2, <3>1, SeqMonotonic DEF TypeOK
  <2>2. Single(k) \in S
    BY <1>4 DEF Single
  <2> HIDE DEF S
  <2>3. CASE running' = running
    BY <2>1, <2>3 DEF S
  <2>4. CASE running' = Append(running, Single(k)) /\ Len(cbs) = 1
    <3>1. /\ running' \in Seq(S) /\ DOMAIN running = 1 .. Len(running)
          /\ DOMAIN running' = 1 .. Len(running) + 1 /\ Len(running) \in Nat
          /\ running'[Len(running) + 1] = Single(k)
          /\ \A n \in 1 .. Len(running) : running'[n] = running[n]
      BY <2>1, <2>2, <2>4
    <3> QED
      BY <2>4, <3>1 DEF S, Range
  <2> QED
    BY <2>3, <2>4
<1>8. Callbacks'
  <2> SUFFICES ASSUME NEW n \in DOMAIN running'
               PROVE  running'[n].at <= Len(table'[running'[n].key].callbacks)
    <3>1. running' \in Seq([key : Inserted', at : Nat, all : BOOLEAN])
      BY <1>7
    <3> QED
      BY <1>6, <3>1 DEF Callbacks
  <2>1. CASE running'[n] = Single(k) /\ Len(cbs) = 1
    <3>1. running'[n].at = 1 /\ running'[n].key = k
      BY <2>1 DEF Single
    <3>2. Len(table'[k].callbacks) = 1
      BY <1>3, <1>4, <2>1
    <3>3. Len(table'[running'[n].key].callbacks) = 1
      BY <3>1, <3>2
    <3> QED
      BY <3>1, <3>3
  <2>2. CASE n \in DOMAIN running /\ running'[n] = running[n]
    BY <1>2, <1>4, <2>2, LoopsOverEntries DEF TypeOK
  <2> QED
    BY <1>7, <2>1, <2>2
<1>9. TypeOK'
  BY <1>1, <1>2, <1>4, <1>8, TypesByParts DEF TypeOK, Holders, Callbacks
<1>10. LocksAreHeld'
  BY <1>1, <1>3, <1>4, <1>5 DEF DictInv, LocksAreHeld, Dynamic
<1>11. ChangesAreNoted'
  BY <1>1, <1>3, <1>4 DEF DictInv, ChangesAreNoted, OnlyResized, Resizable
<1>12. \A j : Firing(j)' => Firing(j) /\ j \in Inserted
  <2> SUFFICES ASSUME NEW j, NEW n \in DOMAIN running', running'[n].key = j, running'[n].all
               PROVE  Firing(j) /\ j \in Inserted
    BY DEF Firing, Range
  <2>1. n \in DOMAIN running /\ running'[n] = running[n]
    BY <1>7 DEF Single
  <2> QED
    BY <1>2, <2>1, LoopsOverEntries DEF Firing, Range
<1>13. ListenersAreServed'
  <2> SUFFICES ASSUME NEW j \in Inserted'
               PROVE  /\ Firing(j)' => table'[j].data = announced'[j]
                      /\ \A i \in DOMAIN table'[j].callbacks :
                           \/ heard'[j][table'[j].callbacks[i]] = announced'[j]
                           \/ \E g \in Range(running') : g.key = j /\ g.all /\ g.at < i
    BY DEF ListenersAreServed
  <2>1. CASE j = k
    <3>1. \A i \in DOMAIN cbs : cbs[i] \in Listeners \cap Range(cbs)
      BY ElementOfSeq DEF Range
    <3> QED
      BY <1>3, <1>4, <1>6, <1>12, <2>1, <3>1
  <2>2. CASE j \in Inserted
    <3>1. table'[j] = table[j] /\ announced'[j] = announced[j] /\ heard'[j] = heard[j]
      BY <1>4, <1>6, <2>2
    <3>2. Firing(j)' => table'[j].data = announced'[j]
      <4>1. Firing(j)' => table[j].data = announced[j]
        BY <1>12, <2>2 DEF DictInv, ListenersAreServed
      <4> QED
        BY <3>1, <4>1
    <3>3. ASSUME NEW i \in DOMAIN table[j].callbacks
          PROVE  \/ heard[j][table[j].callbacks[i]] = announced[j]
                 \/ \E g \in Range(running') : g.key = j /\ g.all /\ g.at < i
      BY <1>7, <2>2 DEF DictInv, ListenersAreServed
    <3> QED
      BY <3>1, <3>2, <3>3
  <2> QED
    BY <1>4, <2>1, <2>2
<1> QED
  BY <1>9, <1>10, <1>11, <1>13 DEF DictInv

-----------------------------------------------------------------------------
(* The steps of SDO transfers.                                             *)

\* A transfer gets the proxy of an entry that was free (makeProxy,
\* ObjDict::at), and may resize it (OdProxy::resize).
LEMMA MakeProxyStep ==
  ASSUME DictInv, NEW t \in Transfers, NEW k \in Keys, MakeProxy(t, k)
  PROVE  DictInv'
<1>1. k \in Inserted /\ Stay /\ proxies[t] = NoProxy /\ running = <<>>
  BY DEF MakeProxy
<1>2. CASE table[k].locked
  BY <1>1, <1>2, LockedAlready DEF MakeProxy
<1>3. CASE ~table[k].locked
  <2> DEFINE p == [NoProxy EXCEPT !.key = k]
  <2>1. proxies' = [proxies EXCEPT ![t] = p]
    BY <1>3 DEF MakeProxy
  <2>2. table[k] \in Entry /\ AccessesMatch(table[k])
    BY <1>1, EntriesMatch DEF DictInv, TypeOK
  <2>3. PICK f \in Entry :
          /\ AccessesMatch(f) /\ f.locked /\ SameButData(table[k], f)
          /\ table' = [table EXCEPT ![k] = f]
          /\ \/ f.data = table[k].data /\ f.published = table[k].published
                /\ f.resized = table[k].resized
             \/ OnlyResized(f)
    <3> DEFINE e == Lock(table[k])
    <3>1. /\ e \in Entry /\ AccessesMatch(e) /\ e.locked /\ SameButData(table[k], e)
          /\ e.data = table[k].data /\ e.published = table[k].published
          /\ e.resized = table[k].resized
      BY <2>2, LockEntry
    <3>2. CASE table' = [table EXCEPT ![k] = Lock(@)]
      BY <3>1, <3>2
    <3> HIDE DEF e
    <3>3. CASE Resizable(table[k]) /\ \E v \in Values : table' = [table EXCEPT ![k] = Resized(e, v)]
      <4>1. PICK v \in Values : table' = [table EXCEPT ![k] = Resized(e, v)]
        BY <3>3
      <4>2. v \in Data
        BY DEF Data
      <4>3. /\ Resized(e, v) \in Entry /\ AccessesMatch(Resized(e, v)) /\ Resized(e, v).locked
            /\ SameButData(e, Resized(e, v)) /\ Resized(e, v).resized
        BY <3>1, <4>2, ResizedEntry
      <4>4. SameButData(table[k], Resized(e, v)) /\ OnlyResized(Resized(e, v))
        BY <3>1, <3>3, <4>3 DEF SameButData, OnlyResized, Resizable
      <4> QED
        BY <4>1, <4>3, <4>4
    <3> QED
      BY <3>2, <3>3 DEF MakeProxy, e
  <2>4. /\ Inserted' = Inserted /\ table' \in [Inserted -> Entry] /\ table'[k] = f
        /\ \A j \in Inserted \ {k} : table'[j] = table[j]
        /\ \A j \in Inserted : table'[j].callbacks = table[j].callbacks
    BY <1>1, <2>3, UpdatedEntry DEF DictInv
  <2>5. Callbacks' /\ ListenersAreServed'
    BY <1>1, <2>4, StayServes DEF DictInv
  <2>6. /\ p \in [key : Keys \cup {-1}, changed : BOOLEAN, finished : BOOLEAN] /\ p.key = k
    BY DEF NoProxy
  <2> HIDE DEF p
  <2>7. /\ proxies'[t].key = k /\ \A s \in Transfers \ {t} : proxies'[s] = proxies[s]
        /\ proxies' \in [Transfers -> [key : Keys \cup {-1}, changed : BOOLEAN, finished : BOOLEAN]]
    BY <2>1, <2>6 DEF DictInv, TypeOK
  <2>8. TypeOK'
    BY <1>1, <2>4, <2>5, <2>7, TypesByParts DEF DictInv, TypeOK, Holders, Callbacks
  <2>9. proxies[t].key = -1 /\ k # -1
    BY <1>1, KeysAssumption DEF NoProxy
  <2>10. LocksAreHeld'
    <3> SUFFICES ASSUME NEW j \in Inserted
                 PROVE  /\ table'[j].locked <=> \E s \in Transfers : proxies'[s].key = j
                        /\ \A s, u \in Transfers :
                             proxies'[s].key = j /\ proxies'[u].key = j => s = u
                        /\ table'[j].accesses = IF table'[j].locked /\ Dynamic(table'[j]) THEN 1 ELSE 0
      BY <2>4 DEF LocksAreHeld
    <3>1. CASE j = k
      <4>1. \A s \in Transfers \ {t} : proxies'[s].key # k
        BY <1>1, <1>3, <2>7 DEF DictInv, LocksAreHeld
      <4> QED
        BY <2>3, <2>4, <2>7, <3>1, <4>1 DEF AccessesMatch
    <3>2. CASE j # k
      <4>1. j # -1
        BY KeysAssumption DEF DictInv, TypeOK
      <4> QED
        BY <2>4, <2>7, <2>9, <3>2, <4>1 DEF DictInv, LocksAreHeld
    <3> QED
      BY <3>1, <3>2
  <2>11. ChangesAreNoted'
    <3> SUFFICES ASSUME NEW j \in Inserted \ BufferKeys
                 PROVE  \/ table'[j].published = table'[j].data
                        \/ OnlyResized(table'[j])
                        \/ \E s \in Transfers : proxies'[s].key = j /\ proxies'[s].changed
      BY <2>4 DEF ChangesAreNoted
    <3>1. \/ /\ table'[j].published = table[j].published /\ table'[j].data = table[j].data
             /\ table'[j].resized = table[j].resized /\ table'[j].type = table[j].type
          \/ OnlyResized(table'[j])
      BY <2>3, <2>4 DEF SameButData
    <3>2. j # -1
      BY KeysAssumption DEF DictInv, TypeOK
    <3> QED
      BY <2>7, <2>9, <3>1, <3>2 DEF DictInv, ChangesAreNoted, OnlyResized, Resizable
  <2> QED
    BY <2>5, <2>8, <2>10, <2>11 DEF DictInv
<1> QED
  BY <1>2, <1>3

\* Bytes reach an entry that the transfer holds, which its proxy notes
\* (copyFrom).
LEMMA CopyFromStep ==
  ASSUME DictInv, NEW t \in Transfers, CopyFrom(t)
  PROVE  DictInv'
<1> DEFINE k == proxies[t].key
<1>1. /\ running = <<>> /\ Stay /\ proxies' = [proxies EXCEPT ![t].changed = TRUE]
      /\ k \in Inserted
  BY DEF CopyFrom, Handler, DictInv, TypeOK
<1>2. table[k] \in Entry /\ AccessesMatch(table[k])
  BY <1>1, EntriesMatch DEF DictInv, TypeOK
<1>3. PICK v \in Data : table' = [table EXCEPT ![k].data = v]
  BY <1>2 DEF CopyFrom, Data, Entry
<1> DEFINE f == [table[k] EXCEPT !.data = v]
<1>4. /\ f \in Entry /\ SameButData(table[k], f) /\ f.locked = table[k].locked
      /\ f.accesses = table[k].accesses /\ f.published = table[k].published
  BY <1>2 DEF Entry, SameButData
<1>5. table' = [table EXCEPT ![k] = f]
  BY <1>3
<1> HIDE DEF f
<1>6. AccessesMatch(f)
  BY <1>2, <1>4 DEF AccessesMatch, Dynamic, SameButData
<1>7. /\ \A s \in Transfers : proxies'[s].key = proxies[s].key
      /\ \A s \in Transfers \ {t} : proxies'[s] = proxies[s]
      /\ proxies'[t].changed = TRUE
      /\ proxies' \in [Transfers -> [key : Keys \cup {-1}, changed : BOOLEAN, finished : BOOLEAN]]
  BY <1>1 DEF DictInv, TypeOK
<1> HIDE DEF k
<1>8. LocksAreHeld'
  BY <1>1, <1>4, <1>5, <1>6, <1>7, UpdateKeepsLocks DEF DictInv
<1>9. /\ Inserted' = Inserted /\ table' \in [Inserted -> Entry] /\ table'[k] = f
      /\ \A j \in Inserted \ {k} : table'[j] = table[j]
      /\ \A j \in Inserted : table'[j].callbacks = table[j].callbacks
  BY <1>1, <1>4, <1>5, UpdatedEntry DEF DictInv
<1>10. Callbacks' /\ ListenersAreServed'
  BY <1>1, <1>9, StayServes DEF DictInv
<1>11. TypeOK'
  BY <1>1, <1>7, <1>9, <1>10, TypesByParts DEF DictInv, TypeOK, Holders, Callbacks, k
<1>12. ChangesAreNoted'
  BY <1>7, <1>9 DEF DictInv, ChangesAreNoted, OnlyResized, Resizable, k
<1> QED
  BY <1>8, <1>10, <1>11, <1>12 DEF DictInv

\* senderIsFinished only marks the proxy.
LEMMA FinishStep ==
  ASSUME DictInv, NEW t \in Transfers, SenderIsFinished(t)
  PROVE  DictInv'
<1>1. /\ UNCHANGED table /\ Stay /\ proxies' = [proxies EXCEPT ![t].finished = TRUE]
      /\ proxies[t] # NoProxy
  BY DEF SenderIsFinished
<1>2. /\ \A s \in Transfers : proxies'[s].key = proxies[s].key /\ proxies'[s].changed = proxies[s].changed
      /\ \A s \in Transfers \ {t} : proxies'[s] = proxies[s]
      /\ proxies' \in [Transfers -> [key : Keys \cup {-1}, changed : BOOLEAN, finished : BOOLEAN]]
  BY <1>1 DEF DictInv, TypeOK
<1>3. TypeOK'
  BY <1>1, <1>2 DEF DictInv, TypeOK, Stay, Inserted
<1>4. LocksAreHeld' /\ ChangesAreNoted'
  BY <1>1, <1>2
     DEF DictInv, LocksAreHeld, ChangesAreNoted, Inserted, Dynamic, OnlyResized, Resizable
<1>5. ListenersAreServed'
  BY <1>1 DEF DictInv, ListenersAreServed, Stay, Firing, Inserted
<1> QED
  BY <1>3, <1>4, <1>5 DEF DictInv

\* A transfer that ends frees its entry, with its generation moved if it has
\* written, and fires the callbacks if it was finished (~OdProxy).
LEMMA DropStep ==
  ASSUME DictInv, NEW t \in Transfers, DropProxy(t)
  PROVE  DictInv'
<1> DEFINE p == proxies[t]
           k == p.key
           f == Released(table[k], p)
<1>1. /\ running = <<>> /\ proxies' = [proxies EXCEPT ![t] = NoProxy]
      /\ table' = [table EXCEPT ![k] = f] /\ k \in Inserted /\ (Fire(k) \/ Stay)
  BY DEF DropProxy, Handler, DictInv, TypeOK
<1>2. table[k] \in Entry /\ AccessesMatch(table[k])
  BY <1>1, EntriesMatch DEF DictInv, TypeOK
<1>3. /\ f \in Entry /\ AccessesMatch(f) /\ ~f.locked /\ SameButData(table[k], f)
      /\ f.data = table[k].data
      /\ f.published = IF p.changed THEN table[k].data ELSE table[k].published
      /\ ~p.changed => f.resized = table[k].resized
  BY <1>2, ReleasedEntry
<1> HIDE DEF f, k
<1>4. /\ Inserted' = Inserted /\ table' \in [Inserted -> Entry] /\ table'[k] = f
      /\ \A j \in Inserted \ {k} : table'[j] = table[j]
      /\ \A j \in Inserted : table'[j].callbacks = table[j].callbacks
  BY <1>1, <1>3, UpdatedEntry DEF DictInv
<1>5. NoProxy \in [key : Keys \cup {-1}, changed : BOOLEAN, finished : BOOLEAN] /\ NoProxy.key = -1
  BY DEF NoProxy
<1>6. /\ proxies'[t] = NoProxy /\ \A s \in Transfers \ {t} : proxies'[s] = proxies[s]
      /\ proxies' \in [Transfers -> [key : Keys \cup {-1}, changed : BOOLEAN, finished : BOOLEAN]]
  BY <1>1, <1>5 DEF DictInv, TypeOK
<1>7. \A j \in Inserted : j # -1
  BY KeysAssumption DEF DictInv, TypeOK
<1>8. Callbacks' /\ ListenersAreServed'
  <2>1. CASE Fire(k)
    BY <1>1, <1>4, <2>1, FireServes DEF DictInv
  <2>2. CASE Stay
    BY <1>1, <1>4, <2>2, StayServes DEF DictInv
  <2> QED
    BY <1>1, <2>1, <2>2
<1> HIDE DEF p
<1>9. TypeOK'
  BY <1>4, <1>6, <1>8, TypesByParts DEF DictInv, TypeOK, Holders, Callbacks
<1>10. \A s \in Transfers \ {t} : proxies[s].key # k
  BY <1>1 DEF DictInv, LocksAreHeld, k, p
<1>11. LocksAreHeld'
  <2> SUFFICES ASSUME NEW j \in Inserted
               PROVE  /\ table'[j].locked <=> \E s \in Transfers : proxies'[s].key = j
                      /\ \A s, u \in Transfers :
                           proxies'[s].key = j /\ proxies'[u].key = j => s = u
                      /\ table'[j].accesses = IF table'[j].locked /\ Dynamic(table'[j]) THEN 1 ELSE 0
    BY <1>4 DEF LocksAreHeld
  <2>1. CASE j = k
    BY <1>3, <1>4, <1>5, <1>6, <1>7, <1>10, <2>1 DEF AccessesMatch
  <2>2. CASE j # k
    BY <1>4, <1>5, <1>6, <1>7, <2>2 DEF DictInv, LocksAreHeld, k, p
  <2> QED
    BY <2>1, <2>2
<1>12. ChangesAreNoted'
  <2> SUFFICES ASSUME NEW j \in Inserted \ BufferKeys
               PROVE  \/ table'[j].published = table'[j].data
                      \/ OnlyResized(table'[j])
                      \/ \E s \in Transfers : proxies'[s].key = j /\ proxies'[s].changed
    BY <1>4 DEF ChangesAreNoted
  <2>1. CASE j = k
    <3>1. p.changed \/ table[k].published = table[k].data \/ OnlyResized(table[k])
      BY <1>10, <2>1 DEF DictInv, ChangesAreNoted, p
    <3>2. ~p.changed /\ OnlyResized(table[k]) => OnlyResized(f)
      BY <1>3 DEF OnlyResized, Resizable, SameButData
    <3> QED
      BY <1>3, <1>4, <2>1, <3>1, <3>2
  <2>2. CASE j # k
    BY <1>4, <1>6, <2>2 DEF DictInv, ChangesAreNoted, k, p
  <2> QED
    BY <2>1, <2>2
<1> QED
  BY <1>8, <1>9, <1>11, <1>12 DEF DictInv

-----------------------------------------------------------------------------
(* The loop over the callbacks of an entry.                                *)

\* A callback that runs hears the value announced last, though a set from an
\* earlier one may have nested another loop; a loop that ends has told all
\* that are registered (fireCallbacks).
LEMMA NextCallbackStep ==
  ASSUME DictInv, NextCallback
  PROVE  DictInv'
<1> DEFINE N == Len(running)
           f == Last(running)
           cbs == table[f.key].callbacks
           S == [key : Inserted, at : Nat, all : BOOLEAN]
<1>1. running # <<>> /\ UNCHANGED <<table, proxies, announced>>
  BY DEF NextCallback
<1>2. running \in Seq(S) /\ TypeOK /\ table \in [Inserted -> Entry]
  BY DEF DictInv, TypeOK
<1> HIDE DEF S
<1>3. /\ N \in Nat \ {0} /\ DOMAIN running = 1 .. N /\ f = running[N]
      /\ running \in [1 .. N -> S]
  BY <1>1, <1>2, EmptySeq, LenProperties DEF Last
<1> HIDE DEF N, f
<1>4. /\ f \in S /\ f \in Range(running) /\ f.key \in Inserted /\ f.at \in Nat /\ f.all \in BOOLEAN
      /\ f.at <= Len(cbs)
  <2>1. f \in S /\ N \in DOMAIN running
    BY <1>3
  <2>2. f \in Range(running)
    BY <1>3 DEF Range
  <2>3. f.key \in Inserted /\ f.at \in Nat /\ f.all \in BOOLEAN
    BY <2>1 DEF S
  <2>4. f.at <= Len(cbs)
    BY <1>2, <1>3, <2>1 DEF TypeOK, cbs
  <2> QED
    BY <2>1, <2>2, <2>3, <2>4
<1>5. cbs \in Seq(Listeners) /\ DOMAIN cbs = 1 .. Len(cbs) /\ Len(cbs) \in Nat
  BY <1>2, <1>4 DEF Entry
<1> HIDE DEF cbs
<1>6. TypeOK' /\ LocksAreHeld' /\ ChangesAreNoted' <=> Callbacks'
  BY <1>1, <1>2 DEF DictInv, TypeOK, Callbacks, LocksAreHeld, ChangesAreNoted, Inserted, Dynamic,
                     OnlyResized, Resizable
<1>7. CASE f.all /\ f.at < Len(cbs)
  <2> DEFINE n == f.at + 1
             g == [f EXCEPT !.at = n]
  <2>1. /\ running' = [running EXCEPT ![N] = g]
        /\ heard' = [heard EXCEPT ![f.key][cbs[n]] = table[f.key].data]
    BY <1>3, <1>7 DEF NextCallback, f, N, cbs
  <2>2. n \in 1 .. Len(cbs) /\ g \in S /\ g.key = f.key /\ g.all = f.all /\ g.at = n
    <3>1. n \in 1 .. Len(cbs) /\ n \in Nat
      BY <1>4, <1>5, <1>7
    <3> HIDE DEF n
    <3> QED
      BY <1>4, <3>1 DEF S
  <2> HIDE DEF n, g
  <2>3. cbs[n] \in Listeners /\ table[f.key].data \in Data
    BY <1>2, <1>4, <1>5, <2>2, ElementOfSeq DEF Entry
  <2>4. heard' \in [Keys -> [Listeners -> Data \cup {Unheard}]]
    BY <1>2, <2>1, <2>3 DEF TypeOK
  <2>5. /\ running' \in Seq(S) /\ DOMAIN running' = 1 .. N /\ running'[N] = g
        /\ \A m \in 1 .. N : m # N => running'[m] = running[m]
    BY <1>2, <1>3, <2>1, <2>2, ExceptSeq DEF N
  <2>6. \A m \in 1 .. N : running'[m].at <= Len(table[running'[m].key].callbacks)
    <3>1. running'[N].at <= Len(table[running'[N].key].callbacks)
      BY <1>5, <2>2, <2>5 DEF cbs
    <3> QED
      BY <1>2, <1>3, <2>5, <3>1 DEF TypeOK
  <2>7. Callbacks'
    BY <1>1, <1>2, <2>4, <2>5, <2>6 DEF Callbacks, S, Inserted, TypeOK
  <2>8. ListenersAreServed'
    <3> SUFFICES ASSUME NEW j \in Inserted
                 PROVE  /\ Firing(j)' => table[j].data = announced[j]
                        /\ \A i \in DOMAIN table[j].callbacks :
                             \/ heard'[j][table[j].callbacks[i]] = announced[j]
                             \/ \E h \in Range(running') : h.key = j /\ h.all /\ h.at < i
      BY <1>1 DEF ListenersAreServed, Inserted
    <3>1. Firing(f.key)
      BY <1>4, <1>7 DEF Firing
    <3>2. Firing(j)' => Firing(j)
      <4> SUFFICES ASSUME NEW m \in 1 .. N, running'[m].key = j, running'[m].all
                   PROVE  Firing(j)
        BY <2>5 DEF Firing, Range
      <4>1. CASE m = N
        BY <2>2, <2>5, <3>1, <4>1
      <4>2. CASE m # N
        BY <1>3, <2>5, <4>2 DEF Firing, Range
      <4> QED
        BY <4>1, <4>2
    <3>3. ASSUME NEW i \in DOMAIN table[j].callbacks
          PROVE  \/ heard'[j][table[j].callbacks[i]] = announced[j]
                 \/ \E h \in Range(running') : h.key = j /\ h.all /\ h.at < i
      <4>1. table[j].callbacks[i] \in Listeners /\ i \in Nat
        BY <1>2, ElementOfSeq, LenProperties DEF Entry
      <4>2. CASE j = f.key /\ table[j].callbacks[i] = cbs[n]
        <5>1. table[f.key].data = announced[f.key]
          BY <1>4, <3>1 DEF DictInv, ListenersAreServed
        <5>2. heard'[f.key][cbs[n]] = table[f.key].data
          BY <1>2, <1>4, <2>1, <2>3 DEF TypeOK
        <5> QED
          BY <4>2, <5>1, <5>2
      <4>3. CASE ~(j = f.key /\ table[j].callbacks[i] = cbs[n])
        <5>1. heard'[j][table[j].callbacks[i]] = heard[j][table[j].callbacks[i]]
          BY <1>2, <1>4, <2>1, <2>3, <4>1, <4>3 DEF TypeOK
        <5>2. CASE heard[j][table[j].callbacks[i]] = announced[j]
          BY <5>1, <5>2
        <5>3. CASE heard[j][table[j].callbacks[i]] # announced[j]
          <6>1. PICK m \in 1 .. N : running[m].key = j /\ running[m].all /\ running[m].at < i
            BY <1>3, <5>3 DEF DictInv, ListenersAreServed, Range
          <6>2. CASE m # N
            BY <2>5, <6>1, <6>2 DEF Range
          <6>3. CASE m = N
            <7>1. f.key = j /\ f.at < i /\ i # n
              BY <1>3, <4>3, <6>1, <6>3 DEF cbs
            <7>2. g.at < i /\ g.key = j /\ g.all
              BY <1>4, <1>7, <2>2, <4>1, <7>1 DEF n
            <7> QED
              BY <1>3, <2>5, <7>2 DEF Range
          <6> QED
            BY <6>2, <6>3
        <5> QED
          BY <5>2, <5>3
      <4> QED
        BY <4>2, <4>3
    <3>4. Firing(j)' => table[j].data = announced[j]
      BY <3>2 DEF DictInv, ListenersAreServed
    <3> QED
      BY <3>3, <3>4
  <2> QED
    BY <1>6, <2>7, <2>8 DEF DictInv
<1>8. CASE ~(f.all /\ f.at < Len(cbs))
  <2>1. running' = SubSeq(running, 1, N - 1) /\ heard' = heard
    BY <1>8 DEF NextCallback, Front, f, N, cbs
  <2>2. /\ running' \in Seq(S) /\ DOMAIN running' = 1 .. N - 1
        /\ \A m \in 1 .. N - 1 : running'[m] = running[m]
    BY <1>2, <1>3, <2>1 DEF N
  <2>3. Callbacks'
    BY <1>1, <1>2, <1>3, <2>1, <2>2 DEF Callbacks, S, Inserted, TypeOK
  <2>4. ListenersAreServed'
    <3> SUFFICES ASSUME NEW j \in Inserted
                 PROVE  /\ Firing(j)' => table[j].data = announced[j]
                        /\ \A i \in DOMAIN table[j].callbacks :
                             \/ heard[j][table[j].callbacks[i]] = announced[j]
                             \/ \E h \in Range(running') : h.key = j /\ h.all /\ h.at < i
      BY <1>1, <2>1 DEF ListenersAreServed, Inserted
    <3>1. Firing(j)' => Firing(j)
      BY <1>3, <2>2 DEF Firing, Range
    <3>2. ASSUME NEW i \in DOMAIN table[j].callbacks,
                 heard[j][table[j].callbacks[i]] # announced[j]
          PROVE  \E h \in Range(running') : h.key = j /\ h.all /\ h.at < i
      <4>1. PICK m \in 1 .. N : running[m].key = j /\ running[m].all /\ running[m].at < i
        BY <1>3, <3>2 DEF DictInv, ListenersAreServed, Range
      <4>2. m # N
        BY <1>3, <1>4, <1>5, <1>8, <4>1 DEF cbs
      <4> QED
        BY <1>3, <2>2, <4>1, <4>2 DEF Range
    <3>3. Firing(j)' => table[j].data = announced[j]
      BY <3>1 DEF DictInv, ListenersAreServed
    <3> QED
      BY <3>2, <3>3
  <2> QED
    BY <1>6, <2>3, <2>4 DEF DictInv
<1> QED
  BY <1>7, <1>8

-----------------------------------------------------------------------------
(* The theorems.                                                           *)

\* The dictionary that LocalNode::init leaves satisfies the invariant.
LEMMA InitInv == Init => DictInv
<1> SUFFICES ASSUME Init PROVE DictInv
  OBVIOUS
<1>1. /\ table = InitTable /\ running = <<>> /\ proxies = [t \in Transfers |-> NoProxy]
      /\ announced = [k \in Keys |-> IF k \in DOMAIN InitTable THEN InitTable[k].data ELSE Unheard]
      /\ heard = [k \in Keys |-> [l \in Listeners |-> Unheard]]
  BY DEF Init
<1>2. /\ Inserted \subseteq Keys /\ table \in [Inserted -> Entry] /\ Inserted = DOMAIN InitTable
      /\ \A k \in Inserted :
           /\ ~table[k].locked /\ table[k].accesses = 0
           /\ table[k].callbacks = <<>> /\ table[k].published = table[k].data
  BY <1>1, InitTableAssumption DEF Inserted
<1>3. \A k \in Inserted : k # -1
  BY <1>2, KeysAssumption
<1>4. TypeOK
  <2>1. NoProxy \in [key : Keys \cup {-1}, changed : BOOLEAN, finished : BOOLEAN]
    BY DEF NoProxy
  <2>2. announced \in [Keys -> Data \cup {Unheard}]
    BY <1>1 DEF Data
  <2> QED
    BY <1>1, <1>2, <2>1, <2>2 DEF TypeOK
<1>5. LocksAreHeld
  BY <1>1, <1>2, <1>3 DEF LocksAreHeld, NoProxy
<1>6. ChangesAreNoted
  BY <1>2 DEF ChangesAreNoted
<1>7. ListenersAreServed
  <2>1. Range(running) = {}
    BY <1>1 DEF Range
  <2> QED
    BY <1>2, <2>1 DEF ListenersAreServed, Firing
<1> QED
  BY <1>4, <1>5, <1>6, <1>7 DEF DictInv

\* Every step keeps the invariant.
LEMMA NextInv == DictInv /\ [Next]_<<dictVars, calls>> => DictInv'
<1> SUFFICES ASSUME DictInv, [Next]_<<dictVars, calls>> PROVE DictInv'
  OBVIOUS
<1>1. ASSUME NEW k \in Keys, NEW v \in Values, Set(k, v) PROVE DictInv'
  BY <1>1, SetStep
<1>2. ASSUME NEW k \in Keys, NEW l \in Listeners, RegisterCallback(k, l) PROVE DictInv'
  BY <1>2, RegisterStep
<1>3. ASSUME NEW k \in Keys, NEW kind \in KindsAt[k], Insert(k, kind[1], kind[2]) PROVE DictInv'
  <2>1. kind[1] \in OdVariant /\ kind[2] \in Access
    BY KindsAssumption
  <2>2. k \notin Inserted
    BY <1>3 DEF Insert
  <2>3. CASE \E cbs \in {<<>>} \cup {<<l>> : l \in Listeners} :
               BuildSubEntry(k, kind[1], kind[2], cbs) /\ UNCHANGED running
    <3>1. PICK cbs \in {<<>>} \cup {<<l>> : l \in Listeners} :
            BuildSubEntry(k, kind[1], kind[2], cbs) /\ running' = running
      BY <2>3
    <3>2. cbs \in Seq(Listeners)
      <4>1. CASE cbs = <<>>
        BY <4>1, EmptySeq
      <4>2. CASE cbs \in {<<l>> : l \in Listeners}
        <5>1. PICK l \in Listeners : cbs = <<l>>
          BY <4>2
        <5>2. <<l>> \in Seq(Listeners)
          OBVIOUS
        <5> QED
          BY <5>1, <5>2
      <4> QED
        BY <4>1, <4>2
    <3> QED
      BY <2>1, <2>2, <3>1, <3>2, InsertStep
  <2>4. CASE \E l \in Listeners : BuildSubEntry(k, kind[1], kind[2], <<l>>)
                                   /\ running' = Append(running, Single(k))
    <3>1. PICK l \in Listeners : BuildSubEntry(k, kind[1], kind[2], <<l>>)
                                 /\ running' = Append(running, Single(k))
      BY <2>4
    <3>2. <<l>> \in Seq(Listeners) /\ Len(<<l>>) = 1
      OBVIOUS
    <3> QED
      BY <2>1, <2>2, <3>1, <3>2, InsertStep
  <2> QED
    BY <1>3, <2>3, <2>4 DEF Insert
<1>4. ASSUME NEW k \in Keys, FireCallbacks(k) PROVE DictInv'
  BY <1>4, FireStep
<1>5. ASSUME NEW k \in BufferKeys, SetBuffer(k) PROVE DictInv'
  BY <1>5, SetBufferStep
<1>6. ASSUME AutoInsert("u8") PROVE DictInv'
  <2>1. PICK k \in Keys \ Inserted : BuildSubEntry(k, "u8", "RW", <<>>) /\ running' = running
    BY <1>6 DEF AutoInsert
  <2>2. <<>> \in Seq(Listeners)
    BY EmptySeq
  <2>3. "u8" \in OdVariant /\ "RW" \in Access
    BY DEF OdVariant, Access
  <2> QED
    BY <2>1, <2>2, <2>3, InsertStep
<1>7. ASSUME NEW t \in Transfers, NEW k \in Keys, MakeProxy(t, k) PROVE DictInv'
  BY <1>7, MakeProxyStep
<1>8. ASSUME NEW t \in Transfers, CopyFrom(t) \/ SenderIsFinished(t) \/ DropProxy(t) PROVE DictInv'
  BY <1>8, CopyFromStep, FinishStep, DropStep
<1>9. CASE NextCallback
  BY <1>9, NextCallbackStep
<1>10. CASE UNCHANGED <<dictVars, calls>>
  BY <1>10, NothingChanges
<1> QED
  BY <1>1, <1>2, <1>3, <1>4, <1>5, <1>6, <1>7, <1>8, <1>9, <1>10 DEF Next, Application, TransferStep

\* A lock is one transfer's at a time and every access that begins ends; an
\* entry whose generation is behind is held or was resized; while the callbacks of an entry
\* run, who has not heard its value is still ahead of a loop.
THEOREM DictionarySafe == Spec => []DictInv
BY InitInv, NextInv, PTL DEF Spec

\* Once the callbacks of an entry have run, every one of them has heard the
\* value announced last (OdEntry::fireCallbacks).
THEOREM AllListenersHear == Spec => []ListenersHearTheLast
<1>1. DictInv => ListenersHearTheLast
  BY DEF DictInv, ListenersAreServed, ListenersHearTheLast, Firing, Range
<1> QED
  BY <1>1, DictionarySafe, PTL

\* Two reads of a generation that agree are reads of the same value, but where a
\* vector or string was resized and nothing copied (OdEntry::bumpGeneration,
\* called by set<T> and ~OdProxy; OdProxy::resize, reset).
THEOREM GenerationTells == Spec => []GenerationTellsChange
<1>1. DictInv => GenerationTellsChange
  BY DEF DictInv, LocksAreHeld, ChangesAreNoted, GenerationTellsChange
<1> QED
  BY <1>1, DictionarySafe, PTL
-----------------------------------------------------------------------------
(* Emcy.  That the last clear is announced rests on the width of the       *)
(* register: as it is never read, it reads as empty, and every code that   *)
(* is cleared for good is followed by "no error".                          *)

\* The register keeps the width it was inserted with.
RegisterIsWide == Register \in Inserted /\ table[Register].type = "u32"

BusType == bus \in Seq([code : Codes \cup {NoError}, bits : SUBSET Bits])

NodeInv == DictInv /\ RegisterIsWide /\ BusType /\ AllClearIsAnnounced

\* No operation on an entry changes its type.
LEMMA TypesStay ==
  ASSUME NEW e \in Entry
  PROVE  /\ Lock(e).type = e.type /\ Unlock(e).type = e.type /\ BumpGeneration(e).type = e.type
         /\ \A v \in Data : Written(e, v).type = e.type /\ Resized(Lock(e), v).type = e.type
         /\ \A v \in Data : [e EXCEPT !.data = v].type = e.type
         /\ \A p : Released(e, p).type = e.type
         /\ \A l : [e EXCEPT !.callbacks = Append(e.callbacks, l)].type = e.type
<1>1. DOMAIN e = {"type", "access", "data", "published", "resized", "locked", "accesses", "callbacks"}
  BY DEF Entry
<1>2. Lock(e).type = e.type /\ Unlock(e).type = e.type /\ BumpGeneration(e).type = e.type
  BY DEF Lock, Unlock, BumpGeneration, Entry
<1>3. ASSUME NEW v \in Data
      PROVE  Written(e, v).type = e.type /\ [e EXCEPT !.data = v].type = e.type
  BY DEF Written, Lock, Unlock, Entry
<1>4. ASSUME NEW p
      PROVE  Released(e, p).type = e.type
  BY DEF Released, BumpGeneration, Unlock, Entry
<1>5. ASSUME NEW l
      PROVE  [e EXCEPT !.callbacks = Append(e.callbacks, l)].type = e.type
  BY DEF Entry
<1>6. ASSUME NEW v \in Data
      PROVE  Resized(Lock(e), v).type = e.type
  BY DEF Resized, Lock, Entry
<1> QED
  BY <1>2, <1>3, <1>4, <1>5, <1>6

\* An update of one entry that keeps its type keeps the register's.
LEMMA UpdateKeepsRegister ==
  ASSUME TypeOK, RegisterIsWide, NEW k \in Inserted, NEW f, f.type = table[k].type,
         table' = [table EXCEPT ![k] = f]
  PROVE  RegisterIsWide'
<1>1. table \in [Inserted -> Entry]
  BY DEF TypeOK
<1>2. Inserted' = Inserted
  BY <1>1 DEF Inserted
<1>3. table'[Register].type = table[Register].type
  BY <1>1 DEF RegisterIsWide
<1> QED
  BY <1>2, <1>3 DEF RegisterIsWide

\* No step of the dictionary touches the width of the register.
LEMMA RegisterStays ==
  ASSUME DictInv, RegisterIsWide, [Next]_<<dictVars, calls>>
  PROVE  RegisterIsWide'
<1>1. TypeOK /\ table \in [Inserted -> Entry]
  BY DEF DictInv, TypeOK
<1>2. CASE UNCHANGED table
  BY <1>2 DEF RegisterIsWide, Inserted
<1>3. ASSUME NEW k \in Keys, NEW v \in Values, Set(k, v)
      PROVE  RegisterIsWide'
  <2>1. CASE UNCHANGED table
    BY <1>2, <2>1
  <2>2. CASE /\ k \in Inserted
             /\ \/ table' = [table EXCEPT ![k] = BumpGeneration(Written(@, v))]
                \/ table' = [table EXCEPT ![k] = Lock(@)]
    <3>1. table[k] \in Entry /\ v \in Data
      BY <1>1, <2>2 DEF Data
    <3>2. AccessesMatch(table[k])
      BY <2>2, EntriesMatch DEF DictInv
    <3>3. BumpGeneration(Written(table[k], v)).type = table[k].type
      BY <3>1, <3>2, WrittenEntry, TypesStay
    <3> QED
      BY <1>1, <2>2, <3>1, <3>3, TypesStay, UpdateKeepsRegister
  <2> QED
    BY <1>3, <2>1, <2>2 DEF Set, Put, AccessError
<1>4. ASSUME NEW k \in Keys, NEW l \in Listeners, RegisterCallback(k, l)
      PROVE  RegisterIsWide'
  <2> DEFINE f == [table[k] EXCEPT !.callbacks = Append(table[k].callbacks, l)]
  <2>1. k \in Inserted /\ table' = [table EXCEPT ![k] = f]
    BY <1>4 DEF RegisterCallback
  <2>2. f.type = table[k].type
    BY <1>1, <2>1, TypesStay
  <2> QED
    BY <1>1, <2>1, <2>2, UpdateKeepsRegister
<1>5. ASSUME NEW k \in Keys, NEW type, NEW access, NEW cbs, k \notin Inserted,
             BuildSubEntry(k, type, access, cbs)
      PROVE  RegisterIsWide'
  BY <1>5 DEF BuildSubEntry, RegisterIsWide, Inserted
<1>6. ASSUME NEW k \in Keys, NEW kind \in KindsAt[k], Insert(k, kind[1], kind[2])
      PROVE  RegisterIsWide'
  BY <1>5, <1>6 DEF Insert
<1>7. CASE AutoInsert("u8")
  BY <1>5, <1>7 DEF AutoInsert
<1>8. ASSUME NEW k \in BufferKeys, SetBuffer(k)
      PROVE  RegisterIsWide'
  <2>1. /\ k \in Inserted
        /\ \/ table' = [table EXCEPT ![k] = Lock(@)]
           \/ \E v \in Data : table' = [table EXCEPT ![k] = Written(@, v)]
    <3>1. k \in Inserted
      BY <1>8 DEF SetBuffer
    <3>2. Values \cup {table[k].data} \subseteq Data
      BY <1>1, <3>1 DEF Data, Entry
    <3> QED
      BY <1>8, <3>1, <3>2 DEF SetBuffer
  <2> QED
    BY <1>1, <2>1, TypesStay, UpdateKeepsRegister
<1>9. ASSUME NEW t \in Transfers, NEW k \in Keys, MakeProxy(t, k)
      PROVE  RegisterIsWide'
  <2>1. /\ k \in Inserted
        /\ \/ table' = [table EXCEPT ![k] = Lock(@)]
           \/ \E v \in Data : table' = [table EXCEPT ![k] = Resized(Lock(@), v)]
    BY <1>9 DEF MakeProxy, Data
  <2> QED
    BY <1>1, <2>1, TypesStay, UpdateKeepsRegister
<1>10. ASSUME NEW t \in Transfers, CopyFrom(t) \/ DropProxy(t)
       PROVE  RegisterIsWide'
  <2>1. proxies[t] # NoProxy /\ proxies[t].key \in Inserted
    BY <1>1, <1>10 DEF CopyFrom, DropProxy, TypeOK
  <2> DEFINE k == proxies[t].key
  <2>2. CASE CopyFrom(t)
    <3>1. Values \cup {table[k].data} \subseteq Data
      BY <1>1, <2>1 DEF Data, Entry
    <3>2. PICK v \in Data : table' = [table EXCEPT ![k].data = v]
      BY <2>2, <3>1 DEF CopyFrom
    <3>3. [table[k] EXCEPT !.data = v].type = table[k].type
      BY <1>1, <2>1, TypesStay
    <3> QED
      BY <1>1, <2>1, <3>2, <3>3, UpdateKeepsRegister
  <2>3. CASE DropProxy(t)
    <3>1. table' = [table EXCEPT ![k] = Released(@, proxies[t])]
      BY <2>3 DEF DropProxy
    <3> QED
      BY <1>1, <2>1, <3>1, TypesStay, UpdateKeepsRegister
  <2> QED
    BY <1>10, <2>2, <2>3
<1>11. CASE NextCallback \/ UNCHANGED <<dictVars, calls>>
  BY <1>2, <1>11 DEF NextCallback, dictVars
<1>12. ASSUME NEW k \in Keys, FireCallbacks(k)
       PROVE  RegisterIsWide'
  BY <1>2, <1>12 DEF FireCallbacks
<1>13. ASSUME NEW t \in Transfers, SenderIsFinished(t)
       PROVE  RegisterIsWide'
  BY <1>2, <1>13 DEF SenderIsFinished
<1> QED
  BY <1>3, <1>4, <1>6, <1>7, <1>8, <1>9, <1>10, <1>11, <1>12, <1>13
     DEF Next, Application, TransferStep

\* The service's access to the register is refused and leaves no trace
\* (getErrorReg, setErrorReg).
LEMMA RegisterIsRefused ==
  ASSUME RegisterIsWide
  PROVE  /\ ErrorReg = {}
         /\ \A bits : SetErrorReg(bits) => UNCHANGED dictVars
<1>1. AccessError(Register, "u8") = "ParamIncompatibility"
  BY DEF RegisterIsWide, AccessError
<1> QED
  BY <1>1 DEF ErrorReg, Got, SetErrorReg, Put, Stay, dictVars

-----------------------------------------------------------------------------
(* The node.                                                               *)

\* What every step does to the dictionary: one of its own, or nothing.
LEMMA NodeSteps ==
  ASSUME RegisterIsWide, [NodeNext]_vars
  PROVE  \/ [Next]_<<dictVars, calls>> /\ UNCHANGED emcyVars
         \/ UNCHANGED dictVars /\ \E e \in Codes, type \in Bits : Raise(e, type) \/ Clear(e, type)
         \/ UNCHANGED dictVars /\ Deliver
<1>1. ASSUME NEW e \in Codes, NEW type \in Bits, Raise(e, type)
      PROVE  UNCHANGED dictVars
  BY <1>1, RegisterIsRefused DEF Raise
<1>2. ASSUME NEW e \in Codes, NEW type \in Bits, Clear(e, type)
      PROVE  UNCHANGED dictVars
  BY <1>2, RegisterIsRefused DEF Clear, ClearErrorReg
<1>3. CASE UNCHANGED vars
  BY <1>3 DEF vars, emcyVars
<1>4. CASE Deliver
  BY <1>4 DEF Deliver
<1> QED
  BY <1>1, <1>2, <1>3, <1>4 DEF NodeNext

LEMMA NodeInitInv == NodeInit => NodeInv
<1> SUFFICES ASSUME NodeInit PROVE NodeInv
  OBVIOUS
<1>1. DictInv
  BY InitInv DEF NodeInit
<1>2. RegisterIsWide
  BY RegisterAssumption DEF NodeInit, Init, RegisterIsWide, Inserted
<1>3. BusType /\ AllClearIsAnnounced
  BY DEF NodeInit, BusType, AllClearIsAnnounced, LastWord
<1> QED
  BY <1>1, <1>2, <1>3 DEF NodeInv

\* The last word changes when a code is raised, which leaves a count, or when
\* one is cleared for good, which is announced (raiseEmcy, clearEmcy).
LEMMA AnnouncedStep ==
  ASSUME NodeInv, [NodeNext]_vars
  PROVE  BusType' /\ AllClearIsAnnounced'
<1>1. RegisterIsWide /\ BusType /\ AllClearIsAnnounced
  BY DEF NodeInv
<1>2. CASE UNCHANGED emcyVars
  BY <1>1, <1>2 DEF emcyVars, BusType, AllClearIsAnnounced, LastWord
<1>3. ASSUME NEW e \in Codes, NEW type \in Bits, Raise(e, type)
      PROVE  BusType' /\ AllClearIsAnnounced'
  <2>1. bus' = Append(bus, [code |-> e, bits |-> {type}])
    BY <1>1, <1>3, RegisterIsRefused DEF Raise
  <2>2. BusType'
    BY <1>1, <2>1 DEF BusType
  <2>3. e \in DOMAIN history'
    BY <1>3 DEF Raise
  <2> QED
    BY <2>2, <2>3 DEF AllClearIsAnnounced
<1>4. ASSUME NEW e \in Codes, NEW type \in Bits, Clear(e, type)
      PROVE  BusType' /\ AllClearIsAnnounced'
  <2>1. CASE history[e] > 1
    <3>1. e \in DOMAIN history' /\ bus' = bus
      BY <1>4, <2>1 DEF Clear
    <3> QED
      BY <1>1, <3>1 DEF AllClearIsAnnounced, BusType
  <2>2. CASE ~ (history[e] > 1)
    <3>1. bus' = Append(bus, NoErrorFrame)
      BY <1>1, <1>4, <2>2, RegisterIsRefused DEF Clear
    <3>2. NoErrorFrame \in [code : Codes \cup {NoError}, bits : SUBSET Bits]
      BY DEF NoErrorFrame
    <3>3. BusType' /\ bus' # <<>> /\ bus'[Len(bus')] = NoErrorFrame
      BY <1>1, <3>1, <3>2, AppendProperties DEF BusType
    <3>4. LastWord' = NoError
      BY <3>3 DEF LastWord, NoErrorFrame
    <3> QED
      BY <3>3, <3>4 DEF AllClearIsAnnounced
  <2> QED
    BY <2>1, <2>2
<1>5. CASE Deliver
  <2>1. bus # <<>> /\ bus' = Tail(bus) /\ told' = Head(bus).code /\ history' = history
    BY <1>5 DEF Deliver
  <2>2. BusType'
    BY <1>1, <2>1, HeadTailProperties DEF BusType
  <2>3. LastWord' = LastWord
    <3>1. Len(bus) \in Nat \ {0} /\ Head(bus) = bus[1]
      BY <1>1, <2>1 DEF BusType
    <3>2. /\ Len(bus') = Len(bus) - 1
          /\ \A i \in 1 .. Len(bus') : bus'[i] = bus[i + 1]
      BY <1>1, <2>1, HeadTailProperties DEF BusType
    <3>3. CASE Len(bus) = 1
      <4>1. bus' = <<>>
        BY <2>2, <3>2, <3>3 DEF BusType
      <4> QED
        BY <2>1, <3>1, <3>3, <4>1 DEF LastWord
    <3>4. CASE Len(bus) # 1
      <4>1. bus' # <<>> /\ bus'[Len(bus')] = bus[Len(bus)]
        BY <3>1, <3>2, <3>4
      <4> QED
        BY <2>1, <4>1 DEF LastWord
    <3> QED
      BY <3>3, <3>4
  <2> QED
    BY <1>1, <2>1, <2>2, <2>3 DEF AllClearIsAnnounced
<1> QED
  BY <1>1, <1>2, <1>3, <1>4, <1>5, NodeSteps

LEMMA NodeNextInv == NodeInv /\ [NodeNext]_vars => NodeInv'
<1> SUFFICES ASSUME NodeInv, [NodeNext]_vars PROVE NodeInv'
  OBVIOUS
<1>1. DictInv /\ RegisterIsWide
  BY DEF NodeInv
<1>2. DictInv' /\ RegisterIsWide'
  <2>1. CASE [Next]_<<dictVars, calls>>
    BY <1>1, <2>1, NextInv, RegisterStays
  <2>2. CASE UNCHANGED dictVars
    BY <1>1, <2>2, NothingChanges DEF dictVars, RegisterIsWide, Inserted
  <2> QED
    BY <1>1, <2>1, <2>2, NodeSteps
<1> QED
  BY <1>2, AnnouncedStep DEF NodeInv

\* The dictionary keeps its invariant with emergencies raised and cleared in
\* between and from within change callbacks (EmcyService, ObjDict).
THEOREM NodeSafe == NodeSpec => [](DictInv /\ RegisterIsWide)
<1>1. NodeInv => DictInv /\ RegisterIsWide
  BY DEF NodeInv
<1> QED
  BY <1>1, NodeInitInv, NodeNextInv, PTL DEF NodeSpec

\* Once every code has been cleared as often as it was raised, the last word is
\* "no error" (clearEmcy).
THEOREM LastClearIsAnnounced == NodeSpec => []AllClearIsAnnounced
<1>1. NodeInv => AllClearIsAnnounced
  BY DEF NodeInv
<1> QED
  BY <1>1, NodeInitInv, NodeNextInv, PTL DEF NodeSpec
=============================================================================
