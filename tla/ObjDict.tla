-------------------------------- MODULE ObjDict --------------------------------
(***************************************************************************)
(* The object dictionary of a node: its entries with their locks,          *)
(* generations and change callbacks, as the application, the services and  *)
(* the SDO transfers of the node use them.                                 *)
(*                                                                         *)
(* Everything runs under the node's mutex. A transfer keeps a proxy, and   *)
(* with it the lock of an entry, from one handler to the next; handlers    *)
(* start on an empty stack. A change callback may use the dictionary as it *)
(* pleases, and so run callbacks inside of callbacks: running is the stack *)
(* of fireCallbacks loops, each with the callback it has reached.          *)
(***************************************************************************)
EXTENDS Integers, Sequences, SequencesExt

CONSTANTS Keys,        \* index and sub-index, as numbers
          InitTable,   \* the entries LocalNode::init and the application insert
          KindsAt,     \* key -> the types and access it may be inserted with
          Values,      \* the values of the application's entries
          Initial,     \* the value an entry is inserted with
          Unheard,     \* no value
          BufferKeys,  \* entries the application writes with set<OdBuffer>
          Listeners,   \* the change callbacks
          Transfers,   \* the SDO transfers at this server
          MaxDepth,    \* bound: loops inside of loops
          MaxCalls     \* bound: calls that change something

Data == Values \cup {Initial} \cup {InitTable[k].data : k \in DOMAIN InitTable}
\* The alternatives of OdVariant that are told apart; a vector is one, or a string.
OdVariant == {"u8", "u32", "vector", "dynamic"}
Access == {"RO", "WO", "RW"}
Entry == [type : OdVariant, access : Access, data : Data, published : Data,
          resized : BOOLEAN, locked : BOOLEAN, accesses : Int, callbacks : Seq(Listeners)]

ASSUME KeysAssumption == Keys \subseteq Nat
ASSUME KindsAssumption == KindsAt \in [Keys -> SUBSET (OdVariant \X Access)]
\* The entries are as their constructor leaves them.
ASSUME InitTableAssumption ==
  /\ DOMAIN InitTable \subseteq Keys
  /\ InitTable \in [DOMAIN InitTable -> Entry]
  /\ \A k \in DOMAIN InitTable :
       /\ ~InitTable[k].locked /\ ~InitTable[k].resized /\ InitTable[k].accesses = 0
       /\ InitTable[k].callbacks = <<>> /\ InitTable[k].published = InitTable[k].data

VARIABLES table,      \* key -> entry
          proxies,    \* transfer -> its OdProxy, or NoProxy
          running,    \* the stack of fireCallbacks loops
          announced,  \* key -> the value when its callbacks were last fired
          heard,      \* key -> callback -> the value when it last ran
          calls

dictVars == <<table, proxies, running, announced, heard>>

NoProxy == [key |-> -1, changed |-> FALSE, finished |-> FALSE]

\* published is the data that the entry's generation stands for, resized says
\* that its length was changed and the generation has not moved since; accesses
\* counts the calls of beginAccess without their endAccess.
OdEntry(type, access, data, cbs) ==
  [type |-> type, access |-> access, data |-> data, published |-> data, resized |-> FALSE,
   locked |-> FALSE, accesses |-> 0, callbacks |-> cbs]

Init ==
  /\ table = InitTable
  /\ proxies = [t \in Transfers |-> NoProxy]
  /\ running = <<>>
  /\ announced = [k \in Keys |-> IF k \in DOMAIN InitTable THEN InitTable[k].data ELSE Unheard]
  /\ heard = [k \in Keys |-> [l \in Listeners |-> Unheard]]
  /\ calls = 0

Inserted == DOMAIN table
Dynamic(e) == e.type = "dynamic"
\* A dynamic variable may come with a function resize.
Resizable(e) == e.type \in {"vector", "dynamic"}

\* Mutant: access begins before the lock is looked at.
LockBeginsFirst(e) ==
  [e EXCEPT !.locked = TRUE, !.accesses = IF Dynamic(e) THEN @ + 1 ELSE @]

\* OdEntry::lock leaves a locked entry as it is.
Lock(e) ==
  IF e.locked THEN e
  ELSE [e EXCEPT !.locked = TRUE, !.accesses = IF Dynamic(e) THEN @ + 1 ELSE @]

Unlock(e) ==
  [e EXCEPT !.locked = FALSE,
            !.accesses = IF e.locked /\ Dynamic(e) THEN @ - 1 ELSE @]

BumpGeneration(e) == [e EXCEPT !.published = e.data, !.resized = FALSE]

\* OdProxy::resize cuts or fills the value and ends in reset: changed is false.
Resized(e, v) == [e EXCEPT !.data = v, !.resized = TRUE]

-----------------------------------------------------------------------------
(* Change callbacks.                                                       *)

\* at is the callback that runs
Loop(k) == [key |-> k, at |-> 0, all |-> TRUE]
Single(k) == [key |-> k, at |-> 1, all |-> FALSE]

Firing(k) == \E f \in Range(running) : f.key = k /\ f.all

\* Mutant: an entry whose callbacks are running is not fired again.
FireOnce(k) ==
  /\ announced' = [announced EXCEPT ![k] = table'[k].data]
  /\ running' = IF Firing(k) THEN running
                ELSE Append(running, Loop(k))
  /\ UNCHANGED heard

\* OdEntry::fireCallbacks, up to its first callback
Fire(k) ==
  /\ announced' = [announced EXCEPT ![k] = table'[k].data]
  /\ running' = Append(running, Loop(k))
  /\ UNCHANGED heard

Stay == UNCHANGED <<running, announced, heard>>

\* The loop goes on to the next callback, one registered meanwhile included,
\* or ends.
NextCallback ==
  LET f == Last(running)
      cbs == table[f.key].callbacks
  IN /\ running # <<>>
     /\ IF f.all /\ f.at < Len(cbs)
        THEN /\ running' = [running EXCEPT ![Len(running)].at = @ + 1]
             /\ heard' = [heard EXCEPT ![f.key][cbs[f.at + 1]] = table[f.key].data]
        ELSE running' = Front(running) /\ UNCHANGED heard
     /\ UNCHANGED <<table, proxies, announced, calls>>

-----------------------------------------------------------------------------
(* Calls of the application, from one of its own functions or from within  *)
(* a callback.                                                             *)

Call ==
  /\ calls < MaxCalls /\ calls' = calls + 1
  /\ Len(running) < MaxDepth
  /\ running # <<>> => Last(running).at > 0

\* The answer of get<T> and set<T>.
AccessError(k, type) ==
  IF k \notin Inserted THEN "IndexNotFound"
  ELSE IF table[k].type # type THEN "ParamIncompatibility"
  ELSE IF table[k].locked THEN "Timeout" ELSE "Success"

\* get<T>: what it leaves in the caller's variable
Got(k, type, default) == IF AccessError(k, type) = "Success" THEN table[k].data ELSE default

Written(e, v) == Unlock([Lock(e) EXCEPT !.data = v])

\* set<T>
Put(k, type, v) ==
  /\ UNCHANGED proxies
  /\ \/ /\ AccessError(k, type) = "Success"
        /\ table' = [table EXCEPT ![k] = BumpGeneration(Written(@, v))]
        /\ Fire(k)
     \/ /\ AccessError(k, type) = "Timeout"
        /\ table' = [table EXCEPT ![k] = Lock(@)] /\ Stay
     \/ /\ AccessError(k, type) \notin {"Success", "Timeout"}
        /\ UNCHANGED table /\ Stay

Set(k, v) == Call /\ \E type \in {"u8", "vector"} : Put(k, type, v)

\* set<OdBuffer>: what copyFrom answers is ignored, the generation stays, the
\* callbacks are told in any case. A buffer of another length is refused.
SetBuffer(k) ==
  /\ Call /\ k \in Inserted /\ UNCHANGED proxies
  /\ \/ /\ table[k].locked
        /\ table' = [table EXCEPT ![k] = Lock(@)] /\ Stay
     \/ /\ ~table[k].locked
        /\ \E v \in Values \cup {table[k].data} : table' = [table EXCEPT ![k] = Written(@, v)]
        /\ Fire(k)

\* A callback registered while those of its entry run has yet to hear of the
\* change; at any other time its owner knows the value there is.
RegisterCallback(k, l) ==
  /\ Call /\ k \in Inserted /\ l \notin Range(table[k].callbacks)
  /\ table' = [table EXCEPT ![k].callbacks = Append(@, l)]
  /\ heard' = [heard EXCEPT ![k][l] = IF Firing(k) THEN Unheard ELSE announced[k]]
  /\ UNCHANGED <<proxies, running, announced>>

FireCallbacks(k) ==
  /\ Call /\ k \in Inserted
  /\ UNCHANGED <<table, proxies>> /\ Fire(k)

BuildSubEntry(k, type, access, cbs) ==
  /\ table' = [j \in Inserted \cup {k} |->
                 IF j = k THEN OdEntry(type, access, Initial, cbs) ELSE table[j]]
  /\ announced' = [announced EXCEPT ![k] = Initial]
  /\ heard' = [heard EXCEPT ![k] = [l \in Listeners |-> IF l \in Range(cbs) THEN Initial ELSE @[l]]]
  /\ UNCHANGED proxies

\* insert leaves an entry that exists as it is; the new entry's callback runs
\* once if the caller asks for it.
Insert(k, type, access) ==
  /\ Call /\ k \notin Inserted
  /\ \/ \E cbs \in {<<>>} \cup {<<l>> : l \in Listeners} :
          BuildSubEntry(k, type, access, cbs) /\ UNCHANGED running
     \/ \E l \in Listeners :
          BuildSubEntry(k, type, access, <<l>>) /\ running' = Append(running, Single(k))

\* autoInsert takes the first index that is free.
AutoInsert(type) ==
  /\ Call
  /\ \E k \in Keys \ Inserted :
       /\ \A j \in Keys : j < k => j \in Inserted
       /\ BuildSubEntry(k, type, "RW", <<>>)
  /\ UNCHANGED running

-----------------------------------------------------------------------------
(* The proxies of SDO transfers, used by the handlers of the main loop.    *)

Handler == running = <<>> /\ UNCHANGED calls

\* makeProxy for a transfer, at most MaxCalls of them; the initiate of a download
\* of another length resizes the entry at once, a read-only one too.
MakeProxy(t, k) ==
  /\ running = <<>> /\ calls < MaxCalls /\ calls' = calls + 1
  /\ proxies[t] = NoProxy /\ k \in Inserted
  /\ \/ table' = [table EXCEPT ![k] = Lock(@)]
     \/ /\ ~table[k].locked /\ Resizable(table[k])
        /\ \E v \in Values : table' = [table EXCEPT ![k] = Resized(Lock(@), v)]
  /\ proxies' = IF table[k].locked THEN proxies
                ELSE [proxies EXCEPT ![t] = [NoProxy EXCEPT !.key = k]]
  /\ Stay

\* copyFrom is refused by a read-only entry; a dynamic variable may refuse the
\* bytes after changed is set.
CopyFrom(t) ==
  LET k == proxies[t].key IN
  /\ Handler /\ proxies[t] # NoProxy /\ table[k].access # "RO"
  /\ proxies' = [proxies EXCEPT ![t].changed = TRUE]
  /\ \E v \in Values \cup (IF Dynamic(table[k]) THEN {table[k].data} ELSE {}) :
       table' = [table EXCEPT ![k].data = v]
  /\ Stay

SenderIsFinished(t) ==
  /\ Handler /\ proxies[t] # NoProxy
  /\ proxies' = [proxies EXCEPT ![t].finished = TRUE]
  /\ UNCHANGED table /\ Stay

\* Mutant: only a transfer that was finished moves the generation.
ReleasedFinished(e, p) == IF p.changed /\ p.finished THEN BumpGeneration(Unlock(e)) ELSE Unlock(e)

Released(e, p) == IF p.changed THEN BumpGeneration(Unlock(e)) ELSE Unlock(e)

\* ~OdProxy, when the transfer ends one way or another
DropProxy(t) ==
  LET p == proxies[t] IN
  /\ Handler /\ p # NoProxy
  /\ proxies' = [proxies EXCEPT ![t] = NoProxy]
  /\ table' = [table EXCEPT ![p.key] = Released(@, p)]
  /\ IF p.changed /\ p.finished THEN Fire(p.key) ELSE Stay

Application ==
  \/ \E k \in Keys :
       \/ \E v \in Values : Set(k, v)
       \/ \E l \in Listeners : RegisterCallback(k, l)
       \/ \E kind \in KindsAt[k] : Insert(k, kind[1], kind[2])
       \/ FireCallbacks(k)
  \/ \E k \in BufferKeys : SetBuffer(k)
  \/ AutoInsert("u8")

TransferStep ==
  \E t \in Transfers :
    \/ \E k \in Keys : MakeProxy(t, k)
    \/ CopyFrom(t) \/ SenderIsFinished(t) \/ DropProxy(t)

Next == Application \/ TransferStep \/ NextCallback

Spec == Init /\ [][Next]_<<dictVars, calls>>
-----------------------------------------------------------------------------

TypeOK ==
  /\ Inserted \subseteq Keys /\ table \in [Inserted -> Entry]
  /\ proxies \in [Transfers -> [key : Keys \cup {-1}, changed : BOOLEAN, finished : BOOLEAN]]
  /\ \A t \in Transfers : proxies[t] = NoProxy \/ proxies[t].key \in Inserted
  /\ running \in Seq([key : Inserted, at : Nat, all : BOOLEAN])
  /\ \A n \in DOMAIN running : running[n].at <= Len(table[running[n].key].callbacks)
  /\ announced \in [Keys -> Data \cup {Unheard}]
  /\ heard \in [Keys -> [Listeners -> Data \cup {Unheard}]]

\* An entry is locked exactly while one transfer holds it, and a dynamic
\* variable has exactly then an access open: also while callbacks run, which
\* therefore find the entry that has just been written free (set, ~OdProxy).
LocksAreHeld ==
  \A k \in Inserted :
    /\ table[k].locked <=> \E t \in Transfers : proxies[t].key = k
    /\ \A s, t \in Transfers : proxies[s].key = k /\ proxies[t].key = k => s = t
    /\ table[k].accesses = IF table[k].locked /\ Dynamic(table[k]) THEN 1 ELSE 0

\* While the callbacks of an entry run it keeps the value announced last, and
\* who has not heard it is ahead of one of the loops.
ListenersAreServed ==
  \A k \in Inserted :
    /\ Firing(k) => table[k].data = announced[k]
    /\ \A i \in DOMAIN table[k].callbacks :
         \/ heard[k][table[k].callbacks[i]] = announced[k]
         \/ \E f \in Range(running) : f.key = k /\ f.all /\ f.at < i

\* Only a change of length leaves the generation behind.
OnlyResized(e) == e.resized /\ Resizable(e)

\* An entry whose generation is not that of its value was resized, or is held by
\* a transfer that will move it (OdProxy::resize, ~OdProxy).
ChangesAreNoted ==
  \A k \in Inserted \ BufferKeys :
    \/ table[k].published = table[k].data
    \/ OnlyResized(table[k])
    \/ \E t \in Transfers : proxies[t].key = k /\ proxies[t].changed

\* The types, locks, generations and callbacks of the dictionary.
DictInv == TypeOK /\ LocksAreHeld /\ ChangesAreNoted /\ ListenersAreServed

\* Once the callbacks of an entry have run, every one of them has heard the
\* value that was announced last, however sets and registrations from within
\* callbacks nest (OdEntry::fireCallbacks).
ListenersHearTheLast ==
  \A k \in Inserted : ~Firing(k) =>
    \A l \in Range(table[k].callbacks) : heard[k][l] = announced[k]

\* Two reads of a generation that agree are reads of the same value: whatever
\* wrote to an entry, an aborted transfer included, has moved its generation by
\* the time it can be read (set<T>, ~OdProxy). Only a download that resized a
\* vector or string and then copied nothing, because it was empty, refused or
\* broken off, has changed the value and not the generation (OdProxy::reset).
GenerationTellsChange ==
  \A k \in Inserted \ BufferKeys : ~table[k].locked =>
    table[k].published = table[k].data \/ OnlyResized(table[k])
=============================================================================
