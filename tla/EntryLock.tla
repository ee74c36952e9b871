------------------------------ MODULE EntryLock ------------------------------
(***************************************************************************)
(* What the entry locks of an object dictionary promise, without saying    *)
(* how a transfer works: channels post requests, the dictionary serves     *)
(* them one at a time, and a channel that holds an entry has it for itself *)
(* until it lets go, in a step that serves it or when its time runs out.   *)
(***************************************************************************)
EXTENDS Naturals

CONSTANTS
  Chan,     \* the users of the dictionary
  Idx,      \* its entries
  Nothing,  \* what a channel holds that holds no entry
  Value     \* what an entry may contain

VARIABLES
  holds,   \* holds[c]: the entry channel c holds, or Nothing
  value,   \* value[i]: the contents of entry i
  pending  \* pending[c]: the requests of channel c that are not yet served

lockVars == <<holds, value, pending>>

Free(i) == \A c \in Chan : holds[c] # i

\* the contents of entry i, and of no other entry, may change
Writes(i) ==
  /\ value' \in [Idx -> Value]
  /\ \A j \in Idx \ {i} : value'[j] = value[j]

LockInit ==
  /\ holds = [c \in Chan |-> Nothing]
  /\ value \in [Idx -> Value]
  /\ pending = [c \in Chan |-> 0]

\* Channel c posts requests, or one of them is lost.
Post(c) ==
  /\ pending' \in [Chan -> Nat]
  /\ \A d \in Chan \ {c} : pending'[d] = pending[d]
  /\ UNCHANGED <<holds, value>>

\* A request of c is served ...
Serve(c) ==
  /\ pending[c] > 0
  /\ pending' = [pending EXCEPT ![c] = @ - 1]

\* ... without effect, or with one that is over at once, on a free entry;
Use(c) ==
  /\ Serve(c)
  /\ UNCHANGED holds
  /\ UNCHANGED value \/ \E i \in Idx : Free(i) /\ Writes(i)

\* ... c holds a free entry from now on;
Acquire(c, i) ==
  /\ Serve(c)
  /\ holds[c] = Nothing /\ Free(i)
  /\ holds' = [holds EXCEPT ![c] = i]
  /\ Writes(i)

\* ... c writes to the entry it holds;
OwnerWrite(c, i) ==
  /\ Serve(c)
  /\ holds[c] = i
  /\ UNCHANGED holds
  /\ Writes(i)

\* ... c lets its entry go, with a last write.
Release(c, i) ==
  /\ Serve(c)
  /\ holds[c] = i
  /\ holds' = [holds EXCEPT ![c] = Nothing]
  /\ Writes(i)

\* The time of c is up: the entry is let go as it is.
Expire(c, i) ==
  /\ holds[c] = i
  /\ holds' = [holds EXCEPT ![c] = Nothing]
  /\ UNCHANGED <<value, pending>>

\* The local application writes to a free entry.
LocalWrite(i) ==
  /\ Free(i)
  /\ Writes(i)
  /\ UNCHANGED <<holds, pending>>

LockNext ==
  \/ \E c \in Chan :
       \/ Post(c)
       \/ Use(c)
       \/ \E i \in Idx :
            Acquire(c, i) \/ OwnerWrite(c, i) \/ Release(c, i) \/ Expire(c, i)
  \/ \E i \in Idx : LocalWrite(i)

LockSpec == LockInit /\ [][LockNext]_lockVars
=============================================================================
