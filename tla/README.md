# canfetti in TLA+

canfetti is a CANopen stack in C++. A node (`LocalNode`) keeps an object
dictionary and four services (SDO, NMT, PDO, EMCY) on a CAN device and a set of
timers; a platform (Linux, Teensy, ODrive) drives it. This directory models the
node, the threads of its Linux platform and the timers of all three platforms in
TLA+, checks the models with TLC and proves most of their safety properties with
TLAPS.

    tlc -config MCSdo_Contention.cfg MCSdo.tla     # any MC*.cfg with its module
    tlapm HeartbeatProofs.tla                      # any *Proofs.tla

## 1. Inventory

| part | source | state it keeps | operations | what makes it correct |
|---|---|---|---|---|
| SdoService | `services/Sdo.cpp` | `activeTransactions` by COB-ID: protocol, timer, generation, callback | `clientTransaction`, `processMsg`, `transactionTimeout` | a transaction ends once, and its lock and timer with it |
| SDO server, block server | `services/sdo/Server*.cpp` | a proxy, toggle; state, expected number, last segment | initiates, segments, abort | acknowledged bytes are the bytes stored; no copy out of bounds |
| SDO client | `services/sdo/Client.cpp` | a proxy on the caller's variable | reads, writes (expedited, segmented, block) | Success means the entry's bytes; nobody waits for nothing |
| ObjDict, OdEntry, OdProxy | `ObjDict.*`, `OdData.*` | values, locks, generations, callbacks | `insert`, `autoInsert`, `get`, `set`, `registerCallback`, `fireCallbacks`, `makeProxy`, `copyInto`, `copyFrom`, `resize` | locks are balanced, every listener hears of the last value, generations move with it |
| NmtService | `services/Nmt.cpp` | `peerStates`, heartbeat timer, callbacks | heartbeats, timeouts, NMT commands | a silent peer is declared Offline, no other is for good |
| PdoService | `services/Pdo.cpp` | `tpdoTimers`, `rpdoTimers`, `pdoEnabled` | send, receive, event timers, timeouts | values sent together belong together; timers follow state and configuration |
| EmcyService | `services/Emcy.cpp` | `errorHistory`, entry 0x1001 | raise, clear, listen | the last clear is announced |
| LocalNode | `LocalNode.*` | the node's state | `setState`, dispatch of frames | as its services |
| System (Linux) | `platform/linux/LinuxCo.cpp` | a table of slots that grows | schedule, delete, service | each slot has one owner |
| LinuxCo, LinuxCoDev | same | mutex, two condition variables, `pendingFrames`, `pendingTpdos`, `asyncFrames` | main and receive loops, `doWithLock`, `blockingTransaction`, `triggerTPDOOnce` | frames in order, no lost wakeup, callers return |
| System (Teensy) | `platform/teensy/TyCo.cpp` | a vector of timers that grows | schedule, delete; `service`, one pass that reads the clock once | the same, and the pass's iterators stay valid |
| System (ODrive) | `platform/odrive/ODriveCo.cpp` | a pool of 24 slots before the firmware's timers | schedule, delete, `timerHelper` | each slot has one owner |

How they interact. On Linux everything but the flush of the send queue runs
under one recursive mutex. Frames come from the receive thread in batches, the
main thread serves the timers and then the batch, and handlers call into the
dictionary, which locks one entry at a time for as long as an SDO transaction's
proxy lives. Teensy and ODrive have one thread that does the same in turn.
Callbacks (state of a peer, changed entry, end of a transaction) run inside
handlers and may call the node again. Services delete and schedule timers by
handle, and tell a late expiry by a generation number.

What is hard. Locks held between frames; timers that race the frames they wait
for; slots of a table reused while it is being served, through handles their
owners have kept; change callbacks that change; transfers that end half way; late
replies met by the next transfer; three kinds of threads that must not sleep
through a notification; a queue emptied without the mutex. `PROJECT.json` lists
each at its line with the properties that cover it.

## 2. Modules

| module | models | checked by |
|---|---|---|
| `EntryLock` | what the entry locks promise (abstract) | `LockService` of `Sdo` |
| `SdoBase` | frames, entries, copies, the variables of a transfer | |
| `SdoServer`, `SdoClient` | the handlers of either side | |
| `Sdo` | the two sides on a bus that may lose frames, with the local application | `MCSdo` |
| `ObjDict` | the dictionary: application, change callbacks, transfers' proxies | `MCEmcy` |
| `Emcy` | EmcyService, on top of `ObjDict` | `MCEmcy` |
| `PeerMonitor` | what the heartbeat consumer promises (abstract) | `PeersMonitored` of `Heartbeat` |
| `Timers` | the slot table of the Linux `System`, as operators | |
| `Heartbeat` | NmtService on `Timers` and the two-phase main loop | `MCHeartbeat` |
| `Pdo` | PdoService on `Timers`, `setState`, SDO locks from outside | `MCPdo` |
| `MainLoop` | the threads of LinuxCo | `MCMainLoop` |
| `NodeTimers` | the timers of Teensy and ODrive under the services that use them | `MCNodeTimers` |
| `SdoProofs`, `SdoTransferProofs`, `ObjDictProofs`, `MainLoopProofs`, `TimersProofs`, `HeartbeatProofs`, `PdoProofs`, `NodeTimersProofs` | theorems about the module they are named after (`ObjDictProofs`: about `Emcy` too) | tlapm |

Conventions. A section under the node's mutex is one action: nothing else runs
in it. Where the mutex is free (waits, socket reads, the flush, the time
between two frames) there is a state in between, and so there is between two
change callbacks. Time is relative, as "time left" or "age", and passes in
`Tick`. `newGeneration()` counts up for ever; only equality of generations
matters, so that a model takes the least number that nobody holds. A timer slot
that is given back becomes `Blank`. Names follow the code. Alternatives marked
"Mutant" are what a bug at that place would look like; they are used by no
specification and show that the properties notice.

**Sdo.** A channel is one server channel and the client that uses it; its two
COB-IDs are the queues `toSrv[c]` and `toCli[c]`. `srv[c]` and `cli[c]` are the
transactions (mode, proxy offset, toggle, block state), `od` the entries (bytes,
lock, the bytes last announced by generation and by callback), `job` the
client's call and its result, `witness` what the server really read or stored
for it (a history variable). `ServerReceive` and `ClientReceive` are
`SdoService::processMsg` with every branch of the protocol handlers as an
action; a timeout is `transactionTimeout`. Payload sizes are constants (4, 7,
100 and 127 in the code).

**ObjDict.** `table` maps keys to entries (type, access, value, lock, open
accesses of a dynamic variable, callbacks). `running` is the stack of
`fireCallbacks` loops: a loop reads the length of the callback list at each turn,
so that `NextCallback` serves what was registered meanwhile, and a callback
may call anything a handler may, up to `MaxDepth` loops inside of loops.
`announced` and `heard` are history variables: the value when an entry's
callbacks were last fired, and the value each callback last saw. `proxies` are
the SDO transfers of the node; they move only when the stack is empty, because
handlers start there. `published` is the value that the entry's generation
stands for, and `resized` says that a download has cut or filled a vector, a string
or a dynamic variable since: `MakeProxy` for a download contains the `resize` of
`Server.cpp:85`, which happens before the first copy, also for an entry that is
then found to be read-only.

**Emcy.** The register is an entry of the dictionary, and `Raise` and `Clear` are
calls of the application that may come from within a change callback. The
entry carries its width, as `get` and `set` compare types.

**Heartbeat.** `timers` is the table, `pass` and `todo` say how far
`serviceTimers` and the batch are, `peerStates` is the map of the code. A state
callback is the last thing a handler does, so that what the application does
there is a separate action between two steps of the main loop.

**Pdo.** `cfg` holds the two parameter values that change (enabled bit, event
timer), `od` the mapped entries with lock and last notified value. SDO
transfers appear as `SdoOpens` and `SdoCloses`, and on a PDO's own entries (COB-ID,
transmission type, event timer, mapping) as `held`: whatever the service gets from
such an entry fails, and the caller does what the code does then. COB-IDs do not
change but for their enabled bit, and no two PDOs have the same. A download to the
event timer writes it whole (`Configure`), is refused, or breaks off with half of
it written (`SdoReleasesParameter`). `passedOver` are the PDOs whose entries the
service could not read when it looked last, or which changed without a callback.
The timers and the two maps of handles
are one record, the tables: what the service does to them is an operator, and the
two loops of `enablePdoEvents` are functions of the tables and of how far they
got. One step of the main loop (one timer,
one frame) is one action; which is first is left open.

**MainLoop.** `mainPc` and `recvPc` stand at the places where the mutex is free.
Transactions are a deadline and a reply; TPDOs are tokens in `asyncFrames`.

**NodeTimers.** Each user of a timer (the producer, the peers, the keys of
`activeTransactions`, the RPDOs with a timeout) has a `handle` and a `generation`, as `hbTimer`,
`peerStates`, `activeTransactions` and `rpdoTimers` store them, and is in `waiting` while it
counts on a callback. The services' handlers are the compositions of `Delete`,
`Schedule` and `NewGeneration` in the order of `Nmt.cpp` and `Sdo.cpp`; a state
callback, the end of a transaction, or the timeout or the callbacks of an RPDO may
start a transfer (`Callback`). A peer and a transaction give back their slot before
they call the application; `rpdoTimeout` keeps its own, so that the transfer
started there may get a slot the pass has yet to visit (`ahead`) or make the vector
grow under `service()`. Then either there was room, or the iterator is `Dangling`
and the model stops.
`Platform` chooses the table: on Teensy `Serve` walks the vector with the clock
it read at `StartPass` (`lag` ago), on ODrive `Trigger` is one call of
`timerHelper`.

## 3. Runs

| run | question | bounds | distinct states |
|---|---|---|---|
| `contention` | do the locks isolate transfers; does Success mean the right bytes; do callbacks hear only of writes that came to their end; does anybody wait for ever; is the lock service implemented | 2 clients and the application, a vector and a write-only entry, 2 operations each, 1 loss; a block as long as the vector, one shorter and one longer | 1.2 M |
| `delay` | the inductive invariant, generations and release of locks when timers expire at any time, replies are late and leftover block segments read as requests of any kind | 1 client, 2 operations incl. block, 1 loss, `CsUnit = 1`: segment numbers span all command specifiers; fair | 191 k |
| `dictionary` | are locks and accesses balanced; does every listener hear the last value, every generation move, the last clear get announced | 4 keys (two numbers, a dynamic variable, one free that may become a vector), 2 listeners, 2 transfers, 2 loops deep, 5 calls, 2 codes, symmetry | 1.7 M |
| `heartbeat` | are slots neither lost nor shared; does the consumer implement `PeerMonitor`; is a dead peer declared Offline for good, a live one seen again; do heartbeats recur | 2 peers, limits 0 and 2, 2 calls, the application's own timer; fair | 164 k |
| `teensy` | the same for the timer vector, across the wrap of the clock; when does the vector move under its pass | 1 peer, 2 transfers, 1 RPDO, limits 0 to 2, at most 3 slots, a clock of 16, due timers at most 1 late | 509 k |
| `threads` | the inductive invariant: hand-over, order, lost wakeups, bounded queue | 2 callers, 3 frames, batches of 2, 3 calls | 881 k |
| `wakeups` | do callers return, are frames handled and requests sent without the 500 ms polls; do the threads stop with them | 2 callers, 2 frames, 1 failed read, the destructor; fair | 70 k |
| `pdo_values` | do values that belong together stay together; is a half-written value ever sent; do callbacks follow the values | 2 TPDOs, 2 RPDOs, 3 entries, 2 values, 3 calls, a COB-ID and a mapping that transfers may hold | 96 k |
| `pdo_timers` | do timers follow state and configuration; are timeouts never early; is silence reported, again and again | 1 TPDO, 1 RPDO, periods 0 to 2, 3 calls; transfers hold COB-ID, event timer and transmission type and may abort; fair | 205 k |
| `known_peer` | (a counterexample, below) | 1 peer, 3 calls, fair | |
| `swallowed` | (a counterexample, below) | 1 caller, 2 frames, 2 calls, fair | |
| `odrive` | (a counterexample, below) | as `teensy`, a pool of 5 | |

Why the bounds are enough to be interesting. SDO values are one expedited frame,
two segments or a block of two sub-blocks, so that every branch of the
handlers, every boundary (empty, exact, one short) and a second operation that
meets the leavings of the first all occur. Two loops inside of each other are
enough for a callback to set the entry that is being announced, and five
calls for a registration in between. Two periods and tables that can hold more
slots than there are owners let every reuse of a slot happen; on Teensy three slots
for five users let the vector grow under the pass and any two of them compete for a
slot that comes free. A timer may be late by one, so that a pass meets timers of callbacks it ran itself. Two callers
are enough for one to be served while the other goes to sleep; a batch of two
for one frame to arrive in the next batch. The invariants of section 4 are proved
without any of these bounds.

What each property excludes is said at its definition. `NobodyWaits` deserves a
word: it is deadlock freedom of the two protocol machines, stated as an
invariant so that it needs no fairness. It names the two requests that the
server really leaves unanswered, a block download it cannot open and any
request that meets a block download which the server has aborted.

### Where the code departs from what is said or expected of it

Three runs end in a counterexample. Each checks one thing a comment or a test of
the repository says; `PROJECT.json` quotes it.

* `known_peer`: `setRemoteTimeout` for a peer already heard lasts until its next
  heartbeat, which reads the old `timeoutMs` (`Nmt.cpp:71`).
* `swallowed`: a request that arrives during the flush is answered with Success
  and never sent (`LinuxCo.cpp:234`).
* `odrive`: `deleteTimer` gives the slot back and leaves the caller its handle
  (`ODriveCo.cpp:43`); a peer's next heartbeat then deletes the slot of whoever has
  it now. On Linux and Teensy the handle is cleared, and `SlotsOwned` and
  `EveryWaitIsTimed` hold.

Others are part of the models, and the properties that the passing runs check are
stated or bounded around them:

* `Client.cpp:147`: after a timeout the reply may still be under way, and the
  next read on the channel succeeds with it (the client looks at neither the index
  nor the toggle bit). Nor does an abort say what it aborts: that of the server's
  timeout ends the client's next transfer if it crosses the request, and the
  reply to that request is then taken by the transfer after it.
  `TransferIntegrity` is checked without late replies.
* `Server.cpp:107`: a block download shorter than the entry is acknowledged and
  leaves the old tail, which the change callbacks see; the announced size is not
  used. `TransferIntegrity` compares the whole entry only for transfers below
  `BlockModeThreshold`, and `CallbackSeesWholeWrite` allows the tail behind all the
  bytes of such a block (`BlockOverLonger`; `contention` reaches it).
* `Server.cpp:98`: an empty write empties a vector without a new generation and
  without callbacks. `Server.cpp:85`: a write of another length resizes a vector before
  anything is copied, a read-only one before it is refused; if the transfer breaks
  off there, the value has changed and the generation has not, because
  `OdProxy::reset` forgets the change (`OdData.cpp:158`). `GenerationTellsChange`
  excepts exactly a value that was resized and then not copied into
  (`OnlyResized`); `GenerationFollowsData` is checked on entries of a fixed size.
* `ServerBlockMode.cpp:96`: after an aborted block download the channel is deaf
  until its timer expires (`Lingering`).
* `ObjDict.h:58`: `set<OdBuffer>` ignores what `copyFrom` answers, leaves the
  generation and fires the callbacks in any case. `GenerationTellsChange` leaves
  out the entries written this way (`BufferKeys`).
* `LinuxCo.cpp:291`: `pendingTpdos` is cleared before the flush, so that one
  iteration may send a TPDO twice; `LinuxCo.h:93` says once. `SendsBounded`
  is what holds.
* `Pdo.cpp:455`: an RPDO whose later value is refused leaves the earlier ones
  stored and their callbacks dropped (`Refused` is empty in `pdo_values`).
* `Pdo.cpp:314`: the walk over the RPDOs ends at the first COB-ID that cannot be
  read, and hides those behind it. `Pdo.cpp:94` and `123`: a PDO whose event timer
  a download holds gets no timer, and if the download fails nobody tries again; one
  that breaks off half way leaves another period and calls nobody.
  `EnabledTpdoIsTimed` and `SilenceIsReported` leave out the PDOs in `passedOver`,
  which are exactly these until the service looks again.
* `Pdo.cpp:31`: a transmission type that a transfer holds fails an assertion. The
  models are those of a build without assertions, which takes the PDO for one that
  is not event-driven; with them the node stops.
* `TyCo.cpp:23`, `TyCo.cpp:24` with `Pdo.cpp:161`: a transfer that the timeout
  callback of an RPDO starts may make the vector grow under `service()`'s iterator,
  or, in a slot ahead of it, seem 2^32 ms old and time out at once. `TableStable`
  and `NeverEarly` except exactly this.
* `Emcy.cpp:14`: the error register never changes, for it is inserted with 32
  bits (`LocalNode.cpp:66`) and used with 8; and as it reads as empty, clearing any
  one code announces "no error".

### What the passing runs assume of the environment

`contention` lets timers expire only when the channel has fallen silent, and a
transfer start only when no reply is under way (`TimelyBus`); `delay` does not.
In `contention` the segments of a block that its client has given up read as no
request. In the code the 127 segment numbers span four command specifiers: the
server may take leftover segments for downloads of other values. `WatchedPeerDetected` speaks of peers with a
stored limit, for the reason `known_peer` shows. `wakeups` asks for TPDOs only from
callbacks on the main thread (`Outside = FALSE`), for the reason `swallowed`
shows. `pdo_values` lets SDO transfers run to their end (`Aborts = FALSE`): an
aborted download leaves a partly written value that the next TPDO sends.
Heartbeat periods are at least 1: with 0, `schedulePeriodic` divides by zero. The
RPDO's "silence" counts applied frames: frames dropped because an entry is
locked do not restart the timeout, and a watched RPDO can be reported while it is
being sent.

In `NodeTimers` a callback starts at most one transfer (two could make the
vector grow under the pass from any callback), transfers are begun in one way only,
for a client and for a server alike, and RPDOs are enabled and disabled one by one
while the node stays Operational. The timers of TPDOs are left out: they are
periodic like the producer's, and their callback reads entries and starts no
transfer. A timer that is due is served at most `MaxLate`
later, delays stay below the wrap of the clock, the timers of the ODrive
firmware are never refused, and `PoolSize` gives every user a slot, so that the
counterexample is not exhaustion of the pool. In `ObjDict` handlers run on an
empty stack of callbacks; `insert` with the request to call a callback that is
null is not enumerated; that a registration may move the function object that is
running is a matter of the container, outside the model.

`CHECK_DEADLOCK FALSE` stands where a system may be at rest: all bounded calls
made, or the node destroyed. Bounds in the guards are `MaxOps`, `MaxLosses`,
`MaxCalls`, `MaxDepth`, `MaxInbox`, `MaxFrames`, `MaxFailures`, `MaxLate`,
`MaxSlots` and `MaxBus`.

Fairness. `Sdo`: each side keeps reading its queue (`BusFairness`) and timers
that stay armed expire (`TimerFairness`), because the main loop reads and
serves on every pass. `Heartbeat`: weak fairness for the main loop, strong
fairness for `Tick`, which the model disables while the loop is inside a pass;
real time goes on however long the loop has work. `Pdo`: weak fairness for time
and for the timers of each PDO separately, because `serviceTimers` visits every
slot in each pass. `MainLoop`: `LoopSpec` has weak fairness for both threads,
callers and time, and none for the 500 ms polls, so that a missing
notification shows as a thread that sleeps for ever; only `ShutdownJoins`, where the
code relies on the polls, assumes them (`PollFairness`).

## 4. Proofs

Everything here holds for all values of the constants that satisfy the named
assumptions of the modules. Each proof has an inductive invariant that the runs
check as well (`SdoInv`, `DictInv`, `LoopInv`, `HeartbeatInv`, `PdoInv`,
`TimersInv`); `TransferInv` is stated in its proof module and implies four
properties that a run checks.

**Sdo** (`SdoProofs`). `SdoInvariant`: `Spec => []SdoInv`, with
`TypeCorrect`, `EntriesAreOwned` and `ProxiesStayInBounds` as its parts;
`OwnerWrites`: `OnlyOwnerWrites`; `SdoIsLockService`: every step is a step of
`EntryLock` or a stutter, under the mapping in `Sdo` (`Held`, `Contents`,
`Waiting`); `GenerationsFollow`: `GenerationFollowsData` for entries of fixed size
(`FixedSizes`), because whoever changes an entry holds it and remembers that it has
(`ChangesAreKnown`). `SdoInv` has types, ownership and proxy bounds, and two facts these
cannot do without: a transaction's entry exists (`ServersHoldEntries`), and a
block server past its first segment has a whole segment to write
(`SegmentHeldBack`). Lemmas on copies bound lengths. The server's handlers fall
into a few kinds of effects on entry and transaction (use, acquire, go on,
conclude, idle), each shown once to keep the invariant; each handler is shown to
have one of them. The lock refinement reuses the same effects.

**Whole transfers** (`SdoTransferProofs`). `TransfersAreWhole`, `NothingLeftBehind`,
`CallbacksSeeWholeValues` and `NobodyWaitsForever` state `TransferIntegrity`,
`SuccessLeavesNothingBehind`, `CallbackSeesWholeWrite` and `NobodyWaits`, from one
invariant, `TransferInv`: each channel is in one of twelve phases. A phase says
which frame is under way, how far the client's and the server's proxies are,
that the entry is open for this request, and up to where buffer and entry
agree with the value carried. A lost frame leads to `Stranded`, from where only a
timer leads on. That the other channels and the application change no phase
(`ServerOnOthers`, `ClientOnOthers`, `LocalOnOthers`) is where the locks are needed,
through `EntryOwnership`. Two hypotheses: `TimelyBus`, for the reason above, and
`ShortWrites`: writes are below `BlockModeThreshold`, so that there is no old tail
either and callbacks see whole values. After a lost block response
the rest of a block stays on the bus, and what the server takes it for depends on
its sequence numbers. With blocks the four properties are only model-checked
(`contention`).

**ObjDict, Emcy** (`ObjDictProofs`). `DictionarySafe`,
`AllListenersHear` and `GenerationTells` from `DictInv`, and `NodeSafe` for the
specification the run checks, where emergencies are raised inside of callbacks.
`ListenersHearTheLast` alone is not inductive: `ListenersAreServed` says that a
listener who has not heard the last value is ahead of some loop over its entry,
and that the value does not change unannounced under such a loop; a loop that
ends has nobody ahead. `ChangesAreNoted` says who is still to move a generation,
or that the entry was resized and no more.
`LastClearIsAnnounced` rests on `RegisterIsWide`: the register's type is never the
one the service asks for, so that every last clear of a code is announced.

**MainLoop** (`MainLoopProofs`). `LoopSafe`, and from it `InOrder`,
`AssertionHolds`, `NobodySleepsOn` and `SendsAreBounded`, for any number of callers
and frames. The strengthening: `OneBatch` (what the receive thread may hold
while main has a batch), `WakeupsAreKept` (whatever ends a wait has set its
flag, and a sleeper's deadline covers every timer older than the last
change of generation) and `SendsCounted` (a queued send has a mark, or the
iteration that took the marks).

**Heartbeat** (`TimersProofs`, `HeartbeatProofs`). `HeartbeatSafe`:
`Spec => []HeartbeatInv`. `PeersAreMonitored`: the implementation of
`PeerMonitor`. `TimersProofs` proves about the slot table, for any set of users,
that giving a slot back, taking one and exchanging one for another keep `Owned`:
the users' handles and the slots in use are in one-to-one correspondence, and
each slot's callback is its user's. That the table has no more slots than users,
and that `newGeneration`'s least free number exists, is the pigeonhole
principle. Each handler is then one of two effects, a peer's record and slot
exchanged (`PeerChanged`) or everything about peers left alone (`Unmoved`), and the
effect is both what keeps the invariant and a step of `PeerMonitor`.

**Pdo** (`PdoProofs`, on `TimersProofs`). `PdoSafe`: `Spec => []PdoInv`, and from it
`NoTimerOutsideOperational`, `EnabledIsTimed` and `TimeoutAfterSilence`, for any
number of PDOs in any order, any mappings and periods, and transfers that hold,
write or abort on any of a PDO's own entries. The three are not inductive: they need the slot table's `Owned` and
`TimersRun`, by which a TPDO's timer is armed and repeats, and an RPDO's carries
its present generation and stored period and has no less left than the silence
allows (without it a timer could fire early and be believed). `Right` says this of
a value of the tables, so that an operation is shown to keep it whether a handler
makes it or a round of a loop. `enableTpdoEvent` takes the new slot before it
gives back the old one: for a moment there is one slot more than there are PDOs
(`Move` in `TimersProofs`), and `Len(timers)` may stay there. The loops of
`enablePdoEvents` run over sequences of any length; `LoopInvariant` and
`LoopExists` draw the induction over their rounds from the least round for which
a claim fails, with claims written as sets, as the library's induction theorem
cannot be instantiated.

The values have three theorems, each under the condition that its run fixes as
constants. `NoPartialSent`: if downloads end (`~Aborts`), no TPDO carries a partly
written value, because such an entry is locked (`PartialLocked`). `CallbacksFollow`:
if also no frame has a refused value (`NothingRefused`), callbacks have told the
value of every unlocked entry. `StayTogether`: if an RPDO alone writes the entries
it maps (`Exclusive`), a TPDO maps within those of one RPDO, and payloads are of
equal values (`MappedTogether`), then no reader sees them differ.
PDOs of one entry are free of these conditions. What the code does without them is
in section 3.

**NodeTimers** (`NodeTimersProofs`), for `Platform = "teensy"`. `SlotsAreOwned`:
`Spec => []TimersInv`; `WaitsAreTimed`, `NothingFiresEarly`, `IteratorsStayValid`.
`EveryWaitIsTimed` needs `NoSlotLost` (the converse) and `NoHandleLeft`: a handle
kept by somebody who waits for nothing would later hit a slot of another, which
is how the ODrive run fails; the one slot in use whose owner waits for nothing is
that of an RPDO that has timed out (`Spent`), which its next frame restarts.
`NeverEarly` needs `AheadIsOlder`: but for what RPDO timeouts have scheduled
(`ahead`), what the pass has yet to visit was scheduled before it read the clock,
because a callback that schedules finds the slot of its own timer, or an earlier
one, free; the same argument bounds the vector in `TableStable`.

Only model-checked: the four properties of whole transfers for block downloads,
and liveness under fairness, `SilenceIsReported` and `EntryReleased` among it, which
TLAPS does not prove.

## 5. Not modelled

The CAN drivers of Teensy and ODrive, and the opening and configuration of the
Linux socket. `init`, the addition of PDOs (`addRPDO`, `addTPDO`) and of SDO
channels (`addSDOServer`, `addSDOClient`, `syncServices`), which happen before the
node runs. `insertArray`, `insertRecord` and the typed getters of the
dictionary, which repeat what is modelled. The four slots for state callbacks of
`addRemoteStateCb`, which no step frees. `resetTimer` and `disableTimer`, which no
service calls. Logging and formatting. Loss of PDO, heartbeat and EMCY frames on
the bus: a frame that is not received is a frame not sent, for the receiver; the
sender ignores the result of the write.

## 6. Plan

Done: the SDO core, heartbeat and timers, the threads, the dictionary, EMCY,
PDO and the timers of all platforms with their proofs. Next, in this order:

1. Block downloads in `SdoTransferProofs`: phases for a sub-block under way and
   for what is left of one.
2. A module that composes `Pdo` and `MainLoop`: coalesced requests with their
   payloads, deadlines that a late main thread misses.
3. `SdoService` set-up: `addSDOServer`, `addSDOClient`, `syncServices` while
   transactions are active.
4. NMT commands as messages between two nodes, with bootup.
5. ODrive with the `deleteTimer` of the other platforms, and the pool at its
   limit: which waits survive an `InvalidTimer`.
