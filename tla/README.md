# TLA+ model of the ThirdReality relay firmware

The repository is connectedhomeip (Matter) with the firmware of the
ThirdReality relay module added to it: a BL602 Wi-Fi board with up to three
relays, one status LED, two option jumpers and no button that users can reach.
The product's own logic is small and lives in
`examples/lighting-app/thirdreality/common/`; it runs on top of the Matter
server, FreeRTOS and a flash key-value store.  This directory holds TLA+
models of that logic and of the parts of Matter that decide whether the relay
stays commissioned and reachable (fabrics and their storage, the commissioning
window, exchanges and their reliability, message counters), TLC runs on small
instances, and TLAPS proofs for all instances.  Paths below are relative to
`src/`.

## The system

### Actors

| actor | what it is | priority |
|---|---|---|
| App task | `AppTask::AppTaskMain`, a loop that waits for notification bits, takes the CHIP stack lock and handles them | 15 |
| CHIP task | `_RunEventLoop`: start-up (`PlatformInit`), client commands, timers, the event queue | 2 |
| timer task | FreeRTOS, runs `AppTask::TimerCallback` | 30 |
| user | switches the power off and on, at any moment | |

They interact through the task notification value of the App task (a set of
bits, so equal events merge), the bounded CHIP event queue (a full queue drops
the event), the CHIP stack lock, the attribute store and flash.

### Components, their state and what makes them correct

| component | source | state | operations | correct when |
|---|---|---|---|---|
| App task | `AppTask.cpp`, `AppTask.h` | `resetCnt` in flash, `mButtonPressedTime`, `gpioCount`, `fctRst`, `u8Config`, identify state, one-shot timer | count power-ups and arm a reset, confirm it after 5 s, poll GPIO 2, refresh relays and LED during the first 120 passes, handle identification | the device is wiped only on request, a power cut cancels, relays are restored, polling ends |
| attribute callback | `ZclCallbacks.cpp` | relay outputs, `u8LedState` | drive relay and LED on a write of OnOff | a relay is on only if its endpoint is |
| status LED | `LEDWidget.cpp`, `demo_pwm.c` | physical colour; cached colour and state | `SetColor`, `Toggle`, direct `set_color` | shows the relays |
| event loop | `GenericPlatformManagerImpl_FreeRTOS.ipp` | bounded queue, stack lock | post, dispatch | nothing important is lost when the queue is full |
| platform start-up | `plat/platform.cpp` | | `PlatformInit`, `ChipEventHandler` | the App task is resumed once, after the stack is up |
| configuration manager | `ConfigurationManagerImpl.cpp` | fail-safe marker in flash | schedule and do a factory reset | see the gesture |
| On/Off server | `on-off-server.cpp` | OnOff and StartUpOnOff in flash | On, Off, Toggle, start-up value | start-up state is reflected |
| Identify server | `identify-server.cpp` | IdentifyTime, active flag, target and current effect | identify, tick, effect | the LED stops when identification does |
| attribute store | `attribute-table.cpp` | attributes | write, persist, call back | |
| fail-safe context | `FailSafeContext.cpp` | armed, busy, fabric index, NOC flags, timers | arm, expire, force expiry, disarm | a fabric that is not stored does not lose its guard |
| fabric table | `FabricTable.cpp` | table of fabrics, next index, pending flags; metadata, index list and commit marker in storage | add, update, commit, revert, remove, load | a boot finds each fabric whole or not at all; a removed one does not come back |
| certificate store, keystore | `PersistentStorageOpCertStore.cpp`, `PersistentStorageOperationalKeystore.cpp` | a pending chain and key; stored ones per fabric | add, activate, commit, revert, remove | certificates and key of a fabric belong together |
| Operational Credentials, General and Administrator Commissioning servers | their `*-server.cpp` | | commands that drive the four above and the window | |
| commissioning window manager | `CommissioningWindowManager.cpp` | window, its timer, opener, failed attempts, pairing state, event handler, the PASE session | open, close, time out, pair, fail, hear platform events | the window closes, gives up, is never deaf, and keeps the fail-safe for its commissioner |
| exchange layer, message reliability | `ExchangeContext.cpp`, `ExchangeMgr.cpp`, `ReliableMessageMgr.cpp`, `ReliableMessageContext.cpp` | pool of contexts, retransmission table, pending acknowledgements | send, receive, acknowledge, retransmit, give up, time out, close | a message reaches the application once; no context is lost |
| message counters | `PeerMessageCounter.h`, `MessageCounter.h` | replay window; local counter | verify, commit; advance | duplicates are recognised |
| group message counters | `GroupPeerMessageCounter.cpp` | outgoing counters in RAM and storage; table of group peers | write ahead, increment; find, add, remove and compact | no counter is used twice with a key; no message is accepted twice |
| session manager | `SessionManager.cpp` | | prepare and dispatch secure and group messages | |
| OTA requestor, Wi-Fi driver, BLE | see `PROJECT.json` | | | not modelled |

### What is hard here

* The power may go away between any two flash accesses, and switching the
  power *is* the user interface: seven power-ups in a row ask for a reset.
* Notification bits merge, so the App task sees `START` and `STOP` of two
  identifications at once or one by one.
* `TimerEventHandler` runs on every event, and its own writes of OnOff post
  new events.
* OnOff is written, and relays are driven, before the jumpers have been read.
* The event queue is bounded; callers mostly ignore a failed post.
* An expired fail-safe is cleaned up in two queued steps.
* A commit and a removal are some six writes or deletes of storage each; the
  power may fail, and storage may refuse, at every one of them, and the code
  mostly goes on.
* The pending state of a commissioning is spread over the fabric table, the
  certificate store, the keystore and the fail-safe, and commands of other
  administrators reach each of them.
* Three timers (window, pairing attempt, fail-safe), a session that may close
  and two queued events race for the end of one commissioning attempt.
* Messages are lost, duplicated, delayed and reordered; a retransmission, its
  late acknowledgement and a response time-out race.
* Counters wrap or run out.

`PROJECT.json` lists the hazards line by line with the properties that cover
them.

## Modules

| module | contents |
|---|---|
| `RelayApp` | the product's own logic: App task, relays, LED, identification, gesture, and one fabric |
| `RelayAppProofs`, `RelayGestureProofs`, `RelayOutputProofs`, `RelayFabricProofs` | types; the factory reset gesture; relays, write-back, LED and identification; the pending fabric |
| `FabricCommit`, `FabricCommitProofs` | fabric table, certificate store, keystore, fail-safe and storage, write by write |
| `StoredFabrics` | abstract: per index one complete identity or none; `FabricCommit` implements it |
| `CommissioningWindow`, `CommissioningWindowProofs` | window, pairing, PASE sessions and fail-safe |
| `PeerMessageCounter` | the replay window as operators, with and without rollover |
| `ReliableMessaging`, `ReliableMessagingProofs` | two nodes with exchanges, retransmission and acknowledgements over a faulty network; uses `PeerMessageCounter` |
| `GroupMessaging`, `GroupMessagingProofs` | a group sender and a receiver; uses `PeerMessageCounter` with rollover |
| `MCRelayApp`, `MCFabricCommit`, `MCCommissioningWindow`, `MCReliableMessaging`, `MCGroupMessaging` | the same modules for TLC; the `.cfg` files give the constants |

### How `RelayApp` corresponds to the code

One action is one stretch of code that runs with the stack lock held, or
between two flash accesses without it.

| actions | code |
|---|---|
| `ReadResetCnt`, `WriteResetCnt` | `AppTaskMain` up to `vTaskSuspend`, split between `ef_get_env_blob` and `ef_set_env_blob`, because a power cut in between matters |
| `InitOnOffServer`, `PlatformInit` | the CHIP task coming up: one step per endpoint, then fabric table, fail-safe marker, `vTaskResume` |
| `OptionRead`, `DisableEndpoints` | `OptionRead`: jumpers without the lock, endpoints under it |
| `WaitEvent`, `LockAndRead`, `HandleEvent` | one loop iteration; the reads of OnOff are a step of their own so that the role of the lock is visible |
| `TimerCallback`, `Tick` | one-shot timer, clock |
| `OnOffCommand`, `WriteStartUpOnOff`, `WriteIdentifyTime`, `TriggerEffect`, `WriteOtherIdentifyTime` | clients |
| `IdentifyClusterTick`, `IdentifyTimeChanged` | the one-second tick, and the cluster callback that runs after the generic one in the same write |
| `ArmFailSafe`, `AddFabric`, `CommissioningComplete`, `FailSafeExpired`, `RemoveFabric` | commissioning |
| `PostOther`, `DispatchOther`, `DispatchComplete`, `DispatchExpired`, `DispatchDisarm`, `DoFactoryReset` | the event queue |
| `PowerCycle` | the user |

`HandleEvent` is the whole iteration: `LightingUpdate`, `IdentifyHandleOp`, the
scheduling of a factory reset and `TimerEventHandler`, whatever the event was,
with the restart of the timer at its end.  The LED goes through the same calls
in the same order as a composition of functions.

Three variables (`quick`, `lowReads`, `synced`) are history:
no action reads them, properties compare the code's state with what the user
and the wires really did.

The fail-safe is one variable, `mFailSafe`, that also says how far its AddNOC
is: pending (`"noc"`), without its certificates, which a RemoveFabric of any
index took (`"dropped"`), after a commit that failed (`"failed"`), or expired
with something to delete (`"revert"`).  `CommissioningComplete` and its commit
may fail: for good (the fabric is deleted), or at the pre-flight checks, after
which nothing is pending and the next CommissioningComplete disarms.

Abstractions: an LED level is lit or dark and a hue a colour; fabrics are
counted, none or one; the commit and the removal of a fabric are one step each
(`FabricCommit` has fabrics, UpdateNOC, refused deletes and all writes in
detail; an update whose commit fails has the effect of a RemoveFabric on the
count); the fail-safe timer may expire at any time while it is armed; a full
queue drops an event at once (the code waits one tick first); the two
half-second delays of a GPIO 2 reset take no time.  The clock counts ticks from the moment the counter was read and
saturates at `MaxUptime`.  `PlatformInit` ends no earlier than the tick after
the counter was read: bringing up Wi-Fi and the server takes far more than the
one millisecond by which `mButtonPressedTime` lies in the future.  This is an
assumption of the model, so no property can show what the unsigned difference
of `AppTask.cpp:470` would do within that millisecond.

The build modelled is the one the repository makes for the product: BL602,
`BOOT_PIN_RESET` not defined, endpoints 1 to 3 with On/Off (lighting feature)
and Identify and without Level Control, an `Identify` object on endpoint 1 with
start and stop callbacks and no effect callback.

### How `FabricCommit` corresponds to the code

Commands are steps that change RAM.  `CommitPendingFabricData`, `Delete` and
`FabricTable::Init` write storage; each write is a step of its own (`work` says
which handler is in which transaction), after which the power may be cut
(`PowerCut` clears RAM and leads to a boot).  No command runs while `work` is
not idle, as the stack lock is held.  A write named in `Failing` and a delete
named in `Sticking` may also be refused, and the handler goes on the way the
code does: a failed commit reverts and removes, a commit whose marker was
refused is carried on (`FabricTable.cpp:1873`: "may be inconsistent if reboot
happens during fail-safe"), `Delete` goes on to the next item (942-966) and
ignores a failed write of the index list, `ClearCommitMarker` ignores its
result, and so do the deletes after a chain of an AddNOC that could not be
stored (`UndoItem`).

What the code cannot repair after a refusal is kept in `spoilt`, a history
variable: the indices for which storage refused the commit marker or refused
to delete something, and those that were given a NOC for a key that is neither
pending nor stored (`DocNocKey`), until a removal leaves nothing of them in
storage.  The properties speak of all other indices, so they also say that a
refusal for one fabric never harms another.

An identity is a key and a root; a NOC certifies one key and chains to one
root.  Left out: parsing and validation of certificates, the label, the
last-known-good time, access control and group data of a fabric.

`StoredFabrics` is what storage promises: each index holds one complete
identity or none, an identity is installed where there was none, is lost as a
whole, and no root is stored for two indices.  `StoredIdentity` maps the state
of `FabricCommit` to it: what the next boot would load of each index (listed,
loadable, not spoilt and not named by the commit marker); half-written data
would map to no identity at all and so violate the refinement `ImplementsStoredFabrics`.

### How `CommissioningWindow` corresponds to the code

Handlers call each other (closing a session expires the fail-safe, a failed
attempt cleans up, ...), so each function of the code is a function on the
record of the device with the same name, and an action is one entry from the
event loop: a command, a message of the pairing, a timer, a queued event, or a
power cycle.  `ok` is whether advertising and listening succeed.  `held` is
`mPASESession`; `attempt` is the session establishment timer, which `ResetState`
does not cancel.  The order of the handlers of one event is that of the list:
the window manager comes before the Operational Credentials server.  Basic and
enhanced windows differ only in parameters and are one action; refused commands
are not steps; what is advertised, and where, is left out.  `owner` and `lost`
are history.

### How `ReliableMessaging` corresponds to the code

Both nodes run the same code on one session.  A handler is a composition of
functions on the record of its node.  The network is the set of all messages
ever sent by a node: each may arrive any number of times, in any order, or
never.  Retransmissions have the counter of the original, so they are no new
messages.  Time-outs (response, retransmission, acknowledgement) may fire at
any moment while they are armed.  `Replies` says what the application may do
with a message of an exchange; it obeys the delegate contract (it answers when
it was given a message or announced an answer).  It also says whether a message
may find no handler that takes it (`"unhandled"`: none is registered, or it
returns an error; the message is acknowledged through an ephemeral exchange) or
a dispatch that does not permit its type (`"barred"`: it is acknowledged and
goes no further).  `turnedAway` is history: the messages that came for the
first time and met one of these or a full pool.  Counters stop at
`CounterMod - 1`, as those of a session do; from then on every send fails.
Left out: the back-off arithmetic, sleepy devices, group exchanges, session
release, errors of the transport when a message is sent (other than a message
that is lost) and timers that cannot be started.

### How `GroupMessaging` corresponds to the code

`GroupOutgoingCounters::Init` is two steps, one per write-ahead, and the power
of the sender may fail between them, between sends, and between a send and its
write-ahead.  Counters are modulo `CounterMod`.  The receiver's table is the
code's: a bounded list of fabrics, each with bounded lists of peers per kind of
counter, trust-first verification, and removal of a fabric with compaction; a
peer is never evicted for another.  Two assumptions are about the network
and not about the code, and are part of the model: `Recent` (a message is not
held back for half the counter space) and `InTouch` (the receiver does not miss
half the counter space in a row); without them an unsigned difference cannot
tell old from new.

`IncrementCounter` may be refused its read or its write for a kind in
`Refusable`; `PrepareMessage` ignores that (`SessionManager.cpp:174`) and sends,
and the stored counter is not met again before the wrap.  Two history variables
follow this: `behind` has the kinds whose write-ahead was refused since the last
boot, `rewound` those with which the sender has booted from such a counter, and
which may therefore go back.  The properties hold for a kind until it is in
`rewound`, and for the other kind whatever happens.  A refused write in `Init`
ends the start of the server (`SessionManager.cpp:104`), which for the counters
is the same as a power cut there.

## Model checking

The constants keep the order of the code's numbers (`ClearAt` 10 < `SettleAt`
120, confirm time less than the largest uptime, window smaller than half the
counter space, ...) and shrink their size; what the properties depend on is
that order, and where there are proofs they show that the size does not matter.

| run | question | bounds | distinct states |
|---|---|---|---|
| `RelayGesture` | is the device wiped only on request, does a cut cancel, is a pending fabric guarded? | 3 power-ups, GPIO 2 high or low, commissioning that may fail, a full queue | 3.0 M |
| `RelayOutputs` | do relays, LED and OnOff stay together? | all jumper settings, all endpoints, start-up values, with and without a fabric | 2.7 M |
| `RelayIdentify` | does identification stop however bits merge? | IdentifyTime up to 2, effects blink and finish | 2.4 M |
| `RelayLive` | do reset, restoration and end of polling happen? | queue of 1, with and without a fabric | 17 k |
| `FabricCommit` | is every fabric whole or gone at every power cut, and does storage implement `StoredFabrics`? | 2 indices, 2 slots, 2 keys, 2 roots; every write, and the deletes of marker, metadata, key and root, may be refused | 2.4 M |
| `CommissioningWindow` | does the window close, give up, stay responsive, and keep its fail-safe? | 2 fabrics, 2 sessions, queue of 2, 2 attempts | 146 k |
| `ReliableMessaging` | is a message given once, does no context leak, does no `VerifyOrDie` fail? | a dialogue, and a second exchange whose message needs no answer or finds no handler; 3 counters, 1 retransmission, a window of 1, one node with a single context | 1.8 M |
| `GroupMessaging` | is no counter reused and no message accepted twice? | 8 counters that start near the wrap, increments of 2, window of 1, 2 fabrics, full peer lists, write-aheads of the data counter refused or not | 1.1 M |

A queue of one or two entries is full most of the time, which is the case that
matters; three power-ups make an unarmed, a nearly armed and an armed boot; the
clock runs past the confirm time.  Two fabric indices and slots make one that
is pending and one that is not, and an index that wraps; two keys allow an add
and an update, or two additions.  Refused deletes of NOC and ICAC are left to
the proof.  One kind of group counter may be refused and one not, so that the
run sees both and that they do not mix.  Two attempts make a first failure, the
last one, and the late time-out after it; two sessions make one that the window
manager holds and one that it has forgotten.  Three counters per node are
enough for request, answer and acknowledgement and then run out.
A message that is not permitted moves the protocol as one that the application
uses and does not answer, which is in the run; that it is not given, and answers
refused inside a dialogue, are left to the proof.

**Fairness** (`FairSpec`, in `RelayLive` and `CommissioningWindow`).  Each task
runs when it can (WF): FreeRTOS schedules by priority and every task blocks.
Taking the stack lock and taking an event from the queue are strongly fair in
`RelayApp`: the lock is a FreeRTOS mutex, handed to the waiting task of highest
priority when released.  The event loop releases it whenever the queue runs
empty; that it does so again and again is part of the assumption.  Clients, the
network, power cuts and `PostOther` are not fair: nobody has to do anything.
`ConfirmedResetHappens` has its own hypothesis, that the queue is not full at
every single retry.  In `CommissioningWindow` timers that run fire and the
event loop takes events; commissioners, administrators and power cycles are not
fair, and any number of restarts does not keep a window open, as each one
starts its timer again and one of the timers fires.

### Where documents and code differ

Each of these runs checks one sentence of the repository and TLC refutes it.

| run | sentence | what the code does |
|---|---|---|
| `DocSettled` | `on-off-server.cpp:572`: the start-up state "SHALL be reflected in the OnOff attribute" | remove the last fabric with a relay on, cycle the power, commission again after the polling: OnOff reads on, the relay is off |
| `DocRestart` | `FabricTable.h:916`: after a successful commit a restart finds the same in storage | RemoveFabric of another index during an AddNOC drops the pending certificates; the first CommissioningComplete fails, the second succeeds, and the fabric in use is not stored |
| `DocNocKey` | `FabricTable.h:861`: the NOC "must match an existing or pending operational keypair" | the flags of an unused key request outlive their fail-safe; a later UpdateNOC passes without its key being held |
| `DocPase` | `CommissioningWindowManager.cpp:564`: when the PASE session dies the armed fail-safe must be its own | a window that closes while a PASE session is up removes the handler that would evict the session; it outlives its fail-safe, and its end expires the one that an administrator armed since |

Differences met while modelling that have no run:

* `thirdreality/README.md:102` says "press **Reset** button 3 Times", the code
  (`AppTask.cpp:203`) and `README.md:444` say seven power-ups.
* `AppTask.cpp:207`: a power cycle during the confirm time cancels the reset.
  Not if the cut falls between reading and writing the counter.
* `ConfigurationManagerImpl.cpp:75`: reset if the fail-safe was armed at
  shutdown.  Nothing writes that marker when the fail-safe is armed.
* `README.md:286`: relay off, LED off.  After an identification the LED keeps
  the last toggle, as `LightingUpdate` stops at the missing Level Control.
* `identify-server.cpp:150`: "effect identifier changed during identify".  The
  branch also runs for an effect triggered while idle, and cancels the
  identification that is starting.
* `FailSafeContext.cpp:94`: busy until the flush is complete.  With a full queue
  the flush is dropped and the fail-safe is busy until the next reboot.

Observations about the modelled code, visible in the models and allowed by the
properties:

* RemoveFabric of index *j* while an UpdateNOC of *i* is pending drops the
  pending chain, and the commit that follows fails and removes *i*.
* An UpdateNOC that `SetPendingDataFabricIndex` refuses leaves its pending NOC.
* A power cut inside `Delete` can leave a root certificate behind that blocks
  its index (TODO #19935 in `FabricTable.cpp`).
* If storage refuses the commit marker, a power cut in that commit can leave
  half a fabric.  If it refuses a delete, a removed fabric is found again by the
  next boot, whole or without its key.  If it refuses to clear the marker, the
  next boot deletes the fabric that was committed.
* After a failed write-ahead of a group counter, which `SessionManager.cpp:174`
  ignores, the next boot uses counters a second time.
* A request that nobody handles, that is not permitted or that meets a full pool
  is acknowledged (the last when it is retransmitted) and never given.
* The timer of a pairing attempt survives its window and charges a failed
  attempt to the next one, or ends a pairing that has just begun there.
* If the event queue is full when the fail-safe ends, an open window accepts
  nobody until it times out.

## Proofs

All theorems are about `Spec` for every value of the constants allowed by the
`ASSUME`s of the modules (which each TLC run also evaluates).

| module | theorem | property | inductive invariant |
|---|---|---|---|
| `RelayAppProofs` | `TypeCorrect` | `TypeOK` | `TypeInv` |
| `RelayGestureProofs` | `NoUnaskedWipe`, `CutCancels` | `WipeOnlyOnRequest`, `PowerCutCancels` | `GestureInv` |
| `RelayOutputProofs` | `NoUnaskedRelay`, `RelaysFollow`, `WriteBackHarmless`, `LedFollows` | `RelayOnlyIfOn`, `SyncedRelaysFollow`, `WriteBackKeepsOnOff`, `LedFollowsRelays` | `OutputInv` |
| `RelayOutputProofs` | `IdentificationEnds` | `IdentifyStops` | `IdentifyInv` |
| `RelayFabricProofs` | `PendingGuarded` | `PendingFabricGuarded` | `FabricInv` |
| `FabricCommitProofs` | `TypeCorrect` | `TypeOK` | `TypeInv` |
| `FabricCommitProofs` | `NoHalfWrittenFabric`, `NoFabricComesBack`, `StorageRefinement` | `WholeOrGone`, `RemovedStaysRemoved`, `ImplementsStoredFabrics` | `Inv` |
| `ReliableMessagingProofs` | `TypeCorrect`, `NoDoubleDelivery` | `TypeOK`, `DeliveredOnce` | `DeliveryInv` |
| `ReliableMessagingProofs` | `NoDeath`, `NoMessageDropped`, `ContextsReturn`, `AcknowledgementsHold` | `NeverDies`, `OnlyBySpecViolation`, `NoContextLeak`, `AckedRequestWasGiven` | `Inv` |
| `GroupMessagingProofs` | `NoCounterReused` | `CounterNotReused` | `SenderInv` |
| `GroupMessagingProofs` | `TypeCorrect`, `NoGroupReplay`, `NoLockOut` | `TypeOK`, `AcceptedOnce`, `NewIsAccepted` | `ReceiverInv` |
| `CommissioningWindowProofs` | `TypeCorrect`, `OpenOnlyOnTime`, `NoPairingOutside`, `LimitCloses`, `NoAdminFailSafe`, `OpenerIsFabric` | `TypeOK`, `WindowHasTimer`, `PairingOnlyInWindow`, `GivesUp`, `FailSafeForCommissioner`, `OpenerExists` | `WindowInv` |
| `CommissioningWindowProofs` | `NeverDeaf` | `WindowNotDeaf` | `WindowInv` and `HearInv` |

* `TypeInv` needs more than types: that the counter stays below its limit
  depends on when `pressed` is set between the two flash accesses.
* `GestureInv` relates the flash counter to the number of power-ups in a row
  (`CounterInv`), says when a boot may be armed (`ArmedInv`), what a set
  `FACTORY_RESET` bit (`RequestInv`) and a queued reset (`QueueInv`) imply.
  The unsigned subtraction of the clock is harmless because `uptime` is at
  least `pressed` once the App task has been resumed.
* `OutputInv` says that the configuration, once read, is the jumper setting and
  fixes the enabled endpoints (`ConfigInv`), that a relay is on only if an
  endpoint wired to it reads On and that a bit of `u8LedState` stands for a
  wired endpoint whose relay is on (`LitInv`), and that what the App task read
  under the lock is still there when it writes it back (`SeenInv`).
* `IdentifyInv` says what the notification bits mean.  With the Identify server
  idle, a start bit is never without a stop bit beside it or behind it; the App
  task has taken no bits when it is back at its loop.  `IdentifyStops` alone is
  not inductive: a start bit left over from an identification that has ended
  would light the LED for good.
* `FabricInv` says that nothing is queued before the stack is up, and that a
  disarming in the queue is the only one, belongs to an expiry and comes after
  its clean-up.  `PendingGuarded` then goes through the steps: the only one
  that takes a fabric in use and not in flash away from its fail-safe is a
  CommissioningComplete that follows one that failed (`DocRestart` shows the
  same with the storage in detail).
* `Inv` of `FabricCommit` says where a commit or a removal is (`ControlInv`),
  which flags and which pending certificates and keys go together (`FlagInv`,
  `UpdateInv`, `ChainInv`), how much of a commit or a removal has reached
  storage (`CommitInv`, `RemovalInv`), and that an index that the commit marker
  does not name is stored whole and in use, or cannot be loaded (`StoreInv`).
  The last part carries the theorems: between two writes only the index in the
  marker may be incomplete, and the next start deletes that one.
  `StorageRefinement` maps every action to a step of `StoredFabrics` or a
  stutter.  The theorems have no hypothesis: `Failing` and `Sticking` are any sets.  An
  index is in doubt (`InDoubt`) while it is spoilt, or while the marker names it
  and a handler is at work on it; `StoreInv` speaks of the others.  `StaleInv`
  is about a marker that could not be cleared: it names a spoilt index or one
  that does not load, so the next boot deletes no fabric for it but the one
  after whose commit it was to be cleared.
* `DeliveryInv` says that what was given to the application is a duplicate for
  the replay window.  It rests on two lemmas about the window: a committed
  counter is a duplicate, and a duplicate stays one whatever is committed.
* `Inv` of `ReliableMessaging` adds to it that the two ends of an exchange take
  turns (`Turn`): at most one message of the applications is on its way, or one
  end has announced an answer; the message on its way is the one its sender
  retransmits, and acknowledges the one its receiver still retransmits.  A
  message that is refused is not answered.
  Requests come only from the opener, and one that was not received finds no
  context.  `Heard` says that an acknowledged message is in the replay window of
  its receiver, and `Good` what a context may be waiting for.  `NeverDies` needs
  all of it: only turn-taking keeps an application from sending while its last
  message is unacknowledged.
* `SenderInv` says that every counter used lies before the current one
  (`Ahead`) and the current one before what is stored (`WrittenAhead`), so that
  a restart jumps past all of them.  The second part excepts a kind from its
  first refused write-ahead on, the first from the boot after it.
* `ReceiverInv` adds that the counter of a sent message follows from its number
  (`SentInv`), that the table has one slot per fabric and one entry per peer
  (`TableInv`), and that the window of the sender is its newest accepted message
  with a bit for each accepted one before it that is still in the window.
* `WindowInv` joins the type with the six properties and with what a late
  time-out may do to the attempts; one lemma per function of the code says what
  it keeps, and the actions follow.  `HearInv` adds that a disarming is queued
  only while the fail-safe is busy, and once: otherwise it could disarm a
  fail-safe that an open window waits for.

Each inductive invariant was an invariant of a TLC run, with the constants of
the module's own run, before it was proved.

Only model-checked: the liveness properties `ConfirmedResetHappens`,
`RelaysRestored`, `PollingEnds` and `WindowCloses`, as fairness and ENABLED are
out of the prover's reach.  The four findings are counterexamples of TLC.

## Not modelled, and the plan

Done: `RelayApp`, `FabricCommit` with `StoredFabrics`, `CommissioningWindow`,
`ReliableMessaging`, `GroupMessaging`, their runs and the proofs above, which
cover every safety property of the runs.  Next, most important first:

1. `ResetGesture`: an abstract specification of the gesture that `RelayApp`
   implements, and the proof that it does, from `GestureInv`.
2. `AppStartup`: task priorities, suspend and resume, the error paths of
   `PlatformInit`, the stack lock.
3. `OnOffTimers`: OnTime, OffWaitTime and OffWithEffect of the On/Off server.
4. `OtaRequestor`, `WifiDriver`: state machines with time-outs and reboots.

Left out for good: BLE transport and the vendor Wi-Fi and BLE stacks (calls
into binaries), PASE, CASE and cryptography, the interaction model and
reporting, access control, DNS-SD, Thread, the controllers, the other examples
and all vendored code; of `AppTask.cpp` the button code (not compiled), the
`BTN_SHORT` branch (nothing posts the event) and reading the MAC address.
