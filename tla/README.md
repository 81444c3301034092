# Open Brew by Weight: verification

TLA+ models of the Open Brew by Weight firmware (ESP32-S3, `src/src/`), their
TLC runs and their TLAPS proofs. The firmware closes and opens one relay, K1, in
parallel with the brew switch of an espresso machine, so that a shot ends at a
weight read from a Bluetooth scale. Paths below are relative to the repository's
implementation directory `src/src/` unless they start with `docs/`
(`src/docs/`). `PROJECT.json` maps every definition to the lines it stands for.

| What | Modules | Checked by | Proved in |
|---|---|---|---|
| K1 relay safety driver | `RelaySafety`, its contract `RelayContract` | `relay_driver`, `relay_compatibility` with `MCRelaySafety` | `RelaySafetyProofs` |
| Control loop: cycles, gestures, guards, trips, finalization, commands, leases | `Brew` over `MachineBackflush` | `brew` with `MCBrew` | `BrewProofs` |
| Momentary machines (push button, flow or reed) | `Momentary` | `services`, `momentary_cut` with `MCMomentary` | `ServicesProofs` |
| Dual-slot flash store (shot log, activation history) | `FlashLog`, its contract `DurableLog` | `services` | `HistoryProofs` |
| Settings record in NVS and all its writers | `SettingsStore` | `settings` with `MCSettingsStore` | `SettingsStoreProofs` |
| Scale commands, remote timer, power-off | `ScaleCommands` | `scale_commands` with `MCScale` | `ScaleProofs` |
| Automatic tare between shots | `IdleTare` | `idle_tare` | `ServicesProofs` |
| Bluetooth client library of the scale | `ScaleClient` | `scale_client` | `ScaleProofs` |
| Choice of a scale and its discovery | `ScaleDiscovery` | `services` | `ScaleProofs` |
| Cloud commands of the espresso machine | `MicraService` | `micra` | `MicraProofs` |
| Firmware update | `Ota` | `ota` | `OtaProofs` |
| Wi-Fi station, setup network, probation, scan | `WifiSetup` | `wifi` | `ServicesProofs` |
| Webhook dispatcher | `Webhook` | `services` | `ServicesProofs` |
| Login of the Web UI and of Home Assistant | `WebAccess` | `services` | `ServicesProofs` |
| Local buzzer | `Buzzer` | `services` | `ScaleProofs` |
| Live stream of the Web UI | `UiStream` | `services` | `HistoryProofs` |

The run `services` uses `MCServices`: seven parts that share no state, in one run.
Section 6 lists what is not modelled.

## 1. The system

### Execution contexts

The firmware is one program with FreeRTOS tasks on two cores.

| Context | Owns | Talks to others by |
|---|---|---|
| control task (Arduino `loop()`, `platform/OpenBrewByWeightEntrypoints.inc:677-868`) | brew cycle, machine facade, presets and runtime settings, maintenance lease | polling mailboxes once per loop; the relay driver under `relayMux` |
| GPTimer interrupt | nothing; cuts K1 at its deadline | `relayMux`; cannot write RTC memory |
| esp_timer task | nothing; two redundant deadlines of K1 | `relayMux`, then the RTC words without a lock |
| network task (`OpenBrewByWeightNetwork`) | Wi-Fi state, HTTP server, the network part of the settings record (`settings_`) | command queue to control, one result slot back |
| persistence workers (`shot_persist`, `settings_persist`) | a copy of what they save | one-entry mailbox in, one result out; a write gate held by the maintenance lease |
| scale worker and NimBLE host task | Bluetooth link | command mailbox, event FIFO |
| webhook, Micra, OTA, LED and buzzer tasks | their own queues | admission gates |

### Components

For each: its state, its operations, what is hard, and what makes it correct.

* **K1 relay safety driver** (`MachineRelay.h`, `HardwareTimer.h`, `Safety.h`).
  State: `relaySafetyState` (OPEN, ARMING, CLOSED, TRIPPED, LOCKOUT), the commanded
  circuit, two limits and two trip flags, a generation; three deadline timers.
  Operations: close with a limit, open, trip, promote to a backflush, reassert the
  pin, service, consume a trip. Hard: three contexts, a close in five sections,
  timers that refuse to arm, callbacks already dispatched when their timer is
  stopped. Correct when K1 is energized only inside a committed closure, no closure
  outlasts its limit whatever hangs, a cut is never lost on the control task, and
  LOCKOUT ends at a boot or, in a
  momentary machine, at the trip of a logical run wall.
* **RTC reset guard** (`ResetGuard.*`, `ResetHistory*`). Two RTC words that say
  whether K1 was commanded closed, an unsafe-reset count, a boot-loop guard. Hard: two
  unlocked writers, resets between stores. Correct when a reset during a closure is
  seen as one and an orderly open is not.
* **Paddle and momentary machines** (`MachinePaddle*`, `MachineMomentary*`). Debounced
  activator, drive policy, pulses and reed observation over the relay driver. Hard:
  stale reads of the circuit between the driver's sections, a trip not yet consumed
  while the next pulse closes, logical run walls. Correct when every trip finalizes
  the cycle it cut and nothing re-closes after it.
* **Brew orchestrator** (`control/*.inc`, `openBrewByWeight.cpp`). Cycle state
  machine, weight cut, no-scale and cup guards, rinse and backflush gestures,
  finalization. Hard: order of the loop's sections, flags consumed in one section and
  needed in another. Correct when every cycle is finalized exactly once and K1 is
  requested open when it is.
* **Flash stores** (`DualSlotFlashLog.h`, `FlashIoScratch.h`, `ShotLog.h`,
  `ActivationStores.h`, `ShotCurve*.h`). RAM copy, dirty flag, two flash slots with
  generation and checksum; mutate, capture an image, write it in steps, acknowledge,
  clear and save at once. Hard: power loss inside any operation, mutation while an
  older image is written, failed steps. Correct when a reported version survives.
* **Settings record** (`Persistence.h`, `NvsDualSlot.h`, `SettingsWriteAdmission.h`,
  `persistence/CommandPersistence.inc`). One record, two NVS slots, a revision; saved
  by the settings worker, by the network task and by a factory reset. Hard: three
  writers with copies of different age, a lock that times out, resets resumed at boot.
  Correct when the last successful put is what a restart loads, and no edit is lost.
* **Web commands and maintenance lease** (`control/Commands.inc`,
  `persistence/CommandPersistence.inc`). Queue, admission, one result slot, a lease
  that quiesces the workers for an admin command. Hard: results and leases overtaken by
  a shot, a cancelled command, a restart.
* **Scale sense, scale worker, idle tare, cup presence** (`ScaleWorker.*`,
  `ScaleSense.h`, `control/IdleTare.inc`, `CupPresence.h`, the vendored client library).
  Connection state machine with backoff, weight FIFO, tare claims. Hard: late
  acknowledgements, teardown while callbacks run, stale weights.
* **Learning, presets, corridor, predictor** (`Bbw*.h`, `Presets.h`, `Corridor.h`,
  `ShotPredictor.h`). Which shots may teach the stop offset; floating-point filters.
* **Network services** (`network/*.inc`, `WebAccess*`, `Ota*`, `Webhook.*`,
  `machine/Micra*`). Station/AP state machine with probation of a new configuration,
  claims and tokens, upload sessions and rollback, bounded queues with retries, cloud
  observation freshness.
* **Emergency recovery** (`Recovery*.h`). A stored intent that the next boot completes.
* **Platform** (`Watchdog.h`, `Power*`, `Scheduling.h`, `TaskMutex.*`, monitors,
  diagnostics, crash archive, serial CLI, buzzer, time zone tables, web UI, scripts).
  Reporting, formatting or tooling; where a verdict of theirs matters (the watchdog's)
  it is an input of a model.

### How the modelled parts interact

The control loop (`Brew`) calls the relay driver through the machine facade; the driver cuts
closures on its own and tells the loop through the trip flags, and the next boot through the
RTC words. `Brew` therefore takes of `RelaySafety` what `RelayContract` promises: a closure
that may be refused, may end at any moment with a trip flag, and stays open after a lockout
(`HardCut`, `WallCut`), in the paddle build, which has no logical run walls. A lockout sets no
flag; it comes with a refusal, or from the power profile and the watchdogs, which `Brew` models
itself (`PowerFault`, `WatchdogFault`). A cycle sends the scale its timer commands through the queue
of `ScaleCommands`; between cycles `IdleTare` shares that queue and one slot with the same
worker; both take the client library as a link that may drop and a write that may fail, which
is what `ScaleClient` looks into. A cycle also inhibits the machine's cloud service: `Brew`
keeps that gate as `outbound`, `MicraService` models the service behind it, and the cleaning
observations that pass from the service to the loop are `MachineBackflush`, which `Brew`
composes. The control task applies an edit to RAM and hands a copy of the whole settings record
to the settings worker; the network task composes its own copy for an admin command, which
needs the maintenance lease from the control task, or for the end of a Wi-Fi probation, which
does not (`SettingsStore`, and for the lease as the loop grants it `Brew`). The shot-store
worker receives images of the flash stores in the same way (`FlashLog`). A factory reset erases
the flash stores and then writes both settings slots. An update (`Ota`) waits for the same
quiet machine as a lease and ends in a planned restart.

## 2. The models

### RelaySafety

A step is a section of code that none of the other contexts can split: a section under
`relayMux`, one store of an RTC word, one call into a timer driver. `pc` names the section
the control task runs next and `call` holds the locals of the call it is in; the control
task runs one call at a time, and which call comes next is left open, so the invariants do
not depend on the orchestrator.

| Code | Actions |
|---|---|
| `setMachineCircuitClosed(true, ..)` | `CallClose`, `CallMirror`, `CloseSnapshot`, `CloseDisarm`, `CloseArming`, `CloseArmTimers`, `RecordInverse`, `RecordMarker`, `CloseCommit` |
| `setMachineCircuitClosed(false)`, `tripRelaySafety`, trip consumption | `CallOpen`, `CallTrip`, `TripSection`, `ConsumeHardTrip`, `ConsumeOperationalTrip`, `Cleanup` |
| `serviceLogicalRunWalls` of a momentary machine, which trips with `lockout = false` from any state | `CallWallTrip`, `TripSection` |
| `reassertCommandedRelayClosedPin`, `serviceRelaySafety` | `Reassert`, `Service`, `ServiceExpiry` |
| `promoteRelayBackflush` | `CallPromote`, `PromoteGpTimer`, `PromoteStop`, `PromoteStart`, `PromoteCommit` |
| `IndependentSafetyTimer`, its callback | `ArmGp`, `StopGp`; `GpAlarm`, `GpCallback`, `GpReturn` |
| esp_timer callbacks and their late RTC publication | `DispatchHard`, `DispatchOperational`, `HardCallback`, `OperationalCallback`, `TaskStoreInverse`, `TaskStoreMarker` |
| time, hardware | `Tick`, `PinDrops`, `WatchdogFault` |

A dispatched esp_timer callback keeps the age of the time stamp it read before it took
`relayMux`, and `Elapsed` wraps as the unsigned subtraction does. The interrupt *assigns*
the two trip flags where `tripRelaySafetyLocked` *adds* one; both are kept as they are.
`energizedFor` and `cut` are observers.

`RelayContract` is what the driver promises the machine facade: a contact that closes for a
granted time, may be extended once, ends by itself, keeps a cut noted until it is
acknowledged, and stays open after a lockout. One step ends a lockout, `WallTrip`, and only in a
machine with logical run walls, after the run has reached one (`ReachWall`): the code turns
LOCKOUT into TRIPPED there (`MachineRelay.h:46`), where the documents say that it is final
(section 5). `LogicalWalls` is TRUE in the runs; the module then has the promotions of the paddle
build and the walls of the momentary one, more than either build does. The mapping is at the end
of `RelaySafety`.

Merged or left out: reading `closingAtMs` belongs to the arming section (nothing else
writes it); compatibility mode is latched at boot, so it is a constant; the timer self test
at boot is the choice of `supervised` in `Init`; the panic and stack-overflow hooks force the
pin low just before a reset and belong to the reset guard; the build with external safety
hardware selects other pins and another supervision and is not modelled. An invalid RTC
record is initialised again by its next writer (`StoreInverse`), which also forgets the
reset history; the history itself is left for the reset guard's module.

### FlashLog

`live` is the store in RAM, `image` the worker's copy with the progress of its transaction,
`slots` the two flash slots. A body is `Pieces` separately erased and programmed pieces; a
header carries a generation and the checksum of the body it was computed from.

| Code | Actions |
|---|---|
| `append`, `removeById`, `updateRating` | `Mutate`, `Rate` (the latter bumps the generation, too) |
| `capturePersistenceImage`, `acknowledgePersisted`, `serviceShotStorePersistence` | `Capture`, `Acknowledge` |
| `flushStep`, `flashIoStoreStep` | `FlushStep`, `FlushStepFails` |
| `clear(persistNow)`, `save`, `persistMutation` | `Clear`, `ClearErase`, `ClearWrite`, `ClearFails` |
| `begin`, `load` | `Restart` |

A failing operation was not done, was done in part, or was done although it reports an
error; a loss of power interrupts an operation with the same outcomes (`Interrupted`). A
header is torn or whole, and a torn one may read as any generation. The records of a store
are one version number, because no property tells them apart.
Left out: read errors of the flash driver at boot, and a flash lock that is busy at boot
while the store in RAM is still zeroed (nothing else holds the lock then).

`DurableLog` is the promise: a restart recovers one whole version, at least as new as the
last one reported persistent and never newer than the last mutation.

### SettingsStore

The record is a runtime part (a version, 0 is factory) and a Wi-Fi part (identity,
probation, last known good). A slot is a record and its revision; the parity of the revision
chooses the slot.

| Code | Actions |
|---|---|
| edits, `dispatchSettingsPersist`, `serviceSettingsPersistResult` | `Edit`, `Dispatch`, `TakeResult` |
| `settingsPersistWorkerTask`, `waitForShotStoreWriteGate`, `savePersistedSettings` | `Admit`, `WorkerSaves`, `WorkerFails` |
| maintenance lease | `BeginLease`, `CancelLease`, `Forward`, `CompleteLease` |
| `processPersistedCommand` | `ProcessCommand`, `RefuseCommand`, `CommandSaves`, `CommandFails`, `ProcessReset`, `ResetSucceeds`, `ResetFails` |
| `confirmPendingNetwork`, `revertPendingNetwork` | `Probation`, `ProbationSaves`, `ProbationFails` |
| `resetPersistedSettingsToFactory`, `noteDurableStorageRevision` | `WipeFirst`, `WipeSecond`, `NoteRevision` |
| `setup`, `resumePendingBootRecovery`, `completeBootRecovery`, `abandonFailedBootRecovery` | `Restart`, `BootAbandons`, `BootCompletes` |

A restart, planned or by loss of power, may happen between any two steps. Composing a record
and putting it into NVS are two steps, because the flash lock is taken in between. An
immediate edit is always possible: the automatic time zone queues one at any time
(`persistence/OpenBrewByWeightCommandPersistence.inc:1250-1268`). `last`, `erased` and the flag
`behind` of `last` are observers.

Assumed and left out: an NVS put is atomic (NVS is external) and its read-back never
disagrees; the wrap of the 2^32 revisions; the other admin commands that save the record
(forgetting a network, passwords, the webhook), which do what `SAVE_NETWORK` does to other
data; the access-only reset, malformed intents and the unsafe override of the emergency
recovery; the gates that only delay a save (a brew in progress, a busy scale).

### Brew and MachineBackflush

`c` is everything the control loop owns: the cycle and its state, the circuit as the driver's
caller sees it, the trip flags, the guards, the pending finalization, the history row that is
owed. The functions of the code are operators from such a record to the set of records they may
leave behind, more than one when the relay may refuse. One pass of `loop()` is a few steps (`pc`), cut
where the relay's interrupts and the other tasks can change what a later section reads.

| Code | Actions |
|---|---|
| activator sampling, drive permission, wake gesture, backflush, start guards (`Entrypoints.inc:677-793`) | `Input`, `Gesture`, `GestureEdge` |
| `handleGlobalLimitTrip`, `handleOperationalLimitTrip` | `HardTrip`, `WallTrip`, `NoTrip` |
| `stateMachineTask` | `Cycle`: one of `CycleBypassed`, `CycleLeased`, `CycleOverridden`, `CycleServed` |
| `pendingShotFinalizeTask`, `processWebCommand`, the maintenance lease, a planned restart | `ServeCommand`, `LeaseDone`, `Leases`, `Restart` |
| the driver | `HardCut`, `WallCut` (external); refusals and lockouts in the closings (`Refusals`, `LockedOut`) |
| `servicePowerManagement`, `reportTaskWatchdogFault`, the restart they ask for (`Entrypoints.inc:730-743`, `:848-853`) | `PowerFault`, `WatchdogFault`, `Restart` |
| scale, cup, the integration's task | `ScaleChanges`, `MachineObserved` |

Durations are not counted: a deadline is met or not by choice of the step that reads it. The
weight arithmetic behind a cut is that choice, too (`AutomationEnds`). A lockout opens the
circuit and sets no trip flag; `c.fault` remembers what asked for a restart. For a power fault the
restart waits for the session, which goes on with an open circuit until its own end; for a watchdog
it does not wait (`RestartDue`). `Restart` begins the record afresh. `MachineBackflush` is
the episode the integration keeps of a cleaning: request, permit, attempt, fence and result.
Left out: the momentary machine's form of the cycle, the fast cup start, `unsafeWebUiOverride`,
the arithmetic of weights, the texts of results.

### Momentary

`m` is what the machine layer and its caller keep: the button, the pulse under way, the
inferred run, the skip flag, the walls. One pass of `loop()` is four steps; the group of the
espresso machine (does it brew?) and the reed's contact are external.

| Code | Actions |
|---|---|
| `updateActivatorInput`, `applyMomentaryStartStopEdge`, a disqualified press | `SampleInput` |
| `serviceMachine`: pulse, mirror, logical run walls, the sensors of both builds | `Service` |
| `updateControlStateMachine`, `beginCycle`, `machineRequestStart`, `machineRequestStop`, rinse | `Control` |
| `processWebCommand` (start, stop) | `Commands` |
| K1's own deadlines; reed; group | `LimitCuts`, `ReedFollows`, `GroupTurns` |

Durations are choices, as in `Brew`. The relay is a contact with a trip flag.

### ScaleCommands

| Code | Actions |
|---|---|
| `updateWorkerLinkState`, `setScaleLinkState`, `clearScalePowerOffLifecycle` | `Tick`, `ClearLifecycle`, `Report`; `ScaleConnects`, `ScaleDrops` |
| `takeScalePowerOff`, `executeScalePowerOffCommand`, its timeout | `TakePowerOff`, `SendPowerOff`, `WritePowerOff`, `PowerOffTimesOut` |
| `executeScaleCommand`, the beep mailboxes, `approveScaleWrite` | `TakeCommand`, `TakeBeep`, `NothingToSend`, `Admit`, `Write`, `PublishResult` |
| start and end of a cycle, the delayed STOP, its retries | `BeginCycle`, `EndCycle`, `StopIsDue`, `RetryStop`, `WindowCloses`, `Retare`, `RequestBeep` |
| `requestScalePowerOff` | `ReadForPowerOff`, `RequestPowerOff` |
| `processScaleWorkerEvents` | `ProcessEvent` |

A connection generation is a number the model keeps, as it is compared across steps; the device
remembers which cycle its timer runs for (`scale.timer`) and whether it was told to power off.
A START is the combined write, or up to three in a row, reset, timer and tare, each admitted for
itself (`FirstOps`, `NextOps`, `Continued`); one that has started the timer counts as done even if
the tare after it is refused. A write that fails may have been carried out. The queue refuses what
does not fit (`Accepts`): a STOP is then tried again while it has tries and time, a START or a tare
is lost.

### IdleTare

The slot shared by two tasks (`slot`), the request of the control task (`tare`), and the
samples both must agree on. Sequence numbers are kept as the relations the code tests: a sample
is approved while it is the newest published, `fresh` says nothing arrived since, `after` that it
was captured behind the boundary of the write.

| Code | Actions |
|---|---|
| notifications, the worker's reading of them | `Notify`, `ReadFrame`, `Poll` |
| `executeScaleTareCommand`, `approveScaleWrite`, `finishIdleScaleTare` | `TakeCommand`, `Capture`, `Admit`, `Expire`, `Write`, `Finish` |
| `serviceIdleTare`, `releaseIdleTareRequest` | `ServiceIdleTare` |
| `observeIdleTareSample`, cup events, accessory retares (`IdleTare.inc:459-521`) | `ReadSample` |
| a sample that is too old (`IdleTare.inc:252-266`); REFERENCE_CHANGED (`ScaleEvents.inc:434-451`) | `RejectSample`; `ReadNotice` |
| the tare of the debug page | `DebugTare` |
| `idleTareBlocksStart`, the end of a shot, a new link | `PaddleStart`, `WebStart`, `EndShot`, `ForgetCup` |
| the cup, an item laid on it, the link | `MoveCup`, `MoveItem`, `Reconnect` |

`pan` is the physical scale; the cup filter is reduced to when it *may* report a cup placed, removed
or to be tared again. A write that is reported as failed may have been carried out, and the old
reference is then restored although the scale reads zero. `pan.apart` observes that the cup was
zeroed in this way or from the debug page; in these two cases `ReferenceMatchesScale` says nothing
of an untared reference, because the code has no way to know (section 5). It still says that a
reference which is tared is of a scale that was zeroed, and in every other case both directions.

### ScaleClient

The worker and the host task in sections under the client's lock. A link belongs to an
operation, the number of the scan that led to it; every link has the same handle, as a
controller reuses them. A call into the host is four steps (check, submission, the host's
answer, what the caller does with it), so that callbacks fall between them.

| Code | Actions |
|---|---|
| callbacks of the host | `Advertise`, `ScanStops`, `ConnectDone`, `LinkEnded`, `GapCleanup`, `GapCurrent`, `GattDone`, `GattResult`, `PushEvent` |
| resets of the host | `HostReset`, `HostSync`; `SilenceEnds` |
| `submitRadioProcedure` and its callers | `Submit`, `Accepted`, `Refused`, `EndSubmit`, `Answered`; `BeginScan` |
| `service`, `popEvent`, `handleEvent`, deadlines | `Service`, `CheckHost`, `CheckPending`, `PopCritical`, `PopCandidate`, `PopControl`, `TimesOut`, `BackoffEnds`, `ServiceEnds` |
| `finishLink`, `invalidateGeneration`, `reconcileLinkCleanup` | `EndLink`, `Clear`, `Reconcile` |
| `startScan`, `disconnect`, `writeCommand` | `StartScan`, `Disconnect`, `Command`, `AwaitEnds`, `JudgeCommand` |

Abstracted: the settle time is zero; the queues are as long as they can get here, short of
their capacities of 6 and 12; the host synchronises when the worker is outside the
client; the completion of a scan in the state CancelPending begins that settle time (`BeginSettle`)
and ends it at once; the observer of acquisitions, the negative cache and received frames are left out.

### ScaleDiscovery

A step is one section under `scalePreferredMacMux`, one access to an atomic, or one call of
the client, which is `ScaleClient` reduced to idle, scanning, connecting and linked.

| Code | Actions |
|---|---|
| `publishScaleWorkerPolicy`, `selectPreferredScale`, `clearPreferredScaleCache`, `requestScalePreferenceModeReset` | `SetMode`, `Select`, `Forget`, `ChooserStep` |
| `servicePreferredScaleMacPersistence`, the save and its result | `Pass`, `WriteEnds` |
| one tick of `scaleWorkerTask`: reset check, link check, adoption, scan | `SeekerStep` |
| BLE switch, setup network, loss of the link | `SwitchBle`, `SetupNetwork`, `LinkLost` |

A `Dispatch` that finds the persistence queue full leaves the known identity updated and its
save pending. `ticks` runs modulo `ClockRange`, so that a pause can be met again when the clock wraps. Left
out: names, history, friendly names, signal strength, the power sync.

### MicraService

The worker holds a copy of what it works on, and the code's generation counters exist to tell it
that the copy is old. The model keeps the *set of counters that still agree* with the copy
(`job.holds`, `job.fresh`).

| Code | Actions |
|---|---|
| `physicalStart`, `inhibitCloud`, end of a shot | `ShotStarts`, `InhibitCloud`, `ShotEnds` |
| `queue`, `post`, `queueConnect`, `publishConfig`, `publishNetworkState` | `Post`, `ApplyPosted`, `PhysicalStart`, `QueueConnect`, `PublishConfig`, `NetworkState` |
| socket frames and its loss | `Push`, `Cleaning`, `SocketLost` |
| `taskLoop` and the executions | `Select`, `SelectNothing`, `Gate`, `Session`, `Send`, `Answer`, `Note`, `Read`, `Reading`, `ReadFails`, `Merge`, `Settle`, `List`, `Store`, `AttemptFails`, `Finish` |

Abstracted: the connection type is WEBSOCKET; the observe option is on; a retry that is not due
is a worker that does not choose it; station, access point, clock, maintenance and scale
acquisition are the one gate `up`; the optimistic display of the power is only the counter it
bumps; a relist is a connect; pushes arrive during reads only, where they matter.
`publishConfig` and `publishNetworkState` are one step each: the network manager preempts the
worker on their core (`Scheduling.h`).

Two limits of the properties. A request whose gate was checked just before a shot
(`requestAllowed`, `OpenBrewByWeightMicraService.cpp:2523`) may still leave with the call at
`:2534`: what the model excludes is that its answer is taken. And *accepted* means that the
worker kept the 2xx answer: one that was lost, or discarded by a cancel (`:2535-2539`), is not
known, so the command, which sets an absolute value, is sent again.

### Ota

Every method holds the one OTA mutex, so a request is one operation, cut into steps where the
power may fail between two writes. An image is `Sectors` pieces; a slot is a sequence of the
images its pieces come from, `"junk"` for a torn or blank one.

| Code | Actions |
|---|---|
| `createSession`, `persistSession`, `clearJournal` | `CreateSession`, `EraseKey`, `EraseFails`, `BeginSession`, `Persist`, `PersistFails` |
| `writeRange` | `Patch`, `WriteSector`, `RangeFails`, `RangeEnds`, `Stage` |
| `commit`, `discard`, `expireSession` | `Commit`, `Discard`, `SessionExpires`, `EraseStale` |
| `begin`, `restoreSessionJournal`, `serviceBoot`, `rejectRunningImageLocked` | `Boot`, `RereadState`, `ConfirmImage`, `DeadlinePasses`, `Restart` |
| a loss of power; the machine at rest or not | `PowerCut`, `MachineMoves` |

The bootloader with its otadata is external: an image on trial that resets is aborted, a slot
that does not verify is passed over. SHA-256 is equality. Left out: the answer to a repeated
range (it changes nothing), the image tag's fields (they are a way of `RangeFails`), failures of
allocation. `idle` stands for `controlAllowsConfiguration` and the gates of `serviceBoot`.

### WifiSetup

`w` is what the network task keeps, `w.c` the durable configuration. Its service pass is four
steps (`WifiPass`); between them act the HTTP task, the control task, the driver and a phone.

| Code | Actions |
|---|---|
| `processAcceptedMaintenanceCommand`, `processPersistedCommand`, `handleCliNetworkAction`, live apply | `ServiceCommands` |
| `confirmPendingNetwork`, `revertPendingNetwork` | `ServiceConfirm` |
| `serviceStaState`, `beginStationConnect`, the backoff | `ServiceSta` |
| scan, idle time-out, teardown and restart of the SoftAP | `ServiceRest` |
| the admin page, the setup page, a refused scan, a cancelled lease | `AdminAsks`, `PageConfirms`, `PageFinishes`, `ScanIsRefused`, `LeaseIsCancelled` |
| driver, phones, power | `Associates`, `AssociationFails`, `LinkDrops`, `PhoneMoves`, `PowerCut` |

Left out: the brewing choice of `SetupIntent`, power save, mDNS, the captive DNS server, NTP.

### Webhook

`hook` is what `mux_` guards, one short section per step; `hook.lock` is `lifecycleMutex_`.

| Code | Actions |
|---|---|
| `enqueue` (control, HTTP task) | `Posts`, then `Caller`: `ReadsConfig`, `TriesLock`, `SendsToQueue`, `Counts` |
| `setConfig`, `startWorker` | `SavesConfig`, then `Caller`: `StartTakes`, `WorkerRuns` or `WorkerRefused`, `StartGives` |
| `task`, `send`, `releaseWorkerFromTask` | `Worker`, `BackoffEnds` |
| shots, acquisitions of the scale, Wi-Fi | `Gate` |

Left out: `stop()` of a running dispatcher, a failing `begin()`, the payload, statistics.

### WebAccess

A step is one section under `dataMux_`: the record in RAM (`login`), the one writer of it, the
browsers with their cookies, Home Assistant with its token.

| Code | Actions |
|---|---|
| sign in, sign out, sign out others, a visit, switching the login on and off | `Begins`, `SignIn`, `SignOut`, `SignOutOthers`, `SignOutOne`, `Visit`, `TurnOn`, `TurnOff` |
| pairing with Home Assistant | `StartPairing`, `ShowPrompt`, `Answers`, `AskStatus`, `Exchange`, `PairingTimesOut`, `ForgetHomeAssistant` |
| the change of the device password | `AskChange`, `TakeKeep`, `RevokeForChange`, `ChangeOverUsb`, `ResetPassword`, `SignAllOut` |
| `serviceWebAccess`, the store | `CopyRecord`, `WriteRecord`, `WriteFails`, `MarkAgain`, `LoadsRecord` |

Left out: how a password is checked and the cooldown, the admin unlock, labels, the notice, the
factory reset of the record.

### Buzzer

One sound plays, one waits. An operation is one section under the buzzer's mutex; the loop and
the esp_timer's task both run `service`.

| Code | Actions |
|---|---|
| `request`, `acceptLocked` | `Request` |
| `stopIf`, `stopAll`, `stopPulseTrains`, `stopExtendedPulse` | `StopSound`, `StopAll`, `StopPulseTrains`, `StopExtendedPulse` |
| `service` from the loop; the timer, its late callback | `LoopServices`; `TimerFires`, `Callback`, `PhaseElapses`, `DeadlinePasses` |
| trying out and saving a melody | `BeginTest`, `SwapNotes`, `TestPlays`, `SaveMelody` |

Left out: which cue an event is routed to, lengths and pitches, a failing `begin()`.

### UiStream

A page opens one of the socket slots, binds it, and subscribes to views. What it was told is kept
as fingerprints in the session, and only differences are sent; a page and its session are two
records, and a frame is applied to the page when it is written. Every operator on the way of a
frame yields the set of what may come of the write: told, dropped cleanly, or broken.

| Code (`network/OpenBrewByWeight*.inc`) | Actions and operators |
|---|---|
| `uiStreamHandler` (`UiStream`): bind, activity, resync, subscribe, fetch, an invalid operation | `Bind`, `Activity`, `Resync`, `Subscribe`, `Fetch`, `BadOp` |
| sockets: handshake, `uiStreamFree`, time-outs, a page that leaves | `Open`, `Close`, `BindTimesOut`, `GoesSilent`, `Leave` |
| `serviceUiStream`, the work httpd runs (`UiStream`) | `Queue`, `Busy`, `Begin`, `Serve` |
| `sendUiStream`: Home and card in one write, with its rollback | `SendHome`, `SendCard`, `SendBatch`, `RolledBack` |
| the coalescing buffer (`UiStreamTransport`) | `Write`, `Put`, `Follows`, `Flushed` |
| `sendDiagnosticStream` (`AuditStream`), `sendSettingsStream`, `sendLogStream`, `sendHistoryStream` | `SendDiagnostic`, `SendSettings`, `SendLog`, `SendHistory` |
| `sendStatsStream` (`HomeStream`, `StatsPage`) | `SendStats`, `BegunPage`, `Delivered`, `Stopped` |

One value stands for the fields of a view, one list for the records of History and Stats. Left
out: the fields themselves, sorts, filters and windows of the lists, request ids, the REST
endpoints, the response buffers.

## 3. Runs

Passing runs:

| Run | Shows | Bounds, and why they are enough |
|---|---|---|
| `relay_driver` | The invariants of the driver, that an old alarm never cuts a new closure, and that a limited closure ends even if the control task hangs inside any call; with refusing timers, a dropping output and, on top of the paddle's calls, the walls of a momentary run | limits of 0, 1 and 2 ticks (invalid, operational, hard), backflush 4, a callback late by one tick, two generations (so that a wrapped generation is met) |
| `relay_compatibility` | The driver implements `RelayContract` where normal closures have no limit: of all that may happen, only the wall of a logical run ends a lockout; without GPTimer refusals, under which a failed promotion has no bound until its trip, and with a failing watchdog | as above |
| `settings` | A restart loads the record put last, with all writers, failures and power losses, and every edit reaches flash in the end | two edits (one in flight while the other is made), one new Wi-Fi configuration, four revisions (both slots written, one replaced), one attempt of a command (`MaxRevision` bounds the revisions only so that the state space is finite; a run of the model that has used them up cannot save, and the property about the edits does not speak of it); RESTART is left out, as it saves the record as it is; the probation writers are on: what they lose for a time (section 5) is saved again |
| `brew` | The properties of the control loop, under every order of gestures, cuts, refusals, guards, scale events, commands, leases and cleaning observations | three brewing configurations (one per relay mode and no-scale policy, one with the cup guard), each with refused closures, lockouts, power and watchdog faults, and one for cleaning without scale, rinse, web or these two faults, which are met in the other three; `Capacity` 2 for the 8 observations kept, so that one is lost |
| `scale_commands` | A command reaches the shot and connection it is for, a power-off holds, the timer is stopped | two cycles on one connection with two free entries of the queue, or one cycle on two with one, so that it is full; two attempts of STOP; a START of one to three writes, any of which may fail with or without effect; one beep mailbox, as the three are served alike |
| `idle_tare` | What the control task believes of the cup is what the scale was told, but for the two ways it cannot know of; no claim in a shot | two requests, two moves of the cup or of an item on it, one shot, two connections, one notification that is no weight, one tare of the debug page; two samples in the window, so that it overflows; one free queue entry, so that it is full |
| `scale_client` | One owned link, silence, cleanups that end | two scans (a late callback meets its successor), one command, one reset of the host, a refusing radio |
| `micra` | Shots cancel commands, accepted ones are sent once, the status is of this account, temperatures settle | one temperature (a newer wish for the same one is a new request), two of four attempts, two outside events per behaviour: an interruption and one on top of it |
| `ota` | Resumption is exact, the declared image is staged, something boots, a trial ends | two images, three pieces with a checkpoint after each, three events (sessions, discards, resets): an upload, a loss of power and a resumption or a new upload |
| `services` | Safety of the seven parts of `MCServices`, one part per behaviour | per part: three mutations and six generations of the flash store; two events at a momentary machine; two posts to two receivers, a queue of two, a saved configuration; two scales, one change of mind; one browser, one slot, one token, one pairing, a restart, a failed write; three sounds; one page on one slot that opens twice, all five views, one operation, one failed write, one change |
| `wifi` | A configuration is confirmed only if the station joined it; a probation ends | one known and one new network, two attempts, two outside events |

One run finds a disagreement: `momentary_cut` (with `MCMomentary`, the build with a reed). A
press that stops a group which ran without a session leaves `momentarySkipFirmwareStopPulse` set,
and the next shot's cut at its weight sends no pulse (`MachineMomentaryControl.h:236`).
`docs/settings/momentary.md:87-90`: "At the weight endpoint, a stop pulse is sent".

`services` was also run with larger bounds for the part that it keeps smallest, the live stream:
two sockets and two openings with Settings (391 k states), two operations on one socket with all
views (308 k), three ways a card may fit (127 k); and its inductive invariant with two pages, two
sockets and Stats (7 M states).

Configurations in this directory that are not among the runs check more of the same modules:
`discovery` (`OnlyMeansOnly`: a link to a scale that is not chosen does not last), `webhook`
(`SupersededHasSuccessor`, `EventSettles`), `buzzer` (`TestTuneIsForTheTest`, `SoundsEnd`),
`web_access` (`ApprovesWhatWasShown`), each under the fairness of its module. The modules also
state, unused by a run, `MirrorIsNotTimed` (`RelaySafety`), `SlotIsOwned` and `RequestEnds`
(`IdleTare`), `OkIsAcknowledged` (`ScaleClient`), `RequireNeedsScale`, `NoRecloseInHold`,
`RestartIsKept` (`Brew`), `NoUnaskedAp` (`WifiSetup`), `K1HasReason` (`Momentary`). Of all these,
`SupersededHasSuccessor`, `MirrorIsNotTimed`, `SlotIsOwned`, `OkIsAcknowledged`, `K1HasReason`,
`RequireNeedsScale`, `NoRecloseInHold` and `RestartIsKept` are proved (section 4).

`CHECK_DEADLOCK` is off in `idle_tare`, `scale_client`, `micra`, `services` and `wifi`, where the
environment's budget may be spent with every task at rest; elsewhere nothing may stop.

### Fairness

* `relay_driver`: time passes, the interrupt is served, and the esp_timer task runs (weak
  fairness of `Tick`, `Interrupt`, `TimerTask`). The esp_timer task is
  pinned to the core that control does not use (`src/idf/sdkconfig.defaults:74`, `Scheduling.h:54`)
  and the interrupt needs no task. **Nothing** is assumed of the control
  task.
* `settings`: every task keeps running (weak fairness). `Dispatch` and an
  admitted `Admit` are strongly fair: an administrator does not issue commands so fast that the
  lease never leaves the worker a turn. `WorkerSaves` is strongly fair: a save repeated for ever
  succeeds some time. The property excuses what ends the run of the model (`MaxRevision`
  reached), an interrupted or finished factory reset, and the lost revision note.
* `scale_commands`: the two tasks run. (`IdleTare` states the fairness of `RequestEnds` as well,
  of which no run makes use.)
* `scale_client`: the worker calls `service` in every pass, a callback that began ends, the quiet
  time passes. Strong where the radio may refuse for a while: a termination asked for again and
  again is accepted at last, a connection attempt is answered (the host has a timeout of its
  own), a link told to close closes (the supervision timeout).
* `micra`: the tasks run, shots and cleaning programs end, the network comes back. Strong for
  what the cloud decides: a command tried for ever is answered, and the dashboard shows in the end
  what the command asked for. Without the last, a temperature is not settled: a command that was
  accepted is read back without a limit of attempts.
* `wifi`: the network task runs its pass, and again and again a pass that meets no shot, no busy
  control task, no refused write and no missing memory (strong); an attempt to associate is
  answered. The property excuses a phone on the setup network, a scan under way, and a station
  that is held while there is no setup network.
* `ota`: operations end, the device boots, the machine comes to rest again and again, and the
  deadline of a trial passes.

## 4. Proofs

No constant is bounded in the proofs; they use only the assumptions stated with the constants
(`LimitsAssumption`, `ModeAssumption`, `BoundsAssumption`, `CapacityAssumption`, `ClientAssumption`, `FlashAssumption`, `SettingsAssumption`,
`MicraAssumption`, `OtaAssumption`, `DiscoveryAssumption`, `WebAccessAssumption`,
`WebhookAssumption`, `WifiAssumption`, `BuzzerAssumption`, `UiStreamAssumption`), all of them
evaluated by the runs; those about the control loop use none. Each proof module states an inductive invariant, proves that `Init`
implies it and every action keeps it (one step or lemma per action), and derives the theorems.

* **RelaySafetyProofs.** `OutputImpliesCommand` and `ContactTimeBound` are not inductive:
  whether the commit finds a deadline armed was decided three sections earlier. `IInv` carries
  it along: `CloseIsValid`, `LimitsAgree` and `ArmedBeforeCommit` describe a close under way,
  `Deadline` (with `Guarded`) says that the GPTimer will cut the closure within its limit, and what
  holds while a promotion replaces it, `AlarmIsDue` that an armed alarm is not early,
  `OpenRecorded` how far the RTC words are, `CutKept` and `NotLockedOut` what a caller may rely on (a wall's trip is a call of its own, so that no
  close is under way when it ends a lockout).
  `AlwaysSupervised` needs one more invariant, `HardBackup`: wherever a closure may have lost its
  GPTimer, the hard timer was armed for this closure's generation (`Backable`, `HardWillCut`), so
  that no order of the sections of a promotion leaves a closed circuit with neither.
  Theorems: type correctness, `OutputIsCommanded`, `ContactIsBounded`, `OpenIsRecorded`,
  `CutIsKept`, `AlwaysSupervised`, `LockoutStays` (`LockoutEndsAtWallOnly`), `AlarmIsNeverStale`, and, if the GPTimer driver
  does not refuse, `DriverImplementsContract`; and `MirrorsAreNotTimed`, which needs beside `IInv`
  only that the two limits are unlimited together. `OutputIsCommanded` and `LockoutStays` are proved
  only; no run spends a property on them.
* **SettingsStoreProofs.** Whether a save wins depends on the slot it leaves alone
  (`NextSaveSafe`); while a factory reset has written flash but not told RAM, `Numbers` keeps the
  bounds that restore it, and that the reset's lease keeps every writer out but a worker
  admitted before. Theorems: type correctness, `LastPutIsLoaded`, `NextSaveIsSafe`.
* **OtaProofs.** An update is written only by a session over a confirmed image (`Sessions`), the
  image that runs is whole, and while it or a new one is on trial the other one is whole
  (`RunningSlot`, `NewImage`); `SomethingBoots` rests on these. `Records` ties every record of the
  journal to the session that was created last and to what the client had accepted up to its
  offset, also through a power loss in the middle of an erasure.
  Theorems: `Inductive`, `ResumesExactly`, `StagedAsDeclared`, `AlwaysBoots`.
* **MicraProofs.** The worker copies a request, the configuration and the account's identity in
  sections of its own, so each property needs to know which copies are still current where the
  worker stands: `CrossedIsCanceled` (a command that a shot has crossed waits for its answer, and
  the shot still runs or has told the worker to abort), `Identity` (a worker that copied another
  identity has been told to abort), `Acceptance` (what the cloud has accepted is remembered with
  the desire, or about to be, or of a shot that has passed). Theorems: type correctness,
  `ShotCancels`, `ShowsIdentity`, `AcceptedOnce`.
* **ServicesProofs**, an invariant for each of five components.
  *WebAccess*: `Marks` (an operation that changes the record marks it for a save) gives
  `NoSessionIsForgotten`. *Webhook*: `Fits` (an event of the present
  generation carries the present address) and `Aimed` (the worker's client is connected to the
  address of its event) give `OnlyItsReceiver`. `Counted` (`newer_` is the number of states that
  wait, with the one the worker has just taken and has not uncounted, without the one that control
  has sent and not yet counted: for a moment it may be one too low, never too high), `Ordered`
  (states are taken, wait and are sent in the order in which they happened) and `Holders` (who
  holds `lifecycleMutex_`, and that without a worker nothing waits and nothing is counted) give
  `SupersededHaveSuccessors`. *WifiSetup*: `Untried` (on probation and never
  joined) implies `Awaited` (a restart or the live apply is about to try it, or the station has no
  link but to it), which gives `OnlyJoinedIsConfirmed`. *Momentary*: `Grounded` (what is believed
  of the group was seen, also in the picture kept from the moment a button went down) gives
  `NoBlindStop`. `ContactsHaveReasons` proves `K1HasReason`, which is inductive: the belief
  in the group never touches the contact (`Leaves`), the pulses, trips and requests keep a closed
  contact its reason (`Minds`), and the drive that follows each sample of the button restores one
  whatever the sample was (`DriveMinds`).
  *IdleTare*: `Owned` ties the slot to the request of the control task, and `Single` says that a
  request is in the queue or with the worker once and in neither after it succeeded; without it a
  slot that was released and taken again could be written twice. `Written` (while a request is
  written the worker reads nothing and the window is empty) and `Granted` (no approval stands for
  a request whose cup moved or whose shot began) are what make a write belong to what was seen
  before it. `Believed` and `Weighed` hold for a cup that was put on once, as
  `ReferenceMatchesScale` speaks of no other, and relate the zero of the scale, with or without an
  item on the cup, to the belief and to `apart`.
  Theorems: `TareInvariance`, `SlotsAreOwned`, `NoClaimsInShots`, `ReferencesMatchTheScale`.
* **ScaleProofs**, for four components of the scale.
  *ScaleCommands*: `CommandIsForItsShot` looks at the moment of a write only. `Order` carries it
  from the moment a command is queued: the queue is `Sound` (no STOP of a shot waits behind the
  START of a later one), every STOP that waits is of the shot the device's timer runs for or of a
  later one (`After`), the same of the job in hand, and that job is of the present generation, between
  the writes of one START as well.
  `Generation` says that a power-off is blocked and pending for one generation, no later than the
  link's, that a caller who read an earlier link finds the present one unblocked, and what the part
  of a link change that is still to come will clear; `Told` that a scale which was told
  to power off is blocked and that nothing is being written to it. Theorems: `CommandInvariance`,
  `CommandsAreForTheirShot`, `PowerOffsHold`.
  *ScaleDiscovery*: `HandedOver` (a preferred scale without a mark is the
  one that flash, or the copy on its way to flash, holds) gives `NoChoiceIsForgotten`; scales'
  addresses are not among the model's own tags. *Buzzer*: `OrderlyWait` (a sound waits only behind
  one that ends by itself) and `Kept` give `NoWaitingAlarmIsLost`, for a catalog in which no alarm
  loops.
  *ScaleClient*: a call into the host is four steps and any callback may fall between them, so
  none of the properties survives a step alone. `Phases` relates the place of the worker to the
  state and the operations of the client, also for the answer of a call that comes back to a client
  that a callback changed meanwhile; `OnTheAir` says that an attempt or a link is of the operation
  in use or of the one being cleaned up, and how far that one is; `Cleanups` that the cleanup holds
  its handle while the link lasts and has no other link to terminate. Handles are reused, and
  callbacks are late: `News` bounds every operation that may still be met by the newest one that
  reached the air (`Newest`), so that a new scan can be mistaken for none of them, and `Mail` says
  the same of the events that wait, and that the end of a link is not queued before the client knew
  of it (`Heard`). `Silence` covers the moment at which the quiet time has begun on the air and the
  submission in progress has not yet armed it. `Acks` orders the GATT operations of a link by stage
  and command (`Rank`): a result is of the operation in use only if the peer's acknowledgment is.
  Theorems: `ClientInvariance`, `LinksAreOwned`, `SilencesAreKept`, and `OksAreAcknowledged`, on
  which no run is spent.
* **HistoryProofs**, for the store of the shot log and for the stream that shows it.
  *FlashLog*: `Sound` describes both slots relative to the one the next transaction
  leaves alone, for the reported and the newest version and the newest generation used; it is
  stated over arbitrary slots, so that it also covers every outcome of an interrupted
  operation. `InvWorker` and `InvClear` say how far the two kinds of transaction are. Theorems:
  type correctness, `Survives`, `CleanIsDurable`, `FlashImplementsDurableLog`.
  *UiStream*: a snapshot spans many deliveries, in which a queue may refuse, a socket may
  be closed and opened again and the device may change. `SessionsInStep` says of every session at
  rest that its page is bound and holds what the session counts as shown, a page of Stats under way
  included (`InStep`, `Assembles`), or that it owes the page everything (`Fresh`); through a
  dispatch the same is carried from delivery to delivery. Theorems: `SessionsStayInStep`, `OnTopOfWhatIsShown`.
* **BrewProofs.** The handlers are operators on the loop's record, so most lemmas are about them:
  what a handler leaves of a record that is `Well` (`Outcome` for the rest of a pass, `Carried` for
  its beginning, `TripOutcome` for the trips). `Owners` and `Circuit` are what a closure and its row
  belong to; `Session` what a cycle keeps. They are not enough: `WakeInv` says that a wake gesture
  still has the paddle on where a pass steps over it; `TripInv` that a trip which nobody has taken
  notice of finds no paddle edge to close the circuit for again, `Pad` that the edge and the
  intention of a pass agree with the levels; `AttemptInv` that an attempt of the integration which
  was not given back keeps every other start away, also where the loop works with a snapshot that
  is older than the service. No setting is fixed, so the theorems also hold for the mixtures of
  settings that the run leaves out. Theorems: `BrewInvariance`, `ClosuresHaveOwners`, `CutsAreTold`,
  `HistoryIsKeptExact`, `ShotsLeaveNothing`, `LeasesAreQuiet`, and three action properties on which
  no run is spent: `HoldsStayOpen`, `RestartsAreKept`, `ShotsAreMeasured`.

Proving also corrected the models: three operators (`ServeCommand` and `ReedSensor` of
`Momentary`, `Session` of `MicraService`, `Outcome` of `ScaleClient`) were written as `CASE`s with
arms that overlapped, of which TLC takes the first and the logic any; they are exclusive now, in
the order in which the code tests.

Only model-checked: liveness, since the prover handles no fairness; and the counterexamples.

## 5. Known disagreements

Where the code does other than a document or comment says. `momentary_cut` (section 3) is the one
among the runs. For each of the others a configuration makes TLC print the behaviour
(`tlc -config <name>.cfg <module>`). The first table's configurations are in this directory;
the second says how to derive one.

| Configuration, module | What happens |
|---|---|
| `relay_mirror`, `MCRelaySafety` | The paddle mirror sees K1 closed, a deadline trips it, and the mirror's call finds it open and closes it for a new limit (`MachineRelay.h:314`). `docs/STATE_MACHINES.md:306`: "the ON-only mirror must not re-close". |
| `relay_marker`, `MCRelaySafety` | The esp_timer task publishes OPEN after it left the lock; a closure committed in between runs with an OPEN or torn record, so that a reset during it is not classified as one (`MachineRelay.h:105`). `docs/STATE_MACHINES.md:250`. |
| `settings_confirm`, `MCSettingsStore` | The worker saves the PENDING Wi-Fi part it copied before the configuration was confirmed (`CommandPersistence.inc:994`). `docs/STATE_MACHINES.md:942`. |
| `brew_circuit`, `MCBrew` | A hold whose drive was refused before the session began is cut by `applyPaddleRelayDrive` with no trip flag, and the session goes on with an open circuit (`MachinePaddleControl.h:13`). `docs/STATE_MACHINES.md:208`. |
| `webhook_enable`, `MCWebhook` | A test reads the receiver as disabled and asks the worker to stop after it; a receiver that is enabled in between is left without a worker. The comment at `Webhook.cpp:156` says "keeps the running worker alive". |
| `wifi_apstop`, `WifiSetup` | `AP_STOP` does not stay in effect: a pass that serves another reason opens the setup network again. `docs/SERIAL_CLI.md:73-76`. |

| Property, from which configuration | What happens |
|---|---|
| `FactoryResetErases`; `settings_confirm` with `LeaseFreeSaves = FALSE` | The worker passed its gate before a factory reset, and saves the old settings after it (`CommandPersistence.inc:785`). The comment at the gate says "never resume over a factory reset". The same window lets it overwrite the Wi-Fi part of an admin command that was reported as persisted. |
| `ReportedEditLoads`; `settings_confirm` with `Commands = {"SAVE_NETWORK"}` | The end of a Wi-Fi probation saves runtime settings that it copied before an edit the worker then saved and reported (`Wifi.inc:227`). `docs/STATE_MACHINES.md:1030`. |
| `BackflushIsRecorded`; `brew_circuit` with `Configs <- CleaningConfigs` | A backflush that the hard limit ends gets no row in the activation history (`ControlStateMachine.inc:564`, `WakeGesture.inc:3`). `docs/STATE_MACHINES.md:1052`. |
| `ConfirmedByReadback`; `micra` with `MaxEvents = 3` | A temperature is confirmed by a value read before its command, when the reading after the command is lost with its connection (`MicraService.cpp:2221`, `:1472-1485`, `MicraObservation.h:87-90`). `docs/MANUAL_TEST_PLAN.md:371`. |
| `LockoutLasts`; `momentary_cut` | The logical run wall turns a LOCKOUT into a plain trip (`MachineMomentaryControl.h:178-201`, `MachineRelay.h:46`; the contract allows it there and nowhere else). `docs/STATE_MACHINES.md:252`. |
| `MelodyHoldsNoAlarm`; `buzzer` without tests and timer failures | An alarm is refused while a melody waits behind another sound, which the comment at `Buzzer.h:524` rules out for a melody that plays (`Brew.h:611-612`). |
| `PauseIsBrief`; `discovery` with one scale, `PREFER`, `ClockRange = MaxClock = 8` | The end of a pause that is not looked at for half the range of the clock lies in the future again, and the search pauses once more (`ScaleWorker.cpp:1775-1784`). `docs/settings/scales.md:175`. "No preferred scale", given between the check and the note, is overwritten by the scale just found. |
| `WhoAskedStays`; `web_access` with two devices and slots, `MaxChangesQueued = 2`, `MaxTokens = 2`, no days or pairings | A password change that was asked for while the login was off keeps no session: a login turned on before it is applied signs out who asked as well (`WebAccessHttp.inc:106-117`). `docs/MANUAL_TEST_PLAN.md:291`: "only phone A stays signed in". |
| `OnlyTransitionsDrop`; `webhook_enable` | An event is dropped because a test holds the lock, which it takes although the worker runs already; the comment at `Webhook.cpp:455-456` says that this "only fails during a worker start/stop transition". |
| `ScanEndsAtLast`; `wifi` | A scan that is admitted while a restart waits holds the lease that the restart waits for, and the pass that would start it returns at the restart (`NetworkService.inc:610-622`). |
| `HeaderIsShown`; `UiStream` with `Views = {"stats"}`, `MaxUiChanges = 3`, `MaxOps = 1` | Another preset chosen in the middle of the statistics page recomputes the fingerprint with the new header; the page completes with the old one, the next dispatch finds the fingerprint equal and adopts the preset, and the header is never sent (`HomeStream.inc:1407`). |

Met on the way, without a configuration:

* `noteDurableStorageRevision` gives up silently when the flash lock times out, after which RAM
  numbers its saves from an old revision and one of them may lose against the factory record
  (the exception `behind` of `LastPutLoads`).
* An esp_timer callback stamped before a new closure cuts it early (`Elapsed`), which is safe but
  not "ignored".
* An admin command that fails after an earlier one has saved cancels the restart the earlier one
  asked for (`HttpLifecycle.inc:468-470`): a factory reset is not followed by its restart, and the
  page can confirm a network configuration that was never tried (`NetworkSetup.h:78-80`; the
  exception `w.dropped` of `ConfirmsWhatWasJoined`).
* `AP_START` that fails after the setup network has given up leaves the station held with no
  setup network, and the window of a probation does not run down while the station is
  disconnected and a phone is on the setup network.
* `reportControlCommandResult` drops a result while an earlier one waits to be taken
  (`CommandPersistence.inc:353-368`).
* `resetAllDurableStoresForNetwork` returns early without bumping the dirty generation of the
  stores it already wiped (`CommandPersistence.inc:172-203`).
* After a backflush that a trip ended, the integration's attempt stays open and blocks the next
  start as busy, until the integration's own end of the episode (the exception `owed = "missed"`
  of `ClosureHasOwner`).
* A restart drops a shot whose finalization is pending.
* A STOP that found no room in the queue until its tries or their time were used up is given up,
  and the scale's timer runs on (the excuse `NoRoomForStop` of `TimerIsStopped`).
* A result of the timer's STOP that comes after the epoch changed is dropped, and not retried.
* An idle tare whose write is reported as failed although the scale carried it out leaves the
  reference of an untared cup, and so does a tare of the debug page whose REFERENCE_CHANGED is read
  before the cup is noticed (`pan.apart`; `ScaleWorker.cpp:719`, `IdleTare.inc:138-141`).
* A power command that is posted, because the mutex was taken, carries no shot generation
  (`docs/STATE_MACHINES.md:1079`).
* `journalStale_` is in RAM only: an upload that was discarded while its keys could not be removed
  comes back after a restart (`Ota.cpp:575`; `docs/P2_RESOURCE_BUDGETS.md:886`). What is resumed
  is still exact (`ResumeIsExact`).

## 6. Not modelled, and what comes next

* **Boot**: classification of a reset from the RTC words and the reset history, the boot loop
  guard, emergency recovery's gesture, panic hooks, the crash archive. Next in line: it composes
  with the two words of `RelaySafety` and with the boot of `SettingsStore`.
* **Several stores behind one worker** (`serviceShotStorePersistence`, the generations of
  `resetAllDurableStoresForNetwork`), each of which is a `FlashLog`.
* **Around the services**: the REST endpoints and pages in front of `WebAccess`, the choice of
  which event sounds which alert in front of `Buzzer`, the HTTP transport under `Webhook`, the
  wire format of `UiStream`, DNS and NTP beside `WifiSetup`.
* **Learning, presets, corridor, predictor, flow estimation**: floating-point filters, which TLC
  cannot check in a useful way; where their verdict matters it is a choice of the models.
* **Power policy, LED**: pure policies or output.
* **Time zone tables, diagnostics, serial CLI, web pages, scripts**: data, reporting, formatting.
