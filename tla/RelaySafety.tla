----------------------------- MODULE RelaySafety -----------------------------
(***************************************************************************)
(* The K1 relay driver of src/src/OpenBrewByWeightMachineRelay.h with the   *)
(* deadline timer of OpenBrewByWeightHardwareTimer.h and the two RTC words  *)
(* of OpenBrewByWeightResetGuard.h that say whether K1 is commanded closed. *)
(*                                                                         *)
(* Three contexts touch this state and a step below is one section of code  *)
(* that none of the others can split:                                       *)
(*   - the control task, one call at a time; pc names the section to run    *)
(*     next and call holds the call's locals;                               *)
(*   - the GPTimer interrupt (GpAlarm, GpCallback, GpReturn);               *)
(*   - the esp_timer task, which runs both deadline callbacks one after the *)
(*     other; task holds its position and how old its time stamp is.        *)
(* A section under relayMux is one step.  recordRelayCommandedClosed takes  *)
(* no lock and is two steps, one for each word it stores.                   *)
(*                                                                         *)
(* Time is counted in ticks.  closedFor is millis() - circuitClosedAtMs;    *)
(* timers hold the ticks left.  The interrupt is served within its tick,    *)
(* the two tasks may be delayed.  CompatibilityMode is fixed at boot.       *)
(*                                                                         *)
(* The build modelled has no external safety hardware                       *)
(* (EXTERNAL_SAFETY_HARDWARE_PRESENT is false).  Only paddle builds promote  *)
(* backflushes and only momentary builds have logical run walls; an          *)
(* instance with LogicalWalls has both, a superset of either build.          *)
(***************************************************************************)
EXTENDS Integers

CONSTANTS
    HardMax,            \* HARD_MAX_CIRCUIT_CLOSED_MS, in ticks
    BackflushMax,       \* BACKFLUSH_MAX_CIRCUIT_CLOSED_MS, in ticks
    CloseLimits,        \* operational limits the callers pass
    CompatibilityMode,  \* firmwareCompatibilityMode(), latched at boot
    LogicalWalls,       \* a momentary build: serviceLogicalRunWalls runs
    MaxCallbackDelay,   \* bound: ticks from a callback's time stamp to its lock
    Generations,        \* relaySafetyGeneration counts modulo this (2^32)
    Faults              \* the hardware faults that may happen

ASSUME LimitsAssumption ==
    /\ HardMax \in Nat /\ BackflushMax \in Nat
    /\ 0 < HardMax /\ HardMax < BackflushMax
    /\ CloseLimits \subseteq Nat
ASSUME ModeAssumption ==
    /\ CompatibilityMode \in BOOLEAN /\ LogicalWalls \in BOOLEAN
    /\ MaxCallbackDelay \in Nat
    /\ Generations \in Nat /\ 1 < Generations
    /\ Faults \subseteq {"gptimer", "esp_timer", "pin", "watchdog"}

VARIABLES
    \* written under relayMux
    relaySafetyState, circuitClosed, pin, generation, closedFor,
    hardLimit, operationalLimit, purpose, hardTripped, operationalTripped,
    \* the timers
    gp, hardTimer, operationalTimer, task,
    \* the RTC words
    marker, markerInverse,
    \* the control task
    pc, call, supervised,
    \* observers: ticks since the running closure was committed; a safety trip
    \* opened a committed closure and no trip has been consumed since
    energizedFor, cut

lockVars  == <<relaySafetyState, circuitClosed, pin, generation, closedFor,
               hardLimit, operationalLimit, purpose, hardTripped,
               operationalTripped, energizedFor, cut>>
timerVars == <<gp, hardTimer, operationalTimer>>
rtcVars   == <<marker, markerInverse>>
vars == <<lockVars, timerVars, task, rtcVars, pc, call, supervised>>

RelayStates == {"OPEN", "ARMING", "CLOSED", "TRIPPED", "LOCKOUT"}
Purposes    == {"NORMAL", "BACKFLUSH_CANDIDATE", "BACKFLUSH_CONFIRMED"}
Levels      == {"OPEN", "CLOSED"}
GpPhases    == {"stopped", "running", "fired", "served"}
Sections    == {"idle", "snapshot", "reassert", "disarm", "arming", "arm_timers",
                "commit", "inverse", "marker", "trip", "cleanup", "expiry",
                "promote_gptimer", "promote_stop", "promote_start",
                "promote_commit"}

\* Ages and timers never need to count further than this.
Horizon == BackflushMax + MaxCallbackDelay
Off     == -1
NoCall  == [from |-> "none", limit |-> 0, purpose |-> "NORMAL", generation |-> 0,
            keepTrips |-> FALSE, armed |-> FALSE, mark |-> "OPEN",
            then |-> "cleanup", trip |-> "lockout"]
GpOff   == [phase |-> "stopped", due |-> 0]

Saturate(n)    == IF n > Horizon THEN Horizon ELSE n
NextGenerationMutUnwrapped == generation + 1
NextGeneration == (generation + 1) % Generations
Tripped        == hardTripped \/ operationalTripped
GpInFlight     == gp.phase \in {"fired", "served"}
LiveCallbackMutArmingOnly == relaySafetyState = "ARMING"
LiveCallback   == relaySafetyState \in {"ARMING", "CLOSED"}
IsOperational  == operationalLimit < hardLimit
Unlimited(p)   == CompatibilityMode /\ p = "NORMAL"
LimitTrip      == IF IsOperational THEN "operational" ELSE "hard"
\* uint32_t(now - circuitClosedAtMs) >= limit, for a now read age ticks ago: a
\* stamp older than the closure wraps around and is larger than any limit.
Elapsed(age, limit) == closedFor - age < 0 \/ closedFor - age >= limit

Trips == {"lockout", "hard", "operational"}
Calls == [from : {"none", "request", "mirror", "service", "promote", "wall"},
          limit : CloseLimits \union {0, HardMax}, purpose : Purposes,
          generation : 0..Generations - 1, keepTrips : BOOLEAN, armed : BOOLEAN,
          mark : Levels, then : {"commit", "cleanup"}, trip : Trips]

RelayTypeOK ==
    /\ relaySafetyState \in RelayStates
    /\ circuitClosed \in BOOLEAN /\ pin \in Levels
    /\ generation \in 0..Generations - 1
    /\ closedFor \in 0..Horizon /\ energizedFor \in 0..Horizon
    /\ hardLimit \in {0, HardMax, BackflushMax}
    /\ operationalLimit \in CloseLimits \union {0, HardMax, BackflushMax}
    /\ purpose \in Purposes
    /\ hardTripped \in BOOLEAN /\ operationalTripped \in BOOLEAN
    /\ cut \in BOOLEAN
TimerTypeOK ==
    /\ gp \in [phase : GpPhases, due : 0..BackflushMax]
    /\ hardTimer \in Off..BackflushMax /\ operationalTimer \in Off..BackflushMax
    /\ task \in [at : {"idle", "hard", "operational", "inverse", "marker"},
                 age : 0..MaxCallbackDelay]
RecordTypeOK ==
    marker \in Levels /\ markerInverse \in Levels
ControlTypeOK == pc \in Sections /\ call \in Calls /\ supervised \in BOOLEAN

TypeOK == RelayTypeOK /\ TimerTypeOK /\ RecordTypeOK /\ ControlTypeOK

\* initializeRelaySafetyStateAfterBoot, after beginSafetyResetGuard left OPEN
\* in the RTC record.  supervised: timers created, task watchdog subscribed.
Init ==
    /\ supervised \in BOOLEAN
    /\ relaySafetyState = IF supervised THEN "OPEN" ELSE "LOCKOUT"
    /\ circuitClosed = FALSE /\ pin = "OPEN"
    /\ generation = 0 /\ closedFor = 0 /\ energizedFor = 0
    /\ hardLimit = 0 /\ operationalLimit = 0 /\ purpose = "NORMAL"
    /\ hardTripped = FALSE /\ operationalTripped = FALSE /\ cut = FALSE
    /\ gp = GpOff /\ hardTimer = Off /\ operationalTimer = Off
    /\ task = [at |-> "idle", age |-> 0]
    /\ marker = "OPEN" /\ markerInverse = "OPEN"
    /\ pc = "idle" /\ call = NoCall

-----------------------------------------------------------------------------
(* Shared helpers of the driver. *)

\* tripRelaySafetyLocked.  The driver trips in three ways: locking out without a
\* flag, or with the hard or the operational flag and no lockout.
TripLocked(t) ==
    /\ pin' = "OPEN" /\ circuitClosed' = FALSE /\ energizedFor' = 0
    /\ generation' = NextGeneration
    /\ relaySafetyState' = IF t = "lockout" THEN "LOCKOUT" ELSE "TRIPPED"
    /\ hardTripped' = (hardTripped \/ t = "hard")
    /\ operationalTripped' = (operationalTripped \/ t = "operational")
    /\ cut' = (cut \/ (circuitClosed /\ t # "lockout"))
    /\ UNCHANGED <<closedFor, hardLimit, operationalLimit, purpose>>

\* recordRelayCommandedClosed, first store: an invalid record is initialised
\* again (which forgets the reset history) before the inverse word is written.
StoreInverse(m) ==
    /\ marker' = IF marker # markerInverse THEN "OPEN" ELSE marker
    /\ markerInverse' = m

\* recordRelayCommandedClosed, second store
StoreMarker(m) == marker' = m /\ UNCHANGED markerInverse

\* IndependentSafetyTimer::stop leaves an alarm whose callback is running; the
\* driver may also refuse to stop.
StopGp ==
    gp' \in IF GpInFlight THEN {gp}
            ELSE {GpOff} \union (IF "gptimer" \in Faults THEN {gp} ELSE {})

\* stopRelayDeadlineTimers
StopDeadlineTimers == StopGp /\ hardTimer' = Off /\ operationalTimer' = Off

ArmGpMutUnchecked(timeout, ok) ==
    /\ ok
    /\ IF GpInFlight THEN UNCHANGED gp
       ELSE gp' \in {[phase |-> "running", due |-> timeout]}
                    \union (IF "gptimer" \in Faults THEN {GpOff} ELSE {})
ArmGpMutLate(timeout, ok) ==
    IF ok THEN ~GpInFlight /\ gp' = [phase |-> "running", due |-> timeout + 1]
          ELSE (GpInFlight \/ "gptimer" \in Faults) /\ StopGp
\* IndependentSafetyTimer::arm.  It fails while a callback is running, for a
\* zero timeout, and when the driver refuses.
ArmGp(timeout, ok) ==
    /\ ok => ~GpInFlight /\ timeout > 0
    /\ ~ok => GpInFlight \/ timeout <= 0 \/ "gptimer" \in Faults
    /\ \/ ok /\ gp' = [phase |-> "running", due |-> timeout]
       \/ ~ok /\ timeout > 0 /\ StopGp
       \/ ~ok /\ timeout <= 0 /\ UNCHANGED gp

\* esp_timer_start_once on a stopped timer: the ticks it is left with
Started(timeout, ok) == IF ok THEN timeout ELSE Off

Goto(section, c) == pc' = section /\ call' = c
Return == Goto("idle", NoCall)
Record(c, level, then) ==
    Goto("inverse", [c EXCEPT !.mark = level, !.then = then])
Trip(t) == Goto("trip", [NoCall EXCEPT !.trip = t])

-----------------------------------------------------------------------------
(* setMachineCircuitClosed(true, limit, purpose) *)

\* machineRequestStart, machineStartBackflush and the momentary pulses
CallClose(limit, purp) ==
    /\ pc = "idle"
    /\ Goto("snapshot", [NoCall EXCEPT !.from = "request", !.limit = limit,
                                       !.purpose = purp])
    /\ UNCHANGED <<lockVars, timerVars, task, rtcVars, supervised>>

\* applyPaddleRelayDrive: an activator held ON reasserts a closed circuit.  The
\* circuit is read here and once more, in another section, by the call.
CallMirror ==
    /\ pc = "idle" /\ circuitClosed
    /\ Goto("snapshot", [NoCall EXCEPT !.from = "mirror", !.limit = HardMax])
    /\ UNCHANGED <<lockVars, timerVars, task, rtcVars, supervised>>

ValidClose(limit, purp) ==
    /\ limit \in 1..HardMax
    /\ purp # "BACKFLUSH_CONFIRMED"
    /\ purp = "BACKFLUSH_CANDIDATE" => limit = HardMax

KeepTripsMutHardOnly == hardTripped
KeepTrips == Tripped   \* preserveTripFlags

CloseSnapshot ==
    /\ pc = "snapshot"
    /\ \/ circuitClosed /\ Goto("reassert", call)
       \/ /\ ~circuitClosed /\ ~ValidClose(call.limit, call.purpose)
          /\ Trip("lockout")
       \/ /\ ~circuitClosed /\ ValidClose(call.limit, call.purpose)
          /\ relaySafetyState = "LOCKOUT"
          /\ Return
       \/ /\ ~circuitClosed /\ ValidClose(call.limit, call.purpose)
          /\ relaySafetyState # "LOCKOUT" /\ ~supervised
          /\ Trip("lockout")
       \/ /\ ~circuitClosed /\ ValidClose(call.limit, call.purpose)
          /\ relaySafetyState # "LOCKOUT" /\ supervised
          /\ Goto("disarm", [call EXCEPT !.keepTrips = KeepTrips])
    /\ UNCHANGED <<lockVars, timerVars, task, rtcVars, supervised>>

CloseDisarm ==
    /\ pc = "disarm"
    /\ StopDeadlineTimers
    /\ Goto("arming", call)
    /\ UNCHANGED <<lockVars, task, rtcVars, supervised>>

CloseArming ==
    /\ pc = "arming"
    /\ LET unlimited == Unlimited(call.purpose) IN
       /\ generation' = NextGeneration
       /\ closedFor' = 0 /\ energizedFor' = 0
       /\ purpose' = call.purpose
       /\ hardLimit' = IF unlimited THEN 0 ELSE HardMax
       /\ operationalLimit' = IF unlimited THEN 0 ELSE call.limit
       /\ hardTripped' = (call.keepTrips /\ hardTripped)
       /\ operationalTripped' = (call.keepTrips /\ operationalTripped)
       /\ relaySafetyState' = "ARMING"
       /\ circuitClosed' = FALSE
       /\ Goto("arm_timers", [call EXCEPT !.generation = NextGeneration])
    /\ UNCHANGED <<pin, cut, timerVars, task, rtcVars, supervised>>

CloseArmTimers ==
    /\ pc = "arm_timers"
    /\ \/ /\ Unlimited(call.purpose)
          /\ Record(call, "CLOSED", "commit")
          /\ UNCHANGED timerVars
       \/ /\ ~Unlimited(call.purpose)
          /\ \E gpOk \in BOOLEAN, hardOk, operOk \in
                 IF "esp_timer" \in Faults THEN BOOLEAN ELSE {TRUE} :
             /\ ArmGp(call.limit, gpOk)
             /\ hardTimer' = Started(HardMax, hardOk)
             /\ operationalTimer' =
                  IF call.limit < HardMax THEN Started(call.limit, operOk)
                                          ELSE operationalTimer
             /\ IF gpOk /\ hardOk /\ operOk
                THEN Record(call, "CLOSED", "commit")
                ELSE Trip("lockout")
    /\ UNCHANGED <<lockVars, task, rtcVars, supervised>>

\* The generation and the state tell a close that a deadline cancelled.
MayCommit ==
    /\ generation = call.generation
    /\ relaySafetyState = "ARMING"
    /\ Unlimited(call.purpose) \/ closedFor < call.limit

CloseCommit ==
    /\ pc = "commit"
    /\ IF MayCommit
       THEN /\ pin' = "CLOSED" /\ circuitClosed' = TRUE /\ energizedFor' = 0
            /\ relaySafetyState' = "CLOSED"
            /\ UNCHANGED <<generation, closedFor, hardLimit, operationalLimit,
                           purpose, hardTripped, operationalTripped, cut>>
            /\ Return
       ELSE Record(call, "OPEN", "cleanup") /\ UNCHANGED lockVars
    /\ UNCHANGED <<timerVars, task, rtcVars, supervised>>

-----------------------------------------------------------------------------
(* Opening, tripping, and the cleanup all of them end with. *)

OpenedStateMutForgetsLockout ==
    IF relaySafetyState = "TRIPPED" THEN "TRIPPED" ELSE "OPEN"
OpenedState ==
    IF relaySafetyState \in {"TRIPPED", "LOCKOUT"} THEN relaySafetyState ELSE "OPEN"

\* setMachineCircuitClosed(false)
CallOpen ==
    /\ pc = "idle"
    /\ LET openedBySafety == ~circuitClosed
                             /\ relaySafetyState \in {"TRIPPED", "LOCKOUT"}
       IN pin' = IF openedBySafety THEN pin ELSE "OPEN"
    /\ circuitClosed' = FALSE /\ energizedFor' = 0
    /\ generation' = NextGeneration
    /\ relaySafetyState' = OpenedState
    /\ Record(NoCall, "OPEN", "cleanup")
    /\ UNCHANGED <<closedFor, hardLimit, operationalLimit, purpose, hardTripped,
                   operationalTripped, cut, timerVars, task, rtcVars, supervised>>

\* tripRelaySafety(fault) with its default arguments, from setup and the loop
CallTrip ==
    /\ pc = "idle"
    /\ Trip("lockout")
    /\ UNCHANGED <<lockVars, timerVars, task, rtcVars, supervised>>

\* serviceLogicalRunWalls: a momentary run that reached its limit trips with a
\* flag and with lockout = false, whatever the state of the driver.
CallWallTrip(t) ==
    /\ pc = "idle" /\ LogicalWalls
    /\ Goto("trip", [NoCall EXCEPT !.from = "wall", !.trip = t])
    /\ UNCHANGED <<lockVars, timerVars, task, rtcVars, supervised>>

\* tripRelaySafety, under the lock
TripSection ==
    /\ pc = "trip"
    /\ TripLocked(call.trip)
    /\ Record(NoCall, "OPEN", "cleanup")
    /\ UNCHANGED <<timerVars, task, rtcVars, supervised>>

RecordInverse ==
    /\ pc = "inverse"
    /\ StoreInverse(call.mark)
    /\ Goto("marker", call)
    /\ UNCHANGED <<lockVars, timerVars, task, supervised>>

RecordMarker ==
    /\ pc = "marker"
    /\ StoreMarker(call.mark)
    /\ Goto(call.then, call)
    /\ UNCHANGED <<lockVars, timerVars, task, supervised>>

Cleanup ==
    /\ pc = "cleanup"
    /\ StopDeadlineTimers
    /\ Return
    /\ UNCHANGED <<lockVars, task, rtcVars, supervised>>

CleanupDueMutNever(tripped) == FALSE
CleanupDue(tripped) == tripped /\ ~circuitClosed
\* consumeTripFlag: consumeRelaySafetyTrip and consumeOperationalLimitTrip
Consume(tripped) ==
    /\ pc = "idle"
    /\ IF CleanupDue(tripped) THEN Record(NoCall, "OPEN", "cleanup")
                                    ELSE UNCHANGED <<pc, call>>
    /\ cut' = (cut /\ ~tripped)
    /\ UNCHANGED <<relaySafetyState, circuitClosed, pin, generation, closedFor,
                   hardLimit, operationalLimit, purpose, energizedFor,
                   timerVars, task, rtcVars, supervised>>

ConsumeHardTrip ==
    Consume(hardTripped) /\ hardTripped' = FALSE /\ UNCHANGED operationalTripped
ConsumeOperationalTrip ==
    Consume(operationalTripped) /\ operationalTripped' = FALSE
                                /\ UNCHANGED hardTripped

Expired == circuitClosed /\ operationalLimit # 0 /\ closedFor >= operationalLimit
Live    == circuitClosed /\ relaySafetyState = "CLOSED" /\ ~Expired

\* reassertCommandedRelayClosedPin.  "pin" faults: the rewrite does not stick.
Reassert ==
    /\ pc = "reassert"
    /\ \/ /\ Expired
          /\ TripLocked(LimitTrip)
          /\ Record(NoCall, "OPEN", "cleanup")
       \/ /\ Live
          /\ pin' \in {"CLOSED"} \union (IF "pin" \in Faults THEN {pin} ELSE {})
          /\ UNCHANGED <<relaySafetyState, circuitClosed, generation, closedFor,
                         hardLimit, operationalLimit, purpose, hardTripped,
                         operationalTripped, energizedFor, cut>>
          /\ \/ pin' = "OPEN" /\ Trip("hard")
             \/ pin' = "CLOSED" /\ call.from = "service" /\ Goto("expiry", call)
             \/ pin' = "CLOSED" /\ call.from # "service" /\ Return
       \/ /\ ~Expired /\ ~Live
          /\ UNCHANGED lockVars
          /\ Return
    /\ UNCHANGED <<timerVars, task, rtcVars, supervised>>

\* serviceRelaySafety, first section: the watchdog verdict and the snapshot.  A
\* close that was cancelled only because its limit had passed is still ARMING.
Service ==
    /\ pc = "idle"
    /\ \/ ~supervised /\ Trip("lockout")
       \/ /\ supervised /\ circuitClosed
          /\ Goto("reassert", [NoCall EXCEPT !.from = "service",
                                             !.trip = LimitTrip])
       \/ /\ supervised /\ ~circuitClosed /\ relaySafetyState = "ARMING"
          /\ operationalLimit # 0 /\ closedFor >= operationalLimit
          /\ Trip(LimitTrip)
    /\ UNCHANGED <<lockVars, timerVars, task, rtcVars, supervised>>

\* serviceRelaySafety, last test: the snapshot said closed; is it overdue now?
ServiceExpiry ==
    /\ pc = "expiry"
    /\ IF operationalLimit # 0 /\ closedFor >= operationalLimit
       THEN Trip(call.trip) ELSE Return
    /\ UNCHANGED <<lockVars, timerVars, task, rtcVars, supervised>>

-----------------------------------------------------------------------------
(* promoteRelayBackflush(generation) *)

CallPromote ==
    /\ pc = "idle"
    /\ circuitClosed /\ relaySafetyState = "CLOSED" /\ ~Tripped
    /\ purpose = "BACKFLUSH_CANDIDATE" /\ closedFor < HardMax
    /\ Goto("promote_gptimer", [NoCall EXCEPT !.from = "promote",
                                              !.generation = generation])
    /\ UNCHANGED <<lockVars, timerVars, task, rtcVars, supervised>>

PromoteGpTimer ==
    /\ pc = "promote_gptimer"
    /\ \E ok \in BOOLEAN :
          /\ ArmGp(BackflushMax - closedFor, ok)
          /\ IF ok THEN Goto("promote_stop", call) ELSE Goto("promote_commit", call)
    /\ UNCHANGED <<lockVars, hardTimer, operationalTimer, task, rtcVars, supervised>>

\* esp_timer_stop fails for a timer whose callback was dispatched.
PromoteStop ==
    /\ pc = "promote_stop"
    /\ hardTimer' = Off
    /\ IF hardTimer # Off THEN Goto("promote_start", call)
                          ELSE Goto("promote_commit", call)
    /\ UNCHANGED <<lockVars, gp, operationalTimer, task, rtcVars, supervised>>

PromoteStart ==
    /\ pc = "promote_start"
    /\ \E started \in IF "esp_timer" \in Faults THEN BOOLEAN ELSE {TRUE} :
          LET ok == closedFor < HardMax /\ started IN
          /\ hardTimer' = Started(BackflushMax - closedFor, ok)
          /\ Goto("promote_commit", [call EXCEPT !.armed = ok])
    /\ UNCHANGED <<lockVars, gp, operationalTimer, task, rtcVars, supervised>>

MayPromote ==
    /\ call.armed /\ circuitClosed /\ relaySafetyState = "CLOSED"
    /\ generation = call.generation /\ purpose = "BACKFLUSH_CANDIDATE"
    /\ ~Tripped /\ closedFor < HardMax

PromoteCommit ==
    /\ pc = "promote_commit"
    /\ IF MayPromote
       THEN /\ purpose' = "BACKFLUSH_CONFIRMED"
            /\ hardLimit' = BackflushMax /\ operationalLimit' = BackflushMax
            /\ Return
       ELSE /\ Goto("trip", [NoCall EXCEPT !.from = "promote", !.trip = "lockout"])
            /\ UNCHANGED <<purpose, hardLimit, operationalLimit>>
    /\ UNCHANGED <<relaySafetyState, circuitClosed, pin, generation, closedFor,
                   hardTripped, operationalTripped, energizedFor, cut, timerVars,
                   task, rtcVars, supervised>>

-----------------------------------------------------------------------------
(* The GPTimer interrupt. *)

\* alarmCallback publishes that a callback is running ...
GpAlarm ==
    /\ gp.phase = "running" /\ gp.due = 0
    /\ gp' = [gp EXCEPT !.phase = "fired"]
    /\ UNCHANGED <<lockVars, hardTimer, operationalTimer, task, rtcVars, pc, call,
                   supervised>>

InterruptTripsMutAnyLimit == LiveCallback
InterruptTrips == hardLimit # 0 /\ LiveCallback

\* ... independentSafetyTimerCallback opens K1 and assigns both flags ...
GpCallback ==
    /\ gp.phase = "fired"
    /\ gp' = [gp EXCEPT !.phase = "served"]
    /\ IF InterruptTrips
       THEN /\ pin' = "OPEN" /\ circuitClosed' = FALSE /\ energizedFor' = 0
            /\ generation' = NextGeneration
            /\ relaySafetyState' = "TRIPPED"
            /\ hardTripped' = ~IsOperational
            /\ operationalTripped' = IsOperational
            /\ cut' = (cut \/ circuitClosed)
            /\ UNCHANGED <<closedFor, hardLimit, operationalLimit, purpose>>
       ELSE UNCHANGED lockVars
    /\ UNCHANGED <<hardTimer, operationalTimer, task, rtcVars, pc, call, supervised>>

\* ... and the timer may be armed again.
GpReturn ==
    /\ gp.phase = "served"
    /\ gp' = GpOff
    /\ UNCHANGED <<lockVars, hardTimer, operationalTimer, task, rtcVars, pc, call,
                   supervised>>

-----------------------------------------------------------------------------
(* The esp_timer task. *)

\* A due timer is taken off the list and its callback reads millis().
DispatchHard ==
    /\ task.at = "idle" /\ hardTimer = 0
    /\ hardTimer' = Off /\ task' = [at |-> "hard", age |-> 0]
    /\ UNCHANGED <<lockVars, gp, operationalTimer, rtcVars, pc, call, supervised>>

DispatchOperational ==
    /\ task.at = "idle" /\ operationalTimer = 0
    /\ operationalTimer' = Off /\ task' = [at |-> "operational", age |-> 0]
    /\ UNCHANGED <<lockVars, gp, hardTimer, rtcVars, pc, call, supervised>>

\* relaySafetyTimerCallback
HardCallback ==
    /\ task.at = "hard"
    /\ IF hardLimit # 0 /\ LiveCallback /\ Elapsed(task.age, hardLimit)
       THEN /\ TripLocked("hard")
            /\ task' = [at |-> "inverse", age |-> 0]
       ELSE UNCHANGED lockVars /\ task' = [at |-> "idle", age |-> 0]
    /\ UNCHANGED <<timerVars, rtcVars, pc, call, supervised>>

\* operationalLimitTimerCallback
OperationalCallback ==
    /\ task.at = "operational"
    /\ IF /\ operationalLimit # 0 /\ LiveCallback /\ IsOperational
          /\ Elapsed(task.age, operationalLimit)
       THEN /\ TripLocked("operational")
            /\ task' = [at |-> "inverse", age |-> 0]
       ELSE UNCHANGED lockVars /\ task' = [at |-> "idle", age |-> 0]
    /\ UNCHANGED <<timerVars, rtcVars, pc, call, supervised>>

\* Both callbacks publish OPEN after they left the lock.
TaskStoreInverse ==
    /\ task.at = "inverse"
    /\ StoreInverse("OPEN")
    /\ task' = [task EXCEPT !.at = "marker"]
    /\ UNCHANGED <<lockVars, timerVars, pc, call, supervised>>

TaskStoreMarker ==
    /\ task.at = "marker"
    /\ StoreMarker("OPEN")
    /\ task' = [task EXCEPT !.at = "idle"]
    /\ UNCHANGED <<lockVars, timerVars, pc, call, supervised>>

-----------------------------------------------------------------------------
(* Time and the environment. *)

Countdown(t) == IF t > 0 THEN t - 1 ELSE t

\* The interrupt is served within its tick; a stamped callback reaches its
\* lock within MaxCallbackDelay ticks.
Tick ==
    /\ gp.phase = "stopped" \/ (gp.phase = "running" /\ gp.due > 0)
    /\ task.at \in {"hard", "operational"} => task.age < MaxCallbackDelay
    /\ closedFor' = Saturate(closedFor + 1)
    /\ energizedFor' = IF circuitClosed THEN Saturate(energizedFor + 1) ELSE 0
    /\ gp' = [gp EXCEPT !.due = Countdown(@)]
    /\ hardTimer' = Countdown(hardTimer)
    /\ operationalTimer' = Countdown(operationalTimer)
    /\ task' = IF task.at \in {"hard", "operational"}
               THEN [task EXCEPT !.age = @ + 1] ELSE task
    /\ UNCHANGED <<relaySafetyState, circuitClosed, pin, generation, hardLimit,
                   operationalLimit, purpose, hardTripped, operationalTripped, cut,
                   rtcVars, pc, call, supervised>>

\* GPIO desync: the output of a closed circuit drops.
PinDrops ==
    /\ "pin" \in Faults /\ pin = "CLOSED"
    /\ pin' = "OPEN"
    /\ UNCHANGED <<relaySafetyState, circuitClosed, generation, closedFor, hardLimit,
                   operationalLimit, purpose, hardTripped, operationalTripped,
                   energizedFor, cut, timerVars, task, rtcVars, pc, call,
                   supervised>>

\* criticalTaskWatchdogFaulted() turns true and stays so until the restart.
WatchdogFault ==
    /\ "watchdog" \in Faults /\ supervised
    /\ supervised' = FALSE
    /\ UNCHANGED <<lockVars, timerVars, task, rtcVars, pc, call>>

-----------------------------------------------------------------------------
Caller ==
    \/ \E limit \in CloseLimits : CallClose(limit, "NORMAL")
    \/ CallClose(HardMax, "BACKFLUSH_CANDIDATE")
    \/ CallMirror \/ CallOpen \/ CallTrip \/ CallPromote
    \/ \E t \in {"hard", "operational"} : CallWallTrip(t)
    \/ Service \/ ConsumeHardTrip \/ ConsumeOperationalTrip

Control ==
    \/ CloseSnapshot \/ CloseDisarm \/ CloseArming \/ CloseArmTimers \/ CloseCommit
    \/ TripSection \/ RecordInverse \/ RecordMarker \/ Cleanup
    \/ Reassert \/ ServiceExpiry
    \/ PromoteGpTimer \/ PromoteStop \/ PromoteStart \/ PromoteCommit

Interrupt == GpAlarm \/ GpCallback \/ GpReturn
TimerTask == DispatchHard \/ DispatchOperational \/ HardCallback
             \/ OperationalCallback \/ TaskStoreInverse \/ TaskStoreMarker

Next == Caller \/ Control \/ Interrupt \/ TimerTask \/ Tick \/ PinDrops
        \/ WatchdogFault

Spec == Init /\ [][Next]_vars

\* Time passes, the interrupt is served and the esp_timer task runs.  Nothing is
\* assumed of the control task: it may hang in the middle of any call.
TimersKeepRunning == WF_vars(Tick) /\ WF_vars(Interrupt) /\ WF_vars(TimerTask)

FairSpec == Spec /\ TimersKeepRunning

-----------------------------------------------------------------------------
(* Properties. *)

\* The K1 output is energized only inside a committed closure: no trip, open or
\* cancelled close leaves the contact on (tripRelaySafetyLocked, the commit
\* section, setMachineCircuitClosed(false)).
OutputImpliesCommand ==
    pin = "CLOSED" => circuitClosed /\ relaySafetyState = "CLOSED"

\* A limited closure always has a deadline that will fire without the control
\* task: the GPTimer, or the hard esp_timer or its dispatched callback.  "Keep
\* the old task deadline armed until independent replacement succeeds"
\* (promoteRelayBackflush).
ClosureIsSupervised ==
    circuitClosed /\ hardLimit # 0 =>
        gp.phase \in {"running", "fired"} \/ hardTimer # Off \/ task.at = "hard"

\* The GPTimer alone keeps every limited closure inside its operational limit,
\* wherever the control task and the esp_timer task are stuck.  While a backflush
\* is being promoted the bound is the backflush limit, or none if the GPTimer
\* driver refused the new deadline.
ContactTimeBound ==
    circuitClosed /\ hardLimit # 0 =>
        \/ energizedFor <= operationalLimit
        \/ call.from = "promote" /\ energizedFor <= BackflushMax
        \/ call.from = "promote" /\ gp.phase = "stopped"

\* Between two calls of the control task, once every pending trip is consumed, the
\* RTC record of an open circuit reads OPEN: a reset then is not taken for a reset
\* during close, although the interrupt itself never writes the record.
OpenIsPublished ==
    pc = "idle" /\ ~circuitClosed /\ ~Tripped
        => marker = "OPEN" /\ markerInverse = "OPEN"

\* LOCKOUT lasts until the next boot, but for the trip of a logical run wall,
\* which a momentary machine calls with lockout = false and which leaves a plain
\* TRIPPED with K1 open (serviceLogicalRunWalls, tripRelaySafetyLocked).  No
\* deadline that fires late and no open ends it.
LockoutEndsAtWallOnly ==
    [][relaySafetyState = "LOCKOUT" /\ relaySafetyState' # "LOCKOUT" =>
         /\ LogicalWalls /\ pc = "trip" /\ call.from = "wall"
         /\ relaySafetyState' = "TRIPPED" /\ ~circuitClosed']_vars

\* A safety trip that cut a running closure stays visible to the control task,
\* which finalizes the brew cycle from the flags: also when a momentary stop pulse
\* closes K1 again in between (preserveTripFlags) and although the interrupt
\* assigns both flags.
CutReachesControl == cut => Tripped

\* The interrupt does not look at the time: an alarm armed for one closure must
\* never cut the next one short (stop() refuses while a callback is in flight).
NoStaleAlarm ==
    [][gp.phase = "fired" /\ gp'.phase = "served" /\ circuitClosed /\ ~circuitClosed'
         => closedFor >= operationalLimit]_vars

\* Compatibility mirroring has no duration cap: no deadline left over from an
\* earlier closure opens an unlimited one, only a call of the control task does.
MirrorIsNotTimed ==
    [][circuitClosed /\ hardLimit = 0 /\ ~circuitClosed'
         => pc \in {"idle", "trip"} /\ pc' # pc]_vars

\* A limited closure ends although the control task may hang anywhere.
ClosureEnds == (circuitClosed /\ hardLimit # 0) ~> ~circuitClosed

\* The driver implements RelayContract.  From the call that promotes a backflush
\* on, the closure counts as extended.
Granted ==
    IF ~circuitClosed \/ hardLimit = 0 THEN 0
    ELSE IF call.from = "promote" THEN BackflushMax
    ELSE operationalLimit

Contract == INSTANCE RelayContract WITH
    Limits <- CloseLimits \union {HardMax}, UnlimitedAllowed <- CompatibilityMode,
    WallTrips <- LogicalWalls, wall <- call.from = "wall",
    contact <- circuitClosed, granted <- Granted, age <- energizedFor,
    locked <- relaySafetyState = "LOCKOUT"

\* Every step of the driver is a step of the contract or changes nothing of it:
\* no interleaving of the control task, the interrupt and the esp_timer task lets
\* a closure outlast its grant, drops a cut, or closes after a lockout that no
\* logical run wall has ended.
ImplementsContract == Contract!Spec

\* Claims of the docs that the code does not keep.

\* STATE_MACHINES.md:250: while K1 is energized commandedClosed is latched in
\* RTC, "so a reset mid-close is treated as unsafe".
CloseIsLatched ==
    circuitClosed /\ pc = "idle" => marker = "CLOSED" /\ markerInverse = "CLOSED"

\* STATE_MACHINES.md:306: after a trip "K1 must stay open; the ON-only mirror
\* must not re-close".
MirrorNeverRecloses ==
    [][~circuitClosed /\ circuitClosed' => call.from # "mirror"]_vars
=============================================================================
