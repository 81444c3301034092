----------------------------- MODULE Momentary -----------------------------
(* The two builds for a machine with a push button (MACHINE_TYPE 1 and 2).   *)
(* K1 mirrors the button; the firmware adds synthetic presses (pulses) of    *)
(* its own to start, stop or rinse, and has to infer whether the group runs: *)
(* from the flow on the scale ("FLOW") or from a reed sensor ("REED").       *)
(*                                                                           *)
(* m is what the machine layer and its caller keep.  One pass of loop() is   *)
(* four steps: the button is sampled, the machine is serviced, the           *)
(* state machine acts, a web command is served.  Durations are not counted:  *)
(* a deadline is met or not by choice of the step that reads it.             *)
EXTENDS Naturals, FiniteSets

CONSTANTS
    Builds,      \* the [sensor, onPress, rinse] that are looked at
    MaxEvents    \* bound: presses, web commands, trips and stops at the group

VARIABLES
    mpc,         \* the step of the loop that runs next
    m,           \* what the code keeps
    group,       \* does the group run?  Every closing of K1 toggles it
    mevents      \* presses, commands and interruptions so far

momentaryVars == <<mpc, m, group, mevents>>

Level == {"IDLE", "RUNNING", "RUNNING_UNCONFIRMED", "IDLE_UNCONFIRMED", "UNKNOWN"}
Assume == {"NONE", "ON", "OFF", "GRACE_ON", "GRACE_OFF"}
Pulse == {"NONE", "START", "STOP", "FORCED"}

Flow == m.build.sensor = "FLOW"

-----------------------------------------------------------------------------
(* The relay driver, as RelayContract promises it: a closure may be refused  *)
(* for good, and every closing is a press of the machine's button.           *)

CloseK1(r) ==
    CASE r.k1 \/ r.safety = "LOCKOUT" -> {r}
      [] OTHER -> {[r EXCEPT !.k1 = TRUE, !.safety = "OPEN", !.taps = 1 - @],
                   [r EXCEPT !.safety = "LOCKOUT"]}

OpenK1(r) == [r EXCEPT !.k1 = FALSE]

Trip(r, flag) ==
    [OpenK1(r) EXCEPT !.safety = "TRIPPED", !.trips = @ \cup {flag}]

-----------------------------------------------------------------------------
(* What the firmware believes about the group.                               *)

FlowRunning(r) ==
    r.run \/ r.stopAck \/ r.orphan \/ r.belief \in {"RUNNING", "RUNNING_UNCONFIRMED"}

ReedRunning(r) ==
    CASE r.assume = "GRACE_OFF" -> FALSE
      [] r.assume = "GRACE_ON" -> TRUE
      [] OTHER -> r.reed \/ r.assume = "ON" \/ r.run

\* machineIsRunning.
IsRunning(r) == IF r.build.sensor = "FLOW" THEN FlowRunning(r) ELSE ReedRunning(r)

\* machineRunState.
FlowState(r) ==
    IF r.safety = "OPEN" THEN r.belief ELSE IF r.run THEN "UNKNOWN" ELSE "IDLE"

ReedState(r) ==
    CASE r.assume \in {"ON", "GRACE_ON"} /\ ~r.reed -> "RUNNING_UNCONFIRMED"
      [] r.assume \in {"OFF", "GRACE_OFF"} /\ r.reed -> "IDLE_UNCONFIRMED"
      [] OTHER -> IF r.reed THEN "RUNNING" ELSE "IDLE"

RunState(r) == IF r.build.sensor = "FLOW" THEN FlowState(r) ELSE ReedState(r)

\* Mutant: an unconfirmed run is enough.
FlowAllowsStopMutUnconfirmed(r) == r.belief \in {"RUNNING", "RUNNING_UNCONFIRMED"}

FlowAllowsStop(r) ==
    \/ r.belief = "RUNNING"
    \/ r.armed /\ r.sawFlow /\ r.belief = "RUNNING_UNCONFIRMED"

ReedAllowsStop(r) ==
    /\ r.issued => r.userStop
    /\ r.reed /\ r.sawOff /\ r.assume \notin {"OFF", "GRACE_OFF"}

\* machineAllowsFirmwareStopPulse.
AllowsStopPulse(r) ==
    ~r.down /\ (IF r.build.sensor = "FLOW" THEN FlowAllowsStop(r) ELSE ReedAllowsStop(r))

FlowStart(r) ==
    [r EXCEPT !.belief = "RUNNING_UNCONFIRMED", !.hadFlow = FALSE, !.sawFlow = FALSE,
              !.stopAck = FALSE, !.startAck = TRUE, !.orphan = FALSE, !.cutting = FALSE,
              !.armed = FALSE, !.settling = FALSE, !.noFlow = FALSE,
              !.sawScale = @ \/ r.fresh]

ReedStart(r) ==
    [r EXCEPT !.issued = FALSE, !.assume = IF r.reed THEN "NONE" ELSE "ON"]

\* noteMomentaryLogicalStart, with the run it belongs to.
LogicalStart(r, limit) ==
    LET s == [r EXCEPT !.run = TRUE, !.limit = limit, !.coffee = FALSE, !.retry = FALSE]
    IN IF r.build.sensor = "FLOW" THEN FlowStart(s) ELSE ReedStart(s)

FlowStop(r) ==
    IF ~r.run /\ r.belief = "IDLE" /\ ~r.startAck THEN r
    ELSE LET s == [r EXCEPT !.retry = FALSE, !.startAck = FALSE, !.settling = TRUE]
         IN CASE r.fresh -> [s EXCEPT !.stopAck = TRUE, !.belief = "IDLE_UNCONFIRMED"]
              [] ~r.fresh /\ r.armed ->
                    [s EXCEPT !.stopAck = FALSE, !.belief = "IDLE_UNCONFIRMED"]
              [] OTHER -> [s EXCEPT !.stopAck = FALSE, !.settling = FALSE,
                                    !.belief = IF r.sawScale THEN "UNKNOWN" ELSE "IDLE"]

ReedStop(r) ==
    IF r.assume \in {"GRACE_ON", "GRACE_OFF"} THEN r
    ELSE [r EXCEPT !.retry = FALSE, !.issued = TRUE,
                   !.assume = IF r.reed THEN "OFF" ELSE "NONE"]

\* noteMomentaryLogicalStop.
LogicalStop(r) == IF r.build.sensor = "FLOW" THEN FlowStop(r) ELSE ReedStop(r)

StartCanceled(r) ==
    IF r.build.sensor = "FLOW"
      THEN [r EXCEPT !.hadFlow = FALSE, !.stopAck = FALSE, !.retry = FALSE,
                     !.startAck = FALSE, !.orphan = FALSE, !.settling = FALSE,
                     !.noFlow = FALSE, !.belief = "IDLE"]
      ELSE [r EXCEPT !.retry = FALSE, !.issued = FALSE, !.assume = "NONE"]

DisqualifiedPress(r, restore) ==
    CASE r.build.sensor = "REED" ->
            [r EXCEPT !.retry = FALSE, !.issued = FALSE,
                      !.assume = IF restore THEN "GRACE_ON" ELSE "GRACE_OFF"]
      [] r.build.sensor = "FLOW" /\ ~restore -> StartCanceled(r)
      [] OTHER -> [r EXCEPT !.stopAck = FALSE, !.retry = FALSE, !.startAck = FALSE,
                            !.orphan = FALSE, !.settling = FALSE,
                            !.belief = IF r.before.level = "IDLE"
                                         THEN "RUNNING_UNCONFIRMED" ELSE r.before.level]

SettleOff(r) ==
    [r EXCEPT !.hadFlow = FALSE, !.sawFlow = FALSE, !.stopAck = FALSE, !.retry = FALSE,
              !.startAck = FALSE, !.orphan = FALSE, !.run = FALSE, !.cutting = FALSE,
              !.armed = FALSE, !.settling = FALSE, !.noFlow = FALSE, !.belief = "IDLE"]

Confirmed(r) == [r EXCEPT !.hadFlow = TRUE, !.sawFlow = TRUE, !.belief = "RUNNING"]

-----------------------------------------------------------------------------
(* The actuator: the mirror of the button and the pulses.                    *)

\* Mutant: the pulse is forgotten, its contact is not opened.
AbortPulseMutStaysClosed(r) == [r EXCEPT !.pending = "NONE", !.pulse = "NONE"]

\* abortFirmwarePulseIfActive.
AbortPulse(r) ==
    LET s == [r EXCEPT !.pending = "NONE", !.pulse = "NONE"]
    IN IF r.pulse # "NONE" /\ ~r.down THEN OpenK1(s) ELSE s

\* emitFirmwarePulse: the pulse is on, was not needed, or K1 refused it.
EmitPulse(r, kind) ==
    IF (~r.rinsing /\ r.down) \/ r.pulse # "NONE" THEN {r}
    ELSE {IF s.k1 THEN [s EXCEPT !.pulse = kind,
                                 !.cutting = @ \/ (s.build.sensor = "FLOW" /\ kind = "STOP")]
                  ELSE s : s \in CloseK1(r)}

\* serviceFirmwarePulseDrive.
ServicePulse(r) ==
    IF r.pulse # "NONE"
      THEN {[OpenK1(r) EXCEPT !.pulse = "NONE"]} \cup CloseK1(r)
      ELSE {OpenK1(r)} \cup
           (IF r.pending # "NONE" /\ ~r.down
              THEN EmitPulse([OpenK1(r) EXCEPT !.pending = "NONE"], r.pending) ELSE {})

\* machineMayForwardActivatorOn and the mirror of a held button.
Forward(r) ==
    CASE ~r.allowed -> {[OpenK1(r) EXCEPT !.suppressed = TRUE]}
      [] r.allowed /\ r.suppressed -> {OpenK1(r)}
      [] OTHER -> CloseK1(r)

\* applyMomentaryRelayDrive.
Drive(r) ==
    CASE r.rinsing -> ServicePulse(r)
      [] ~r.rinsing /\ r.down /\ r.suppressed ->
            IF r.pulse # "NONE" THEN ServicePulse(r) ELSE Forward(r)
      [] ~r.rinsing /\ r.down /\ ~r.suppressed -> Forward(AbortPulse(r))
      [] OTHER -> LET s == [r EXCEPT !.suppressed = FALSE]
                  IN IF r.pulse # "NONE" \/ r.pending # "NONE"
                       THEN ServicePulse(s) ELSE {OpenK1(s)}

\* queueWebFirmwarePulse.
QueuePulse(r, kind) ==
    CASE r.down -> {r}
      [] ~r.down /\ r.pulse = "NONE" ->
            IF r.pending = "NONE" THEN EmitPulse(r, kind) ELSE {r}
      [] OTHER -> {IF (kind = "STOP" /\ r.pulse = "STOP") \/ r.pending # "NONE"
                     THEN r ELSE [r EXCEPT !.pending = kind]}

MaybeStopPulse(r) ==
    IF AllowsStopPulse(r) THEN EmitPulse(r, "STOP") ELSE {AbortPulse(r)}

-----------------------------------------------------------------------------
(* The requests of the brew orchestrator.                                    *)

\* machineRequestStart.
RequestStart(r, limit, web) ==
    LET s == LogicalStart(r, limit)
    IN IF ~web \/ r.safety # "OPEN" THEN {s} ELSE EmitPulse(s, "START")

StartAccepted(r, web) ==
    r.safety = "OPEN" /\ (web => r.down \/ r.pulse # "NONE")

\* machineRequestStop.
RequestStop(r) ==
    LET s == [r EXCEPT !.run = FALSE, !.skip = FALSE]
    IN CASE r.down \/ r.skip -> Drive(LogicalStop(AbortPulse(s)))
         [] ~(r.down \/ r.skip) /\ r.pulse # "NONE" -> {LogicalStop(s)}
         [] ~(r.down \/ r.skip) /\ r.pulse = "NONE" /\ ~AllowsStopPulse(s) ->
               Drive(LogicalStop(s))
         [] OTHER -> EmitPulse(LogicalStop(s), "STOP")

\* machineRequestWebStop.
RequestWebStop(r) ==
    IF r.build.sensor = "REED" \/ r.down THEN RequestStop(r)
    ELSE QueuePulse(LogicalStop([r EXCEPT !.run = FALSE, !.skip = FALSE]), "STOP")

\* machineBeginRinse.
BeginRinse(r, limit) ==
    IF r.rinsing THEN {r}
    ELSE LET s == OpenK1(AbortPulse([r EXCEPT !.rinsing = TRUE, !.suppressed = TRUE]))
         IN EmitPulse(LogicalStart(s, limit), "START")

\* machineEndRinse.
EndRinse(r) ==
    LET s == AbortPulse(LogicalStop([r EXCEPT !.run = FALSE, !.suppressed = TRUE]))
    IN {[t EXCEPT !.rinsing = FALSE] : t \in EmitPulse(s, "STOP")}

-----------------------------------------------------------------------------
(* Sampling the button (updateActivatorInput).                               *)

\* applyMomentaryStartStopEdge.
StartStopEdge(r) ==
    IF IsRunning(r)
      THEN LogicalStop([r EXCEPT !.edge = "OFF", !.userStop = TRUE, !.skip = TRUE,
                                 !.run = FALSE])
      ELSE [LogicalStart(r, "HARD") EXCEPT !.edge = "ON", !.startEdge = TRUE]

\* revertDisqualifiedSinglePress.
RevertPress(r) ==
    IF r.before.running
      THEN DisqualifiedPress([r EXCEPT !.startEdge = FALSE, !.run = TRUE], TRUE)
      ELSE DisqualifiedPress([r EXCEPT !.startEdge = FALSE, !.edge = "OFF",
                                       !.userStop = TRUE, !.skip = TRUE, !.run = FALSE],
                             FALSE)

Pressed(r) ==
    LET s == [r EXCEPT !.held = TRUE, !.rinseSent = FALSE, !.fromIdle = ~IsRunning(r)]
    IN IF ~r.build.onPress THEN s
       ELSE [StartStopEdge([s EXCEPT !.before = [running |-> IsRunning(r),
                                                 level |-> RunState(r)]])
             EXCEPT !.gesture = TRUE]

\* The button has been down for the rinse window, or longer than a single press.
HeldLong(r) ==
    CASE r.build.rinse /\ r.fromIdle /\ ~r.rinseSent ->
            [r EXCEPT !.rinseAsked = TRUE, !.rinseSent = TRUE, !.gesture = FALSE]
      [] r.build.onPress /\ r.gesture /\ ~(r.build.rinse /\ r.fromIdle) ->
            [RevertPress(r) EXCEPT !.gesture = FALSE]
      [] OTHER -> r

Released(r, long) ==
    LET s == [r EXCEPT !.held = FALSE, !.gesture = FALSE]
    IN IF ~r.held \/ r.build.onPress \/ r.rinseSent \/ long THEN s ELSE StartStopEdge(s)

\* pushActivatorDrivePermission and machineSampleInput.
Sample(down, long, blocked) ==
    LET s == [m EXCEPT !.edge = "NONE", !.userStop = FALSE, !.startEdge = FALSE,
                       !.rinseAsked = FALSE, !.down = down,
                       !.allowed = m.session # "NONE" \/ ~blocked]
    IN {CASE down /\ ~m.down -> Pressed(r)
          [] down /\ m.down /\ long -> HeldLong(r)
          [] ~down /\ m.down -> Released(r, long)
          [] OTHER -> r : r \in Drive(s)}

-----------------------------------------------------------------------------
(* Servicing the machine (serviceMachine): sensors, mirror, walls, retry.    *)

(* What the scale shows.  QUIET: the weight rests for a second; RESTS: so    *)
(* it does, at the weight of the start, for the reaction time; FLOWING,      *)
(* FLOWED: coffee flows, briefly or long enough to be confirmed; DRIPS: the  *)
(* flow has been low; TARED; DRY: nothing since the hard limit; REMOVED: the *)
(* cup; CONNECTED: a scale has just come.                                    *)
Observation == {"STALE", "LOST", "QUIET", "RESTS", "FLOWING", "FLOWED", "DRIPS", "TARED",
                "DRY", "MOVES", "REMOVED", "CONNECTED"}
IsFresh(o) == o \notin {"STALE", "LOST"}
IsQuiet(o) == o \in {"QUIET", "RESTS"}

\* The edges are taken before the weight.
SettleOnEdge(r, o) ==
    IF \/ o = "CONNECTED" /\ r.session = "NONE"
       \/ o = "REMOVED" /\ r.belief = "IDLE_UNCONFIRMED"
      THEN SettleOff(r)
      ELSE IF r.run /\ r.belief = "IDLE" /\ ~r.stopAck /\ ~r.settling /\ r.startAck
             THEN [r EXCEPT !.belief = "RUNNING_UNCONFIRMED"] ELSE r

WithoutWeight(r, o) ==
    LET settling == r.settling \/ r.armed
        faded == IF r.belief # "RUNNING" THEN r.belief
                 ELSE IF settling THEN "IDLE_UNCONFIRMED" ELSE "RUNNING_UNCONFIRMED"
        unknown == ~settling /\ (r.run \/ r.sawScale \/ r.stopAck)
    IN IF o = "STALE" THEN [r EXCEPT !.fresh = FALSE, !.belief = faded]
       ELSE [r EXCEPT !.fresh = FALSE, !.stopAck = FALSE,
                      !.belief = IF unknown /\ (r.run \/ r.sawScale) THEN "UNKNOWN" ELSE faded]

\* A tare under way, then a quiet pan.
AfterQuiet(r, o) ==
    LET s == IF o = "TARED" /\ r.run /\ r.belief = "RUNNING"
               THEN [r EXCEPT !.belief = "RUNNING_UNCONFIRMED"] ELSE r
        t == IF IsQuiet(o) /\ (s.armed \/ s.settling) THEN SettleOff(s) ELSE s
        ended == \/ t.stopAck \/ t.orphan
                 \/ ~t.run /\ t.belief = "UNKNOWN"
    IN IF IsQuiet(o) /\ ~t.startAck /\ ended
         THEN [t EXCEPT !.stopAck = FALSE, !.orphan = FALSE, !.belief = "IDLE"] ELSE t

\* The acknowledgement of a stop: quiet, or flow that goes on.
StopAnswered(r, o) ==
    CASE ~r.stopAck -> r
      [] r.stopAck /\ IsQuiet(o) -> SettleOff(r)
      [] r.stopAck /\ o = "FLOWED" /\ r.cutting -> [r EXCEPT !.retry = TRUE]
      [] r.stopAck /\ o = "FLOWED" /\ ~r.cutting /\ ~r.armed ->
            Confirmed([r EXCEPT !.stopAck = FALSE, !.settling = FALSE, !.run = TRUE])
      [] r.stopAck /\ o = "MOVES" -> [r EXCEPT !.stopAck = FALSE]
      [] OTHER -> r

StartAnswered(r, o) ==
    IF o = "RESTS" /\ r.startAck /\ ~r.stopAck
      THEN [r EXCEPT !.startAck = FALSE, !.run = FALSE, !.orphan = FALSE,
                     !.belief = "IDLE_UNCONFIRMED"]
      ELSE r

\* Low flow ends RUNNING, unless coffee is in the cup of an active shot.
FlowFades(r, o) ==
    IF o = "DRIPS" /\ r.belief = "RUNNING" /\ ~r.stopAck
       /\ ~(r.session # "NONE" /\ r.sawFlow)
      THEN [r EXCEPT !.belief = "RUNNING_UNCONFIRMED"] ELSE r

FlowConfirms(r, o) ==
    IF /\ o = "FLOWED"
       /\ r.run \/ r.belief \in {"RUNNING_UNCONFIRMED", "IDLE_UNCONFIRMED"}
       /\ ~r.stopAck /\ ~r.armed /\ r.belief # "IDLE"
      THEN Confirmed([r EXCEPT !.startAck = FALSE, !.settling = FALSE,
                               !.run = @ \/ r.belief = "IDLE_UNCONFIRMED"])
      ELSE r

\* maybeSettleMomentaryNoFlowIdle.
StaysDry(r, o) ==
    IF /\ o = "DRY" /\ ~r.settling /\ ~r.armed /\ ~r.hadFlow
       /\ r.belief \in {"RUNNING_UNCONFIRMED", "IDLE_UNCONFIRMED"}
      THEN [SettleOff(r) EXCEPT !.noFlow = TRUE] ELSE r

WithWeight(r, o) ==
    LET s == [r EXCEPT !.fresh = TRUE, !.sawScale = TRUE]
    IN StaysDry(FlowConfirms(FlowFades(StartAnswered(StopAnswered(AfterQuiet(s, o), o), o),
                                       o), o), o)

FlowSensor(r, o) ==
    LET s == SettleOnEdge([r EXCEPT !.coffee = @ \/ o \in {"FLOWING", "FLOWED"},
                                    !.sawFlow = @ \/ (o = "FLOWING" /\ r.session # "NONE")], o)
    IN IF IsFresh(o) THEN WithWeight(s, o) ELSE WithoutWeight(s, o)

\* serviceReedAssumeWindow; due: the confirm timeout has passed.
ReedSensor(r, due) ==
    CASE r.assume = "ON" /\ ~r.reed /\ due ->
            [r EXCEPT !.assume = "NONE", !.run = FALSE, !.edge = "OFF"]
      [] OTHER -> IF \/ r.assume = "ON" /\ r.reed
                     \/ r.assume = "OFF" /\ ~r.reed
                     \/ r.assume # "NONE" /\ due
                    THEN [r EXCEPT !.assume = "NONE"] ELSE r

\* endMomentaryLogicalRunForWall, and its counterpart of the reed build.
EndForWall(r) ==
    LET s == [r EXCEPT !.run = FALSE]
    IN IF AllowsStopPulse(r) THEN {LogicalStop(t) : t \in MaybeStopPulse(s)}
       ELSE {[s EXCEPT !.orphan = @ \/ (r.build.sensor = "FLOW" /\ r.belief # "IDLE")]}

\* serviceLogicalRunWalls.
Walls(r, due) ==
    CASE ~r.run \/ due = "NONE" \/ (due = "WALL" /\ r.limit = "HARD") -> {r}
      [] r.run /\ due = "WALL" /\ r.limit = "WALL" -> EndForWall(Trip(r, "wall"))
      [] r.run /\ due = "HARD" /\ r.build.sensor = "FLOW" /\ ~AllowsStopPulse(r)
         /\ ~r.sawScale /\ ~r.fresh -> {[SettleOff(r) EXCEPT !.noFlow = TRUE]}
      [] OTHER -> EndForWall(Trip(r, "hard"))

Retry(r) ==
    IF r.retry THEN MaybeStopPulse([r EXCEPT !.retry = FALSE]) ELSE {r}

ServiceMachine(o, reedDue, wallDue) ==
    LET sensed == IF Flow THEN FlowSensor(m, o) ELSE ReedSensor(m, reedDue)
    IN UNION {UNION {Retry(s) : s \in Walls(r, wallDue)} : r \in Drive(sensed)}

-----------------------------------------------------------------------------
(* The state machine of the orchestrator, as far as it drives the machine.   *)

Cut == "cut"     \* the end of a shot by weight: it settles the machine off

\* finalizeCycle.
Finalize(r, reason, web) ==
    LET s == [r EXCEPT !.armed = Flow /\ reason = Cut]
    IN {[t EXCEPT !.session = "NONE", !.web = FALSE, !.rinsing = FALSE,
                  !.parked = r.down \/ reason = "trip"] :
          t \in CASE r.session = "RINSE" -> EndRinse(s)
                  [] r.session # "RINSE" /\ web -> RequestWebStop(s)
                  [] OTHER -> RequestStop(s)}

\* beginCycle, past its guards.
BeginCycle(r, web) ==
    {IF StartAccepted(s, web) THEN [s EXCEPT !.session = "SHOT", !.web = web]
                              ELSE [s EXCEPT !.parked = TRUE, !.rinsing = FALSE] :
       s \in UNION {RequestStart(r, limit, web) : limit \in {"HARD", "WALL"}}}

\* beginRinseCycle and enterRinse.
EnterRinse(r, web) ==
    {IF s.pulse = "START"
       THEN [s EXCEPT !.session = "RINSE", !.web = IF r.session = "NONE" THEN web ELSE @]
       ELSE [s EXCEPT !.session = "NONE", !.web = FALSE, !.parked = TRUE, !.rinsing = FALSE] :
       s \in BeginRinse(r, "WALL")}

Act(r, cutDue) ==
    CASE "hard" \in r.trips \/ "wall" \in r.trips ->
            LET s == [r EXCEPT !.trips = IF "hard" \in @ THEN @ \ {"hard"} ELSE @ \ {"wall"}]
            IN IF r.session = "NONE" THEN {[s EXCEPT !.parked = TRUE]}
               ELSE Finalize(s, "trip", FALSE)
      [] r.trips = {} /\ r.session # "NONE" /\ r.web /\ r.edge # "NONE" ->
            Finalize(r, "override", FALSE)
      [] r.trips = {} /\ r.session = "NONE" /\ r.parked ->
            {[r EXCEPT !.parked = r.down]}
      [] r.trips = {} /\ r.session = "NONE" /\ ~r.parked ->
            IF ~r.allowed THEN {r}
            ELSE IF r.rinseAsked THEN EnterRinse(r, FALSE)
            ELSE IF r.edge = "ON" THEN BeginCycle(r, FALSE) ELSE {r}
      [] r.trips = {} /\ r.session = "RINSE" /\ ~(r.web /\ r.edge # "NONE") ->
            IF cutDue THEN Finalize(r, "rinsed", FALSE) ELSE {r}
      [] OTHER ->
            IF r.rinseAsked THEN EnterRinse(r, FALSE)
            ELSE IF r.edge = "OFF" THEN Finalize(r, "activator", FALSE)
            ELSE IF r.noFlow THEN Finalize([r EXCEPT !.noFlow = FALSE], "abandoned", FALSE)
            ELSE IF cutDue THEN Finalize(r, Cut, FALSE) ELSE {r}

\* machineOnBrewOutcome.
CycleOutcome(r) ==
    IF r.startEdge /\ r.session = "NONE"
      THEN StartCanceled([r EXCEPT !.run = FALSE, !.gesture = FALSE]) ELSE r

\* processWebCommand.
ServeCommand(r, command) ==
    CASE command = "STOP" ->
            IF ~IsRunning(r) THEN {r}
            ELSE LET s == [r EXCEPT !.skip = FALSE]
                 IN IF r.session = "NONE" THEN RequestWebStop(s) ELSE Finalize(s, "web", TRUE)
      [] command = "PULSE" -> QueuePulse(r, "FORCED")
      [] command = "OFF" ->
            LET s == IF Flow THEN SettleOff(r) ELSE r
            IN IF r.session = "NONE" THEN {s} ELSE Finalize(s, "web", FALSE)
      [] command = "ON" ->
            IF ~Flow \/ r.retry \/ r.cutting THEN {r}
            ELSE {Confirmed([r EXCEPT !.stopAck = FALSE, !.startAck = FALSE,
                                      !.orphan = FALSE, !.armed = FALSE, !.settling = FALSE,
                                      !.noFlow = FALSE, !.run = TRUE, !.coffee = TRUE])}
      [] OTHER -> IF r.session # "NONE" \/ r.parked \/ IsRunning(r) \/ r.down THEN {r}
                  ELSE IF command = "START" THEN BeginCycle(r, TRUE) ELSE EnterRinse(r, TRUE)

-----------------------------------------------------------------------------

MomentaryInit ==
    /\ mpc = "input" /\ group = FALSE /\ mevents = 0
    /\ \E b \in Builds :
          m = [build |-> b, down |-> FALSE, held |-> FALSE, gesture |-> FALSE,
               before |-> [running |-> FALSE, level |-> "IDLE"], fromIdle |-> FALSE,
               rinseSent |-> FALSE, rinseAsked |-> FALSE, edge |-> "NONE",
               userStop |-> FALSE, startEdge |-> FALSE, skip |-> FALSE, run |-> FALSE,
               limit |-> "HARD", pulse |-> "NONE", pending |-> "NONE", allowed |-> FALSE,
               suppressed |-> FALSE, rinsing |-> FALSE, k1 |-> FALSE, taps |-> 0,
               safety |-> "OPEN", trips |-> {}, session |-> "NONE", web |-> FALSE,
               parked |-> FALSE, belief |-> "IDLE", startAck |-> FALSE, stopAck |-> FALSE,
               settling |-> FALSE, orphan |-> FALSE, retry |-> FALSE, cutting |-> FALSE,
               armed |-> FALSE, hadFlow |-> FALSE, sawFlow |-> FALSE, sawScale |-> FALSE,
               noFlow |-> FALSE, fresh |-> FALSE, coffee |-> FALSE, reed |-> FALSE,
               sawOff |-> TRUE, assume |-> "NONE", issued |-> FALSE]

\* What a step leaves behind, and the presses of the machine it made.
MachineBecomes(r) ==
    /\ m' = [r EXCEPT !.taps = 0]
    /\ group' = IF r.taps = 1 THEN ~group ELSE group

SampleInput ==
    /\ mpc = "input" /\ mpc' = "service"
    /\ \E down, long, blocked \in BOOLEAN :
          /\ down # m.down => mevents < MaxEvents
          /\ mevents' = IF down # m.down /\ down THEN mevents + 1 ELSE mevents
          /\ \E r \in Sample(down, long, blocked) : MachineBecomes(r)

Service ==
    /\ mpc = "service" /\ mpc' = "control"
    /\ \E o \in IF Flow THEN Observation ELSE {"LOST"}, reedDue \in IF Flow THEN {FALSE} ELSE BOOLEAN,
          wallDue \in {"NONE", "WALL", "HARD"} :
          /\ Flow /\ o \in {"FLOWING", "FLOWED"} => group
          /\ \E r \in ServiceMachine(o, reedDue, wallDue) : MachineBecomes(r)
    /\ UNCHANGED mevents

\* The analysis of the drips after a cut may be given up: cup or scale are gone.
CutSettlements ==
    {m} \cup (IF m.armed /\ m.session = "NONE" THEN {[m EXCEPT !.armed = FALSE]} ELSE {})

Control ==
    /\ mpc = "control" /\ mpc' = "commands"
    /\ \E s \in CutSettlements, cutDue \in BOOLEAN :
          \E r \in Act(s, cutDue) : MachineBecomes(CycleOutcome(r))
    /\ UNCHANGED mevents

Commands ==
    /\ mpc = "commands" /\ mpc' = "input"
    /\ \/ UNCHANGED <<m, group, mevents>>
       \/ /\ mevents < MaxEvents /\ mevents' = mevents + 1
          /\ \E command \in {"STOP", "PULSE", "OFF", "ON", "START", "RINSE"} :
                \E r \in ServeCommand(m, command) : MachineBecomes(r)

\* The deadline of K1 itself, when the button or a pulse holds it too long.
LimitCuts ==
    /\ m.k1 /\ mevents < MaxEvents
    /\ m' = Trip(m, "hard") /\ mevents' = mevents + 1
    /\ UNCHANGED <<mpc, group>>

\* The reed follows the group.
ReedFollows ==
    /\ ~Flow /\ m.reed # group
    /\ m' = [m EXCEPT !.reed = group, !.sawOff = @ \/ ~group]
    /\ UNCHANGED <<mpc, group, mevents>>

\* The barista or the machine itself starts or stops the group.
GroupTurns ==
    /\ mevents < MaxEvents /\ mevents' = mevents + 1
    /\ group' = ~group
    /\ UNCHANGED <<mpc, m>>

MomentaryNext ==
    \/ SampleInput \/ Service \/ Control \/ Commands
    \/ LimitCuts \/ ReedFollows \/ GroupTurns

MomentarySpec == MomentaryInit /\ [][MomentaryNext]_momentaryVars

-----------------------------------------------------------------------------

(* Between two steps K1 is closed only while a pulse runs or the button is   *)
(* held, whatever order of presses, pulses, trips, guards and web commands   *)
(* came before.                                                              *)
K1HasReason == m.k1 => m.pulse # "NONE" \/ m.down

(* The firmware never presses for a stop of its own unless the group was     *)
(* seen to run: by coffee since the start, or by a reed that has been off    *)
(* before.  A press into a stopped group would start it.                     *)
Emits == m.pulse # "STOP" /\ m'.pulse = "STOP" /\ m.pending # "STOP"
OnlyARunIsCut ==
    [][mpc # "commands" /\ Emits /\ m.session # "RINSE" =>
         IF Flow THEN m'.coffee ELSE m'.reed /\ m'.sawOff]_momentaryVars

(* A shot that ends at its weight, while the reed shows the group running,   *)
(* is ended by a pulse: "At the weight endpoint, a stop pulse is sent and    *)
(* the sensor reports the result" (settings/momentary.md).                   *)
CutsShot ==
    /\ mpc = "control" /\ m.session = "SHOT" /\ m'.session = "NONE"
    /\ ~m.web /\ m.trips = {} /\ m.edge = "NONE" /\ ~m.noFlow /\ ~m.rinseAsked
ReedShowsRun ==
    ~Flow /\ m.reed /\ m.sawOff /\ m.assume # "OFF" /\ ~m.issued /\ ~m.down
CutReachesGroup ==
    [][CutsShot /\ ReedShowsRun /\ m'.safety # "LOCKOUT" => m'.pulse # "NONE"]_momentaryVars

(* A fault that must not silently retry refuses new closes until a safe boot *)
(* ("LOCKOUT" in STATE_MACHINES.md): no step makes K1 available again.       *)
LockoutLasts == [][m.safety = "LOCKOUT" => m'.safety = "LOCKOUT"]_momentaryVars
=============================================================================
