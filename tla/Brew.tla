-------------------------------- MODULE Brew --------------------------------
(* The control loop of the paddle build: one pass of loop() is cut into six  *)
(* steps (pc), and the relay timers, the scale, the machine integration and  *)
(* the barista act between them.                                             *)
(*                                                                           *)
(*   input     paddle sampling, drive permission, cleaning observations      *)
(*   gesture   wake and backflush gestures, the no-scale guard               *)
(*   trips     the relay snapshot and the trip handlers of stateMachineTask  *)
(*   cycle     the rest of stateMachineTask                                  *)
(*   commands  shot finalization and one web command                         *)
(*   leases    the maintenance lease and the planned restart                 *)
(*                                                                           *)
(* c is everything the loop owns.  The functions of the code that change it  *)
(* are operators from such a record to the set of records they may leave     *)
(* behind; more than one when the relay may refuse to close.  Durations are  *)
(* not counted: a deadline is met or not by choice of the step that reads it.*)
EXTENDS MachineBackflush, FiniteSets

CONSTANTS
    Configs        \* settings and environment of an execution

Mode == {"NATURAL", "ORIGINAL", "AUTO"}
Command == {"NONE", "STOP", "REMOTE_OFF", "REMOTE_ON", "RINSE", "LEASE",
            "RESTART", "RESET_SAMPLES"}
Faults == {"relay",      \* the driver refuses a close, or locks out for it
           "power",      \* the CPU profile cannot be applied
           "watchdog"}   \* a task misses its watchdog
Setting == [mode : Mode, rinse : BOOLEAN, rinseArmed : BOOLEAN,
            noScale : {"OFF", "ONCE", "REQUIRE"}, cupGuard : BOOLEAN,
            timerOnly : BOOLEAN,
            cleaning : BOOLEAN,  \* the integration observes backflush requests
            paired : BOOLEAN,    \* a scale is configured
            faults : SUBSET Faults, \* what may fail
            commands : SUBSET Command]  \* what the web may send
ASSUME BrewAssumption ==
    Configs \subseteq Setting /\ Configs # {}

VARIABLES
    pc,        \* the step of loop() that runs next
    cfg,       \* settings
    pad,       \* activator inputs and the intention polled from them
    c,         \* what the control loop owns
    lease,     \* maintenance lease: kind, and whether it was forwarded
    restart,   \* planned restart: "none", "held" by the loop, "requested"
    scale,     \* "gone", "stale" or "fresh", and the cup on it
    micra,     \* cleaning observations of the integration
    last,      \* its last snapshot, served when the lock is taken
    posted,    \* a finished attempt waits for that lock
    obs        \* backflushObservation, the copy of this loop pass

cleaning == <<micra, last, posted, obs>>
vars == <<pc, cfg, pad, c, lease, restart, scale, cleaning>>

NoLease == [kind |-> "none", forwarded |-> FALSE]

-----------------------------------------------------------------------------
(* Observations shared by the handlers.                                      *)

HoldActive == pad.on \/ pad.raw
StablyOff == ~pad.on /\ ~pad.raw /\ pad.settled
TurnedOn == pad.edge = "on"

ScaleAvailable == scale.link # "gone"
ScaleUsable == scale.link = "fresh"

Leased == lease.kind # "none"
Backflushing(r) == r.state \in {"BACKFLUSH_CANDIDATE", "BACKFLUSH_RUNNING"}

(* noScaleShotGuardWouldBlock, cupStartGuardWouldBlock.                      *)
NoScaleBlocksMutConnected(r) ==
    cfg.noScale # "OFF" /\ ~ScaleAvailable /\ r.guard.armed /\ ~cfg.timerOnly

NoScaleBlocks(r) == /\ cfg.noScale # "OFF" /\ ~ScaleUsable
                    /\ r.guard.armed /\ ~cfg.timerOnly
CupBlocks == ScaleUsable /\ ~scale.cup /\ cfg.cupGuard /\ ~cfg.timerOnly

ConfigurationAllowed(r) ==
    r.state = "READY" /\ ~r.active /\ ~r.closed /\ ~HoldActive /\ ~Leased

UserHold == IF HoldActive THEN "REQUIRES_OFF" ELSE "READY"

-----------------------------------------------------------------------------
(* The relay driver, by its contract: a close may be refused once or lock    *)
(* the driver out, a close of a closed circuit rewrites the pin, and a       *)
(* pending trip survives a new closure.  A lockout sets no trip flag.  fault *)
(* is what asked for a safe restart: servicePowerManagement, also before a   *)
(* close, or a task that missed its watchdog.                                *)

PowerFailed(r) == IF r.fault = "watchdog" THEN r.fault ELSE "power"

LockedOut(r, fault) ==
    [r EXCEPT !.closed = FALSE, !.locked = TRUE, !.fault = fault]

Refusals(r) ==
    (IF "relay" \in cfg.faults /\ r.fault # "watchdog" THEN {r} ELSE {}) \cup
    (IF "relay" \in cfg.faults \/ r.fault = "watchdog"
     THEN {LockedOut(r, r.fault)} ELSE {}) \cup
    (IF "power" \in cfg.faults THEN {LockedOut(r, PowerFailed(r))} ELSE {})

Closings(r, wall) ==
    IF r.closed THEN {[ok |-> TRUE, to |-> r]}
    ELSE IF r.locked THEN {[ok |-> FALSE, to |-> r]}
    ELSE (IF r.fault = "watchdog" THEN {}
          ELSE {[ok |-> TRUE, to |-> [r EXCEPT !.closed = TRUE, !.wall = wall,
                                               !.owed = "yes"]]}) \cup
         {[ok |-> FALSE, to |-> s] : s \in Refusals(r)}

(* machineRequestStop: the same hold may not close the circuit again.        *)
Stopped(r) == [r EXCEPT !.closed = FALSE, !.suppressed = @ \/ HoldActive]

(* machineBeginRinse.                                                        *)
RinseStarts(r) ==
    IF r.cycle.rinsing THEN {[ok |-> TRUE, to |-> r]}
    ELSE Closings([r EXCEPT !.cycle.rinsing = TRUE], TRUE)

NoCycle == [on |-> FALSE, bbw |-> FALSE, promoted |-> FALSE,
            released |-> FALSE, hardMax |-> FALSE, rinsing |-> FALSE]

(* machineBeginCycle.                                                        *)
CycleBegun(r, bbw) ==
    [r EXCEPT !.cycle = [NoCycle EXCEPT !.on = TRUE, !.bbw = bbw,
                         !.hardMax = bbw /\ cfg.mode = "ORIGINAL",
                         !.rinsing = r.cycle.rinsing]]

HidesPhysicalStop(cycle) ==
    /\ cycle.on /\ cycle.bbw
    /\ \/ cfg.mode = "ORIGINAL" /\ ~cycle.promoted
       \/ cfg.mode = "AUTO"

AllowsAutomationStop(r) ==
    ~(HidesPhysicalStop(r.cycle) /\ cfg.mode = "ORIGINAL" /\ HoldActive)

-----------------------------------------------------------------------------
(* The end of a cycle.                                                       *)

(* One row of the activation history.  owed is an observer: whether the last *)
(* closure has its row, or was a backflush that a trip left without one.     *)
Recorded(r) == [r EXCEPT !.owed = "no", !.rows = IF r.owed = "no" THEN "twice" ELSE @]

RowMissed(r) ==
    [r EXCEPT !.owed = IF Backflushing(r) /\ @ = "yes" THEN "missed" ELSE @]

(* cancelPendingFinalize and pendingShotFinalizeTask commit the ended shot   *)
(* that waits for its drip.                                                  *)
PendingCommitted(r) ==
    IF r.shot = "waits" THEN [r EXCEPT !.shot = "none"] ELSE r

(* A shot that waits and is forgotten; nothing stores it any more.           *)
Forgotten(shot) == IF shot = "waits" THEN "lost" ELSE shot

(* schedulePendingShotFinalize: kept when the shot qualifies for the log, for *)
(* learning or for a webhook; never for a rinse.                             *)
Scheduled(r, keep) ==
    IF r.state = "RINSE" \/ ~keep THEN r ELSE [r EXCEPT !.shot = "waits"]

(* The session is over; what the code leaves in it is not read again.        *)
Ended(r, next) ==
    [r EXCEPT !.active = FALSE, !.outbound = FALSE, !.scaleCommands = FALSE,
              !.muted = FALSE, !.cycle = NoCycle, !.state = next,
              !.source = "PHYSICAL", !.withScale = FALSE, !.automatic = FALSE]

(* finalizeCycle.                                                            *)
Finalized(r, next) ==
    {Ended(Recorded(Scheduled(Stopped(r), keep)), next) : keep \in BOOLEAN}

(* handleGlobalLimitTrip and handleOperationalLimitTrip consume the flag;    *)
(* the circuit may still be closed when the loop saw the deadline first.     *)
HardTripHandledMutForgetsWake(r0) ==
    LET r == [(IF r0.hard THEN r0 ELSE Stopped(r0)) EXCEPT !.hard = FALSE,
                                                           !.wake = FALSE]
    IN  IF r.active THEN Finalized(r, "REQUIRES_OFF")
        ELSE {[RowMissed(r) EXCEPT !.state = "REQUIRES_OFF"]}

HardTripHandled(r0) ==
    LET r == [(IF r0.hard THEN r0 ELSE Stopped(r0)) EXCEPT !.hard = FALSE,
                                                           !.wake = FALSE]
    IN  IF r.active THEN Finalized(r, "REQUIRES_OFF")
        ELSE {[(IF r0.wake THEN Recorded(r) ELSE RowMissed(r))
                 EXCEPT !.state = "REQUIRES_OFF"]}

WallTripHandled(r0) ==
    LET r == [r0 EXCEPT !.op = FALSE, !.wake = FALSE]
    IN  IF r.active THEN Finalized(r, "REQUIRES_OFF")
        ELSE {[RowMissed(r) EXCEPT !.state = "REQUIRES_OFF"]}

-----------------------------------------------------------------------------
(* The start of a cycle.                                                     *)

(* consumeNoScaleShotGuard: "Require" is never used up.                      *)
GuardConsumed(r) == [r EXCEPT !.guard.armed = cfg.noScale = "REQUIRE"]

(* resetSessionForNewCycle, after cancelPendingFinalize.                     *)
SessionBegunMutForgets(r, source) ==
    [r EXCEPT !.active = TRUE, !.source = source, !.scaleCommands = TRUE,
              !.withScale = ScaleUsable, !.automatic = FALSE,
              !.guard.aborted = FALSE]

SessionBegun(r, source) ==
    [PendingCommitted(r) EXCEPT
        !.active = TRUE, !.source = source, !.scaleCommands = TRUE,
        !.withScale = ScaleUsable, !.automatic = FALSE,
        !.guard.aborted = FALSE]

StartRefused(r) == Ended(r, "REQUIRES_OFF")

(* requestRemoteTimerStart may find no scale to command: the cycle turns     *)
(* manual.  enterBrewOrManualFromStart names the state.                      *)
BrewOrManual(r) ==
    {[r EXCEPT !.automatic = auto,
               !.state = IF auto \/ (cfg.timerOnly /\ r.withScale)
                         THEN "BREW" ELSE "MANUAL_NO_SCALE"] :
        auto \in IF r.withScale /\ ~cfg.timerOnly THEN BOOLEAN ELSE {FALSE}}

(* beginCycle.                                                               *)
CycleStarts(r0, source) ==
    LET physical == source = "PHYSICAL"
        r == [r0 EXCEPT !.guard.fresh = @ /\ ~(physical /\ TurnedOn)]
        free == [r EXCEPT !.guard.held = FALSE]
        bbw == ScaleUsable /\ ~cfg.timerOnly
        begun == [CycleBegun(SessionBegun(free, source), bbw) EXCEPT !.outbound = TRUE]
    IN  IF Busy(obs) \/ Backflushing(r0) \/ (physical /\ r.guard.fresh)
        THEN {r0}
        ELSE IF NoScaleBlocks(r)
        THEN {IF physical
              THEN [r EXCEPT !.guard.held = TRUE, !.guard.aborted = TRUE,
                             !.guard.fresh = TRUE]
              ELSE [GuardConsumed(r) EXCEPT !.guard.held = FALSE]}
        ELSE IF CupBlocks
        THEN {free}
        ELSE UNION {IF k.ok THEN BrewOrManual(k.to) ELSE {StartRefused(k.to)} :
                      k \in Closings(begun, bbw /\ ~begun.cycle.hardMax)}

RinseBlocked(r, source) ==
    \/ cfg.noScale = "REQUIRE" /\ NoScaleBlocks(r)
    \/ /\ cfg.noScale # "REQUIRE" /\ ~cfg.rinseArmed
       /\ NoScaleBlocks(r) \/ (source = "PHYSICAL" /\ r.guard.held)

(* enterRinse on a session that is active: a running shot becomes a rinse.   *)
RinseEntered(r) ==
    UNION {IF k.ok
           THEN {[k.to EXCEPT !.automatic = FALSE, !.outbound = FALSE,
                              !.state = "RINSE"]}
           ELSE Finalized(k.to, "REQUIRES_OFF") : k \in RinseStarts(r)}

(* beginRinseCycle, and enterRinse after it, which then always succeeds.     *)
RinseBegins(r0, source) ==
    LET noted == NoScaleBlocks(r0) \/ r0.guard.held
        r == [r0 EXCEPT !.guard.aborted = @ \/ (source = "PHYSICAL" /\ noted)]
        spent(s) == IF s.guard.armed /\ ~ScaleUsable /\ cfg.noScale # "REQUIRE"
                    THEN GuardConsumed(s) ELSE s
        begun == CycleBegun([SessionBegun(r, source) EXCEPT !.guard.fresh = FALSE], FALSE)
    IN  IF Busy(obs) \/ Backflushing(r0) THEN {r0}
        ELSE IF RinseBlocked(r, source)
        THEN {IF cfg.noScale = "REQUIRE" THEN r
              ELSE [r EXCEPT !.guard.armed = FALSE,
                             !.guard.held = @ \/ (source = "PHYSICAL" /\ HoldActive)]}
        ELSE UNION {IF k.ok
                    THEN RinseEntered(spent(k.to))
                    ELSE {StartRefused(k.to)} : k \in RinseStarts(begun)}

-----------------------------------------------------------------------------
(* input: what loop() does before it looks at the relay.                     *)

(* A pending cleaning ends the drip analysis and the scale commands.         *)
LoopTop(r, o) ==
    IF Busy(o) /\ ~r.active
    THEN [PendingCommitted(r) EXCEPT !.scaleCommands = FALSE] ELSE r

(* pushActivatorDrivePermission, before the paddle is sampled.               *)
DrivePermission(r) ==
    [r EXCEPT !.allowed = \/ r.wake \/ Backflushing(r) \/ r.active
                          \/ ~(r.guard.held \/ NoScaleBlocks(r) \/ CupBlocks)]

(* updateActivatorInput: a level is believed once it has been stable for the *)
(* debounce time, which the choice of settled stands for.                    *)
Sampled(raw, settled) ==
    LET on == IF settled THEN raw ELSE pad.on
    IN  [pad EXCEPT !.raw = raw, !.settled = settled, !.on = on,
                    !.edge = IF on = pad.on THEN "none"
                             ELSE IF on THEN "on" ELSE "off"]

Samples == {Sampled(~pad.raw, FALSE)} \cup
           {Sampled(pad.raw, s) : s \in IF pad.settled THEN {TRUE} ELSE BOOLEAN}

(* applyPaddleRelayDrive: opens a circuit the paddle may not hold closed.    *)
Driven(r, p) ==
    IF ~(p.on \/ p.raw) THEN [r EXCEPT !.suppressed = FALSE]
    ELSE IF r.allowed /\ ~r.suppressed THEN r
    ELSE [r EXCEPT !.suppressed = TRUE, !.closed = FALSE,
                   !.muted = r.active /\ (@ \/ r.closed)]

(* machinePollIntention.                                                     *)
CyclePolled(r, p) ==
    LET released == r.cycle.released \/ (r.cycle.on /\ p.edge = "off")
    IN  [r EXCEPT
           !.cycle.released = released,
           !.cycle.promoted = @ \/ /\ HidesPhysicalStop(r.cycle)
                                   /\ p.edge = "on" /\ released
                                   /\ cfg.mode = "ORIGINAL"]

(* brief: the release is within the rinse gesture time of the start.         *)
IntentOf(r, p, brief) ==
    CASE p.edge = "on" -> IF r.cycle.on THEN "HOLD" ELSE "START"
      [] p.edge = "off" /\ cfg.rinse /\ brief -> "RINSE"
      [] p.edge = "off" /\ ~(cfg.rinse /\ brief)
         /\ (~HidesPhysicalStop(r.cycle) \/ brief) -> "STOP"
      [] OTHER -> IF p.on \/ p.raw THEN "HOLD"
                  ELSE IF p.settled THEN "IDLE" ELSE "NONE"

(* endBackflush opens the circuit, adds the row and gives the permit back:   *)
(* at once, or through the posted attempt when the lock is taken.            *)
BackflushEndedMutStaysClosed(r) ==
    [Recorded(r) EXCEPT !.permit = "none", !.state = "REQUIRES_OFF"]

BackflushEnded(r) ==
    [Recorded(Stopped(r)) EXCEPT !.permit = "none", !.state = "REQUIRES_OFF"]

Ends(r, m) == [to |-> BackflushEnded(r), micra |-> m, finish |-> TRUE, skip |-> TRUE]
Stays(r, m, skip) == [to |-> r, micra |-> m, finish |-> FALSE, skip |-> skip]

(* backflushProvenanceCurrent.                                               *)
Current(m) == /\ m.valid /\ m.phase \in {"AWAITING", "ACTIVE"}
              /\ m.cont /\ m.epi /\ m.attempt

(* serviceBackflush: the queued changes are read in order; the first one     *)
(* that cannot extend the attempt ends it.  A promotion that the relay does  *)
(* not commit locks the driver out.                                          *)
BackflushServed(r, p) ==
    LET q == obs.queue
        confirmed(i) == r.state = "BACKFLUSH_RUNNING"
                        \/ \E j \in 1 .. i - 1 : q[j].phase = "ACTIVE"
        breaks(i) == \/ ~q[i].epi
                     \/ q[i].phase = "ACTIVE" /\ ~(r.permit = "extendable" /\ q[i].att)
                     \/ q[i].phase = "INACTIVE"
                     \/ q[i].phase = "AWAITING" /\ confirmed(i)
        lost == \/ p.edge = "off" \/ ~(p.on \/ p.raw)
                \/ ~r.closed \/ r.hard \/ r.op
                \/ ~obs.valid \/ ~obs.cont \/ ~obs.attempt
                \/ \E i \in 1 .. Len(q) : breaks(i)
        promotes == confirmed(Len(q) + 1) /\ r.state = "BACKFLUSH_CANDIDATE"
    IN  IF lost THEN {Ends(r, micra)}
        ELSE IF ~promotes THEN {Stays(r, micra, TRUE)}
        ELSE {Ends(s, micra) : s \in {r} \cup (IF "relay" \in cfg.faults
                                              THEN {LockedOut(r, r.fault)} ELSE {})}
             \cup
             {Stays([r EXCEPT !.state = "BACKFLUSH_RUNNING"], micra, TRUE) :
                x \in IF Current(micra) THEN {1} ELSE {}}

(* What the integration makes of a new paddle edge (physicalStart); the      *)
(* lock may be taken, and the account may not be ready for a cleaning.       *)
PhysicalStarts ==
    LET m == IF posted THEN Finished(micra) ELSE micra
        blocked == IF Busy(last) THEN "BLOCKED" ELSE "NORMAL"
        taken == [does |-> blocked, micra |-> micra, last |-> last, locked |-> FALSE]
        locked(d, n) == [does |-> d, micra |-> n, locked |-> TRUE,
                         last |-> IF d = "CANDIDATE" THEN Snapshot(n) ELSE last]
    IN  {taken} \cup
        (IF Admissible(m)
         THEN {locked("CANDIDATE", Started(m)),
               locked("BLOCKED", Finished(Started(m)))}
         ELSE IF Busy(m) THEN {locked("BLOCKED", m)}
         ELSE {locked("NORMAL", m), locked("WAKE", m)})

(* serviceMachineWakeGesture on a paddle edge that reached the integration;  *)
(* a candidate ends at once when its evidence went while the relay closed.   *)
FreeMutAnyState(r) == ~r.active /\ ~Leased

Free(r) == r.state = "READY" /\ ~r.active /\ ~Leased

EdgeServed(r, start) ==
    LET free == Free(r)
        granted == [r EXCEPT !.allowed = TRUE, !.suppressed = FALSE]
        parked == IF r.active THEN r ELSE [r EXCEPT !.state = "REQUIRES_OFF"]
        kind == IF start.micra.extendable THEN "extendable" ELSE "plain"
    IN  CASE start.does = "NORMAL" -> {Stays(r, start.micra, FALSE)}
          [] start.does = "BLOCKED" -> {Stays(parked, start.micra, TRUE)}
          [] start.does = "CANDIDATE" /\ ~(free /\ ~r.closed) ->
               {[Stays([parked EXCEPT !.permit = "none"], start.micra, TRUE)
                   EXCEPT !.finish = TRUE]}
          [] start.does = "CANDIDATE" /\ free /\ ~r.closed ->
               UNION {IF k.ok
                      THEN {Stays([k.to EXCEPT !.permit = kind,
                                               !.state = "BACKFLUSH_CANDIDATE"],
                                  start.micra, TRUE),
                            Ends(k.to, start.micra)}
                      ELSE {[Stays([k.to EXCEPT !.state = "REQUIRES_OFF"],
                                   start.micra, TRUE) EXCEPT !.finish = TRUE]} :
                        k \in Closings(granted, FALSE)}
          [] start.does = "WAKE" ->
               IF ~free THEN {Stays(r, start.micra, TRUE)}
               ELSE {Stays(IF k.ok THEN [k.to EXCEPT !.wake = TRUE]
                           ELSE [k.to EXCEPT !.state = "REQUIRES_OFF"],
                           start.micra, TRUE) : k \in Closings(granted, FALSE)}

(* serviceMachineWakeGesture when no edge is new.                            *)
GestureServed(r, p) ==
    IF Backflushing(r) THEN BackflushServed(r, p)
    ELSE IF r.wake
    THEN {Stays(IF p.edge = "off" \/ ~(p.on \/ p.raw)
                THEN [Recorded(Stopped(r)) EXCEPT !.wake = FALSE] ELSE r,
                micra, TRUE)}
    ELSE {Stays(r, micra, FALSE)}

(* serviceNoScaleShotGuard: a returned scale arms the guard, a blocked hold  *)
(* ends with the release or its timeout, an idle time arms the guard again,  *)
(* and three quick presses let one shot through "Require".                   *)
GuardServed(r0, p) ==
    LET held == p.on \/ p.raw
        r1 == [r0 EXCEPT !.guard.armed = @ \/ (ScaleAvailable /\ ~r0.guard.seen),
                         !.guard.seen = ScaleAvailable,
                         !.guard.held = @ /\ held]
        outwaited == IF r1.guard.held /\ NoScaleBlocks(r1) /\ cfg.noScale = "ONCE"
                     THEN {r1, [r1 EXCEPT !.guard.held = FALSE, !.guard.armed = FALSE]}
                     ELSE {r1}
        rearmed == outwaited \cup {[r EXCEPT !.guard.armed = TRUE] :
                                     r \in {s \in outwaited : ~s.active}}
        bypasses(r) == /\ cfg.noScale = "REQUIRE" /\ NoScaleBlocks(r) /\ ~r.active
                       /\ ~held /\ p.settled
    IN  rearmed \cup {[r EXCEPT !.guard.armed = FALSE, !.guard.held = FALSE,
                               !.guard.fresh = TRUE, !.guard.done = TRUE] :
                        r \in {s \in rearmed : bypasses(s)}}

-----------------------------------------------------------------------------
(* The steps of the loop.                                                    *)

Boot == [state |-> "REQUIRES_OFF", active |-> FALSE, source |-> "PHYSICAL",
         withScale |-> FALSE, automatic |-> FALSE, cycle |-> NoCycle,
         allowed |-> FALSE, suppressed |-> FALSE, closed |-> FALSE,
         wall |-> FALSE, hard |-> FALSE, op |-> FALSE, locked |-> FALSE,
         fault |-> "none", outbound |-> FALSE, scaleCommands |-> FALSE,
         shot |-> "none",
         wake |-> FALSE, permit |-> "none", owed |-> "no",
         rows |-> "once", muted |-> FALSE, skip |-> FALSE,
         guard |-> [armed |-> TRUE, held |-> FALSE, fresh |-> FALSE,
                    aborted |-> FALSE, seen |-> FALSE, done |-> FALSE]]

Init ==
    /\ pc = "input"
    /\ cfg \in Configs
    /\ \E on \in BOOLEAN :
          pad = [raw |-> on, on |-> on, settled |-> FALSE, edge |-> "none",
                 intent |-> "NONE"]
    /\ c = Boot
    /\ lease = NoLease /\ restart = "none"
    /\ scale = [link |-> "gone", cup |-> FALSE]
    /\ micra = Idle /\ last = Idle /\ posted = FALSE /\ obs = Idle

(* machineIntegrationBackflush(true): served from the last snapshot when the *)
(* lock is taken.                                                            *)
Polls(m) ==
    {[obs |-> Snapshot(m), micra |-> Taken(m), posted |-> FALSE]} \cup
    (IF cfg.cleaning
     THEN {[obs |-> Taken(last), micra |-> micra, posted |-> posted]} ELSE {})

(* A safe restart waits for the session and the circuit, unless a task       *)
(* missed its watchdog.                                                      *)
RestartDue ==
    \/ c.fault = "watchdog"
    \/ (restart = "requested" \/ c.fault = "power") /\ ~c.active /\ ~c.closed

Input ==
    /\ pc = "input" /\ ~RestartDue
    /\ \E poll \in Polls(IF posted THEN Finished(micra) ELSE micra),
          p \in Samples, brief \in BOOLEAN :
         LET r == CyclePolled(Driven(DrivePermission(LoopTop(c, poll.obs)), p), p)
         IN  /\ obs' = poll.obs /\ micra' = poll.micra /\ posted' = poll.posted
             /\ last' = Taken(poll.obs)
             /\ c' = r
             /\ pad' = [p EXCEPT !.intent = IntentOf(r, p, brief)]
    /\ pc' = "gesture"
    /\ UNCHANGED <<cfg, lease, restart, scale>>

(* The gesture and, unless it was used up, the start guard.                  *)
Gestured(g, locked, snapshot) ==
    /\ micra' = IF g.finish /\ locked THEN Finished(g.micra) ELSE g.micra
    /\ posted' = ((posted /\ ~locked) \/ (g.finish /\ ~locked))
    /\ last' = IF g.finish THEN Finished(snapshot) ELSE snapshot
    /\ obs' = Taken(obs)
    /\ IF g.skip \/ (Busy(obs) /\ ~c.active /\ ~TurnedOn)
       THEN c' = [g.to EXCEPT !.skip = g.skip]
       ELSE \E r \in GuardServed(g.to, pad) : c' = [r EXCEPT !.skip = FALSE]
    /\ pc' = "trips"
    /\ UNCHANGED <<cfg, pad, lease, restart, scale>>

Gesture ==
    /\ pc = "gesture"
    /\ ~(TurnedOn /\ ~Backflushing(c) /\ ~c.wake)
    /\ \E g \in GestureServed(c, pad), locked \in BOOLEAN :
         /\ ~locked \/ g.finish
         /\ Gestured(g, locked, last)

GestureEdge ==
    /\ pc = "gesture"
    /\ TurnedOn /\ ~Backflushing(c) /\ ~c.wake
    /\ \E start \in PhysicalStarts :
         \E g \in EdgeServed(c, start) : Gestured(g, start.locked, start.last)

(* The edge and the intention are locals of one pass: nothing after          *)
(* stateMachineTask reads them.                                              *)
PassedOn(p) == [p EXCEPT !.edge = "none", !.intent = "NONE"]

(* stateMachineTask up to the trips.  late: the loop sees a deadline that    *)
(* its timer has not served yet.                                             *)
HardTrip ==
    /\ pc = "trips"
    /\ c.hard \/ c.closed
    /\ c' \in HardTripHandled(c)
    /\ pc' = "commands" /\ pad' = PassedOn(pad)
    /\ UNCHANGED <<cfg, lease, restart, scale, cleaning>>

WallTrip ==
    /\ pc = "trips"
    /\ ~c.hard
    /\ \/ c.op \/ (c.closed /\ c.wall)
       \/ c.closed /\ c.active /\ c.cycle.hardMax /\ AllowsAutomationStop(c)
    /\ c' \in WallTripHandled(c)
    /\ pc' = "commands" /\ pad' = PassedOn(pad)
    /\ UNCHANGED <<cfg, lease, restart, scale, cleaning>>

NoTrip ==
    /\ pc = "trips"
    /\ ~c.hard /\ ~c.op
    /\ IF c.wake \/ c.skip
       THEN pc' = "commands" /\ pad' = PassedOn(pad)
       ELSE pc' = "cycle" /\ pad' = pad
    /\ c' = [c EXCEPT !.skip = FALSE]
    /\ UNCHANGED <<cfg, lease, restart, scale, cleaning>>

-----------------------------------------------------------------------------
(* cycle: stateMachineTask after the trips.                                  *)

(* The row of a start that the guard refused, once the paddle is back.       *)
AbortRecorded(r) ==
    IF r.guard.aborted /\ ~HoldActive /\ ~r.active
    THEN [r EXCEPT !.guard.aborted = FALSE] ELSE r

ReadyServed(r) ==
    LET started == IF pad.intent = "START" THEN CycleStarts(r, "PHYSICAL") ELSE {r}
        rinsed(s) ==
            IF /\ pad.intent = "RINSE" /\ cfg.rinse
               /\ ~(cfg.noScale = "REQUIRE" /\ s.guard.fresh)
            THEN {[t EXCEPT !.guard.held = @ /\ t.state # "RINSE"] :
                    t \in RinseBegins(s, "PHYSICAL")}
            ELSE {s}
    IN  {AbortRecorded(t) : t \in UNION {rinsed(s) : s \in started}}

(* Ends that the weight, the cup or the time guard decide for a brew.        *)
AutomationEnds(r) ==
    IF r.automatic /\ AllowsAutomationStop(r) THEN Finalized(r, UserHold) ELSE {}

ShotServed(r) ==
    IF pad.intent = "RINSE" /\ cfg.rinse THEN RinseEntered(r)
    ELSE IF pad.intent = "STOP" THEN Finalized(r, "READY")
    ELSE IF r.state = "BREW"
    THEN {r} \cup AutomationEnds(r)
         \cup (IF r.withScale /\ ~scale.cup THEN Finalized(r, UserHold) ELSE {})
    ELSE {r}

StateServed(r) ==
    CASE r.state = "REQUIRES_OFF" ->
           {IF pad.intent = "IDLE" \/ StablyOff THEN [r EXCEPT !.state = "READY"] ELSE r}
      [] r.state = "READY" -> ReadyServed(r)
      [] r.state = "RINSE" -> {r} \cup Finalized(r, UserHold)
      [] r.state \in {"BREW", "MANUAL_NO_SCALE"} -> ShotServed(r)
      [] OTHER -> {r}

(* The third quick press is used up, its refused start recorded.             *)
CycleBypassed ==
    /\ pc = "cycle" /\ c.guard.done
    /\ c' = [AbortRecorded(c) EXCEPT !.guard.done = FALSE]
    /\ UNCHANGED <<lease, restart>>

(* A lease keeps the circuit open, and a paddle ON takes an unforwarded one  *)
(* back; a planned restart goes on waiting.                                  *)
CycleLeasedMutCancelsRestart ==
    /\ pc = "cycle" /\ ~c.guard.done /\ Leased
    /\ c' = [(IF c.closed THEN Stopped(c) ELSE c) EXCEPT
                !.state = IF HoldActive THEN "REQUIRES_OFF" ELSE @]
    /\ lease' = IF HoldActive /\ ~lease.forwarded THEN NoLease ELSE lease
    /\ UNCHANGED restart

CycleLeased ==
    /\ pc = "cycle" /\ ~c.guard.done /\ Leased
    /\ c' = [(IF c.closed THEN Stopped(c) ELSE c) EXCEPT
                !.state = IF HoldActive THEN "REQUIRES_OFF" ELSE @]
    /\ IF HoldActive /\ ~lease.forwarded
       THEN /\ lease' = NoLease
            /\ restart' = IF lease.kind = "restart" THEN "held" ELSE restart
       ELSE UNCHANGED <<lease, restart>>

(* The paddle takes a cycle over that the web started.                       *)
CycleOverridden ==
    /\ pc = "cycle" /\ ~c.guard.done /\ ~Leased
    /\ c.active /\ c.source = "WEB" /\ pad.edge # "none"
    /\ c' \in Finalized(c, UserHold)
    /\ UNCHANGED <<lease, restart>>

CycleServed ==
    /\ pc = "cycle" /\ ~c.guard.done /\ ~Leased
    /\ ~(c.active /\ c.source = "WEB" /\ pad.edge # "none")
    /\ c' \in StateServed(c)
    /\ UNCHANGED <<lease, restart>>

Cycle ==
    /\ CycleBypassed \/ CycleLeased \/ CycleOverridden \/ CycleServed
    /\ pc' = "commands" /\ pad' = PassedOn(pad)
    /\ UNCHANGED <<cfg, scale, cleaning>>

-----------------------------------------------------------------------------
(* commands: what loop() does after stateMachineTask.                        *)

(* pendingShotFinalizeTask, once the drip delay is over.                     *)
Settled(r) == {r, PendingCommitted(r)}

(* STOP needs a running machine, REMOTE_OFF a cycle of the web.              *)
StopCommandedMutOpensOnly(r, command) ==
    IF ~r.closed \/ (command = "REMOTE_OFF" /\ ~(r.active /\ r.source = "WEB"))
    THEN {r} ELSE {Stopped(r)}

StopCommanded(r, command) ==
    IF ~r.closed \/ (command = "REMOTE_OFF" /\ ~(r.active /\ r.source = "WEB"))
    THEN {r}
    ELSE IF r.active THEN Finalized(r, UserHold) ELSE {Stopped(r)}

StartCommandedMutIgnoresLease(r, command) ==
    IF r.state # "READY" THEN {r}
    ELSE IF command = "REMOTE_ON" THEN CycleStarts(r, "WEB")
    ELSE IF cfg.rinse THEN RinseBegins(r, "WEB") ELSE {r}

StartCommanded(r, command) ==
    IF ~ConfigurationAllowed(r) THEN {r}
    ELSE IF command = "REMOTE_ON" THEN CycleStarts(r, "WEB")
    ELSE IF cfg.rinse THEN RinseBegins(r, "WEB") ELSE {r}

(* RESET_AUTO_TO_MANUAL_GUARD_SAMPLES forgets a shot that waits for its drip.*)
SamplesReset(r) ==
    IF ConfigurationAllowed(r) THEN [r EXCEPT !.shot = Forgotten(@)] ELSE r

Commanded(r, command) ==
    CASE command \in {"STOP", "REMOTE_OFF"} -> StopCommanded(r, command)
      [] command \in {"REMOTE_ON", "RINSE"} -> StartCommanded(r, command)
      [] command = "RESET_SAMPLES" -> {SamplesReset(r)}
      [] OTHER -> {r}

(* holdOrBeginPlannedRestart, beginMaintenanceLease.                         *)
LeaseCommanded(r, command) ==
    /\ lease' = IF ConfigurationAllowed(r) /\ command \in {"LEASE", "RESTART"}
                THEN [kind |-> IF command = "RESTART" THEN "restart" ELSE "other",
                      forwarded |-> FALSE]
                ELSE lease
    /\ restart' = IF command = "RESTART"
                  THEN IF ConfigurationAllowed(r) THEN "none" ELSE "held"
                  ELSE restart

ServeCommand ==
    /\ pc = "commands"
    /\ \E settled \in Settled(c), command \in cfg.commands :
         /\ c' \in Commanded(settled, command)
         /\ LeaseCommanded(settled, command)
    /\ pc' = "leases"
    /\ UNCHANGED <<cfg, pad, scale, cleaning>>

(* completeMaintenanceLease; the network worker asks for the restart.        *)
LeaseDone ==
    /\ pc = "commands" /\ lease.forwarded
    /\ \E settled \in Settled(c) :
         c' = [settled EXCEPT !.state = IF HoldActive THEN "REQUIRES_OFF" ELSE @]
    /\ lease' = NoLease
    /\ restart' = IF lease.kind = "restart" THEN "requested" ELSE restart
    /\ pc' = "leases"
    /\ UNCHANGED <<cfg, pad, scale, cleaning>>

(* serviceMaintenanceLease after its settle time, servicePendingPlannedRestart. *)
Leases ==
    /\ pc = "leases"
    /\ \/ /\ Leased
          /\ \E settled \in BOOLEAN :
               lease' = [lease EXCEPT !.forwarded = @ \/ (settled /\ StablyOff)]
          /\ UNCHANGED <<c, restart>>
       \/ /\ ~Leased /\ restart = "held" /\ ConfigurationAllowed(c)
          /\ lease' = [kind |-> "restart", forwarded |-> FALSE]
          /\ restart' = "none"
          /\ c' = Stopped(c)
       \/ /\ ~Leased /\ ~(restart = "held" /\ ConfigurationAllowed(c))
          /\ UNCHANGED <<c, lease, restart>>
    /\ pc' = "input"
    /\ UNCHANGED <<cfg, pad, scale, cleaning>>

(* The top of loop(): machineRequestStop, then the restart; K1 is open from   *)
(* here, whatever it was closed for.                                         *)
Restart ==
    /\ pc = "input" /\ RestartDue
    /\ c' = [Boot EXCEPT !.shot = Forgotten(c.shot)]
    /\ pad' = [pad EXCEPT !.on = pad.raw, !.settled = FALSE, !.edge = "none",
                          !.intent = "NONE"]
    /\ lease' = NoLease /\ restart' = "none"
    /\ micra' = Idle /\ last' = Idle /\ posted' = FALSE /\ obs' = Idle
    /\ UNCHANGED <<pc, cfg, scale>>

-----------------------------------------------------------------------------
(* Between the steps: the relay timers, a relay fault, the scale and the     *)
(* cup, and what the integration observes.                                   *)

HardCut ==
    /\ c.closed
    /\ c' = [c EXCEPT !.closed = FALSE, !.hard = TRUE, !.op = FALSE]
    /\ UNCHANGED <<pc, cfg, pad, lease, restart, scale, cleaning>>

WallCut ==
    /\ c.closed /\ c.wall
    /\ c' = [c EXCEPT !.closed = FALSE, !.op = TRUE, !.hard = FALSE]
    /\ UNCHANGED <<pc, cfg, pad, lease, restart, scale, cleaning>>

(* A task misses its watchdog (reportTaskWatchdogFault): closes are refused, *)
(* and the next pass trips the relay and restarts.                           *)
WatchdogFault ==
    /\ "watchdog" \in cfg.faults
    /\ c' = [c EXCEPT !.fault = "watchdog"]
    /\ UNCHANGED <<pc, cfg, pad, lease, restart, scale, cleaning>>

(* The CPU profile cannot be applied (servicePowerManagement, after the      *)
(* commands): lockout, and a restart that waits for the session.             *)
PowerFault ==
    /\ "power" \in cfg.faults /\ pc = "leases"
    /\ c' = LockedOut(c, PowerFailed(c))
    /\ UNCHANGED <<pc, cfg, pad, lease, restart, scale, cleaning>>

ScaleChanges ==
    /\ cfg.paired
    /\ \/ /\ pc = "input"
          /\ \E link \in {"gone", "stale", "fresh"}, cup \in BOOLEAN :
               /\ link # "fresh" => cup = scale.cup
               /\ scale' = [link |-> link, cup |-> cup]
       \/ /\ pc = "cycle" /\ scale.link = "fresh"
          /\ scale' = [scale EXCEPT !.link = "stale"]
    /\ UNCHANGED <<pc, cfg, pad, c, lease, restart, cleaning>>

MachineObserved ==
    /\ cfg.cleaning /\ pc \in {"input", "gesture"}
    /\ \/ \E p \in Phase \ {"UNSUPPORTED"}, ours \in BOOLEAN :
            /\ ours => micra.attempt
            /\ micra' = Observed(micra, p, ours)
       \/ \E m \in {Invalidated(micra), Reset(micra)} : micra' = m
    /\ UNCHANGED <<pc, cfg, pad, c, lease, restart, scale, last, posted, obs>>

Loop == \/ Input \/ Gesture \/ GestureEdge \/ HardTrip \/ WallTrip \/ NoTrip
        \/ Cycle \/ ServeCommand \/ LeaseDone \/ Leases \/ Restart

Next == Loop \/ HardCut \/ WallCut \/ WatchdogFault \/ PowerFault
        \/ ScaleChanges \/ MachineObserved

Spec == Init /\ [][Next]_vars

-----------------------------------------------------------------------------
(* Nothing is closed or held open for nobody, whatever a failed start, a trip *)
(* or a command did: K1 belongs to a cycle, a wake gesture or a backflush that *)
(* will open it again, and between two passes a cleaning attempt of the        *)
(* integration belongs to a backflush, or was given back.                      *)
ClosureHasOwner ==
    /\ c.closed => c.active \/ c.wake \/ Backflushing(c)
    /\ pc = "input" /\ micra.attempt =>
           posted \/ Backflushing(c) \/ c.owed = "missed"

(* A session whose circuit was opened knows of it: a trip flag is pending,   *)
(* and stateMachineTask will finalize it.                                    *)
ActiveIsClosedOrTripped == c.active => c.closed \/ c.hard \/ c.op

(* A session whose circuit was opened is told: a trip flag is pending, and    *)
(* stateMachineTask will finalize it; or the driver is locked for a power    *)
(* fault, and the restart that the fault asked for waits for the session.  A *)
(* lockout for a refused close or promotion leaves no session behind.  Not   *)
(* said of a session that applyPaddleRelayDrive cut for a hold that had been *)
(* refused before the session began (configuration brew_circuit).            *)
ActiveIsClosedOrTold ==
    c.active /\ ~c.muted =>
        c.closed \/ c.hard \/ c.op \/ (c.locked /\ c.fault # "none")

(* Nothing uses the circuit.                                                 *)
Quiet == pc = "input" /\ ~c.active /\ ~c.wake /\ ~Backflushing(c)

(* Every closure gets one row of the activation history and no closure two;  *)
(* excepted is a backflush that a trip ended.  The observer starts afresh    *)
(* with a restart; only a watchdog restart can come while a circuit is       *)
(* closed, and the row of that closure is lost with the session.             *)
HistoryIsExact == c.rows = "once" /\ (Quiet => c.owed # "yes")

(* A backflush is in the history however it ended.                           *)
BackflushIsRecorded == c.owed # "missed"

(* A shot leaves nothing behind: when it ended and waits for its drip, it is  *)
(* committed before the next cycle replaces the measurements it is analysed   *)
(* from; and between two passes only a shot keeps the network's outbound work *)
(* away, and only a cycle talks to the scale (cancelPendingFinalize,          *)
(* enterRinse, finalizeCycle).                                                *)
ShotLeavesNothing ==
    /\ c.active => c.shot # "waits"
    /\ pc = "input" =>
           /\ c.outbound <=> c.active /\ c.state \in {"BREW", "MANUAL_NO_SCALE"}
           /\ c.scaleCommands => c.active

(* The machine works for nobody while a maintenance lease quiesces it.       *)
LeaseIsQuiet == Leased => ~c.active /\ (pc = "input" => ~c.closed)

(* With "Require", no shot begins without a scale that can measure it, unless *)
(* the three quick presses let it through.                                   *)
RequireNeedsScale ==
    [][c'.active /\ ~c.active /\ c'.state # "RINSE" /\ cfg.noScale = "REQUIRE"
         => ScaleUsable \/ cfg.timerOnly \/ ~c.guard.armed]_vars

(* A refused, tripped or overridden hold does not close the circuit again    *)
(* before the paddle has been seen released.                                 *)
NoRecloseInHold ==
    [][c.state = "REQUIRES_OFF" /\ c'.state = "REQUIRES_OFF" /\ c'.closed
         => c.closed]_vars

(* A planned restart is carried out or waits; a paddle that takes the lease  *)
(* back does not cancel it.                                                  *)
RestartIsKept ==
    [][(restart # "none" \/ lease.kind = "restart") /\ c' # Boot
         => restart' # "none" \/ lease'.kind = "restart"
            \/ (pc = "input" /\ RestartDue)]_vars
=============================================================================
