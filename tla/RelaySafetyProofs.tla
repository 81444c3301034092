-------------------------- MODULE RelaySafetyProofs --------------------------
(***************************************************************************)
(* Proofs about RelaySafety for every value of its constants.               *)
(***************************************************************************)
EXTENDS RelaySafety, TLAPS

\* The sections of a close after its snapshot.
Closing ==
    \/ pc \in {"disarm", "arming", "arm_timers", "commit"}
    \/ pc \in {"inverse", "marker"} /\ call.then = "commit"

\* The close has set its limits, but has not energized K1.
LimitsSet == Closing /\ pc \notin {"disarm", "arming"}

\* A close that is under way has passed the validation of its arguments ...
CloseIsValid == Closing => ValidClose(call.limit, call.purpose)

\* ... and published its limits before it arms the timers.
LimitsAgree == LimitsSet =>
    /\ hardLimit = IF Unlimited(call.purpose) THEN 0 ELSE HardMax
    /\ operationalLimit = IF Unlimited(call.purpose) THEN 0 ELSE call.limit
    /\ purpose = call.purpose

\* The GPTimer will cut a closure that has lasted n ticks within bound ticks.
Guarded(n, bound) ==
    \/ gp.phase = "fired" /\ n <= bound
    \/ gp.phase = "running" /\ n + gp.due <= bound

\* The commit finds the GPTimer armed unless a deadline has cancelled it.
ArmedBeforeCommit ==
    LimitsSet /\ pc # "arm_timers" /\ relaySafetyState = "ARMING" /\ hardLimit # 0
        => Guarded(0, call.limit)

\* Which sections can be running while K1 is energized.
ClosedWhere ==
    /\ circuitClosed <=> relaySafetyState = "CLOSED"
    /\ circuitClosed => ~Closing /\ pc \notin {"inverse", "marker", "cleanup"}
    /\ pin = "CLOSED" => circuitClosed
    /\ energizedFor <= closedFor
    /\ ~circuitClosed => energizedFor = 0

PromoteSections == {"promote_gptimer", "promote_stop", "promote_start",
                    "promote_commit"}
PromoteCall ==
    /\ pc \in PromoteSections => call.from = "promote"
    /\ call.from = "promote" => pc \in PromoteSections \union {"trip"}
    /\ pc \in PromoteSections /\ call.armed => pc = "promote_commit"

\* A candidate closure has the hard limit as its operational limit.
CandidateLimits ==
    circuitClosed /\ purpose = "BACKFLUSH_CANDIDATE"
        => hardLimit = HardMax /\ operationalLimit = HardMax

\* A promotion has replaced the GPTimer deadline and may still complete.
Replaced == pc \in {"promote_stop", "promote_start"}
            \/ (pc = "promote_commit" /\ call.armed)

\* The GPTimer guards every limited closure; while a promotion replaces the
\* deadline it guards the backflush limit, or is stopped by a failed arm that
\* ends in a trip.
Deadline ==
    circuitClosed /\ hardLimit # 0 =>
       /\ operationalLimit \in 1..BackflushMax
       /\ call.from # "promote" \/ pc = "promote_gptimer"
            => Guarded(energizedFor, operationalLimit)
       /\ Replaced => Guarded(energizedFor, BackflushMax)
       /\ call.from = "promote"
            => \/ gp.phase = "stopped" /\ "gptimer" \in Faults
               \/ Guarded(energizedFor, BackflushMax)

\* Sections that can only be reached while the driver is not locked out.
NotLockedOut ==
    /\ pc \in {"disarm", "arming", "reassert", "expiry"}
         => relaySafetyState # "LOCKOUT"
    /\ pc = "trip" /\ call.trip # "lockout" /\ call.from # "wall"
         => relaySafetyState # "LOCKOUT"

\* The call of a logical run wall is its trip section, and is never a lockout.
WallCall == call.from = "wall" =>
    LogicalWalls /\ pc = "trip" /\ call.trip # "lockout"

\* A cut closure keeps its flag through the close that follows.
CutKept == cut => Tripped /\ (pc \in {"disarm", "arming"} => call.keepTrips)

\* An alarm that is armed or fired belongs to the running closure.
AlarmIsDue ==
    (circuitClosed \/ (LimitsSet /\ pc # "arm_timers")) /\ hardLimit # 0 =>
       LET limit == IF Replaced THEN BackflushMax ELSE operationalLimit IN
       /\ gp.phase = "running" => closedFor + gp.due >= limit
       /\ gp.phase = "fired" => closedFor >= limit

\* The RTC record of an open circuit reads OPEN, but for the sections that write
\* it and for a trip that control has not consumed.
Published == marker = "OPEN" /\ markerInverse = "OPEN"
OpenRecorded ==
    /\ pc \in {"inverse", "marker"} =>
         call.mark = IF call.then = "cleanup" THEN "OPEN" ELSE "CLOSED"
    /\ pc = "marker" /\ call.then = "cleanup" => markerInverse = "OPEN"
    /\ pc \in {"disarm", "arming"} /\ ~call.keepTrips => Published
    /\ pc = "cleanup" => Published
    /\ pc \notin {"inverse", "marker", "commit"} /\ ~circuitClosed /\ ~Tripped
         => Published

Core == /\ CloseIsValid /\ LimitsAgree /\ ArmedBeforeCommit /\ ClosedWhere
        /\ PromoteCall /\ CandidateLimits /\ Deadline /\ NotLockedOut
        /\ CutKept /\ AlarmIsDue /\ OpenRecorded /\ WallCall

\* The inductive invariant.
IInv == TypeOK /\ Core

-----------------------------------------------------------------------------
(* Types. *)

\* The empty call is a call.
LEMMA NoCallTyped == NoCall \in Calls
  BY ModeAssumption DEF NoCall, Calls, Trips, Purposes, Levels

\* The generation counter stays in its width.
LEMMA NextGenerationTyped == RelayTypeOK => NextGeneration \in 0..Generations - 1
  BY ModeAssumption DEF NextGeneration, RelayTypeOK

\* Ages are counted in naturals.
LEMMA HorizonNat == Horizon \in Nat
  BY LimitsAssumption, ModeAssumption DEF Horizon

\* tripRelaySafetyLocked keeps the types, whoever calls it.
LEMMA TripTyped ==
  ASSUME NEW t \in Trips, RelayTypeOK, TripLocked(t) PROVE RelayTypeOK'
  <1>1. relaySafetyState' \in RelayStates /\ pin' \in Levels
    BY DEF TripLocked, RelayStates, Levels
  <1>2. /\ circuitClosed' \in BOOLEAN /\ cut' \in BOOLEAN
        /\ hardTripped' \in BOOLEAN /\ operationalTripped' \in BOOLEAN
    BY DEF TripLocked, RelayTypeOK
  <1>3. generation' \in 0..Generations - 1 /\ energizedFor' \in 0..Horizon
    BY NextGenerationTyped, HorizonNat DEF TripLocked
  <1> QED
    BY <1>1, <1>2, <1>3 DEF TripLocked, RelayTypeOK

\* The watchdog fault leaves the control task where it is.
LEMMA WatchdogTyped == TypeOK /\ WatchdogFault => ControlTypeOK'
  BY DEF WatchdogFault, TypeOK, ControlTypeOK

\* Every step leaves the control task at a section, with the locals of a call.
LEMMA ControlTypeStep == TypeOK /\ [Next]_vars => ControlTypeOK'
<1> SUFFICES ASSUME TypeOK, [Next]_vars PROVE ControlTypeOK'
  OBVIOUS
<1> USE NoCallTyped, NextGenerationTyped, LimitsAssumption, ModeAssumption DEF TypeOK, RelayTypeOK, ControlTypeOK, Calls, Trips, Sections, Purposes, Levels,
           lockVars
<1>1. ASSUME NEW limit \in CloseLimits \union {HardMax}, NEW purp \in Purposes,
             CallClose(limit, purp) PROVE ControlTypeOK'
  BY <1>1 DEF CallClose, Goto
<1>2. CASE CallMirror
  BY <1>2 DEF CallMirror, Goto
<1>3. CASE CallOpen
  BY <1>3 DEF CallOpen, Record, Goto
<1>4. CASE CallTrip
  BY <1>4 DEF CallTrip, Trip, Goto
<1>5. CASE CallPromote
  BY <1>5 DEF CallPromote, Goto
<1>6. CASE Service
  BY <1>6 DEF Service, Trip, Goto, LimitTrip
<1>7. CASE ConsumeHardTrip
  BY <1>7 DEF ConsumeHardTrip, Consume, Record, Goto
<1>8. CASE ConsumeOperationalTrip
  BY <1>8 DEF ConsumeOperationalTrip, Consume, Record, Goto
<1>9. CASE CloseSnapshot
  BY <1>9 DEF CloseSnapshot, Goto, Trip, Return, KeepTrips, Tripped
<1>10. CASE CloseDisarm
  BY <1>10 DEF CloseDisarm, Goto
<1>11. CASE CloseArming
  BY <1>11 DEF CloseArming, Goto
<1>12. CASE CloseArmTimers
  <2>1. Record(call, "CLOSED", "commit") \/ Trip("lockout")
    BY <1>12 DEF CloseArmTimers
  <2> QED
    BY <1>12, <2>1 DEF CloseArmTimers, Record, Trip, Goto
<1>13. CASE CloseCommit
  BY <1>13 DEF CloseCommit, Return, Record, Goto
<1>14. CASE TripSection
  BY <1>14 DEF TripSection, Record, Goto
<1>15. CASE RecordInverse
  BY <1>15 DEF RecordInverse, Goto
<1>16. CASE RecordMarker
  BY <1>16 DEF RecordMarker, Goto
<1>17. CASE Cleanup
  BY <1>17 DEF Cleanup, Return, Goto
<1>18. CASE Reassert
  BY <1>18 DEF Reassert, LimitTrip, Record, Trip, Return, Goto
<1>19. CASE ServiceExpiry
  BY <1>19 DEF ServiceExpiry, Trip, Return, Goto
<1>20. CASE PromoteGpTimer
  BY <1>20 DEF PromoteGpTimer, Goto
<1>21. CASE PromoteStop
  BY <1>21 DEF PromoteStop, Goto
<1>22. CASE PromoteStart
  <2>1. PICK ok \in BOOLEAN : Goto("promote_commit", [call EXCEPT !.armed = ok])
    BY <1>22 DEF PromoteStart
  <2> QED
    BY <1>22, <2>1 DEF PromoteStart, Goto
<1>23. CASE PromoteCommit
  BY <1>23 DEF PromoteCommit, Return, Goto
<1>24. CASE GpAlarm
  BY <1>24 DEF GpAlarm
<1>25. CASE GpCallback
  BY <1>25 DEF GpCallback
<1>26. CASE GpReturn
  BY <1>26 DEF GpReturn
<1>27. CASE DispatchHard
  BY <1>27 DEF DispatchHard
<1>28. CASE DispatchOperational
  BY <1>28 DEF DispatchOperational
<1>29. CASE HardCallback
  BY <1>29 DEF HardCallback
<1>30. CASE OperationalCallback
  BY <1>30 DEF OperationalCallback
<1>31. CASE TaskStoreInverse
  BY <1>31 DEF TaskStoreInverse
<1>32. CASE TaskStoreMarker
  BY <1>32 DEF TaskStoreMarker
<1>33. CASE Tick
  BY <1>33 DEF Tick
<1>34. CASE PinDrops
  BY <1>34 DEF PinDrops
<1>35. CASE WatchdogFault
  BY <1>35, WatchdogTyped
<1>36. CASE UNCHANGED vars
  BY <1>36 DEF vars
<1>37. ASSUME NEW t \in {"hard", "operational"}, CallWallTrip(t) PROVE ControlTypeOK'
  BY <1>37 DEF CallWallTrip, Goto
<1> QED
  BY <1>1, <1>2, <1>3, <1>4, <1>5, <1>6, <1>7, <1>8, <1>9, <1>10, <1>11, <1>12, <1>13, <1>14,
     <1>15, <1>16, <1>17, <1>18, <1>19, <1>20, <1>21, <1>22, <1>23, <1>24, <1>25, <1>26, <1>27, <1>28,
     <1>29, <1>30, <1>31, <1>32, <1>33, <1>34, <1>35, <1>36, <1>37
     DEF Next, Caller, Control, Interrupt, TimerTask, Purposes

\* Every step keeps the types of the variables written under relayMux.
LEMMA RelayTypeStep == TypeOK /\ [Next]_vars => RelayTypeOK'
<1> SUFFICES ASSUME TypeOK, [Next]_vars PROVE RelayTypeOK'
  OBVIOUS
<1> USE NextGenerationTyped DEF TypeOK, RelayTypeOK, lockVars
<1>1. ASSUME NEW limit \in CloseLimits \union {HardMax}, NEW purp \in Purposes,
             CallClose(limit, purp) PROVE RelayTypeOK'
  BY <1>1 DEF CallClose
<1>2. CASE CallMirror
  BY <1>2 DEF CallMirror
<1>3. CASE CallOpen
  <2>1. relaySafetyState' \in RelayStates /\ pin' \in Levels
    BY <1>3 DEF CallOpen, OpenedState, RelayStates, Levels
  <2>2. generation' \in 0..Generations - 1 /\ energizedFor' \in 0..Horizon
    BY <1>3, HorizonNat DEF CallOpen
  <2> QED
    BY <1>3, <2>1, <2>2 DEF CallOpen
<1>4. CASE CallTrip
  BY <1>4 DEF CallTrip
<1>5. CASE CallPromote
  BY <1>5 DEF CallPromote
<1>6. CASE Service
  BY <1>6 DEF Service
<1>7. CASE ConsumeHardTrip
  BY <1>7 DEF ConsumeHardTrip, Consume
<1>8. CASE ConsumeOperationalTrip
  BY <1>8 DEF ConsumeOperationalTrip, Consume
<1>9. CASE CloseSnapshot
  BY <1>9 DEF CloseSnapshot
<1>10. CASE CloseDisarm
  BY <1>10 DEF CloseDisarm
<1>11. CASE CloseArming
  <2>1. relaySafetyState' \in RelayStates /\ pin' \in Levels
    BY <1>11 DEF CloseArming, RelayStates
  <2>2. /\ circuitClosed' \in BOOLEAN /\ cut' \in BOOLEAN
        /\ hardTripped' \in BOOLEAN /\ operationalTripped' \in BOOLEAN
    BY <1>11 DEF CloseArming, ControlTypeOK, Calls
  <2>3. /\ generation' \in 0..Generations - 1
        /\ closedFor' \in 0..Horizon /\ energizedFor' \in 0..Horizon
    BY <1>11, HorizonNat DEF CloseArming
  <2>4. /\ hardLimit' \in {0, HardMax, BackflushMax} /\ purpose' \in Purposes
        /\ operationalLimit' \in CloseLimits \union {0, HardMax, BackflushMax}
    BY <1>11 DEF CloseArming, ControlTypeOK, Calls, Unlimited
  <2> QED
    BY <2>1, <2>2, <2>3, <2>4
<1>12. CASE CloseArmTimers
  BY <1>12 DEF CloseArmTimers
<1>13. CASE CloseCommit
  <2>1. CASE MayCommit
    BY <1>13, <2>1, HorizonNat DEF CloseCommit, RelayStates, Levels
  <2>2. CASE ~MayCommit
    BY <1>13, <2>2 DEF CloseCommit
  <2> QED
    BY <2>1, <2>2
<1>14. CASE TripSection
  BY <1>14, TripTyped DEF TripSection, ControlTypeOK, Calls
<1>15. CASE RecordInverse
  BY <1>15 DEF RecordInverse
<1>16. CASE RecordMarker
  BY <1>16 DEF RecordMarker
<1>17. CASE Cleanup
  BY <1>17 DEF Cleanup
<1>18. CASE Reassert
  BY <1>18, TripTyped DEF Reassert, LimitTrip, Trips, Levels
<1>19. CASE ServiceExpiry
  BY <1>19 DEF ServiceExpiry
<1>20. CASE PromoteGpTimer
  BY <1>20 DEF PromoteGpTimer
<1>21. CASE PromoteStop
  BY <1>21 DEF PromoteStop
<1>22. CASE PromoteStart
  BY <1>22 DEF PromoteStart
<1>23. CASE PromoteCommit
  BY <1>23 DEF PromoteCommit, Purposes
<1>24. CASE GpAlarm
  BY <1>24 DEF GpAlarm
<1>25. CASE GpCallback
  <2>1. relaySafetyState' \in RelayStates /\ pin' \in Levels
    BY <1>25 DEF GpCallback, RelayStates, Levels
  <2>2. /\ circuitClosed' \in BOOLEAN /\ cut' \in BOOLEAN
        /\ hardTripped' \in BOOLEAN /\ operationalTripped' \in BOOLEAN
    <3>1. CASE ~InterruptTrips
      BY <1>25, <3>1 DEF GpCallback
    <3>2. CASE InterruptTrips
      <4>1. circuitClosed' = FALSE /\ cut' \in BOOLEAN
        BY <1>25, <3>2 DEF GpCallback
      <4>2. hardTripped' \in BOOLEAN
        BY <1>25, <3>2 DEF GpCallback
      <4>3. operationalTripped' \in BOOLEAN
        BY <1>25, <3>2 DEF GpCallback, IsOperational
      <4> QED
        BY <4>1, <4>2, <4>3
    <3> QED
      BY <3>1, <3>2
  <2>3. /\ generation' \in 0..Generations - 1
        /\ closedFor' \in 0..Horizon /\ energizedFor' \in 0..Horizon
    BY <1>25, HorizonNat DEF GpCallback
  <2>4. /\ hardLimit' \in {0, HardMax, BackflushMax} /\ purpose' \in Purposes
        /\ operationalLimit' \in CloseLimits \union {0, HardMax, BackflushMax}
    BY <1>25 DEF GpCallback
  <2> QED
    BY <2>1, <2>2, <2>3, <2>4
<1>26. CASE GpReturn
  BY <1>26 DEF GpReturn
<1>27. CASE DispatchHard
  BY <1>27 DEF DispatchHard
<1>28. CASE DispatchOperational
  BY <1>28 DEF DispatchOperational
<1>29. CASE HardCallback
  BY <1>29, TripTyped DEF HardCallback, Trips
<1>30. CASE OperationalCallback
  BY <1>30, TripTyped DEF OperationalCallback, Trips
<1>31. CASE TaskStoreInverse
  BY <1>31 DEF TaskStoreInverse
<1>32. CASE TaskStoreMarker
  BY <1>32 DEF TaskStoreMarker
<1>33. CASE Tick
  BY <1>33, HorizonNat DEF Tick, Saturate, Horizon
<1>34. CASE PinDrops
  BY <1>34 DEF PinDrops, Levels
<1>35. CASE WatchdogFault
  BY <1>35 DEF WatchdogFault
<1>36. CASE UNCHANGED vars
  BY <1>36 DEF vars
<1>37. ASSUME NEW t \in {"hard", "operational"}, CallWallTrip(t) PROVE RelayTypeOK'
  BY <1>37 DEF CallWallTrip
<1> QED
  BY <1>1, <1>2, <1>3, <1>4, <1>5, <1>6, <1>7, <1>8, <1>9, <1>10, <1>11, <1>12, <1>13, <1>14,
     <1>15, <1>16, <1>17, <1>18, <1>19, <1>20, <1>21, <1>22, <1>23, <1>24, <1>25, <1>26, <1>27, <1>28,
     <1>29, <1>30, <1>31, <1>32, <1>33, <1>34, <1>35, <1>36, <1>37
     DEF Next, Caller, Control, Interrupt, TimerTask, Purposes

\* Every step keeps the types of the timers; a running close is valid.
LEMMA TimerTypeStep == TypeOK /\ CloseIsValid /\ [Next]_vars => TimerTypeOK'
<1> SUFFICES ASSUME TypeOK, CloseIsValid, [Next]_vars PROVE TimerTypeOK'
  OBVIOUS
<1> USE LimitsAssumption, ModeAssumption DEF TypeOK, RelayTypeOK, TimerTypeOK, ControlTypeOK, Calls, GpPhases, Off, Horizon,
           timerVars
<1>1. ASSUME NEW limit \in CloseLimits \union {HardMax}, NEW purp \in Purposes,
             CallClose(limit, purp) PROVE TimerTypeOK'
  BY <1>1 DEF CallClose
<1>2. CASE CallMirror
  BY <1>2 DEF CallMirror
<1>3. CASE CallOpen
  BY <1>3 DEF CallOpen
<1>4. CASE CallTrip
  BY <1>4 DEF CallTrip
<1>5. CASE CallPromote
  BY <1>5 DEF CallPromote
<1>6. CASE Service
  BY <1>6 DEF Service
<1>7. CASE ConsumeHardTrip
  BY <1>7 DEF ConsumeHardTrip, Consume
<1>8. CASE ConsumeOperationalTrip
  BY <1>8 DEF ConsumeOperationalTrip, Consume
<1>9. CASE CloseSnapshot
  BY <1>9 DEF CloseSnapshot
<1>10. CASE CloseDisarm
  BY <1>10 DEF CloseDisarm, StopDeadlineTimers, StopGp, GpOff
<1>11. CASE CloseArming
  BY <1>11 DEF CloseArming
<1>12. CASE CloseArmTimers
  <2>1. CASE Unlimited(call.purpose)
    BY <1>12, <2>1 DEF CloseArmTimers
  <2>2. CASE ~Unlimited(call.purpose)
    <3>1. pc = "arm_timers" /\ call.limit \in 1..HardMax
      BY <1>12 DEF CloseArmTimers, CloseIsValid, Closing, ValidClose
    <3>2. PICK gpOk, hardOk, operOk \in BOOLEAN :
            /\ ArmGp(call.limit, gpOk)
            /\ hardTimer' = Started(HardMax, hardOk)
            /\ operationalTimer' = IF call.limit < HardMax
                                   THEN Started(call.limit, operOk)
                                   ELSE operationalTimer
      BY <1>12, <2>2 DEF CloseArmTimers
    <3>3. gp' \in [phase : GpPhases, due : 0..BackflushMax]
      BY <3>1, <3>2 DEF ArmGp, StopGp, GpOff
    <3>4. hardTimer' \in Off..BackflushMax /\ operationalTimer' \in Off..BackflushMax
      BY <3>1, <3>2 DEF Started
    <3> QED
      BY <1>12, <3>3, <3>4 DEF CloseArmTimers
  <2> QED
    BY <2>1, <2>2
<1>13. CASE CloseCommit
  BY <1>13 DEF CloseCommit
<1>14. CASE TripSection
  BY <1>14 DEF TripSection
<1>15. CASE RecordInverse
  BY <1>15 DEF RecordInverse
<1>16. CASE RecordMarker
  BY <1>16 DEF RecordMarker
<1>17. CASE Cleanup
  BY <1>17 DEF Cleanup, StopDeadlineTimers, StopGp, GpOff
<1>18. CASE Reassert
  BY <1>18 DEF Reassert
<1>19. CASE ServiceExpiry
  BY <1>19 DEF ServiceExpiry
<1>20. CASE PromoteGpTimer
  BY <1>20 DEF PromoteGpTimer, ArmGp, StopGp, GpOff
<1>21. CASE PromoteStop
  BY <1>21 DEF PromoteStop
<1>22. CASE PromoteStart
  BY <1>22 DEF PromoteStart, Started
<1>23. CASE PromoteCommit
  BY <1>23 DEF PromoteCommit
<1>24. CASE GpAlarm
  BY <1>24 DEF GpAlarm
<1>25. CASE GpCallback
  BY <1>25 DEF GpCallback
<1>26. CASE GpReturn
  BY <1>26 DEF GpReturn, GpOff
<1>27. CASE DispatchHard
  BY <1>27 DEF DispatchHard
<1>28. CASE DispatchOperational
  BY <1>28 DEF DispatchOperational
<1>29. CASE HardCallback
  BY <1>29 DEF HardCallback
<1>30. CASE OperationalCallback
  BY <1>30 DEF OperationalCallback
<1>31. CASE TaskStoreInverse
  BY <1>31 DEF TaskStoreInverse
<1>32. CASE TaskStoreMarker
  BY <1>32 DEF TaskStoreMarker
<1>33. CASE Tick
  BY <1>33 DEF Tick, Countdown
<1>34. CASE PinDrops
  BY <1>34 DEF PinDrops
<1>35. CASE WatchdogFault
  BY <1>35 DEF WatchdogFault
<1>36. CASE UNCHANGED vars
  BY <1>36 DEF vars
<1>37. ASSUME NEW t \in {"hard", "operational"}, CallWallTrip(t) PROVE TimerTypeOK'
  BY <1>37 DEF CallWallTrip
<1> QED
  BY <1>1, <1>2, <1>3, <1>4, <1>5, <1>6, <1>7, <1>8, <1>9, <1>10, <1>11, <1>12, <1>13, <1>14,
     <1>15, <1>16, <1>17, <1>18, <1>19, <1>20, <1>21, <1>22, <1>23, <1>24, <1>25, <1>26, <1>27, <1>28,
     <1>29, <1>30, <1>31, <1>32, <1>33, <1>34, <1>35, <1>36, <1>37
     DEF Next, Caller, Control, Interrupt, TimerTask, Purposes

\* Every step keeps the types of the RTC words.
LEMMA RecordTypeStep == TypeOK /\ [Next]_vars => RecordTypeOK'
<1> SUFFICES ASSUME TypeOK, [Next]_vars PROVE RecordTypeOK'
  OBVIOUS
<1> USE DEF TypeOK, RecordTypeOK, ControlTypeOK, Calls, Levels, rtcVars
<1>1. ASSUME NEW limit \in CloseLimits \union {HardMax}, NEW purp \in Purposes,
             CallClose(limit, purp) PROVE RecordTypeOK'
  BY <1>1 DEF CallClose
<1>2. CASE CallMirror
  BY <1>2 DEF CallMirror
<1>3. CASE CallOpen
  BY <1>3 DEF CallOpen
<1>4. CASE CallTrip
  BY <1>4 DEF CallTrip
<1>5. CASE CallPromote
  BY <1>5 DEF CallPromote
<1>6. CASE Service
  BY <1>6 DEF Service
<1>7. CASE ConsumeHardTrip
  BY <1>7 DEF ConsumeHardTrip, Consume
<1>8. CASE ConsumeOperationalTrip
  BY <1>8 DEF ConsumeOperationalTrip, Consume
<1>9. CASE CloseSnapshot
  BY <1>9 DEF CloseSnapshot
<1>10. CASE CloseDisarm
  BY <1>10 DEF CloseDisarm
<1>11. CASE CloseArming
  BY <1>11 DEF CloseArming
<1>12. CASE CloseArmTimers
  BY <1>12 DEF CloseArmTimers
<1>13. CASE CloseCommit
  BY <1>13 DEF CloseCommit
<1>14. CASE TripSection
  BY <1>14 DEF TripSection
<1>15. CASE RecordInverse
  BY <1>15 DEF RecordInverse, StoreInverse
<1>16. CASE RecordMarker
  BY <1>16 DEF RecordMarker, StoreMarker
<1>17. CASE Cleanup
  BY <1>17 DEF Cleanup
<1>18. CASE Reassert
  BY <1>18 DEF Reassert
<1>19. CASE ServiceExpiry
  BY <1>19 DEF ServiceExpiry
<1>20. CASE PromoteGpTimer
  BY <1>20 DEF PromoteGpTimer
<1>21. CASE PromoteStop
  BY <1>21 DEF PromoteStop
<1>22. CASE PromoteStart
  BY <1>22 DEF PromoteStart
<1>23. CASE PromoteCommit
  BY <1>23 DEF PromoteCommit
<1>24. CASE GpAlarm
  BY <1>24 DEF GpAlarm
<1>25. CASE GpCallback
  BY <1>25 DEF GpCallback
<1>26. CASE GpReturn
  BY <1>26 DEF GpReturn
<1>27. CASE DispatchHard
  BY <1>27 DEF DispatchHard
<1>28. CASE DispatchOperational
  BY <1>28 DEF DispatchOperational
<1>29. CASE HardCallback
  BY <1>29 DEF HardCallback
<1>30. CASE OperationalCallback
  BY <1>30 DEF OperationalCallback
<1>31. CASE TaskStoreInverse
  BY <1>31 DEF TaskStoreInverse, StoreInverse
<1>32. CASE TaskStoreMarker
  BY <1>32 DEF TaskStoreMarker, StoreMarker
<1>33. CASE Tick
  BY <1>33 DEF Tick
<1>34. CASE PinDrops
  BY <1>34 DEF PinDrops
<1>35. CASE WatchdogFault
  BY <1>35 DEF WatchdogFault
<1>36. CASE UNCHANGED vars
  BY <1>36 DEF vars
<1>37. ASSUME NEW t \in {"hard", "operational"}, CallWallTrip(t) PROVE RecordTypeOK'
  BY <1>37 DEF CallWallTrip
<1> QED
  BY <1>1, <1>2, <1>3, <1>4, <1>5, <1>6, <1>7, <1>8, <1>9, <1>10, <1>11, <1>12, <1>13, <1>14,
     <1>15, <1>16, <1>17, <1>18, <1>19, <1>20, <1>21, <1>22, <1>23, <1>24, <1>25, <1>26, <1>27, <1>28,
     <1>29, <1>30, <1>31, <1>32, <1>33, <1>34, <1>35, <1>36, <1>37
     DEF Next, Caller, Control, Interrupt, TimerTask, Purposes

\* tripRelaySafetyLocked raises a flag for every closure it cuts.
LEMMA TripKeepsCut ==
  ASSUME NEW t \in Trips, RelayTypeOK, CutKept, TripLocked(t),
         pc' \notin {"disarm", "arming"}
  PROVE  CutKept'
  <1>1. CASE t = "lockout"
    BY <1>1 DEF CutKept, Tripped, TripLocked, RelayTypeOK
  <1>2. CASE t = "hard"
    BY <1>2 DEF CutKept, Tripped, TripLocked
  <1>3. CASE t = "operational"
    BY <1>3 DEF CutKept, Tripped, TripLocked
  <1> QED
    BY <1>1, <1>2, <1>3 DEF Trips

\* Every step keeps the core of the inductive invariant.
LEMMA CoreStep == IInv /\ [Next]_vars => Core'
<1> SUFFICES ASSUME IInv, [Next]_vars PROVE Core'
  OBVIOUS
<1> USE LimitsAssumption, ModeAssumption
      DEF IInv, Core, Closing, LimitsSet, CloseIsValid, LimitsAgree, Guarded,
          ArmedBeforeCommit, ClosedWhere, PromoteSections,
          PromoteCall, CandidateLimits, Deadline, Replaced, NotLockedOut,
          CutKept, AlarmIsDue, Published, OpenRecorded, WallCall, Tripped, TypeOK,
          RelayTypeOK, TimerTypeOK, ControlTypeOK, Calls, GpPhases,
          lockVars, timerVars, rtcVars
<1>1. ASSUME NEW limit \in CloseLimits \union {HardMax}, NEW purp \in Purposes,
             CallClose(limit, purp) PROVE Core'
  BY <1>1 DEF CallClose, Goto, NoCall
<1>2. CASE CallMirror
  BY <1>2 DEF CallMirror, Goto, NoCall
<1>3. CASE CallOpen
  BY <1>3 DEF CallOpen, Record, Goto, OpenedState, NoCall
<1>4. CASE CallTrip
  BY <1>4 DEF CallTrip, Trip, Goto, NoCall
<1>5. CASE CallPromote
  BY <1>5 DEF CallPromote, Goto, NoCall
<1>6. CASE Service
  BY <1>6 DEF Service, Trip, Goto, NoCall, LimitTrip
<1>7. CASE ConsumeHardTrip
  <2>1. /\ pc = "idle" /\ UNCHANGED timerVars /\ UNCHANGED rtcVars
        /\ UNCHANGED <<relaySafetyState, circuitClosed, pin, generation,
                       closedFor, hardLimit, operationalLimit, purpose,
                       energizedFor>>
        /\ cut' = (cut /\ ~hardTripped) /\ hardTripped' = FALSE
        /\ operationalTripped' = operationalTripped
    BY <1>7 DEF ConsumeHardTrip, Consume
  <2>2. CASE CleanupDue(hardTripped)
    <3>1. /\ pc' = "inverse" /\ ~circuitClosed /\ hardTripped
          /\ call' = [NoCall EXCEPT !.mark = "OPEN", !.then = "cleanup"]
      BY <1>7, <2>2 DEF ConsumeHardTrip, Consume, CleanupDue, Record, Goto
    <3>2. cut' = FALSE
      BY <2>1, <3>1
    <3> QED
      BY <2>1, <3>1, <3>2 DEF NoCall
  <2>3. CASE ~CleanupDue(hardTripped)
    <3>1. UNCHANGED <<pc, call>> /\ (hardTripped => circuitClosed)
      BY <1>7, <2>3 DEF ConsumeHardTrip, Consume, CleanupDue
    <3> QED
      BY <2>1, <3>1
  <2> QED
    BY <2>2, <2>3
<1>8. CASE ConsumeOperationalTrip
  <2>1. /\ pc = "idle" /\ UNCHANGED timerVars /\ UNCHANGED rtcVars
        /\ UNCHANGED <<relaySafetyState, circuitClosed, pin, generation,
                       closedFor, hardLimit, operationalLimit, purpose,
                       energizedFor>>
        /\ cut' = (cut /\ ~operationalTripped) /\ operationalTripped' = FALSE
        /\ hardTripped' = hardTripped
    BY <1>8 DEF ConsumeOperationalTrip, Consume
  <2>2. CASE CleanupDue(operationalTripped)
    <3>1. /\ pc' = "inverse" /\ ~circuitClosed /\ operationalTripped
          /\ call' = [NoCall EXCEPT !.mark = "OPEN", !.then = "cleanup"]
      BY <1>8, <2>2 DEF ConsumeOperationalTrip, Consume, CleanupDue, Record, Goto
    <3>2. cut' = FALSE
      BY <2>1, <3>1
    <3> QED
      BY <2>1, <3>1, <3>2 DEF NoCall
  <2>3. CASE ~CleanupDue(operationalTripped)
    <3>1. UNCHANGED <<pc, call>> /\ (operationalTripped => circuitClosed)
      BY <1>8, <2>3 DEF ConsumeOperationalTrip, Consume, CleanupDue
    <3> QED
      BY <2>1, <3>1
  <2> QED
    BY <2>2, <2>3
<1>9. CASE CloseSnapshot
  BY <1>9 DEF CloseSnapshot, Goto, Trip, Return, NoCall, KeepTrips
<1>10. CASE CloseDisarm
  BY <1>10 DEF CloseDisarm, Goto
<1>11. CASE CloseArming
  BY <1>11 DEF CloseArming, Goto, Unlimited
<1>12. CASE CloseArmTimers
  <2>1. CASE Unlimited(call.purpose)
    BY <1>12, <2>1 DEF CloseArmTimers, Unlimited, Record, Goto
  <2>2. CASE ~Unlimited(call.purpose)
    <3>1. PICK gpOk \in BOOLEAN, ok \in BOOLEAN :
            /\ ArmGp(call.limit, gpOk)
            /\ IF gpOk /\ ok THEN Record(call, "CLOSED", "commit")
                            ELSE Trip("lockout")
      <4>1. PICK gpOk \in BOOLEAN, hardOk \in BOOLEAN, operOk \in BOOLEAN :
              /\ ArmGp(call.limit, gpOk)
              /\ IF gpOk /\ hardOk /\ operOk
                 THEN Record(call, "CLOSED", "commit") ELSE Trip("lockout")
        BY <1>12, <2>2 DEF CloseArmTimers
      <4>2. (hardOk /\ operOk) \in BOOLEAN
        OBVIOUS
      <4> QED
        BY <4>1, <4>2, Zenon
    <3>2. pc = "arm_timers" /\ UNCHANGED lockVars /\ UNCHANGED rtcVars
      BY <1>12 DEF CloseArmTimers
    <3>3. CASE gpOk /\ ok
      <4>1. /\ pc' = "inverse"
            /\ call' = [call EXCEPT !.mark = "CLOSED", !.then = "commit"]
        BY <3>1, <3>3 DEF Record, Goto
      <4>2. gp' = [phase |-> "running", due |-> call.limit]
        BY <3>1, <3>3 DEF ArmGp
      <4> QED
        BY <3>2, <4>1, <4>2, <2>2 DEF ValidClose
    <3>4. CASE ~(gpOk /\ ok)
      BY <3>1, <3>2, <3>4 DEF Trip, Goto, NoCall
    <3> QED
      BY <3>3, <3>4
  <2> QED
    BY <2>1, <2>2
<1>13. CASE CloseCommit
  <2>1. CASE MayCommit
    <3>1. /\ pc = "commit" /\ pc' = "idle" /\ call' = NoCall
          /\ relaySafetyState = "ARMING"
      BY <1>13, <2>1 DEF CloseCommit, MayCommit, Return, Goto
    <3>2. ValidClose(call.limit, call.purpose) /\ LimitsSet
      BY <3>1
    <3>3. Deadline'
      BY <1>13, <2>1, <3>1, <3>2 DEF CloseCommit, NoCall, ValidClose
    <3>4. CandidateLimits'
      BY <1>13, <2>1, <3>1, <3>2 DEF CloseCommit, ValidClose, Unlimited
    <3>5. PromoteCall' /\ AlarmIsDue'
      BY <1>13, <2>1, <3>1 DEF CloseCommit, NoCall
    <3> QED
      BY <1>13, <2>1, <3>1, <3>3, <3>4, <3>5 DEF CloseCommit, NoCall
  <2>2. CASE ~MayCommit
    BY <1>13, <2>2 DEF CloseCommit, Record, Goto
  <2> QED
    BY <2>1, <2>2
<1>14. CASE TripSection
  <2>1. /\ TripLocked(call.trip) /\ pc' = "inverse" /\ UNCHANGED timerVars
        /\ call' = [NoCall EXCEPT !.mark = "OPEN", !.then = "cleanup"]
    BY <1>14 DEF TripSection, Record, Goto
  <2>2. CutKept'
    BY <2>1, TripKeepsCut
  <2> QED
    BY <2>1, <2>2 DEF TripLocked, NoCall
<1>15. CASE RecordInverse
  BY <1>15 DEF RecordInverse, Goto, StoreInverse
<1>16. CASE RecordMarker
  BY <1>16 DEF RecordMarker, Goto, StoreMarker
<1>17. CASE Cleanup
  BY <1>17 DEF Cleanup, Return, Goto, NoCall, StopDeadlineTimers
<1>18. CASE Reassert
  <2>1. CASE Expired /\ TripLocked(LimitTrip) /\ Record(NoCall, "OPEN", "cleanup")
    <3>1. CutKept'
      BY <2>1, TripKeepsCut DEF LimitTrip, Trips, Record, Goto
    <3> QED
      BY <1>18, <2>1, <3>1 DEF Reassert, TripLocked, Record, Goto, NoCall
  <2>2. CASE Live
    <3>1. circuitClosed /\ relaySafetyState = "CLOSED" /\ ~Expired
      BY <2>2 DEF Live
    <3>2. /\ pc = "reassert" /\ UNCHANGED timerVars /\ UNCHANGED rtcVars
          /\ UNCHANGED <<relaySafetyState, circuitClosed, generation, closedFor,
                         hardLimit, operationalLimit, purpose, hardTripped,
                         operationalTripped, energizedFor, cut>>
      BY <1>18, <2>2, <3>1 DEF Reassert
    <3>3. Trip("hard") \/ (Goto("expiry", call) /\ call.from = "service") \/ Return
      BY <1>18, <2>2, <3>1 DEF Reassert
    <3>4. CASE Trip("hard")
      BY <3>1, <3>2, <3>4 DEF Trip, Goto, NoCall
    <3>5. CASE Goto("expiry", call) /\ call.from = "service"
      BY <3>1, <3>2, <3>5 DEF Goto
    <3>6. CASE Return
      BY <3>1, <3>2, <3>6 DEF Return, Goto, NoCall
    <3> QED
      BY <3>3, <3>4, <3>5, <3>6
  <2>3. CASE ~Expired /\ ~Live
    BY <1>18, <2>3 DEF Reassert, Return, Goto, NoCall
  <2> QED
    BY <1>18, <2>1, <2>2, <2>3 DEF Reassert
<1>19. CASE ServiceExpiry
  BY <1>19 DEF ServiceExpiry, Trip, Return, Goto, NoCall
<1>20. CASE PromoteGpTimer
  BY <1>20 DEF PromoteGpTimer, ArmGp, StopGp, GpOff, GpInFlight, Goto
<1>21. CASE PromoteStop
  BY <1>21 DEF PromoteStop, Goto
<1>22. CASE PromoteStart
  BY <1>22 DEF PromoteStart, Goto
<1>23. CASE PromoteCommit
  <2>1. CASE MayPromote
    <3>1. /\ pc' = "idle" /\ call' = NoCall /\ purpose' = "BACKFLUSH_CONFIRMED"
          /\ hardLimit' = BackflushMax /\ operationalLimit' = BackflushMax
          /\ pc = "promote_commit" /\ call.armed /\ circuitClosed
          /\ purpose = "BACKFLUSH_CANDIDATE" /\ hardLimit = HardMax
      BY <1>23, <2>1 DEF PromoteCommit, MayPromote, Return, Goto
    <3>2. Guarded(energizedFor, BackflushMax)
      BY <3>1
    <3>3. Deadline'
      BY <1>23, <3>1, <3>2 DEF PromoteCommit, NoCall
    <3>4. AlarmIsDue'
      BY <1>23, <3>1 DEF PromoteCommit, NoCall
    <3> QED
      BY <1>23, <3>1, <3>3, <3>4 DEF PromoteCommit, NoCall
  <2>2. CASE ~MayPromote
    <3>1. /\ pc = "promote_commit" /\ pc' = "trip" /\ UNCHANGED lockVars
          /\ call' = [NoCall EXCEPT !.from = "promote", !.trip = "lockout"]
          /\ UNCHANGED timerVars /\ UNCHANGED rtcVars
      BY <1>23, <2>2 DEF PromoteCommit, Goto
    <3>2. Deadline'
      BY <3>1 DEF NoCall
    <3>3. AlarmIsDue'
      BY <3>1 DEF NoCall
    <3> QED
      BY <3>1, <3>2, <3>3 DEF NoCall
  <2> QED
    BY <2>1, <2>2
<1>24. CASE GpAlarm
  BY <1>24 DEF GpAlarm
<1>25. CASE GpCallback
  BY <1>25 DEF GpCallback, InterruptTrips, LiveCallback, IsOperational
<1>26. CASE GpReturn
  BY <1>26 DEF GpReturn, GpOff
<1>27. CASE DispatchHard
  BY <1>27 DEF DispatchHard
<1>28. CASE DispatchOperational
  BY <1>28 DEF DispatchOperational
<1>29. CASE HardCallback
  BY <1>29 DEF HardCallback, TripLocked, LiveCallback
<1>30. CASE OperationalCallback
  BY <1>30 DEF OperationalCallback, TripLocked, LiveCallback
<1>31. CASE TaskStoreInverse
  BY <1>31 DEF TaskStoreInverse, StoreInverse
<1>32. CASE TaskStoreMarker
  BY <1>32 DEF TaskStoreMarker, StoreMarker
<1>33. CASE Tick
  <2>1. /\ pc' = pc /\ call' = call /\ circuitClosed' = circuitClosed
        /\ hardLimit' = hardLimit /\ operationalLimit' = operationalLimit
        /\ closedFor' = Saturate(closedFor + 1)
        /\ gp' = [gp EXCEPT !.due = Countdown(@)]
        /\ gp.phase = "stopped" \/ (gp.phase = "running" /\ gp.due > 0)
    BY <1>33 DEF Tick
  <2>2. AlarmIsDue'
    <3>1. (circuitClosed \/ LimitsSet) /\ hardLimit # 0
            => operationalLimit <= Horizon
      BY DEF Horizon, ValidClose
    <3> QED
      BY <2>1, <3>1 DEF Saturate, Countdown, Horizon
  <2>3. ArmedBeforeCommit' /\ Deadline' /\ ClosedWhere'
    BY <1>33 DEF Tick, Saturate, Countdown, Horizon
  <2> QED
    BY <1>33, <2>2, <2>3 DEF Tick
<1>34. CASE PinDrops
  BY <1>34 DEF PinDrops
<1>35. CASE WatchdogFault
  BY <1>35 DEF WatchdogFault
<1>36. CASE UNCHANGED vars
  BY <1>36 DEF vars
<1>37. ASSUME NEW t \in {"hard", "operational"}, CallWallTrip(t) PROVE Core'
  BY <1>37 DEF CallWallTrip, Goto, NoCall
<1> QED
  BY <1>1, <1>2, <1>3, <1>4, <1>5, <1>6, <1>7, <1>8, <1>9, <1>10, <1>11,
     <1>12, <1>13, <1>14, <1>15, <1>16, <1>17, <1>18, <1>19, <1>20, <1>21,
     <1>22, <1>23, <1>24, <1>25, <1>26, <1>27, <1>28, <1>29, <1>30, <1>31,
     <1>32, <1>33, <1>34, <1>35, <1>36, <1>37 DEF Next, Caller, Control, Interrupt,
     TimerTask, Purposes

\* The initial states satisfy the inductive invariant.
LEMMA InitIInv == Init => IInv
<1> SUFFICES ASSUME Init PROVE IInv
  OBVIOUS
<1>1. RelayTypeOK
  <2>1. relaySafetyState \in RelayStates /\ pin \in Levels /\ purpose \in Purposes
    BY DEF Init, RelayStates, Levels, Purposes
  <2>2. generation \in 0..Generations - 1
    BY ModeAssumption DEF Init
  <2>3. closedFor \in 0..Horizon /\ energizedFor \in 0..Horizon
    BY HorizonNat DEF Init
  <2>4. /\ circuitClosed \in BOOLEAN /\ cut \in BOOLEAN
        /\ hardTripped \in BOOLEAN /\ operationalTripped \in BOOLEAN
        /\ hardLimit = 0 /\ operationalLimit = 0
    BY DEF Init
  <2> QED
    BY <2>1, <2>2, <2>3, <2>4 DEF RelayTypeOK
<1>2. TimerTypeOK
  BY LimitsAssumption, ModeAssumption DEF Init, TimerTypeOK, GpOff, GpPhases, Off
<1>3. RecordTypeOK /\ ControlTypeOK
  BY NoCallTyped DEF Init, RecordTypeOK, ControlTypeOK, Levels, Sections
<1>4. Core
  BY DEF Init, Core, Closing, LimitsSet, CloseIsValid, LimitsAgree,
         ArmedBeforeCommit, ClosedWhere, PromoteSections, PromoteCall,
         CandidateLimits, Deadline, NotLockedOut, CutKept, AlarmIsDue, Published,
         OpenRecorded, WallCall, NoCall
<1> QED
  BY <1>1, <1>2, <1>3, <1>4 DEF IInv, TypeOK

\* The invariant is inductive.
LEMMA IInvStep == IInv /\ [Next]_vars => IInv'
  BY ControlTypeStep, RelayTypeStep, TimerTypeStep, RecordTypeStep, CoreStep
     DEF IInv, TypeOK, Core

\* Every reachable state of the driver satisfies the inductive invariant: the
\* locals of the call in progress, the timers, the trip flags and the RTC record
\* agree with the circuit in every interleaving of the three contexts.
THEOREM Inductive == Spec => []IInv
  BY InitIInv, IInvStep, PTL DEF Spec

-----------------------------------------------------------------------------
(* The safety invariants. *)

\* Every variable of the driver keeps its type, the counters their width.
THEOREM TypeCorrect == Spec => []TypeOK
  <1>1. IInv => TypeOK
    BY DEF IInv
  <1> QED
    BY Inductive, <1>1, PTL

\* The K1 output is energized only inside a committed closure.
THEOREM OutputIsCommanded == Spec => []OutputImpliesCommand
  <1>1. IInv => OutputImpliesCommand
    BY DEF IInv, Core, ClosedWhere, OutputImpliesCommand
  <1> QED
    BY Inductive, <1>1, PTL

\* The GPTimer keeps every limited closure inside its limit, wherever the control
\* task and the esp_timer task are stuck.
THEOREM ContactIsBounded == Spec => []ContactTimeBound
  <1>1. IInv => ContactTimeBound
    <2> SUFFICES ASSUME IInv, circuitClosed, hardLimit # 0 PROVE ContactTimeBound
      BY DEF ContactTimeBound
    <2>1. Deadline /\ TypeOK
      BY DEF IInv, Core
    <2>2. ASSUME NEW bound \in Nat, Guarded(energizedFor, bound)
          PROVE  energizedFor <= bound
      BY <2>1, <2>2, HorizonNat
         DEF TypeOK, RelayTypeOK, TimerTypeOK, Guarded
    <2>3. operationalLimit \in Nat /\ BackflushMax \in Nat
      BY <2>1, LimitsAssumption DEF Deadline
    <2> QED
      BY <2>1, <2>2, <2>3 DEF Deadline, ContactTimeBound
  <1> QED
    BY Inductive, <1>1, PTL

\* Between two calls the RTC record of an open circuit reads OPEN once every trip
\* is consumed.
THEOREM OpenIsRecorded == Spec => []OpenIsPublished
  <1>1. IInv => OpenIsPublished
    BY DEF IInv, Core, OpenRecorded, Published, OpenIsPublished
  <1> QED
    BY Inductive, <1>1, PTL

\* A trip that cut a closure stays visible until the control task consumes it.
THEOREM CutIsKept == Spec => []CutReachesControl
  <1>1. IInv => CutReachesControl
    BY DEF IInv, Core, CutKept, CutReachesControl
  <1> QED
    BY Inductive, <1>1, PTL

-----------------------------------------------------------------------------
(* The hard esp_timer backs the GPTimer up. *)

\* A limited closure that is not a confirmed backflush, or the close that will
\* commit it.
Backable ==
    /\ hardLimit # 0 /\ purpose # "BACKFLUSH_CONFIRMED"
    /\ \/ circuitClosed
       \/ LimitsSet /\ pc # "arm_timers" /\ relaySafetyState = "ARMING"

\* The hard deadline is armed, or its callback is on the way and will cut.
HardWillCut ==
    \/ hardTimer # Off
    \/ task.at = "hard" /\ Elapsed(task.age, HardMax)

\* The hard deadline is not early, and stays until a promotion has replaced the
\* GPTimer's; where the GPTimer refused, it is still there.
HardBackup ==
    /\ Backable => hardLimit = HardMax
    /\ Backable /\ hardTimer # Off => closedFor + hardTimer >= HardMax
    /\ Backable /\ (call.from # "promote" \/ pc = "promote_gptimer"
                    \/ gp.phase = "stopped") => HardWillCut
    /\ call.from = "promote" /\ circuitClosed => purpose = "BACKFLUSH_CANDIDATE"

\* A call that leaves K1 and the timers alone keeps the backup.
LEMMA QuietCallKeepsBackup ==
  ASSUME HardBackup, PromoteCall, pc = "idle", ~Closing',
         UNCHANGED <<relaySafetyState, circuitClosed, closedFor, hardLimit, purpose,
                     timerVars, task>>,
         \/ call'.from # "promote"
         \/ pc' = "promote_gptimer" /\ purpose = "BACKFLUSH_CANDIDATE"
  PROVE  HardBackup'
  <1>1. call.from # "promote" /\ ~LimitsSet'
    BY DEF PromoteCall, PromoteSections, LimitsSet
  <1> QED
    BY <1>1 DEF HardBackup, Backable, HardWillCut, Elapsed, timerVars

\* None of these calls closes or promotes.
LEMMA CallsAreNotClosing ==
  CallMirror \/ CallTrip \/ (\E t \in Trips : CallWallTrip(t)) \/ Service
    => ~Closing' /\ call'.from # "promote"
  <1>1. CallMirror => ~Closing' /\ call'.from # "promote"
    BY DEF CallMirror, Closing, Goto, NoCall
  <1>2. CallTrip => ~Closing' /\ call'.from # "promote"
    BY DEF CallTrip, Closing, Trip, Goto, NoCall
  <1>3. ASSUME Service PROVE ~Closing' /\ call'.from # "promote"
    <2>1. pc' \in {"trip", "reassert"}
      BY <1>3 DEF Service, Trip, Goto
    <2>2. call'.from \in {"none", "service"}
      BY <1>3 DEF Service, Trip, Goto, NoCall
    <2> QED
      BY <2>1, <2>2 DEF Closing
  <1>4. ASSUME NEW t \in Trips, CallWallTrip(t) PROVE ~Closing' /\ call'.from # "promote"
    BY <1>4 DEF CallWallTrip, Closing, Goto, NoCall
  <1> QED
    BY <1>1, <1>2, <1>3, <1>4

\* Every step keeps the backup.
LEMMA HardBackupStep == IInv /\ HardBackup /\ [Next]_vars => HardBackup'
<1> SUFFICES ASSUME IInv, HardBackup, [Next]_vars PROVE HardBackup'
  OBVIOUS
<1> USE LimitsAssumption, ModeAssumption
      DEF IInv, Core, Closing, LimitsSet, CloseIsValid, LimitsAgree, Guarded,
          ClosedWhere, PromoteSections, PromoteCall, Deadline, Replaced,
          TypeOK, RelayTypeOK, TimerTypeOK, ControlTypeOK, Calls, GpPhases,
          Backable, HardWillCut, HardBackup, Off, lockVars, timerVars
<1>1. ASSUME NEW limit \in CloseLimits \union {HardMax}, NEW purp \in Purposes,
             CallClose(limit, purp) PROVE HardBackup'
  BY <1>1 DEF CallClose, Goto, NoCall, Elapsed
<1>2. CASE CallMirror \/ CallTrip \/ Service
  BY <1>2, CallsAreNotClosing, QuietCallKeepsBackup DEF CallMirror, CallTrip, Service
<1>27. ASSUME NEW t \in {"hard", "operational"}, CallWallTrip(t) PROVE HardBackup'
  BY <1>27, CallsAreNotClosing, QuietCallKeepsBackup DEF CallWallTrip, Trips
<1>26. CASE CallPromote
  BY <1>26, QuietCallKeepsBackup DEF CallPromote, Goto
<1>3. CASE CallOpen \/ TripSection
  BY <1>3 DEF CallOpen, TripSection, TripLocked, Record, Goto, NoCall
<1>4. CASE ConsumeHardTrip \/ ConsumeOperationalTrip
  <2> DEFINE tripped == IF ConsumeHardTrip THEN hardTripped ELSE operationalTripped
  <2>1. Consume(tripped)
    BY <1>4 DEF ConsumeHardTrip, ConsumeOperationalTrip
  <2>2. ~Closing' /\ call'.from # "promote"
    <3>1. CASE CleanupDue(tripped)
      BY <2>1, <3>1 DEF Consume, Record, Goto, NoCall
    <3>2. CASE ~CleanupDue(tripped)
      BY <2>1, <3>2 DEF Consume
    <3> QED
      BY <3>1, <3>2
  <2> QED
    BY <2>1, <2>2, QuietCallKeepsBackup DEF Consume
<1>5. CASE CloseSnapshot
  BY <1>5 DEF CloseSnapshot, Goto, Trip, Return, NoCall, Elapsed
<1>6. CASE CloseDisarm \/ CloseArming
  BY <1>6 DEF CloseDisarm, CloseArming, Goto
<1>7. CASE CloseArmTimers
  <2>1. /\ UNCHANGED lockVars /\ ~circuitClosed /\ task' = task
        /\ pc = "arm_timers" /\ call.from # "promote"
    BY <1>7 DEF CloseArmTimers
  <2>2. CASE Unlimited(call.purpose)
    BY <1>7, <2>1, <2>2 DEF CloseArmTimers, Record, Goto
  <2>3. CASE ~Unlimited(call.purpose)
    <3>1. CASE pc' = "trip"
      BY <2>1, <3>1
    <3>2. CASE pc' # "trip"
      <4>1. hardTimer' = HardMax /\ call'.from = call.from /\ call'.then = "commit"
            /\ pc' = "inverse"
        BY <1>7, <2>3, <3>2 DEF CloseArmTimers, Started, Record, Trip, Goto
      <4>2. hardLimit = HardMax
        BY <2>1, <2>3
      <4> QED
        BY <2>1, <4>1, <4>2
    <3> QED
      BY <3>1, <3>2
  <2> QED
    BY <2>2, <2>3
<1>8. CASE CloseCommit
  BY <1>8 DEF CloseCommit, MayCommit, Return, Record, Goto, NoCall, Elapsed
<1>9. CASE RecordInverse \/ RecordMarker
  BY <1>9 DEF RecordInverse, RecordMarker, Goto, Elapsed
<1>10. CASE Cleanup
  BY <1>10 DEF Cleanup, Return, Goto, NoCall
<1>11. CASE Reassert
  BY <1>11 DEF Reassert, TripLocked, Record, Trip, Return, Goto, NoCall, Elapsed
<1>12. CASE ServiceExpiry
  BY <1>12 DEF ServiceExpiry, Trip, Return, Goto, NoCall, Elapsed
<1>13. CASE PromoteGpTimer
  BY <1>13 DEF PromoteGpTimer, ArmGp, Goto, Elapsed
<1>14. CASE PromoteStop
  BY <1>14 DEF PromoteStop, Goto
<1>15. CASE PromoteStart
  BY <1>15 DEF PromoteStart, Started, Goto
<1>16. CASE PromoteCommit
  <2>1. CASE MayPromote
    BY <1>16, <2>1 DEF PromoteCommit, MayPromote, Return, Goto, NoCall
  <2>2. CASE ~MayPromote
    <3>1. /\ UNCHANGED <<relaySafetyState, circuitClosed, closedFor, hardLimit,
                         operationalLimit, purpose, timerVars, task>>
          /\ pc = "promote_commit" /\ pc' = "trip"
          /\ call.from = "promote" /\ call'.from = "promote"
      BY <1>16, <2>2 DEF PromoteCommit, Goto, NoCall
    <3>2. ~Closing' /\ ~Closing
      BY <3>1 DEF Closing
    <3> QED
      BY <3>1, <3>2 DEF Elapsed
  <2> QED
    BY <2>1, <2>2
<1>17. CASE GpAlarm \/ GpReturn
  BY <1>17 DEF GpAlarm, GpReturn, GpOff, Elapsed
<1>18. CASE GpCallback
  BY <1>18 DEF GpCallback, InterruptTrips, LiveCallback, Elapsed
<1>19. CASE DispatchHard \/ DispatchOperational
  BY <1>19 DEF DispatchHard, DispatchOperational, Elapsed
<1>20. CASE HardCallback
  BY <1>20 DEF HardCallback, TripLocked, LiveCallback, Elapsed
<1>21. CASE OperationalCallback
  BY <1>21 DEF OperationalCallback, TripLocked
<1>22. CASE TaskStoreInverse \/ TaskStoreMarker
  BY <1>22 DEF TaskStoreInverse, TaskStoreMarker
<1>23. CASE Tick
  BY <1>23 DEF Tick, Saturate, Countdown, Horizon, Elapsed
<1>24. CASE PinDrops \/ WatchdogFault
  BY <1>24 DEF PinDrops, WatchdogFault, Elapsed
<1>25. CASE UNCHANGED vars
  BY <1>25 DEF vars, Elapsed
<1> QED
  BY <1>1, <1>2, <1>3, <1>4, <1>5, <1>6, <1>7, <1>8, <1>9, <1>10, <1>11, <1>12,
     <1>13, <1>14, <1>15, <1>16, <1>17, <1>18, <1>19, <1>20, <1>21, <1>22, <1>23,
     <1>24, <1>25, <1>26, <1>27 DEF Next, Caller, Control, Interrupt, TimerTask, Purposes

\* A limited closure always has a deadline that needs no control task, also while
\* the deadline of a backflush replaces that of its candidate and the timer drivers
\* refuse (setMachineCircuitClosed, promoteRelayBackflush).
THEOREM AlwaysSupervised == Spec => []ClosureIsSupervised
<1>1. Init => HardBackup
  BY DEF Init, HardBackup, Backable, NoCall
<1>2. IInv /\ HardBackup => ClosureIsSupervised
  BY LimitsAssumption
     DEF IInv, Core, Deadline, Guarded, HardBackup, Backable, HardWillCut,
         ClosureIsSupervised, TypeOK, TimerTypeOK, GpPhases
<1> QED
  BY Inductive, HardBackupStep, <1>1, <1>2, PTL DEF Spec

-----------------------------------------------------------------------------
(* The step properties. *)

\* Only the sections below write relaySafetyState.
LEMMA StateWriters ==
  ASSUME IInv, [Next]_vars, relaySafetyState' # relaySafetyState
  PROVE  \/ CallOpen \/ CloseArming \/ CloseCommit \/ TripSection \/ Reassert
         \/ GpCallback \/ HardCallback \/ OperationalCallback
<1> USE DEF lockVars
<1>1. ASSUME NEW limit \in CloseLimits \union {HardMax}, NEW purp \in Purposes,
             CallClose(limit, purp) PROVE FALSE
  BY <1>1 DEF CallClose
<1>2. ~(CallMirror \/ CallTrip \/ CallPromote \/ Service \/ CloseSnapshot)
  BY DEF CallMirror, CallTrip, CallPromote, Service, CloseSnapshot
<1>3. ~(ConsumeHardTrip \/ ConsumeOperationalTrip)
  BY DEF ConsumeHardTrip, ConsumeOperationalTrip, Consume
<1>4. ~(CloseDisarm \/ CloseArmTimers \/ RecordInverse \/ RecordMarker \/ Cleanup)
  BY DEF CloseDisarm, CloseArmTimers, RecordInverse, RecordMarker, Cleanup
<1>5. ~(ServiceExpiry \/ PromoteGpTimer \/ PromoteStop \/ PromoteStart \/ PromoteCommit)
  BY DEF ServiceExpiry, PromoteGpTimer, PromoteStop, PromoteStart, PromoteCommit
<1>6. ~(GpAlarm \/ GpReturn \/ DispatchHard \/ DispatchOperational)
  BY DEF GpAlarm, GpReturn, DispatchHard, DispatchOperational
<1>7. ~(TaskStoreInverse \/ TaskStoreMarker \/ Tick \/ PinDrops \/ WatchdogFault)
  BY DEF TaskStoreInverse, TaskStoreMarker, Tick, PinDrops, WatchdogFault
<1>8. ~UNCHANGED vars
  BY DEF vars
<1>9. ASSUME NEW t \in {"hard", "operational"}, CallWallTrip(t) PROVE FALSE
  BY <1>9 DEF CallWallTrip
<1> QED
  BY <1>1, <1>2, <1>3, <1>4, <1>5, <1>6, <1>7, <1>8, <1>9
     DEF Next, Caller, Control, Interrupt, TimerTask, Purposes

\* Only a boot or the trip of a momentary machine's logical run wall takes the
\* driver out of LOCKOUT, and the latter leaves K1 open: no deadline, no open, no
\* reassertion and no other trip does (serviceLogicalRunWalls,
\* tripRelaySafetyLocked, setMachineCircuitClosed(false)).
THEOREM LockoutStays == Spec => LockoutEndsAtWallOnly
<1>1. IInv /\ [Next]_vars =>
        (relaySafetyState = "LOCKOUT" /\ relaySafetyState' # "LOCKOUT" =>
           /\ LogicalWalls /\ pc = "trip" /\ call.from = "wall"
           /\ relaySafetyState' = "TRIPPED" /\ ~circuitClosed')
  <2> DEFINE AtWall == /\ LogicalWalls /\ pc = "trip" /\ call.from = "wall"
                       /\ relaySafetyState' = "TRIPPED" /\ ~circuitClosed'
  <2> SUFFICES ASSUME IInv, [Next]_vars, relaySafetyState = "LOCKOUT",
                      relaySafetyState' # "LOCKOUT"
               PROVE  AtWall
    OBVIOUS
  <2>1. NotLockedOut /\ WallCall /\ ClosedWhere /\ TypeOK
    BY DEF IInv, Core
  <2>2. CASE CallOpen
    BY <2>2 DEF CallOpen, OpenedState
  <2>3. CASE CloseArming
    BY <2>3, <2>1 DEF CloseArming, NotLockedOut
  <2>4. CASE CloseCommit
    BY <2>4 DEF CloseCommit, MayCommit, lockVars
  <2>5. CASE TripSection
    BY <2>5, <2>1 DEF TripSection, TripLocked, NotLockedOut, WallCall
  <2>6. CASE Reassert
    BY <2>6, <2>1 DEF Reassert, NotLockedOut
  <2>7. CASE GpCallback
    BY <2>7 DEF GpCallback, InterruptTrips, LiveCallback, lockVars
  <2>8. CASE HardCallback
    BY <2>8 DEF HardCallback, LiveCallback, lockVars
  <2>9. CASE OperationalCallback
    BY <2>9 DEF OperationalCallback, LiveCallback, lockVars
  <2> QED
    BY StateWriters, <2>2, <2>3, <2>4, <2>5, <2>6, <2>7, <2>8, <2>9
<1> QED
  BY Inductive, <1>1, PTL DEF Spec, LockoutEndsAtWallOnly

\* An alarm armed for one closure never cuts a later one short.
THEOREM AlarmIsNeverStale == Spec => NoStaleAlarm
<1>1. IInv /\ [Next]_vars =>
        (gp.phase = "fired" /\ gp'.phase = "served" /\ circuitClosed /\ ~circuitClosed'
           => closedFor >= operationalLimit)
  <2> SUFFICES ASSUME IInv, [Next]_vars, gp.phase = "fired", circuitClosed,
                      gp'.phase = "served", ~circuitClosed'
               PROVE  closedFor >= operationalLimit
    OBVIOUS
  <2>1. AlarmIsDue /\ ClosedWhere /\ Deadline /\ TypeOK
    BY DEF IInv, Core
  <2>2. relaySafetyState' # relaySafetyState
    BY <2>1, IInvStep DEF IInv, Core, ClosedWhere
  <2>3. hardLimit # 0
    <3>1. ASSUME gp' = gp PROVE FALSE
      BY <3>1
    <3>2. ~(CallOpen \/ CloseArming \/ CloseCommit \/ TripSection \/ Reassert)
      BY <3>1 DEF CallOpen, CloseArming, CloseCommit, TripSection, Reassert, timerVars
    <3>3. ~(HardCallback \/ OperationalCallback)
      BY <3>1 DEF HardCallback, OperationalCallback, timerVars
    <3>4. GpCallback
      BY <2>2, <3>2, <3>3, StateWriters
    <3> QED
      BY <3>4 DEF GpCallback, InterruptTrips, lockVars
  <2> QED
    BY <2>1, <2>3, LimitsAssumption
       DEF AlarmIsDue, Deadline, Replaced, TypeOK, RelayTypeOK
<1> QED
  BY Inductive, <1>1, PTL DEF Spec, NoStaleAlarm

\* The two limits are unlimited together.
LimitsTogether == hardLimit = 0 => operationalLimit = 0

\* Only a close that arms and a promotion that commits write the limits, and both
\* write the two of them.
LEMMA LimitsStayTogether == IInv /\ LimitsTogether /\ [Next]_vars => LimitsTogether'
<1> SUFFICES ASSUME IInv, LimitsTogether, [Next]_vars PROVE LimitsTogether'
  OBVIOUS
<1>1. CASE CloseArming
  BY <1>1, LimitsAssumption DEF CloseArming, LimitsTogether
<1>2. CASE PromoteCommit
  BY <1>2, LimitsAssumption DEF PromoteCommit, LimitsTogether
<1>3. ASSUME UNCHANGED <<hardLimit, operationalLimit>> PROVE LimitsTogether'
  BY <1>3 DEF LimitsTogether
<1>4. ASSUME NEW limit \in CloseLimits \union {HardMax}, NEW purp \in Purposes,
             CallClose(limit, purp) PROVE LimitsTogether'
  BY <1>3, <1>4 DEF CallClose, lockVars
<1>5. CASE CallMirror \/ CallOpen \/ CallTrip \/ CallPromote \/ Service
  BY <1>3, <1>5 DEF CallMirror, CallOpen, CallTrip, CallPromote, Service, lockVars
<1>6. CASE ConsumeHardTrip \/ ConsumeOperationalTrip
  BY <1>3, <1>6 DEF ConsumeHardTrip, ConsumeOperationalTrip, Consume
<1>7. CASE CloseSnapshot \/ CloseDisarm \/ CloseArmTimers \/ CloseCommit
  BY <1>3, <1>7 DEF CloseSnapshot, CloseDisarm, CloseArmTimers, CloseCommit, lockVars
<1>8. CASE TripSection \/ RecordInverse \/ RecordMarker \/ Cleanup \/ ServiceExpiry
  BY <1>3, <1>8 DEF TripSection, TripLocked, RecordInverse, RecordMarker, Cleanup, ServiceExpiry, lockVars
<1>9. CASE Reassert
  BY <1>3, <1>9 DEF Reassert, TripLocked, lockVars
<1>10. CASE PromoteGpTimer \/ PromoteStop \/ PromoteStart
  BY <1>3, <1>10 DEF PromoteGpTimer, PromoteStop, PromoteStart, lockVars
<1>11. CASE Interrupt
  BY <1>3, <1>11 DEF Interrupt, GpAlarm, GpCallback, GpReturn, lockVars
<1>12. CASE TimerTask
  BY <1>3, <1>12 DEF TimerTask, DispatchHard, DispatchOperational, HardCallback, OperationalCallback,
                     TaskStoreInverse, TaskStoreMarker, TripLocked, lockVars
<1>13. CASE Tick \/ PinDrops \/ WatchdogFault
  BY <1>3, <1>13 DEF Tick, PinDrops, WatchdogFault, lockVars
<1>14. CASE UNCHANGED vars
  BY <1>3, <1>14 DEF vars, lockVars
<1>15. ASSUME NEW t \in {"hard", "operational"}, CallWallTrip(t) PROVE LimitsTogether'
  BY <1>3, <1>15 DEF CallWallTrip, lockVars
<1> QED
  BY <1>1, <1>15, <1>2, <1>4, <1>5, <1>6, <1>7, <1>8, <1>9, <1>10, <1>11, <1>12, <1>13, <1>14
     DEF Next, Caller, Control, Purposes

\* An unlimited closure, which mirrors a paddle, is opened by an open or a trip of
\* the control task only: no timer left over from an earlier closure and no
\* reassertion finds a limit to apply (independentSafetyTimerCallback,
\* relaySafetyTimerCallback, operationalLimitTimerCallback).
THEOREM MirrorsAreNotTimed == Spec => MirrorIsNotTimed
<1>1. Init => LimitsTogether
  BY DEF Init, LimitsTogether
<1>2. IInv /\ LimitsTogether /\ [Next]_vars =>
        (circuitClosed /\ hardLimit = 0 /\ ~circuitClosed'
           => pc \in {"idle", "trip"} /\ pc' # pc)
  <2> SUFFICES ASSUME IInv, LimitsTogether, [Next]_vars, circuitClosed, hardLimit = 0,
                      ~circuitClosed'
               PROVE  pc \in {"idle", "trip"} /\ pc' # pc
    OBVIOUS
  <2>1. ClosedWhere /\ ClosedWhere' /\ operationalLimit = 0
    BY IInvStep DEF IInv, Core, LimitsTogether
  <2>2. relaySafetyState' # relaySafetyState
    BY <2>1 DEF ClosedWhere
  <2>3. ~(CloseArming \/ CloseCommit)
    BY <2>1 DEF CloseArming, CloseCommit, ClosedWhere, Closing
  <2>4. ~Reassert
    BY <2>1, <2>2 DEF Reassert, Expired, lockVars
  <2>5. ~(GpCallback \/ HardCallback \/ OperationalCallback)
    BY <2>1, <2>2 DEF GpCallback, InterruptTrips, HardCallback, OperationalCallback, lockVars
  <2>6. CallOpen \/ TripSection
    BY <2>2, <2>3, <2>4, <2>5, StateWriters
  <2> QED
    BY <2>6 DEF CallOpen, TripSection, Record, Goto
<1> QED
  BY Inductive, LimitsStayTogether, <1>1, <1>2, PTL DEF Spec, MirrorIsNotTimed

-----------------------------------------------------------------------------
(* The driver implements RelayContract while the GPTimer driver does not refuse. *)

\* The initial states are initial states of the contract.
LEMMA ContractInit == Init => Contract!Init
  BY DEF Init, Contract!Init, Granted, NoCall

\* Outside the call of a logical run wall the contract's wall does not change.
WallSame == (call.from = "wall")' = (call.from = "wall")

\* A section that is not a wall's trip neither starts nor ends one.
LEMMA WallKept ==
  ASSUME IInv,
         \/ CallOpen \/ CallPromote \/ CloseArming \/ CloseCommit \/ Reassert
         \/ PromoteCommit \/ (\E tripped \in BOOLEAN : Consume(tripped))
         \/ UNCHANGED call
  PROVE  WallSame
<1>1. WallCall
  BY DEF IInv, Core
<1> USE <1>1 DEF WallCall, WallSame, Goto, Record, Return, Trip, NoCall
<1>2. CASE CallOpen
  BY <1>2 DEF CallOpen
<1>3. CASE CallPromote
  BY <1>3 DEF CallPromote
<1>4. CASE CloseArming
  BY <1>4 DEF CloseArming, IInv, TypeOK, ControlTypeOK, Calls
<1>5. CASE CloseCommit
  <2>1. /\ pc = "commit"
        /\ call' = NoCall \/ call' = [call EXCEPT !.mark = "OPEN", !.then = "cleanup"]
    BY <1>5 DEF CloseCommit
  <2>2. call \in Calls
    BY DEF IInv, TypeOK, ControlTypeOK
  <2>3. call.from # "wall"
    BY <2>1
  <2>4. CASE call' = NoCall
    BY <2>3, <2>4
  <2>5. CASE call' = [call EXCEPT !.mark = "OPEN", !.then = "cleanup"]
    <3>1. call'.from = call.from
      BY <2>2, <2>5 DEF Calls
    <3> QED
      BY <2>3, <3>1
  <2> QED
    BY <2>1, <2>4, <2>5
<1>6. CASE Reassert
  <2>1. pc = "reassert" /\ (call'.from = "none" \/ call' = call)
    <3>1. Record(NoCall, "OPEN", "cleanup") \/ Trip("hard") \/ Goto("expiry", call) \/ Return
      BY <1>6 DEF Reassert
    <3>2. pc = "reassert"
      BY <1>6 DEF Reassert
    <3>3. CASE Record(NoCall, "OPEN", "cleanup") \/ Trip("hard")
      BY <3>2, <3>3
    <3>4. CASE Goto("expiry", call) \/ Return
      BY <3>2, <3>4
    <3> QED
      BY <3>1, <3>3, <3>4
  <2> QED
    BY <2>1
<1>7. CASE PromoteCommit
  <2>1. pc = "promote_commit" /\ call'.from \in {"none", "promote"}
    <3>1. CASE MayPromote
      BY <1>7, <3>1 DEF PromoteCommit
    <3>2. CASE ~MayPromote
      BY <1>7, <3>2 DEF PromoteCommit
    <3> QED
      BY <3>1, <3>2
  <2> QED
    BY <2>1
<1>8. ASSUME NEW tripped \in BOOLEAN, Consume(tripped) PROVE WallSame
  BY <1>8 DEF Consume
<1>9. CASE UNCHANGED call
  BY <1>9
<1> QED
  BY <1>2, <1>3, <1>4, <1>5, <1>6, <1>7, <1>8, <1>9

\* A section that opens or leaves open the circuit as tripRelaySafetyLocked does
\* is a Lock, a Cut or a stutter of the contract.
LEMMA TripIsContractStep ==
  ASSUME NEW t \in Trips, IInv, TripLocked(t),
         t # "lockout" => relaySafetyState # "LOCKOUT",
         WallSame
  PROVE  Contract!Next \/ UNCHANGED Contract!cvars
<1>1. /\ circuitClosed' = FALSE /\ energizedFor' = 0
      /\ ~circuitClosed => energizedFor = 0
  BY DEF TripLocked, IInv, Core, ClosedWhere
<1>2. Granted' = 0 /\ (~circuitClosed => Granted = 0)
  BY <1>1 DEF Granted
<1>3. CASE t = "lockout"
  <2>1. cut' = cut
    BY <1>3 DEF TripLocked, IInv, TypeOK, RelayTypeOK
  <2>2. Contract!Lock
    BY <1>1, <1>2, <1>3, <2>1 DEF TripLocked, WallSame, Contract!Lock, Contract!Ended
  <2> QED
    BY <2>2 DEF Contract!Next
<1>4. CASE t # "lockout" /\ circuitClosed
  <2>1. cut' = TRUE
    BY <1>4 DEF TripLocked
  <2>2. Contract!Cut
    BY <1>1, <1>2, <1>4, <2>1 DEF TripLocked, WallSame, Contract!Cut, Contract!Ended
  <2> QED
    BY <2>2 DEF Contract!Next
<1>5. CASE t # "lockout" /\ ~circuitClosed
  <2>1. cut' = cut
    BY <1>5 DEF TripLocked, IInv, TypeOK, RelayTypeOK
  <2> QED
    <3>1. (relaySafetyState = "LOCKOUT")' <=> relaySafetyState = "LOCKOUT"
      BY <1>5 DEF TripLocked
    <3>2. circuitClosed' = circuitClosed
      BY <1>1, <1>5 DEF IInv, TypeOK, RelayTypeOK
    <3> QED
      BY <1>1, <1>2, <1>5, <2>1, <3>1, <3>2 DEF WallSame, Contract!cvars
<1> QED
  BY <1>3, <1>4, <1>5

\* A step that leaves the circuit alone and starts or ends no promotion stutters.
QuietStep ==
  /\ UNCHANGED <<circuitClosed, hardLimit, operationalLimit, energizedFor, cut>>
  /\ relaySafetyState' = "LOCKOUT" <=> relaySafetyState = "LOCKOUT"
  /\ call'.from = "promote" <=> call.from = "promote"
  /\ call'.from = "wall" <=> call.from = "wall"
\* What the contract does not see is a stutter of it.
LEMMA QuietIsStutter == QuietStep => UNCHANGED Contract!cvars
  BY DEF QuietStep, Contract!cvars, Granted

\* The sections that no contract action describes.
LEMMA QuietSections ==
  ASSUME IInv, [Next]_vars,
         ~(\E t \in {"hard", "operational"} : CallWallTrip(t)),
         ~(CallOpen \/ CallPromote \/ ConsumeHardTrip \/ ConsumeOperationalTrip
           \/ CloseArming \/ CloseCommit \/ TripSection \/ Reassert \/ PromoteCommit
           \/ GpCallback \/ HardCallback \/ OperationalCallback \/ Tick)
  PROVE  UNCHANGED Contract!cvars
<1> USE DEF lockVars
<1>1. PromoteCall /\ WallCall /\ TypeOK
  BY DEF IInv, Core
<1>2. QuietStep
  <2> USE <1>1 DEF QuietStep, WallCall, PromoteCall, PromoteSections, TypeOK, ControlTypeOK, Calls, Goto,
                  Return, Trip, Record, NoCall
  <2>1. ASSUME NEW limit \in CloseLimits \union {HardMax}, NEW purp \in Purposes,
               CallClose(limit, purp) PROVE QuietStep
    BY <2>1 DEF CallClose
  <2>2. CASE CallMirror \/ CallTrip \/ Service
    BY <2>2 DEF CallMirror, CallTrip, Service
  <2>3. CASE CloseSnapshot
    BY <2>3 DEF CloseSnapshot
  <2>4. CASE CloseDisarm \/ Cleanup
    BY <2>4 DEF CloseDisarm, Cleanup
  <2>5. CASE CloseArmTimers
    <3>1. /\ pc = "arm_timers" /\ UNCHANGED lockVars
          /\ Record(call, "CLOSED", "commit") \/ Trip("lockout")
      BY <2>5 DEF CloseArmTimers
    <3> QED
      BY <3>1
  <2>6. CASE RecordInverse \/ RecordMarker
    BY <2>6 DEF RecordInverse, RecordMarker
  <2>7. CASE ServiceExpiry
    BY <2>7 DEF ServiceExpiry
  <2>8. CASE PromoteGpTimer
    BY <2>8 DEF PromoteGpTimer
  <2>9. CASE PromoteStop
    BY <2>9 DEF PromoteStop
  <2>10. CASE PromoteStart
    BY <2>10 DEF PromoteStart
  <2>11. CASE GpAlarm \/ GpReturn \/ DispatchHard \/ DispatchOperational
    BY <2>11 DEF GpAlarm, GpReturn, DispatchHard, DispatchOperational
  <2>12. CASE TaskStoreInverse \/ TaskStoreMarker \/ PinDrops \/ WatchdogFault
    BY <2>12 DEF TaskStoreInverse, TaskStoreMarker, PinDrops, WatchdogFault
  <2>13. CASE UNCHANGED vars
    BY <2>13 DEF vars
  <2> QED
    BY <2>1, <2>2, <2>3, <2>4, <2>5, <2>6, <2>7, <2>8, <2>9, <2>10, <2>11, <2>12,
       <2>13 DEF Next, Caller, Control, Interrupt, TimerTask, Purposes
<1> QED
  BY <1>2, QuietIsStutter

\* Every other step is a step of the contract or a stutter.
LEMMA ContractStep ==
  ASSUME "gptimer" \notin Faults, IInv, [Next]_vars
  PROVE  [Contract!Next]_(Contract!cvars)
<1> DEFINE Step == Contract!Next \/ UNCHANGED Contract!cvars
<1>1. /\ TypeOK /\ CloseIsValid /\ LimitsAgree /\ ClosedWhere /\ PromoteCall
      /\ CandidateLimits /\ Deadline /\ NotLockedOut /\ CutKept /\ WallCall
  BY DEF IInv, Core
<1>2. CASE CallOpen
  <2>1. CASE circuitClosed
    <3>1. /\ circuitClosed' = FALSE /\ energizedFor' = 0 /\ cut' = cut
          /\ (relaySafetyState = "LOCKOUT")' <=> relaySafetyState = "LOCKOUT"
      BY <1>2 DEF CallOpen, OpenedState
    <3>2. Contract!Open
      BY <1>2, <2>1, <3>1, WallKept DEF WallSame, Contract!Open, Contract!Ended, Granted
    <3> QED
      BY <3>2 DEF Contract!Next
  <2>2. CASE ~circuitClosed
    <3>1. /\ UNCHANGED <<hardLimit, operationalLimit, cut>>
          /\ circuitClosed' = circuitClosed /\ energizedFor' = energizedFor
          /\ (relaySafetyState = "LOCKOUT")' <=> relaySafetyState = "LOCKOUT"
      BY <1>1, <1>2, <2>2
         DEF CallOpen, OpenedState, ClosedWhere, TypeOK, RelayTypeOK
    <3> QED
      BY <1>2, <2>2, <3>1, WallKept DEF WallSame, Contract!cvars, Granted
  <2> QED
    BY <2>1, <2>2
<1>3. CASE CallPromote
  <2>1. /\ pc = "idle" /\ circuitClosed /\ ~cut
        /\ purpose = "BACKFLUSH_CANDIDATE"
        /\ call'.from = "promote" /\ UNCHANGED lockVars
    BY <1>1, <1>3 DEF CallPromote, Goto, NoCall, CutKept
  <2>2. Granted = HardMax /\ Granted' = BackflushMax
    BY <1>1, <2>1, LimitsAssumption
       DEF Granted, CandidateLimits, PromoteCall, PromoteSections, lockVars
  <2>3. Contract!Extend
    BY <1>3, <2>1, <2>2, WallKept DEF WallSame, Contract!Extend, lockVars
  <2> QED
    BY <2>3 DEF Contract!Next
<1>4. ASSUME NEW tripped \in BOOLEAN, Consume(tripped) PROVE Step
  <2>1. /\ UNCHANGED <<circuitClosed, hardLimit, operationalLimit, energizedFor>>
        /\ relaySafetyState' = relaySafetyState
        /\ call'.from = "promote" <=> call.from = "promote"
    BY <1>1, <1>4 DEF Consume, Record, Goto, NoCall, PromoteCall, PromoteSections
  <2>2. cut' = FALSE \/ cut' = cut
    BY <1>1, <1>4 DEF Consume, TypeOK, RelayTypeOK
  <2>3. UNCHANGED <<circuitClosed, energizedFor>> /\ Granted' = Granted
        /\ ((relaySafetyState = "LOCKOUT")' <=> relaySafetyState = "LOCKOUT")
        /\ WallSame
    BY <1>4, <2>1, WallKept DEF Granted
  <2>4. CASE cut' = FALSE
    BY <2>3, <2>4 DEF Contract!Next, Contract!Acknowledge, WallSame
  <2>5. CASE cut' = cut
    BY <2>3, <2>5 DEF Contract!cvars, WallSame
  <2> QED
    BY <2>2, <2>4, <2>5
<1>5. CASE ConsumeHardTrip \/ ConsumeOperationalTrip
  BY <1>1, <1>4, <1>5
     DEF ConsumeHardTrip, ConsumeOperationalTrip, TypeOK, RelayTypeOK
<1>6. CASE CloseArming
  <2>1. /\ ~circuitClosed /\ circuitClosed' = FALSE /\ energizedFor = 0
        /\ energizedFor' = 0 /\ cut' = cut
        /\ relaySafetyState # "LOCKOUT" /\ relaySafetyState' # "LOCKOUT"
    BY <1>1, <1>6 DEF CloseArming, ClosedWhere, Closing, NotLockedOut
  <2>2. circuitClosed' = circuitClosed
    BY <1>1, <2>1 DEF TypeOK, RelayTypeOK
  <2> QED
    BY <1>6, <2>1, <2>2, WallKept DEF WallSame, Contract!cvars, Granted
<1>7. CASE CloseCommit
  <2>1. CASE MayCommit
    <3>1. /\ pc = "commit" /\ relaySafetyState = "ARMING" /\ ~circuitClosed
          /\ circuitClosed' = TRUE /\ relaySafetyState' = "CLOSED"
          /\ energizedFor' = 0 /\ cut' = cut
          /\ UNCHANGED <<hardLimit, operationalLimit>> /\ call'.from = "none"
      BY <1>1, <1>7, <2>1
         DEF CloseCommit, MayCommit, Return, Goto, NoCall, ClosedWhere, Closing
    <3>2. ValidClose(call.limit, call.purpose)
      BY <1>1, <3>1 DEF CloseIsValid, Closing
    <3>3. /\ hardLimit = IF Unlimited(call.purpose) THEN 0 ELSE HardMax
          /\ operationalLimit = IF Unlimited(call.purpose) THEN 0 ELSE call.limit
      BY <1>1, <3>1 DEF LimitsAgree, LimitsSet, Closing
    <3>4. Granted' \in Contract!Grants
      BY <1>1, <3>1, <3>2, <3>3, LimitsAssumption, ModeAssumption
         DEF Granted, Contract!Grants, ValidClose, Unlimited, TypeOK,
             ControlTypeOK, Calls
    <3>5. Contract!Close(Granted')
      BY <1>7, <3>1, WallKept DEF WallSame, Contract!Close
    <3> QED
      BY <3>4, <3>5 DEF Contract!Next
  <2>2. CASE ~MayCommit
    <3>1. QuietStep
      BY <1>1, <1>7, <2>2
         DEF CloseCommit, Record, Goto, QuietStep, lockVars, TypeOK,
             ControlTypeOK, Calls
    <3> QED
      BY <3>1, QuietIsStutter
  <2> QED
    BY <2>1, <2>2
<1>8. CASE TripSection
  <2>1. TripLocked(call.trip) /\ pc = "trip" /\ call'.from = "none"
    BY <1>8 DEF TripSection, Record, Goto, NoCall
  <2>2. CASE call.from = "wall"
    <3>1. /\ circuitClosed' = FALSE /\ energizedFor' = 0
          /\ relaySafetyState' # "LOCKOUT" /\ cut' = (cut \/ circuitClosed)
      BY <1>1, <2>1, <2>2 DEF TripLocked, WallCall
    <3>2. Contract!WallTrip
      BY <2>1, <2>2, <3>1 DEF Contract!WallTrip, Contract!Ended, Granted
    <3> QED
      BY <3>2 DEF Contract!Next
  <2>3. CASE call.from # "wall"
    BY <1>1, <2>1, <2>3, TripIsContractStep
       DEF WallSame, NotLockedOut, TypeOK, ControlTypeOK, Calls
  <2> QED
    BY <2>2, <2>3
<1>15. ASSUME NEW t \in {"hard", "operational"}, CallWallTrip(t) PROVE Step
  <2>1. /\ UNCHANGED lockVars /\ LogicalWalls
        /\ call.from \notin {"promote", "wall"} /\ call'.from = "wall"
    BY <1>1, <1>15 DEF CallWallTrip, Goto, NoCall, PromoteCall, PromoteSections, WallCall
  <2>2. Contract!ReachWall
    BY <2>1 DEF Contract!ReachWall, Granted, lockVars
  <2> QED
    BY <2>2 DEF Contract!Next
<1>9. CASE Reassert
  <2>1. CASE TripLocked(LimitTrip)
    BY <1>1, <1>9, <2>1, WallKept, TripIsContractStep
       DEF Reassert, NotLockedOut, LimitTrip, Trips
  <2>2. CASE ~TripLocked(LimitTrip)
    <3>1. pc = "reassert"
          /\ UNCHANGED <<circuitClosed, hardLimit, operationalLimit, energizedFor, cut,
                         relaySafetyState>>
      BY <1>9, <2>2 DEF Reassert, lockVars
    <3>2. Trip("hard") \/ Goto("expiry", call) \/ Return
      BY <1>9, <2>2 DEF Reassert
    <3>3. QuietStep
      BY <1>1, <3>1, <3>2
         DEF QuietStep, Trip, Goto, Return, NoCall, PromoteCall, PromoteSections, WallCall
    <3> QED
      BY <3>3, QuietIsStutter
  <2> QED
    BY <2>1, <2>2
<1>10. CASE PromoteCommit
  <2>1. CASE MayPromote
    <3>1. /\ call.from = "promote" /\ call'.from = "none" /\ circuitClosed
          /\ hardLimit = HardMax
          /\ hardLimit' = BackflushMax /\ operationalLimit' = BackflushMax
          /\ UNCHANGED <<circuitClosed, energizedFor, cut, relaySafetyState>>
      BY <1>1, <1>10, <2>1
         DEF PromoteCommit, MayPromote, Return, Goto, NoCall, PromoteCall,
             PromoteSections, CandidateLimits
    <3> QED
      BY <3>1, LimitsAssumption DEF Granted, Contract!cvars
  <2>2. CASE ~MayPromote
    <3>1. QuietStep
      BY <1>1, <1>10, <2>2
         DEF PromoteCommit, Goto, NoCall, QuietStep, PromoteCall, PromoteSections
    <3> QED
      BY <3>1, QuietIsStutter
  <2> QED
    BY <2>1, <2>2
<1>11. CASE GpCallback
  <2>1. CASE InterruptTrips /\ circuitClosed
    <3>1. /\ circuitClosed' = FALSE /\ energizedFor' = 0 /\ cut' = TRUE
          /\ relaySafetyState # "LOCKOUT" /\ relaySafetyState' # "LOCKOUT"
      BY <1>11, <2>1 DEF GpCallback, InterruptTrips, LiveCallback
    <3>2. Contract!Cut
      BY <1>11, <2>1, <3>1, WallKept DEF GpCallback, WallSame, Contract!Cut, Contract!Ended, Granted
    <3> QED
      BY <3>2 DEF Contract!Next
  <2>2. CASE InterruptTrips /\ ~circuitClosed
    <3>1. /\ circuitClosed' = FALSE /\ energizedFor' = 0 /\ energizedFor = 0
          /\ relaySafetyState # "LOCKOUT" /\ relaySafetyState' # "LOCKOUT"
      BY <1>1, <1>11, <2>2 DEF GpCallback, InterruptTrips, LiveCallback, ClosedWhere
    <3>2. cut' = cut /\ circuitClosed' = circuitClosed
      BY <1>1, <1>11, <2>2 DEF GpCallback, TypeOK, RelayTypeOK
    <3> QED
      BY <1>11, <2>2, <3>1, <3>2, WallKept DEF GpCallback, WallSame, Contract!cvars, Granted
  <2>3. CASE ~InterruptTrips
    <3>1. QuietStep
      BY <1>11, <2>3 DEF GpCallback, QuietStep, lockVars
    <3> QED
      BY <3>1, QuietIsStutter
  <2> QED
    BY <2>1, <2>2, <2>3
<1>12. CASE HardCallback
  <2>1. (TripLocked("hard") /\ LiveCallback) \/ UNCHANGED <<lockVars, call>>
    BY <1>12 DEF HardCallback
  <2>2. CASE UNCHANGED <<lockVars, call>>
    BY <2>2, QuietIsStutter DEF QuietStep, lockVars
  <2> QED
    BY <1>12, <2>1, <2>2, WallKept, TripIsContractStep DEF HardCallback, Trips, LiveCallback
<1>13. CASE OperationalCallback
  <2>1. (TripLocked("operational") /\ LiveCallback) \/ UNCHANGED <<lockVars, call>>
    BY <1>13 DEF OperationalCallback
  <2>2. CASE UNCHANGED <<lockVars, call>>
    BY <2>2, QuietIsStutter DEF QuietStep, lockVars
  <2> QED
    BY <1>13, <2>1, <2>2, WallKept, TripIsContractStep DEF OperationalCallback, Trips, LiveCallback
<1>14. CASE Tick
  <2>1. /\ UNCHANGED <<circuitClosed, hardLimit, operationalLimit, cut, call>>
        /\ relaySafetyState' = relaySafetyState
        /\ energizedFor' = IF circuitClosed THEN Saturate(energizedFor + 1) ELSE 0
        /\ gp.phase = "stopped" \/ (gp.phase = "running" /\ gp.due > 0)
    BY <1>14 DEF Tick
  <2>2. Granted' = Granted
    BY <2>1 DEF Granted
  <2>3. CASE circuitClosed
    <3>1. Granted # 0 => energizedFor < Granted
      BY <1>1, <2>1, <2>3, LimitsAssumption
         DEF Granted, Deadline, Guarded, TypeOK, RelayTypeOK, TimerTypeOK
    <3>2. energizedFor' = IF energizedFor < Horizon THEN energizedFor + 1
                                                    ELSE energizedFor
      BY <1>1, <2>1, <2>3, HorizonNat DEF Saturate, TypeOK, RelayTypeOK
    <3>3. Contract!Pass
      BY <2>1, <2>2, <2>3, <3>1, <3>2 DEF Contract!Pass
    <3> QED
      BY <3>3 DEF Contract!Next
  <2>4. CASE ~circuitClosed
    BY <1>1, <2>1, <2>2, <2>4 DEF ClosedWhere, Contract!cvars
  <2> QED
    BY <2>3, <2>4
<1> QED
  BY QuietSections, <1>2, <1>3, <1>5, <1>6, <1>7, <1>8, <1>9, <1>10, <1>11, <1>12,
     <1>13, <1>14, <1>15

\* While the GPTimer driver does not refuse, every step of the driver is a step of
\* RelayContract or changes nothing of it: the closure runs within its grant, a
\* cut closure stays noted and only a logical run wall ends a lockout.
THEOREM DriverImplementsContract ==
  ASSUME "gptimer" \notin Faults PROVE Spec => ImplementsContract
<1>1. Init => Contract!Init
  BY ContractInit
<1>2. IInv /\ [Next]_vars => [Contract!Next]_(Contract!cvars)
  BY ContractStep
<1> QED
  BY Inductive, <1>1, <1>2, PTL DEF Spec, ImplementsContract, Contract!Spec
=============================================================================
