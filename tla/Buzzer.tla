------------------------------- MODULE Buzzer -------------------------------
(* LocalBuzzer: one sound that plays, one that waits, and the esp_timer that
   times the notes.  The control task asks for sounds, stops them, services the
   buzzer once per loop and tries out melodies; the timer's task runs the same
   service().  Each operation is one section under the buzzer's mutex.  What a
   sound is made of is given by Catalog; a deadline or the end of a phase comes
   at some time, and a dispatched callback may arrive after a sound was replaced. *)
EXTENDS Naturals, Sequences

CONSTANTS Catalog,      \* [sound -> [alarm, loop, rtttl, notes: Seq([tone, gap])]]
          Melody,       \* BuzzerCue::BULLSEYE
          MaxRequests, MaxTests, MaxTimerFailures

ASSUME BuzzerAssumption ==
    /\ Melody \in DOMAIN Catalog /\ {MaxRequests, MaxTests, MaxTimerFailures} \subseteq Nat
    /\ \A s \in DOMAIN Catalog :
         s # "none" /\ Catalog[s].notes # <<>> /\ ~(Catalog[s].alarm /\ Catalog[s].loop)

VARIABLES buzzer,  \* LocalBuzzer and its timer
          tune,    \* bullseyeNotes: the saved melody, one to test, or none
          tester,  \* BUZZER_TEST with a melody, and emitCircuitCycleAlert
          ring     \* what was done last, with the answer to a request; counters

buzzerVars == <<buzzer, tune, tester, ring>>

Sounds == DOMAIN Catalog
NoSound == "none"
Loops(s) == s # NoSound /\ Catalog[s].loop
Alarm(s) == s # NoSound /\ Catalog[s].alarm
Rtttl(s) == s # NoSound /\ Catalog[s].rtttl
Note(b) == Catalog[b.active].notes[b.beep]
LastNote(b) == b.beep = Len(Catalog[b.active].notes)

Silent == [active |-> NoSound, beep |-> 0, on |-> FALSE, limited |-> FALSE, over |-> FALSE,
           due |-> FALSE, notes |-> NoSound, pending |-> NoSound, pendingLimited |-> FALSE,
           armed |-> FALSE, called |-> FALSE]
Cleared(b) ==
    [Silent EXCEPT !.pending = b.pending, !.pendingLimited = b.pendingLimited,
                   !.armed = b.armed, !.called = b.called]
DropWaiting(b) == [b EXCEPT !.pending = NoSound, !.pendingLimited = FALSE]

BuzzerInit ==
    /\ buzzer = Silent
    /\ tune = "saved" /\ tester = "idle"
    /\ ring = [did |-> "nothing", asked |-> NoSound, got |-> FALSE,
               requests |-> 0, tests |-> 0, failures |-> 0]

-----------------------------------------------------------------------------
(* The timer.  Its failure silences the buzzer and forgets the sound that waits;
   one that could not be stopped may still fire. *)
TimerFailed(b, fault) == [Silent EXCEPT !.armed = fault = "stop" /\ b.armed, !.called = b.called]
Arm(b, fault) == IF fault = "none" THEN [b EXCEPT !.armed = TRUE] ELSE TimerFailed(b, fault)
Disarm(b, fault) == IF fault = "stop" THEN TimerFailed(b, fault) ELSE [b EXCEPT !.armed = FALSE]

(* startPattern and startRtttl: a melody without notes does not start. *)
Startable(s) == s = Melody => tune # NoSound
StartNote(b, fault) == Arm([b EXCEPT !.on = Note(b).tone, !.due = FALSE], fault)
Start(b, s, limited, fault) ==
    StartNote([b EXCEPT !.active = s, !.beep = 1, !.limited = limited /\ Loops(s), !.over = FALSE,
                        !.notes = IF s = Melody THEN tune ELSE NoSound], fault)

(* startPendingDrainedLocked and finish. *)
Drain(b, fault) ==
    IF b.pending # NoSound /\ Startable(b.pending)
    THEN Start(DropWaiting(b), b.pending, b.pendingLimited, fault)
    ELSE Disarm(DropWaiting(b), fault)
Finish(b, fault) == Drain(Cleared(b), fault)

-----------------------------------------------------------------------------
(* service(): what the end of a phase leads to. *)
Expired(b) == Loops(b.active) /\ b.limited /\ b.over
PauseMutUnarmed(b, fault) == [b EXCEPT !.on = FALSE, !.due = FALSE]
Pause(b, fault) == Arm([b EXCEPT !.on = FALSE, !.due = FALSE], fault)
FromTheTop(b, sounds, fault) ==
    Arm([b EXCEPT !.beep = 1, !.on = sounds, !.due = FALSE], fault)
NextNote(b, fault) == StartNote([b EXCEPT !.beep = @ + 1], fault)

EndOfTone(b, fault) ==
    LET first == Catalog[b.active].notes[1] IN
    CASE Loops(b.active) /\ ~Rtttl(b.active) -> Pause(b, fault)
      [] Loops(b.active) /\ Rtttl(b.active) /\ LastNote(b) ->
           FromTheTop(b, first.tone /\ ~first.gap, fault)
      [] ~Loops(b.active) /\ LastNote(b) -> Finish(b, fault)
      [] ~(Loops(b.active) /\ ~Rtttl(b.active)) /\ ~LastNote(b) ->
           IF Rtttl(b.active) /\ ~Note(b).gap THEN NextNote(b, fault) ELSE Pause(b, fault)
EndOfPause(b, fault) ==
    CASE Loops(b.active) /\ ~Rtttl(b.active) -> FromTheTop(b, TRUE, fault)
      [] Rtttl(b.active) /\ Loops(b.active) /\ LastNote(b) /\ ~Note(b).tone ->
           FromTheTop(b, Catalog[b.active].notes[1].tone, fault)
      [] ~(Loops(b.active) /\ ~Rtttl(b.active)) /\ ~LastNote(b) -> NextNote(b, fault)
      [] OTHER -> Finish(b, fault)
Serviced(b, fault) ==
    CASE b.active = NoSound -> b
      [] b.active # NoSound /\ Expired(b) -> Finish(b, fault)
      [] b.active # NoSound /\ ~Expired(b) /\ ~b.due -> b
      [] OTHER -> IF b.on THEN EndOfTone(b, fault) ELSE EndOfPause(b, fault)

-----------------------------------------------------------------------------
(* acceptLocked: a sound starts at once, waits, takes the place of one that
   waits, or is refused. *)
CanStartNowMutBusy(b) == TRUE
CanStartNow(b) == b.active = NoSound \/ Loops(b.active)
GivesWay(b, s) == b.active = Melody /\ s # Melody /\ Alarm(s)
OutranksMutAny(b, s) == Alarm(s)
Outranks(b, s) == Alarm(s) /\ ~Alarm(b.pending)
Verdict(b, got) == [buzzer |-> b, got |-> got]
Begun(b, s, limited, fault) ==
    IF Startable(s) THEN Verdict(Start(b, s, limited, fault), fault = "none") ELSE Verdict(b, FALSE)
Waits(b, s, limited) == [b EXCEPT !.pending = s, !.pendingLimited = limited]
Accept(b0, s, limited, fault) ==
    LET b == IF GivesWay(b0, s) THEN Cleared(b0) ELSE b0 IN
    CASE Loops(b.active) /\ s = b.active ->
           Verdict([b EXCEPT !.limited = limited, !.over = FALSE], TRUE)
      [] Loops(b.active) /\ s # b.active ->
           Begun([DropWaiting(b) EXCEPT !.on = FALSE], s, limited, fault)
      [] b.active = NoSound -> Begun(b, s, limited, fault)
      [] OTHER ->
           IF b.pending = NoSound THEN Verdict(Waits(b, s, limited), TRUE) ELSE
           IF Outranks(b, s) THEN Verdict(Waits(b, s, limited /\ Loops(s)), TRUE)
           ELSE Verdict(b, s = b.pending)
-----------------------------------------------------------------------------
Faults == IF ring.failures < MaxTimerFailures THEN {"none", "stop", "start"} ELSE {"none"}
Did(what, fault) ==
    ring' = [ring EXCEPT !.did = what, !.asked = NoSound, !.got = FALSE,
                         !.failures = IF fault = "none" THEN @ ELSE @ + 1]

(* The control task.  A cycle alert stops everything, then asks for its sound. *)
Request(s, limited) ==
    /\ tester \in {"idle", "preempted"} /\ ring.requests < MaxRequests
    /\ \E fault \in Faults : LET v == Accept(buzzer, s, limited, fault) IN
         /\ buzzer' = v.buzzer
         /\ ring' = [ring EXCEPT !.did = "request", !.asked = s, !.got = v.got, !.requests = @ + 1,
                                 !.failures = IF fault = "none" THEN @ ELSE @ + 1]
    /\ tester' = "idle" /\ UNCHANGED tune
StopAll ==
    /\ tester = "idle" /\ buzzer.active # NoSound
    /\ \E fault \in Faults :
         buzzer' = Disarm(DropWaiting(Cleared(buzzer)), fault) /\ Did("stop", fault)
    /\ tester' \in {"idle", "preempted"} /\ UNCHANGED tune
Stops(b, cues, fault) ==
    LET c == IF b.pending \in cues THEN DropWaiting(b) ELSE b IN
    IF b.active \in cues THEN Finish(c, fault) ELSE c
(* stopIf and stopIfCue; stopPulseTrains; stopExtendedPulse. *)
StopSound(s) ==
    /\ tester = "idle" /\ s \in {buzzer.active, buzzer.pending}
    /\ \E fault \in Faults : buzzer' = Stops(buzzer, {s}, fault) /\ Did("stop", fault)
    /\ UNCHANGED <<tune, tester>>
StopPulseTrains ==
    /\ tester = "idle" /\ (Loops(buzzer.active) \/ Loops(buzzer.pending))
    /\ \E fault \in Faults : buzzer' = Stops(buzzer, {s \in Sounds : Loops(s)}, fault) /\ Did("stop", fault)
    /\ UNCHANGED <<tune, tester>>
StopExtendedPulse ==
    /\ tester = "idle" /\ (Loops(buzzer.active) \/ Loops(buzzer.pending))
    /\ \E fault \in Faults :
         LET Infinite(t) == Loops(t) /\ (t = buzzer.active => ~buzzer.limited) IN
         /\ buzzer' = LET c == IF Loops(buzzer.pending) THEN DropWaiting(buzzer) ELSE buzzer IN
                      IF Infinite(buzzer.active) THEN Finish(c, fault) ELSE c
         /\ Did("stop", fault)
    /\ UNCHANGED <<tune, tester>>
LoopServices ==
    /\ tester = "idle" /\ buzzer.active # NoSound
    /\ \E fault \in Faults : buzzer' = Serviced(buzzer, fault) /\ Did("service", fault)
    /\ UNCHANGED <<tune, tester>>

(* BUZZER_TEST with a melody: the notes are swapped for the test, and back. *)
BeginTest ==
    /\ tester = "idle" /\ ring.tests < MaxTests /\ CanStartNow(buzzer)
    /\ tester' = "checked"
    /\ ring' = [ring EXCEPT !.did = "test", !.asked = NoSound, !.got = FALSE, !.tests = @ + 1]
    /\ UNCHANGED <<buzzer, tune>>
SwapsNotes(from, blank, to, notes) ==
    \/ tester = from /\ tester' = blank /\ tune' = NoSound
    \/ tester = blank /\ tester' = to /\ tune' = notes
SwapNotes ==
    /\ \/ SwapsNotes("checked", "emptied", "swapped", "test")
       \/ SwapsNotes("asked", "cleared", "idle", "saved")
    /\ Did("swap", "none") /\ UNCHANGED buzzer
TestPlays ==
    /\ tester = "swapped"
    /\ \E fault \in Faults :
         LET v == IF CanStartNow(buzzer) THEN Accept(buzzer, Melody, FALSE, fault)
                  ELSE Verdict(buzzer, FALSE) IN
         /\ buzzer' = v.buzzer
         /\ ring' = [ring EXCEPT !.did = "play test", !.got = v.got,
                                 !.failures = IF fault = "none" THEN @ ELSE @ + 1]
    /\ tester' = "asked" /\ UNCHANGED tune
SaveMelody ==
    /\ tester = "idle" /\ ring.tests < MaxTests
    /\ ring' = [ring EXCEPT !.did = "swap", !.asked = NoSound, !.got = FALSE, !.tests = @ + 1]
    /\ tester' = "asked" /\ UNCHANGED <<buzzer, tune>>

(* The timer's task, and time. *)
PhaseElapses ==
    /\ buzzer.active # NoSound /\ ~buzzer.due
    /\ buzzer' = [buzzer EXCEPT !.due = TRUE] /\ Did("time", "none")
    /\ UNCHANGED <<tune, tester>>
DeadlinePasses ==
    /\ buzzer.limited /\ ~buzzer.over
    /\ buzzer' = [buzzer EXCEPT !.over = TRUE] /\ Did("time", "none")
    /\ UNCHANGED <<tune, tester>>
TimerFires ==
    /\ buzzer.armed /\ ~buzzer.called /\ (buzzer.active = NoSound \/ buzzer.due)
    /\ buzzer' = [buzzer EXCEPT !.armed = FALSE, !.called = TRUE] /\ Did("time", "none")
    /\ UNCHANGED <<tune, tester>>
Callback ==
    /\ buzzer.called
    /\ \E fault \in Faults :
         buzzer' = Serviced([buzzer EXCEPT !.called = FALSE], fault) /\ Did("service", fault)
    /\ UNCHANGED <<tune, tester>>

BuzzerNext ==
    \/ \E s \in Sounds, limited \in BOOLEAN : Request(s, limited)
    \/ \E s \in Sounds : StopSound(s)
    \/ StopAll \/ StopPulseTrains \/ StopExtendedPulse \/ LoopServices
    \/ BeginTest \/ SwapNotes \/ TestPlays \/ SaveMelody
    \/ PhaseElapses \/ DeadlinePasses \/ TimerFires \/ Callback

BuzzerSpec == BuzzerInit /\ [][BuzzerNext]_buzzerVars
(* Time goes on and the timer's task runs; the loop may stall. *)
BuzzerFairness ==
    WF_buzzerVars(PhaseElapses) /\ WF_buzzerVars(DeadlinePasses)
    /\ WF_buzzerVars(TimerFires) /\ WF_buzzerVars(Callback)
BuzzerFairSpec == BuzzerSpec /\ BuzzerFairness

-----------------------------------------------------------------------------
(* A high-priority alert that was accepted to wait leaves its place only to
   sound, unless sounds are stopped or the timer fails. *)
WaitingAlarmSounds ==
    [][Alarm(buzzer.pending) /\ buzzer.pending # Melody /\ buzzer'.pending # buzzer.pending
       /\ ring'.did # "stop" /\ ring'.failures = ring.failures
           => buzzer'.active = buzzer.pending]_buzzerVars

(* The notes of a melody under test sound in the test that was accepted, and
   an accepted test sounds them. *)
TestTuneIsForTheTest ==
    [][/\ buzzer'.notes = "test" /\ buzzer.notes # "test" => ring'.did = "play test"
       /\ ring'.did = "play test" /\ ring'.got => buzzer'.notes = "test"]_buzzerVars

(* While the loop stalls the timer alone brings every sound to its end, but for
   a pulse without a deadline. *)
SoundsEnd == []<>(buzzer.active = NoSound \/ (Loops(buzzer.active) /\ ~buzzer.limited))

(* "A long custom melody must not hold back a high-priority alert"
   (OpenBrewByWeightBuzzer.h:524). *)
MelodyHoldsNoAlarm ==
    [][ring'.did = "request" /\ ring'.asked # Melody /\ Alarm(ring'.asked)
       /\ ring'.failures = ring.failures /\ ~ring'.got
           => buzzer.pending # Melody]_buzzerVars
=============================================================================
