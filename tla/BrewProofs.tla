----------------------------- MODULE BrewProofs -----------------------------
(* The control loop, for every set of configurations and every capacity of the
   queue of cleaning observations. *)
EXTENDS Brew, TLAPS

IsRec(r, fields) == r = [f \in fields |-> r[f]]

LoopFields == {"state", "active", "source", "withScale", "automatic", "cycle", "allowed",
               "suppressed", "closed", "wall", "hard", "op", "locked", "fault", "outbound",
               "scaleCommands",
               "shot", "wake", "permit", "owed", "rows", "muted", "skip", "guard"}
CycleFields == {"on", "bbw", "promoted", "released", "hardMax", "rinsing"}
GuardFields == {"armed", "held", "fresh", "aborted", "seen", "done"}
IsLoop(r) ==
    IsRec(r, LoopFields) /\ IsRec(r.cycle, CycleFields) /\ IsRec(r.guard, GuardFields)

Brewing(r) == r.state \in {"BREW", "MANUAL_NO_SCALE"}
Owned(r) == r.active \/ r.wake \/ Backflushing(r)
Tripped(r) == r.hard \/ r.op

\* A cycle, a wake gesture and a backflush exclude each other.
Owners(r) ==
    /\ r.active <=> Brewing(r) \/ r.state = "RINSE"
    /\ r.wake => r.state = "READY"

\* The circuit and the history: a closure has an owner, which owes its row; a trip
\* ends the closure of a wake gesture or a backflush, which have no wall.
Circuit(r) ==
    /\ r.closed => Owned(r)
    /\ r.owed = "yes" <=> Owned(r)
    /\ r.rows = "once"
    /\ r.closed /\ ~r.active => ~Tripped(r) /\ ~r.wall
    /\ r.wake \/ Backflushing(r) => ~r.op

\* A session is told when it is cut, or a restart waits for it; and it keeps nothing of the shot before it.
Session(r) ==
    /\ r.active /\ ~r.muted => r.closed \/ Tripped(r) \/ (r.locked /\ r.fault # "none")
    /\ r.active => r.shot # "waits"
    /\ r.outbound <=> Brewing(r)
    /\ r.scaleCommands => r.active
    /\ ~r.active => ~r.cycle.rinsing

Well(r) == IsLoop(r) /\ Owners(r) /\ Circuit(r) /\ Session(r)

\* The edge and the intention of this pass agree with the levels.
Pad ==
    /\ pad.edge = "off" => ~HoldActive
    /\ pad.edge = "on" => pad.on /\ pad.raw
    /\ pad.intent = "STOP" => pad.edge = "off"
    /\ pad.intent = "IDLE" => ~HoldActive

\* A lease begins at rest and keeps the machine at rest.
AtRest(r) == ~Owned(r) /\ ~r.closed
LeaseInv == Leased => AtRest(c)

\* A wake gesture holds the paddle on; the rest of the pass steps over it.
WakeInv == c.wake /\ pc \notin {"input", "gesture"} => HoldActive /\ pc # "cycle"

\* A trip that nobody has taken notice of finds no paddle edge to close for: outside
\* the steps between the gesture and the trips, the paddle is at rest.
Unanswered(r) == r.state = "READY" /\ ~r.wake /\ Tripped(r) /\ ~r.locked
TripInv ==
    /\ pc = "gesture" /\ Unanswered(c) => ~TurnedOn
    /\ pc \notin {"gesture", "trips"} /\ Unanswered(c) => ~HoldActive

\* An attempt of the integration that was not given back belongs to a backflush, or
\* one that a trip ended, and keeps every other start away.
Attempted == micra.attempt /\ ~posted
Blocked ==
    CASE pc = "input" -> TRUE
      [] pc \in {"gesture", "cycle"} -> obs.attempt
      [] pc = "trips" -> obs.attempt \/ (c.skip /\ (Backflushing(c) \/ c.state = "REQUIRES_OFF"))
      [] OTHER -> obs.attempt \/ Backflushing(c) \/ c.state = "REQUIRES_OFF"
AttemptInv ==
    Attempted => /\ last.attempt /\ ~c.active /\ ~c.wake
                 /\ Backflushing(c) \/ c.owed = "missed"
                 /\ Blocked

(* The shape of the other records.                                           *)
ObsFields == {"phase", "valid", "unresolved", "consumed", "extendable", "seen", "attempt", "cont",
              "epi", "queue"}
Records ==
    /\ IsRec(pad, {"raw", "on", "settled", "edge", "intent"})
    /\ IsRec(lease, {"kind", "forwarded"}) /\ (lease.forwarded => Leased)
    /\ IsRec(micra, ObsFields) /\ IsRec(last, ObsFields) /\ IsRec(obs, ObsFields)

BrewInv == Records /\ Well(c) /\ Pad /\ LeaseInv /\ WakeInv /\ TripInv /\ AttemptInv

-----------------------------------------------------------------------------
(* What the operators on the loop record do to the fields that Well reads.   *)

SameRelay(r, s) ==
    /\ s.closed = r.closed /\ s.wall = r.wall /\ s.hard = r.hard /\ s.op = r.op
    /\ s.locked = r.locked /\ s.fault = r.fault
SameRow(r, s) == s.owed = r.owed /\ s.rows = r.rows
SameSession(r, s) ==
    /\ s.state = r.state /\ s.active = r.active /\ s.muted = r.muted /\ s.wake = r.wake
    /\ s.outbound = r.outbound /\ s.cycle.rinsing = r.cycle.rinsing
SameTrips(r, s) ==
    s.hard = r.hard /\ s.op = r.op /\ s.locked = r.locked /\ s.fault = r.fault

\* A stop opens the relay and changes nothing else of what is told.
LEMMA StoppedOpens ==
    ASSUME NEW r, IsLoop(r)
    PROVE  LET s == Stopped(r)
           IN  IsLoop(s) /\ ~s.closed /\ s.wall = r.wall /\ SameTrips(r, s) /\ SameRow(r, s)
               /\ SameSession(r, s) /\ s.shot = r.shot /\ s.scaleCommands = r.scaleCommands
  BY DEF Stopped, IsLoop, IsRec, LoopFields, CycleFields, GuardFields, SameTrips, SameRow, SameSession

\* Scheduling the finalization touches neither relay, row nor session.
LEMMA ScheduledKeeps ==
    ASSUME NEW r, IsLoop(r), NEW keep
    PROVE  LET s == Scheduled(r, keep)
           IN  IsLoop(s) /\ SameRelay(r, s) /\ SameRow(r, s) /\ SameSession(r, s)
  BY DEF Scheduled, IsLoop, IsRec, LoopFields, CycleFields, GuardFields, SameRelay, SameRow,
         SameSession

\* A row that is owed is recorded once, and is owed no more.
LEMMA RecordedOnce ==
    ASSUME NEW r, IsLoop(r), r.rows = "once", r.owed = "yes"
    PROVE  LET s == Recorded(r)
           IN  IsLoop(s) /\ SameRelay(r, s) /\ SameSession(r, s) /\ s.rows = "once" /\ s.owed = "no"
               /\ s.shot = r.shot /\ s.scaleCommands = r.scaleCommands
  BY DEF Recorded, IsLoop, IsRec, LoopFields, CycleFields, GuardFields, SameRelay, SameSession

\* After the end of a session nothing of it is left.
LEMMA EndedRests ==
    ASSUME NEW r, IsLoop(r), NEW next
    PROVE  LET s == Ended(r, next)
           IN  IsLoop(s) /\ SameRelay(r, s) /\ SameRow(r, s) /\ s.state = next /\ ~s.active
               /\ s.wake = r.wake /\ ~s.outbound /\ ~s.scaleCommands /\ ~s.cycle.rinsing
               /\ s.shot = r.shot
  BY DEF Ended, NoCycle, IsLoop, IsRec, LoopFields, CycleFields, GuardFields, SameRelay, SameRow

(* A cycle that ends opens the circuit, adds its row and leaves the machine  *)
(* at rest.                                                                  *)
LEMMA FinalizedRests ==
    ASSUME NEW r, IsLoop(r), r.rows = "once", r.owed = "yes", ~r.wake,
           NEW next \in {"READY", "REQUIRES_OFF"}, NEW s \in Finalized(r, next)
    PROVE  Well(s) /\ AtRest(s) /\ ~s.active /\ ~s.wake /\ s.state = next /\ s.owed = "no"
           /\ SameTrips(r, s)
  <1>1. PICK keep \in BOOLEAN : s = Ended(Recorded(Scheduled(Stopped(r), keep)), next)
    BY DEF Finalized
  <1> DEFINE a == Stopped(r)
             b == Scheduled(a, keep)
             d == Recorded(b)
  <1>2. IsLoop(a) /\ ~a.closed /\ SameTrips(r, a) /\ SameRow(r, a) /\ a.wake = r.wake
    BY StoppedOpens DEF SameSession
  <1>3. IsLoop(b) /\ SameRelay(a, b) /\ SameRow(a, b) /\ b.wake = a.wake
    BY <1>2, ScheduledKeeps DEF SameSession
  <1>4. b.rows = "once" /\ b.owed = "yes"
    BY <1>2, <1>3 DEF SameRow
  <1>5. IsLoop(d) /\ SameRelay(b, d) /\ d.wake = b.wake /\ d.rows = "once" /\ d.owed = "no"
    BY <1>3, <1>4, RecordedOnce DEF SameSession
  <1>6. s = Ended(d, next)
    BY <1>1
  <1> HIDE DEF a, b, d
  <1>7. /\ IsLoop(s) /\ SameRelay(d, s) /\ SameRow(d, s) /\ s.state = next /\ ~s.active
        /\ s.wake = d.wake /\ ~s.outbound /\ ~s.scaleCommands /\ ~s.cycle.rinsing
    BY <1>5, <1>6, EndedRests
  <1> QED
    BY <1>2, <1>3, <1>5, <1>7
    DEF SameTrips, SameRelay, SameRow, Well, Owners, Circuit, Session, AtRest, Owned, Brewing,
        Tripped, Backflushing


(* A circuit that is closed stays as it is; an open one closes and owes its  *)
(* row, or is refused, and then a fault may have locked the driver.          *)
LEMMA ClosingsCases ==
    ASSUME NEW r, IsLoop(r), NEW wall, NEW k \in Closings(r, wall)
    PROVE  /\ IsLoop(k.to) /\ SameSession(r, k.to) /\ k.to.rows = r.rows /\ k.to.shot = r.shot
           /\ k.to.scaleCommands = r.scaleCommands /\ k.to.guard = r.guard /\ k.to.op = r.op
           /\ r.closed => k.ok /\ k.to = r
           /\ k.ok /\ ~r.closed => /\ k.to.closed /\ k.to.wall = wall /\ k.to.owed = "yes"
                                   /\ ~r.locked /\ SameTrips(r, k.to)
           /\ ~k.ok => /\ ~k.to.closed /\ k.to.owed = r.owed
                       /\ SameTrips(r, k.to) \/ k.to.locked
  <1>1. k.to = r \/ k.to = [r EXCEPT !.closed = TRUE, !.wall = wall, !.owed = "yes"]
        \/ \E f : k.to = LockedOut(r, f)
    BY DEF Closings, Refusals
  <1>2. IsLoop(k.to) /\ SameSession(r, k.to) /\ k.to.rows = r.rows /\ k.to.shot = r.shot
        /\ k.to.scaleCommands = r.scaleCommands /\ k.to.guard = r.guard /\ k.to.op = r.op
    <2>1. CASE k.to = r
      BY <2>1 DEF SameSession
    <2>2. CASE k.to = [r EXCEPT !.closed = TRUE, !.wall = wall, !.owed = "yes"]
      BY <2>2 DEF IsLoop, IsRec, LoopFields, CycleFields, GuardFields, SameSession
    <2>3. CASE \E f : k.to = LockedOut(r, f)
      <3>1. PICK f : k.to = LockedOut(r, f)
        BY <2>3
      <3>2. IsRec(k.to, LoopFields)
        BY <3>1 DEF LockedOut, IsLoop, IsRec, LoopFields
      <3>3. /\ SameSession(r, k.to) /\ k.to.cycle = r.cycle /\ k.to.guard = r.guard
            /\ k.to.rows = r.rows /\ k.to.shot = r.shot /\ k.to.op = r.op
            /\ k.to.scaleCommands = r.scaleCommands
        BY <3>1 DEF LockedOut, IsLoop, IsRec, LoopFields, SameSession
      <3> QED
        BY <3>2, <3>3 DEF IsLoop
    <2> QED
      BY <1>1, <2>1, <2>2, <2>3
  <1>3. r.closed => k.ok /\ k.to = r
    BY DEF Closings
  <1>4. ASSUME k.ok, ~r.closed
        PROVE  k.to.closed /\ k.to.wall = wall /\ k.to.owed = "yes" /\ ~r.locked
               /\ SameTrips(r, k.to)
    <2>1. k.to = [r EXCEPT !.closed = TRUE, !.wall = wall, !.owed = "yes"] /\ ~r.locked
      BY <1>4 DEF Closings
    <2> QED
      BY <2>1 DEF IsLoop, IsRec, LoopFields, SameTrips
  <1>5. ASSUME ~k.ok
        PROVE  /\ ~k.to.closed /\ k.to.owed = r.owed
               /\ SameTrips(r, k.to) \/ k.to.locked
    <2>1. ~r.closed /\ (k.to = r \/ \E f : k.to = LockedOut(r, f))
      BY <1>5 DEF Closings, Refusals
    <2> QED
      BY <2>1 DEF LockedOut, IsLoop, IsRec, LoopFields, SameTrips
  <1> QED
    BY <1>2, <1>3, <1>4, <1>5

(* Fields that Well does not read.                                           *)
SameView(r, s) ==
    SameRelay(r, s) /\ SameRow(r, s) /\ SameSession(r, s) /\ s.shot = r.shot
    /\ s.scaleCommands = r.scaleCommands

\* A loop whose view is the same is well if the other is.
LEMMA WellReadsTheView ==
    ASSUME NEW r, NEW s, Well(r), IsLoop(s), SameView(r, s)
    PROVE  Well(s) /\ (AtRest(r) => AtRest(s))
  BY DEF SameView, SameRelay, SameRow, SameSession, Well, Owners, Circuit, Session, Brewing,
         Owned, Tripped, Backflushing, AtRest

(* The ended shot is committed before the loop forgets what it measured.     *)
LEMMA PendingCommittedKeeps ==
    ASSUME NEW r, IsLoop(r)
    PROVE  LET s == PendingCommitted(r)
           IN  IsLoop(s) /\ SameRelay(r, s) /\ SameRow(r, s) /\ SameSession(r, s)
               /\ s.scaleCommands = r.scaleCommands /\ s.guard = r.guard /\ s.shot # "waits"
  BY DEF PendingCommitted, IsLoop, IsRec, LoopFields, CycleFields, GuardFields, SameRelay, SameRow,
         SameSession

\* Committing the shot that waits changes neither relay, row nor session.
LEMMA WellWithoutShot ==
    ASSUME NEW r, Well(r)
    PROVE  LET s == PendingCommitted(r)
           IN  Well(s) /\ (AtRest(r) => AtRest(s)) /\ SameRelay(r, s) /\ SameRow(r, s)
               /\ SameSession(r, s)
  <1> DEFINE s == PendingCommitted(r)
  <1>1. /\ IsLoop(s) /\ SameRelay(r, s) /\ SameRow(r, s) /\ SameSession(r, s)
        /\ s.scaleCommands = r.scaleCommands /\ s.shot # "waits"
    BY PendingCommittedKeeps DEF Well
  <1> HIDE DEF s
  <1>2. Well(s) /\ (AtRest(r) => AtRest(s))
    BY <1>1 DEF SameRelay, SameRow, SameSession, Well, Owners, Circuit, Session, Brewing,
                Owned, Tripped, Backflushing, AtRest
  <1> QED
    BY <1>1, <1>2 DEF s


\* A session that begins touches neither the relay nor the row.
LEMMA SessionBegunKeeps ==
    ASSUME NEW r, IsLoop(r), NEW source
    PROVE  LET s == SessionBegun(r, source)
           IN  /\ IsLoop(s) /\ SameRelay(r, s) /\ SameRow(r, s) /\ s.active /\ s.scaleCommands
               /\ s.state = r.state /\ s.wake = r.wake /\ s.outbound = r.outbound
               /\ s.cycle.rinsing = r.cycle.rinsing /\ s.shot # "waits"
  <1> DEFINE a == PendingCommitted(r)
             s == [a EXCEPT !.active = TRUE, !.source = source, !.scaleCommands = TRUE,
                            !.withScale = ScaleUsable, !.automatic = FALSE, !.guard.aborted = FALSE]
  <1>1. /\ IsLoop(a) /\ SameRelay(r, a) /\ SameRow(r, a) /\ SameSession(r, a) /\ a.shot # "waits"
    BY PendingCommittedKeeps
  <1> HIDE DEF a
  <1>2. /\ IsLoop(s) /\ SameRelay(a, s) /\ SameRow(a, s) /\ s.active /\ s.scaleCommands
        /\ s.state = a.state /\ s.wake = a.wake /\ s.outbound = a.outbound
        /\ s.cycle.rinsing = a.cycle.rinsing /\ s.shot = a.shot
    BY <1>1 DEF IsLoop, IsRec, LoopFields, CycleFields, GuardFields, SameRelay, SameRow
  <1> HIDE DEF s
  <1>3. /\ IsLoop(s) /\ SameRelay(r, s) /\ SameRow(r, s) /\ s.active /\ s.scaleCommands
        /\ s.state = r.state /\ s.wake = r.wake /\ s.outbound = r.outbound
        /\ s.cycle.rinsing = r.cycle.rinsing /\ s.shot # "waits"
    BY <1>1, <1>2 DEF SameRelay, SameRow, SameSession
  <1> QED
    BY <1>3 DEF SessionBegun, s, a

\* A cycle that begins leaves the view.
LEMMA CycleBegunKeeps ==
    ASSUME NEW r, IsLoop(r), NEW bbw
    PROVE  LET s == CycleBegun(r, bbw)
           IN  IsLoop(s) /\ SameView(r, s)
  BY DEF CycleBegun, NoCycle, IsLoop, IsRec, LoopFields, CycleFields, GuardFields, SameView,
         SameRelay, SameRow, SameSession

\* It is a brew or a manual run that begins, and nothing else changes.
LEMMA BrewOrManualNames ==
    ASSUME NEW r, IsLoop(r), NEW s \in BrewOrManual(r)
    PROVE  /\ IsLoop(s) /\ SameRelay(r, s) /\ SameRow(r, s) /\ Brewing(s) /\ s.active = r.active
           /\ s.wake = r.wake /\ s.outbound = r.outbound /\ s.shot = r.shot
  <1>1. PICK auto \in BOOLEAN :
          s = [r EXCEPT !.automatic = auto,
                        !.state = IF auto \/ (cfg.timerOnly /\ r.withScale)
                                  THEN "BREW" ELSE "MANUAL_NO_SCALE"]
    BY DEF BrewOrManual
  <1> QED
    BY <1>1 DEF IsLoop, IsRec, LoopFields, CycleFields, GuardFields, SameRelay, SameRow, Brewing

(* What the rest of a pass may do with the record: it stays well, a wake     *)
(* gesture is left alone, a trip is not forgotten under the paddle, and an   *)
(* admitted cleaning keeps a cycle from starting.                            *)
Outcome(r, s) ==
    /\ Well(s) /\ (s.wake <=> r.wake)
    /\ s.state = "READY" => ~HoldActive \/ (r.state = "READY" /\ SameTrips(r, s))
    /\ (obs.attempt \/ r.state # "READY") /\ ~r.active =>
           ~s.active /\ SameRow(r, s) /\ (Backflushing(r) => Backflushing(s))

\* A step that leaves the view is one the loop may take.
LEMMA SameOutcome ==
    ASSUME NEW r, NEW s, Well(r), IsLoop(s), SameView(r, s)
    PROVE  Outcome(r, s)
  <1>1. Well(s)
    BY WellReadsTheView
  <1> QED
    BY <1>1 DEF Outcome, SameView, SameSession, SameRelay, SameTrips, Backflushing

\* What follows such a step without a change of the view is part of it.
LEMMA OutcomeView ==
    ASSUME NEW r, NEW s, NEW t, Outcome(r, s), IsLoop(t), SameView(s, t)
    PROVE  Outcome(r, t)
  <1>1. Well(t)
    BY WellReadsTheView DEF Outcome
  <1> QED
    BY <1>1 DEF Outcome, SameView, SameSession, SameRelay, SameTrips, SameRow, Backflushing

\* The end of a session by the loop: the relay opens, the row is recorded, all rests.
LEMMA FinalizedOutcome ==
    ASSUME NEW r, Well(r), r.active, NEW next \in {"READY", "REQUIRES_OFF"},
           next = "READY" => ~HoldActive, NEW s \in Finalized(r, next)
    PROVE  Outcome(r, s) /\ AtRest(s)
  <1>1. IsLoop(r) /\ r.rows = "once" /\ r.owed = "yes" /\ ~r.wake
    BY DEF Well, Owners, Circuit, Owned, Brewing
  <1>2. Well(s) /\ AtRest(s) /\ ~s.wake /\ s.state = next
    BY <1>1, FinalizedRests
  <1> QED
    BY <1>1, <1>2 DEF Outcome


(* A start that the driver refused leaves no session.                        *)
LEMMA RefusedOutcome ==
    ASSUME NEW r, NEW t, IsLoop(t), ~t.closed, ~t.wake, ~r.wake, t.rows = "once",
           t.owed # "yes", ~((obs.attempt \/ r.state # "READY") /\ ~r.active)
    PROVE  Outcome(r, StartRefused(t))
  <1> DEFINE s == Ended(t, "REQUIRES_OFF")
  <1>1. /\ IsLoop(s) /\ SameRelay(t, s) /\ SameRow(t, s) /\ s.state = "REQUIRES_OFF" /\ ~s.active
        /\ s.wake = t.wake /\ ~s.outbound /\ ~s.scaleCommands /\ ~s.cycle.rinsing
    BY EndedRests
  <1> HIDE DEF s
  <1>2. Well(s) /\ ~s.wake
    BY <1>1 DEF Well, Owners, Circuit, Session, Owned, Brewing, Tripped, Backflushing, SameRelay,
                SameRow
  <1>3. Outcome(r, s)
    BY <1>1, <1>2 DEF Outcome
  <1> QED
    BY <1>3 DEF s, StartRefused

\* A cycle that starts, or is refused.
LEMMA CycleStartsOutcome ==
    ASSUME NEW r, Well(r), r.state = "READY", ~r.wake, NEW source,
           NEW s \in CycleStarts(r, source)
    PROVE  Outcome(r, s)
  <1> DEFINE physical == source = "PHYSICAL"
             r1 == [r EXCEPT !.guard.fresh = @ /\ ~(physical /\ TurnedOn)]
             free == [r1 EXCEPT !.guard.held = FALSE]
             bbw == ScaleUsable /\ ~cfg.timerOnly
             a == SessionBegun(free, source)
             b == CycleBegun(a, bbw)
             begun == [b EXCEPT !.outbound = TRUE]
  <1>1. IsLoop(r) /\ ~r.active /\ ~r.closed /\ r.rows = "once" /\ r.owed # "yes"
    BY DEF Well, Owners, Circuit, Owned, Brewing, Backflushing
  <1>2. IsLoop(r1) /\ SameView(r, r1)
    BY <1>1 DEF IsLoop, IsRec, LoopFields, CycleFields, GuardFields, SameView, SameRelay, SameRow,
                SameSession
  <1> HIDE DEF r1
  <1>3. IsLoop(free) /\ SameView(r1, free)
    BY <1>2 DEF IsLoop, IsRec, LoopFields, CycleFields, GuardFields, SameView, SameRelay, SameRow,
                SameSession
  <1>4. SameView(r, free)
    BY <1>2, <1>3 DEF SameView, SameRelay, SameRow, SameSession
  <1> HIDE DEF free
  <1>5. CASE Busy(obs) \/ Backflushing(r) \/ (physical /\ r1.guard.fresh)
    <2>1. s = r
      BY <1>5 DEF CycleStarts, r1
    <2> QED
      BY <2>1, <1>1, SameOutcome DEF SameView, SameRelay, SameRow, SameSession
  <1>6. CASE ~(Busy(obs) \/ Backflushing(r) \/ (physical /\ r1.guard.fresh)) /\ NoScaleBlocks(r1)
    <2>1. s = (IF physical
               THEN [r1 EXCEPT !.guard.held = TRUE, !.guard.aborted = TRUE, !.guard.fresh = TRUE]
               ELSE [GuardConsumed(r1) EXCEPT !.guard.held = FALSE])
      BY <1>6 DEF CycleStarts, r1
    <2>2. physical => IsLoop(s) /\ SameView(r1, s)
      BY <1>2, <2>1
      DEF IsLoop, IsRec, LoopFields, CycleFields, GuardFields, SameView, SameRelay, SameRow,
          SameSession
    <2>3. ~physical => IsLoop(s) /\ SameView(r1, s)
      BY <1>2, <2>1
      DEF GuardConsumed, IsLoop, IsRec, LoopFields, CycleFields, GuardFields, SameView, SameRelay,
          SameRow, SameSession
    <2>4. IsLoop(s) /\ SameView(r1, s)
      BY <2>2, <2>3
    <2> QED
      BY <1>2, <2>4, SameOutcome DEF SameView, SameRelay, SameRow, SameSession
  <1>7. CASE ~(Busy(obs) \/ Backflushing(r) \/ (physical /\ r1.guard.fresh))
             /\ ~NoScaleBlocks(r1) /\ CupBlocks
    <2>1. s = free
      BY <1>7 DEF CycleStarts, r1, free
    <2> QED
      BY <2>1, <1>3, <1>4, SameOutcome
  <1>8. CASE ~(Busy(obs) \/ Backflushing(r) \/ (physical /\ r1.guard.fresh))
             /\ ~NoScaleBlocks(r1) /\ ~CupBlocks
    <2>1. /\ IsLoop(a) /\ SameRelay(free, a) /\ SameRow(free, a) /\ a.active /\ a.scaleCommands
          /\ a.state = free.state /\ a.wake = free.wake /\ a.shot # "waits"
      BY <1>3, SessionBegunKeeps
    <2> HIDE DEF a
    <2>2. IsLoop(b) /\ SameView(a, b)
      BY <2>1, CycleBegunKeeps
    <2> HIDE DEF b
    <2>3. IsLoop(begun) /\ begun.outbound /\ SameRelay(b, begun) /\ SameRow(b, begun)
          /\ begun.active = b.active /\ begun.state = b.state /\ begun.wake = b.wake
          /\ begun.shot = b.shot /\ begun.scaleCommands = b.scaleCommands
      BY <2>2 DEF IsLoop, IsRec, LoopFields, CycleFields, GuardFields, SameRelay, SameRow
    <2>4. PICK k \in Closings(begun, bbw /\ ~begun.cycle.hardMax) :
             s \in (IF k.ok THEN BrewOrManual(k.to) ELSE {StartRefused(k.to)})
      BY <1>8 DEF CycleStarts, r1, free, a, b
    <2> HIDE DEF begun
    <2>5. SameRelay(r, begun) /\ SameRow(r, begun) /\ begun.active /\ begun.scaleCommands
          /\ ~begun.wake /\ begun.shot # "waits" /\ begun.outbound
      BY <1>4, <2>1, <2>2, <2>3 DEF SameView, SameRelay, SameRow, SameSession
    <2>6. ~begun.closed /\ begun.rows = "once" /\ begun.owed # "yes"
      BY <1>1, <2>5 DEF SameRelay, SameRow
    <2>7. /\ IsLoop(k.to) /\ SameSession(begun, k.to) /\ k.to.rows = begun.rows
          /\ k.to.shot = begun.shot /\ k.to.scaleCommands = begun.scaleCommands
          /\ k.ok => k.to.closed /\ k.to.owed = "yes"
          /\ ~k.ok => ~k.to.closed /\ k.to.owed = begun.owed
      BY <2>3, <2>4, <2>6, ClosingsCases
    <2>8. ~((obs.attempt \/ r.state # "READY") /\ ~r.active)
      BY <1>8 DEF Busy
    <2>9. CASE k.ok
      <3>1. /\ IsLoop(s) /\ SameRelay(k.to, s) /\ SameRow(k.to, s) /\ Brewing(s)
            /\ s.active = k.to.active /\ s.wake = k.to.wake /\ s.outbound = k.to.outbound
            /\ s.shot = k.to.shot
        BY <2>4, <2>7, <2>9, BrewOrManualNames
      <3>2. Well(s) /\ ~s.wake
        BY <2>5, <2>6, <2>7, <2>9, <3>1
        DEF Well, Owners, Circuit, Session, Owned, Brewing, Tripped, Backflushing, SameRelay,
            SameRow, SameSession
      <3> QED
        BY <2>8, <3>1, <3>2 DEF Outcome, Brewing
    <2>10. CASE ~k.ok
      <3>1. s = StartRefused(k.to)
        BY <2>4, <2>10
      <3>2. ~k.to.closed /\ ~k.to.wake /\ k.to.rows = "once" /\ k.to.owed # "yes"
        BY <2>5, <2>6, <2>7, <2>10 DEF SameSession
      <3> QED
        BY <2>7, <2>8, <3>1, <3>2, RefusedOutcome
    <2> QED
      BY <2>9, <2>10
  <1> QED
    BY <1>5, <1>6, <1>7, <1>8


(* machineBeginRinse closes once; a rinse that has begun changes nothing.    *)
LEMMA RinseStartsCases ==
    ASSUME NEW r, IsLoop(r), NEW k \in RinseStarts(r)
    PROVE  /\ IsLoop(k.to) /\ k.to.state = r.state /\ k.to.active = r.active
           /\ k.to.muted = r.muted /\ k.to.wake = r.wake /\ k.to.outbound = r.outbound
           /\ k.to.scaleCommands = r.scaleCommands /\ k.to.shot = r.shot /\ k.to.rows = r.rows
           /\ k.to.guard = r.guard
           /\ k.to.cycle.rinsing
           /\ r.cycle.rinsing => k.ok /\ k.to = r
           /\ ~r.cycle.rinsing =>
                /\ r.closed => k.ok /\ SameRelay(r, k.to) /\ SameRow(r, k.to)
                /\ k.ok /\ ~r.closed => k.to.closed /\ k.to.owed = "yes" /\ SameTrips(r, k.to)
                /\ ~k.ok => ~k.to.closed /\ k.to.owed = r.owed /\ k.to.op = r.op
  <1>1. CASE r.cycle.rinsing
    BY <1>1 DEF RinseStarts, SameRow
  <1>2. CASE ~r.cycle.rinsing
    <2> DEFINE a == [r EXCEPT !.cycle.rinsing = TRUE]
    <2>1. k \in Closings(a, TRUE)
      BY <1>2 DEF RinseStarts
    <2>2. /\ IsLoop(a) /\ SameRelay(r, a) /\ SameRow(r, a) /\ a.state = r.state
          /\ a.active = r.active /\ a.muted = r.muted /\ a.wake = r.wake
          /\ a.outbound = r.outbound /\ a.scaleCommands = r.scaleCommands /\ a.shot = r.shot
          /\ a.guard = r.guard /\ a.cycle.rinsing
      BY DEF IsLoop, IsRec, LoopFields, CycleFields, GuardFields, SameRelay, SameRow
    <2> HIDE DEF a
    <2>3. /\ IsLoop(k.to) /\ SameSession(a, k.to) /\ k.to.rows = a.rows /\ k.to.shot = a.shot
          /\ k.to.scaleCommands = a.scaleCommands /\ k.to.guard = a.guard /\ k.to.op = a.op
          /\ a.closed => k.ok /\ k.to = a
          /\ k.ok /\ ~a.closed => k.to.closed /\ k.to.owed = "yes" /\ SameTrips(a, k.to)
          /\ ~k.ok => ~k.to.closed /\ k.to.owed = a.owed
      <3> DEFINE wall == TRUE
      <3>1. k \in Closings(a, wall)
        BY <2>1
      <3> HIDE DEF wall
      <3> QED
        BY <2>2, <3>1, ClosingsCases
    <2> QED
      BY <1>2, <2>2, <2>3 DEF SameRelay, SameRow, SameSession, SameTrips
  <1> QED
    BY <1>1, <1>2

(* enterRinse on a running session: it becomes a rinse, or it ends.          *)
LEMMA RinseEnteredOutcome ==
    ASSUME NEW r, Well(r), r.active, NEW s \in RinseEntered(r)
    PROVE  Outcome(r, s) /\ s.state # "READY"
  <1>1. PICK k \in RinseStarts(r) :
          s \in (IF k.ok
                 THEN {[k.to EXCEPT !.automatic = FALSE, !.outbound = FALSE, !.state = "RINSE"]}
                 ELSE Finalized(k.to, "REQUIRES_OFF"))
    BY DEF RinseEntered
  <1>2. IsLoop(r) /\ r.rows = "once" /\ r.owed = "yes" /\ ~r.wake
    BY DEF Well, Owners, Circuit, Owned, Brewing
  <1>3. /\ IsLoop(k.to) /\ k.to.state = r.state /\ k.to.active = r.active
        /\ k.to.muted = r.muted /\ k.to.wake = r.wake
        /\ k.to.scaleCommands = r.scaleCommands /\ k.to.shot = r.shot /\ k.to.rows = r.rows
        /\ r.cycle.rinsing => k.ok /\ k.to = r
        /\ ~r.cycle.rinsing =>
             /\ r.closed => k.ok /\ SameRelay(r, k.to) /\ SameRow(r, k.to)
             /\ k.ok /\ ~r.closed => k.to.closed /\ k.to.owed = "yes" /\ SameTrips(r, k.to)
             /\ ~k.ok => ~k.to.closed /\ k.to.owed = r.owed /\ k.to.op = r.op
    BY <1>1, <1>2, RinseStartsCases
  <1>4. CASE k.ok
    <2>1. s = [k.to EXCEPT !.automatic = FALSE, !.outbound = FALSE, !.state = "RINSE"]
      BY <1>1, <1>4
    <2>2. /\ IsLoop(s) /\ SameRelay(k.to, s) /\ SameRow(k.to, s) /\ s.state = "RINSE" /\ ~s.outbound
          /\ s.active = k.to.active /\ s.muted = k.to.muted /\ s.wake = k.to.wake
          /\ s.scaleCommands = k.to.scaleCommands /\ s.shot = k.to.shot
      BY <1>3, <2>1 DEF IsLoop, IsRec, LoopFields, CycleFields, GuardFields, SameRelay, SameRow
    <2>3. k.to.owed = "yes" /\ (k.to.closed \/ (SameRelay(r, k.to)))
      BY <1>2, <1>3, <1>4 DEF SameRelay, SameRow
    <2>4. Well(s) /\ ~s.wake
      BY <1>2, <1>3, <2>2, <2>3
      DEF Well, Owners, Circuit, Session, Owned, Brewing, Tripped, Backflushing, SameRelay, SameRow
    <2> QED
      BY <1>2, <2>2, <2>4 DEF Outcome
  <1>5. CASE ~k.ok
    <2>1. Well(s) /\ ~s.wake /\ s.state = "REQUIRES_OFF"
      BY <1>1, <1>2, <1>3, <1>5, FinalizedRests
    <2> QED
      BY <1>2, <2>1 DEF Outcome
  <1> QED
    BY <1>4, <1>5


(* A rinse of its own: begun, closed and named in one step, or refused.      *)
LEMMA RinseBeginsOutcome ==
    ASSUME NEW r, Well(r), r.state = "READY", ~r.wake, NEW source,
           NEW s \in RinseBegins(r, source)
    PROVE  Outcome(r, s)
  <1> DEFINE noted == NoScaleBlocks(r) \/ r.guard.held
             r1 == [r EXCEPT !.guard.aborted = @ \/ (source = "PHYSICAL" /\ noted)]
             spent(t) == IF t.guard.armed /\ ~ScaleUsable /\ cfg.noScale # "REQUIRE"
                         THEN GuardConsumed(t) ELSE t
             a == SessionBegun(r1, source)
             b == [a EXCEPT !.guard.fresh = FALSE]
             begun == CycleBegun(b, FALSE)
  <1>1. /\ IsLoop(r) /\ ~r.active /\ ~r.closed /\ r.rows = "once" /\ r.owed # "yes"
        /\ ~r.cycle.rinsing
    BY DEF Well, Owners, Circuit, Session, Owned, Brewing, Backflushing
  <1>2. IsLoop(r1) /\ SameView(r, r1)
    BY <1>1 DEF IsLoop, IsRec, LoopFields, CycleFields, GuardFields, SameView, SameRelay, SameRow,
                SameSession
  <1> HIDE DEF r1
  <1>3. CASE Busy(obs) \/ Backflushing(r)
    <2>1. s = r
      BY <1>3 DEF RinseBegins
    <2> QED
      BY <2>1, <1>1, SameOutcome DEF SameView, SameRelay, SameRow, SameSession
  <1>4. CASE ~(Busy(obs) \/ Backflushing(r)) /\ RinseBlocked(r1, source)
    <2>1. s = (IF cfg.noScale = "REQUIRE" THEN r1
               ELSE [r1 EXCEPT !.guard.armed = FALSE,
                               !.guard.held = @ \/ (source = "PHYSICAL" /\ HoldActive)])
      BY <1>4 DEF RinseBegins, r1
    <2>2. cfg.noScale = "REQUIRE" => IsLoop(s) /\ SameView(r1, s)
      BY <1>2, <2>1 DEF SameView, SameRelay, SameRow, SameSession
    <2>3. cfg.noScale # "REQUIRE" => IsLoop(s) /\ SameView(r1, s)
      BY <1>2, <2>1
      DEF IsLoop, IsRec, LoopFields, CycleFields, GuardFields, SameView, SameRelay, SameRow,
          SameSession
    <2> QED
      BY <1>2, <2>2, <2>3, SameOutcome DEF SameView, SameRelay, SameRow, SameSession
  <1>5. CASE ~(Busy(obs) \/ Backflushing(r)) /\ ~RinseBlocked(r1, source)
    <2>1. /\ IsLoop(a) /\ SameRelay(r1, a) /\ SameRow(r1, a) /\ a.active /\ a.scaleCommands
          /\ a.state = r1.state /\ a.wake = r1.wake /\ a.cycle.rinsing = r1.cycle.rinsing
          /\ a.shot # "waits"
      BY <1>2, SessionBegunKeeps
    <2> HIDE DEF a
    <2>2. IsLoop(b) /\ SameView(a, b)
      BY <2>1 DEF IsLoop, IsRec, LoopFields, CycleFields, GuardFields, SameView, SameRelay,
                  SameRow, SameSession
    <2> HIDE DEF b
    <2>3. IsLoop(begun) /\ SameView(b, begun)
      BY <2>2, CycleBegunKeeps
    <2>4. PICK k \in RinseStarts(begun) :
             s \in (IF k.ok THEN RinseEntered(spent(k.to)) ELSE {StartRefused(k.to)})
      BY <1>5 DEF RinseBegins, r1, a, b
    <2> HIDE DEF begun
    <2>5. /\ ~begun.closed /\ begun.rows = "once" /\ begun.owed # "yes" /\ begun.active
          /\ begun.scaleCommands /\ ~begun.wake /\ begun.shot # "waits" /\ ~begun.cycle.rinsing
      BY <1>1, <1>2, <2>1, <2>2, <2>3 DEF SameView, SameRelay, SameRow, SameSession
    <2>6. /\ IsLoop(k.to) /\ k.to.active = begun.active /\ k.to.wake = begun.wake
          /\ k.to.scaleCommands = begun.scaleCommands /\ k.to.shot = begun.shot
          /\ k.to.rows = begun.rows /\ k.to.cycle.rinsing
          /\ k.ok => k.to.closed /\ k.to.owed = "yes"
          /\ ~k.ok => ~k.to.closed /\ k.to.owed = begun.owed
      BY <2>3, <2>4, <2>5, RinseStartsCases
    <2>7. ~((obs.attempt \/ r.state # "READY") /\ ~r.active)
      BY <1>5 DEF Busy
    <2>8. CASE k.ok
      <3> DEFINE t == spent(k.to)
      <3>1. /\ IsLoop(t) /\ t.active = k.to.active /\ t.wake = k.to.wake /\ t.shot = k.to.shot
            /\ t.scaleCommands = k.to.scaleCommands /\ t.rows = k.to.rows /\ t.owed = k.to.owed
            /\ t.closed = k.to.closed /\ t.cycle = k.to.cycle
        BY <2>6 DEF GuardConsumed, IsLoop, IsRec, LoopFields, CycleFields, GuardFields
      <3>2. s \in RinseEntered(t)
        BY <2>4, <2>8
      <3> HIDE DEF t
      <3>3. t.cycle.rinsing
        BY <2>6, <3>1
      <3>4. s = [t EXCEPT !.automatic = FALSE, !.outbound = FALSE, !.state = "RINSE"]
        <4>1. PICK j \in RinseStarts(t) :
                s \in (IF j.ok
                       THEN {[j.to EXCEPT !.automatic = FALSE, !.outbound = FALSE, !.state = "RINSE"]}
                       ELSE Finalized(j.to, "REQUIRES_OFF"))
          BY <3>2 DEF RinseEntered
        <4>2. j.ok /\ j.to = t
          BY <3>3 DEF RinseStarts
        <4> QED
          BY <4>1, <4>2
      <3>5. /\ IsLoop(s) /\ s.active = t.active /\ s.wake = t.wake /\ s.shot = t.shot
            /\ s.scaleCommands = t.scaleCommands /\ s.rows = t.rows /\ s.owed = t.owed
            /\ s.closed = t.closed /\ s.state = "RINSE" /\ ~s.outbound
        BY <3>1, <3>4 DEF IsLoop, IsRec, LoopFields, CycleFields, GuardFields
      <3>6. Well(s) /\ ~s.wake
        BY <2>5, <2>6, <2>8, <3>1, <3>5
        DEF Well, Owners, Circuit, Session, Owned, Brewing, Tripped, Backflushing
      <3> QED
        BY <2>7, <3>5, <3>6 DEF Outcome
    <2>9. CASE ~k.ok
      <3>1. s = StartRefused(k.to)
        BY <2>4, <2>9
      <3> QED
        BY <2>5, <2>6, <2>7, <2>9, <3>1, RefusedOutcome
    <2> QED
      BY <2>8, <2>9
  <1> QED
    BY <1>3, <1>4, <1>5


(* A trip ends whatever held the circuit; a backflush is left without a row. *)
TripOutcome(r, s) ==
    /\ Well(s) /\ AtRest(s) /\ s.state = "REQUIRES_OFF"
    /\ ~r.active /\ ~r.wake /\ Backflushing(r) => s.owed = "missed"
    /\ ~r.active /\ ~r.wake /\ ~Backflushing(r) => s.owed = r.owed

Parked(r) == [r EXCEPT !.state = "REQUIRES_OFF"]

\* Parking changes the state only.
LEMMA ParkedKeeps ==
    ASSUME NEW r, IsLoop(r)
    PROVE  LET s == Parked(r)
           IN  /\ IsLoop(s) /\ SameRelay(r, s) /\ SameRow(r, s) /\ s.state = "REQUIRES_OFF"
               /\ s.active = r.active /\ s.muted = r.muted /\ s.wake = r.wake /\ s.shot = r.shot
               /\ s.outbound = r.outbound /\ s.scaleCommands = r.scaleCommands
               /\ s.cycle.rinsing = r.cycle.rinsing
  BY DEF Parked, IsLoop, IsRec, LoopFields, CycleFields, GuardFields, SameRelay, SameRow

\* A trip that leaves a row out leaves out that of a backflush, and no other.
LEMMA RowMissedCases ==
    ASSUME NEW r, IsLoop(r), NEW s, s = Parked(RowMissed(r))
    PROVE  /\ IsLoop(s) /\ SameRelay(r, s) /\ s.active = r.active /\ s.wake = r.wake
           /\ s.outbound = r.outbound /\ s.scaleCommands = r.scaleCommands /\ s.rows = r.rows
           /\ s.cycle.rinsing = r.cycle.rinsing /\ s.state = "REQUIRES_OFF"
           /\ Backflushing(r) /\ r.owed = "yes" => s.owed = "missed"
           /\ ~(Backflushing(r) /\ r.owed = "yes") => s.owed = r.owed
  BY DEF Parked, RowMissed, Backflushing, IsLoop, IsRec, LoopFields, CycleFields, GuardFields,
         SameRelay

\* A trip that records the row records it once.
LEMMA RecordedCases ==
    ASSUME NEW r, IsLoop(r), r.rows = "once", r.owed = "yes", NEW s, s = Parked(Recorded(r))
    PROVE  /\ IsLoop(s) /\ SameRelay(r, s) /\ s.active = r.active /\ s.wake = r.wake
           /\ s.outbound = r.outbound /\ s.scaleCommands = r.scaleCommands /\ s.rows = "once"
           /\ s.cycle.rinsing = r.cycle.rinsing /\ s.state = "REQUIRES_OFF" /\ s.owed = "no"
  <1> DEFINE a == Recorded(r)
  <1>1. /\ IsLoop(a) /\ SameRelay(r, a) /\ SameSession(r, a) /\ a.rows = "once" /\ a.owed = "no"
        /\ a.scaleCommands = r.scaleCommands
    BY RecordedOnce
  <1>2. s = Parked(a)
    OBVIOUS
  <1> HIDE DEF a
  <1>3. /\ IsLoop(s) /\ SameRelay(a, s) /\ SameRow(a, s) /\ s.state = "REQUIRES_OFF"
        /\ s.active = a.active /\ s.wake = a.wake
        /\ s.outbound = a.outbound /\ s.scaleCommands = a.scaleCommands
        /\ s.cycle.rinsing = a.cycle.rinsing
    BY <1>1, <1>2, ParkedKeeps
  <1> QED
    BY <1>1, <1>3 DEF SameRelay, SameRow, SameSession

\* The trip of the hard limit.
LEMMA HardTripOutcome ==
    ASSUME NEW r, Well(r), r.hard \/ r.closed, NEW s \in HardTripHandled(r)
    PROVE  TripOutcome(r, s)
  <1> DEFINE a == IF r.hard THEN r ELSE Stopped(r)
             b == [a EXCEPT !.hard = FALSE, !.wake = FALSE]
  <1>1. IsLoop(r) /\ r.rows = "once"
    BY DEF Well, Circuit
  <1>2. /\ IsLoop(a)
        /\ ~r.active => ~a.closed
        /\ a.wall = r.wall /\ SameTrips(r, a) /\ SameRow(r, a) /\ SameSession(r, a)
        /\ a.scaleCommands = r.scaleCommands
    <2>1. CASE r.hard
      BY <2>1, <1>1 DEF Well, Circuit, Tripped, SameTrips, SameRow, SameSession
    <2>2. CASE ~r.hard
      BY <2>2, <1>1, StoppedOpens
    <2> QED
      BY <2>1, <2>2
  <1> HIDE DEF a
  <1>3. /\ IsLoop(b) /\ b.closed = a.closed /\ b.wall = a.wall /\ b.op = a.op /\ b.locked = a.locked
        /\ ~b.hard /\ ~b.wake /\ b.state = a.state /\ b.active = a.active
        /\ b.outbound = a.outbound /\ b.cycle.rinsing = a.cycle.rinsing /\ SameRow(a, b)
        /\ b.scaleCommands = a.scaleCommands
    <2>1. IsLoop(a)
      BY <1>2
    <2> QED
      BY <2>1 DEF IsLoop, IsRec, LoopFields, CycleFields, GuardFields, SameRow
  <1>4. s \in (IF b.active THEN Finalized(b, "REQUIRES_OFF")
               ELSE {Parked(IF r.wake THEN Recorded(b) ELSE RowMissed(b))})
    BY DEF HardTripHandled, Parked, a
  <1> HIDE DEF b
  <1>5. CASE r.active
    <2>1. b.active /\ b.rows = "once" /\ b.owed = "yes" /\ ~b.wake
      BY <1>1, <1>2, <1>3, <1>5 DEF Well, Circuit, Owned, SameRow, SameSession
    <2>2. Well(s) /\ AtRest(s) /\ s.state = "REQUIRES_OFF"
      BY <1>3, <1>4, <2>1, FinalizedRests
    <2> QED
      BY <1>5, <2>2 DEF TripOutcome
  <1>6. CASE ~r.active /\ r.wake
    <2>1. ~b.active /\ b.rows = "once" /\ b.owed = "yes"
      BY <1>1, <1>2, <1>3, <1>6 DEF Well, Circuit, Owned, SameRow, SameSession
    <2>2. s = Parked(Recorded(b))
      BY <1>4, <1>6, <2>1
    <2>3. /\ IsLoop(s) /\ SameRelay(b, s) /\ s.active = b.active /\ s.wake = b.wake
          /\ s.outbound = b.outbound /\ s.scaleCommands = b.scaleCommands /\ s.rows = "once"
          /\ s.cycle.rinsing = b.cycle.rinsing /\ s.state = "REQUIRES_OFF" /\ s.owed = "no"
      BY <1>3, <2>1, <2>2, RecordedCases
    <2>4. ~s.closed /\ ~s.active /\ ~s.wake /\ ~s.outbound /\ ~s.scaleCommands /\ ~s.cycle.rinsing
      BY <1>2, <1>3, <1>6, <2>3
      DEF Well, Owners, Session, Brewing, SameRelay, SameSession
    <2> QED
      BY <1>6, <2>3, <2>4
      DEF TripOutcome, Well, Owners, Circuit, Session, AtRest, Owned, Brewing, Tripped, Backflushing
  <1>7. CASE ~r.active /\ ~r.wake
    <2>1. ~b.active /\ b.rows = "once" /\ b.owed = r.owed /\ b.state = r.state
      BY <1>1, <1>2, <1>3, <1>7 DEF SameRow, SameSession
    <2>2. s = Parked(RowMissed(b))
      BY <1>4, <1>7, <2>1
    <2>3. /\ IsLoop(s) /\ SameRelay(b, s) /\ s.active = b.active /\ s.wake = b.wake
          /\ s.outbound = b.outbound /\ s.scaleCommands = b.scaleCommands /\ s.rows = b.rows
          /\ s.cycle.rinsing = b.cycle.rinsing /\ s.state = "REQUIRES_OFF"
          /\ Backflushing(b) /\ b.owed = "yes" => s.owed = "missed"
          /\ ~(Backflushing(b) /\ b.owed = "yes") => s.owed = b.owed
      BY <1>3, <2>2, RowMissedCases
    <2>4. ~s.closed /\ ~s.active /\ ~s.wake /\ ~s.outbound /\ ~s.scaleCommands /\ ~s.cycle.rinsing
      BY <1>2, <1>3, <1>7, <2>3
      DEF Well, Owners, Session, Brewing, SameRelay, SameSession
    <2>5. Backflushing(r) <=> r.owed = "yes"
      BY <1>7 DEF Well, Circuit, Owned
    <2>6. /\ Backflushing(r) => s.owed = "missed"
          /\ ~Backflushing(r) => s.owed = r.owed
          /\ s.owed # "yes"
      BY <2>1, <2>3, <2>5 DEF Backflushing
    <2> QED
      BY <1>7, <2>1, <2>3, <2>4, <2>6
      DEF TripOutcome, Well, Owners, Circuit, Session, AtRest, Owned, Brewing, Tripped, Backflushing
  <1> QED
    BY <1>5, <1>6, <1>7

\* The trip of the operating limit.
LEMMA WallTripOutcome ==
    ASSUME NEW r, Well(r), r.op \/ (r.closed /\ (r.wall \/ r.active)),
           NEW s \in WallTripHandled(r)
    PROVE  TripOutcome(r, s)
  <1> DEFINE b == [r EXCEPT !.op = FALSE, !.wake = FALSE]
  <1>1. IsLoop(r) /\ r.rows = "once"
    BY DEF Well, Circuit
  <1>2. /\ IsLoop(b) /\ b.closed = r.closed /\ b.wall = r.wall /\ b.hard = r.hard
        /\ b.locked = r.locked /\ ~b.op /\ ~b.wake /\ b.state = r.state /\ b.active = r.active
        /\ b.outbound = r.outbound /\ b.cycle.rinsing = r.cycle.rinsing /\ SameRow(r, b)
        /\ b.scaleCommands = r.scaleCommands
    BY <1>1 DEF IsLoop, IsRec, LoopFields, CycleFields, GuardFields, SameRow
  <1>3. s \in (IF b.active THEN Finalized(b, "REQUIRES_OFF")
               ELSE {Parked(RowMissed(b))})
    BY DEF WallTripHandled, Parked
  <1> HIDE DEF b
  <1>4. CASE r.active
    <2>1. b.active /\ b.rows = "once" /\ b.owed = "yes" /\ ~b.wake
      BY <1>1, <1>2, <1>4 DEF Well, Circuit, Owned, SameRow
    <2>2. Well(s) /\ AtRest(s) /\ s.state = "REQUIRES_OFF"
      BY <1>2, <1>3, <2>1, FinalizedRests
    <2> QED
      BY <1>4, <2>2 DEF TripOutcome
  <1>5. CASE ~r.active
    <2>1. ~r.wake /\ ~Backflushing(r) /\ ~r.closed /\ r.owed # "yes"
      BY <1>5 DEF Well, Circuit, Owned, Tripped
    <2>2. s = Parked(RowMissed(b))
      BY <1>2, <1>3, <1>5
    <2>3. /\ IsLoop(s) /\ SameRelay(b, s) /\ s.active = b.active /\ s.wake = b.wake
          /\ s.outbound = b.outbound /\ s.scaleCommands = b.scaleCommands /\ s.rows = b.rows
          /\ s.cycle.rinsing = b.cycle.rinsing /\ s.state = "REQUIRES_OFF"
          /\ Backflushing(b) /\ b.owed = "yes" => s.owed = "missed"
          /\ ~(Backflushing(b) /\ b.owed = "yes") => s.owed = b.owed
      BY <1>2, <2>2, RowMissedCases
    <2>4. /\ ~s.closed /\ ~s.active /\ ~s.wake /\ ~s.outbound /\ ~s.scaleCommands
          /\ ~s.cycle.rinsing /\ s.owed = r.owed /\ s.rows = "once"
      BY <1>1, <1>2, <1>5, <2>1, <2>3
      DEF Well, Owners, Session, Brewing, SameRelay, SameRow, Backflushing
    <2> QED
      BY <2>1, <2>3, <2>4
      DEF TripOutcome, Well, Owners, Circuit, Session, AtRest, Owned, Brewing, Tripped, Backflushing
  <1> QED
    BY <1>4, <1>5


-----------------------------------------------------------------------------
(* The rest of stateMachineTask and the web commands, each an outcome.       *)

\* Recording a start that was aborted leaves the view.
LEMMA AbortRecordedKeeps ==
    ASSUME NEW r, IsLoop(r)
    PROVE  LET s == AbortRecorded(r) IN IsLoop(s) /\ SameView(r, s)
  BY DEF AbortRecorded, IsLoop, IsRec, LoopFields, CycleFields, GuardFields, SameView, SameRelay,
         SameRow, SameSession

\* After a stop by the user a paddle that is on has to go off.
LEMMA UserHoldNames ==
    UserHold \in {"READY", "REQUIRES_OFF"} /\ (UserHold = "READY" => ~HoldActive)
  BY DEF UserHold

\* The pass of the loop when it is ready.
LEMMA ReadyServedOutcome ==
    ASSUME NEW r, Well(r), r.state = "READY", ~r.wake, NEW s \in ReadyServed(r)
    PROVE  Outcome(r, s)
  <1> DEFINE started == IF pad.intent = "START" THEN CycleStarts(r, "PHYSICAL") ELSE {r}
             rinsed(x) ==
               IF /\ pad.intent = "RINSE" /\ cfg.rinse
                  /\ ~(cfg.noScale = "REQUIRE" /\ x.guard.fresh)
               THEN {[t EXCEPT !.guard.held = @ /\ t.state # "RINSE"] :
                       t \in RinseBegins(x, "PHYSICAL")}
               ELSE {x}
  <1>0. PICK x \in started : \E t \in rinsed(x) : s = AbortRecorded(t)
    BY DEF ReadyServed
  <1>1. PICK t \in rinsed(x) : s = AbortRecorded(t)
    BY <1>0
  <1>2. Outcome(r, r)
    BY SameOutcome DEF Well, SameView, SameRelay, SameRow, SameSession
  <1>3. Outcome(r, t)
    <2>1. CASE pad.intent = "START"
      <3>1. x \in CycleStarts(r, "PHYSICAL") /\ t = x
        BY <1>0, <1>1, <2>1
      <3> QED
        BY <3>1, CycleStartsOutcome
    <2>2. CASE pad.intent # "START" /\ t = r
      BY <1>2, <2>2
    <2>3. CASE pad.intent # "START" /\ t # r
      <3>1. PICK u \in RinseBegins(r, "PHYSICAL") :
              t = [u EXCEPT !.guard.held = @ /\ u.state # "RINSE"]
        BY <1>0, <1>1, <2>3
      <3>2. Outcome(r, u)
        BY RinseBeginsOutcome
      <3>3. IsLoop(u)
        BY <3>2 DEF Outcome, Well
      <3>4. IsLoop(t) /\ SameView(u, t)
        BY <3>1, <3>3 DEF IsLoop, IsRec, LoopFields, CycleFields, GuardFields, SameView, SameRelay,
                          SameRow, SameSession
      <3> QED
        BY <3>2, <3>4, OutcomeView
    <2> QED
      BY <2>1, <2>2, <2>3
  <1>4. IsLoop(s) /\ SameView(t, s)
    BY <1>1, <1>3, AbortRecordedKeeps DEF Outcome, Well
  <1> QED
    BY <1>3, <1>4, OutcomeView

\* The pass of the loop while a shot runs.
LEMMA ShotServedOutcome ==
    ASSUME NEW r, Well(r), r.active, pad.intent = "STOP" => ~HoldActive, NEW s \in ShotServed(r)
    PROVE  Outcome(r, s)
  <1>1. Outcome(r, r)
    BY SameOutcome DEF Well, SameView, SameRelay, SameRow, SameSession
  <1>2. \/ s \in RinseEntered(r)
        \/ pad.intent = "STOP" /\ s \in Finalized(r, "READY")
        \/ s = r
        \/ s \in Finalized(r, UserHold)
    BY DEF ShotServed, AutomationEnds
  <1> QED
    BY <1>1, <1>2, RinseEnteredOutcome, FinalizedOutcome, UserHoldNames

\* The pass of the loop in every state.
LEMMA StateServedOutcome ==
    ASSUME NEW r, Well(r), ~r.wake, pad.intent \in {"STOP", "IDLE"} => ~HoldActive,
           NEW s \in StateServed(r)
    PROVE  Outcome(r, s)
  <1>1. Outcome(r, r)
    BY SameOutcome DEF Well, SameView, SameRelay, SameRow, SameSession
  <1>2. CASE r.state = "REQUIRES_OFF"
    <2>1. s = r \/ (s = [r EXCEPT !.state = "READY"] /\ ~HoldActive)
      BY <1>2 DEF StateServed, StablyOff, HoldActive
    <2>2. CASE s = [r EXCEPT !.state = "READY"] /\ ~HoldActive
      <3>1. IsLoop(r)
        BY DEF Well
      <3>2. /\ IsLoop(s) /\ SameRelay(r, s) /\ SameRow(r, s) /\ s.state = "READY"
            /\ s.active = r.active /\ s.wake = r.wake /\ s.shot = r.shot /\ s.outbound = r.outbound
            /\ s.scaleCommands = r.scaleCommands /\ s.cycle.rinsing = r.cycle.rinsing
        BY <2>2, <3>1 DEF IsLoop, IsRec, LoopFields, CycleFields, GuardFields, SameRelay, SameRow
      <3>3. ~r.active /\ ~Backflushing(r)
        BY <1>2 DEF Well, Owners, Brewing, Backflushing
      <3>4. Well(s)
        BY <3>2, <3>3
        DEF Well, Owners, Circuit, Session, Owned, Brewing, Tripped, Backflushing, SameRelay, SameRow
      <3> QED
        BY <2>2, <3>2, <3>3, <3>4 DEF Outcome
    <2> QED
      BY <1>1, <2>1, <2>2
  <1>3. CASE r.state = "READY"
    <2>1. s \in ReadyServed(r)
      BY <1>3 DEF StateServed
    <2> QED
      BY <1>3, <2>1, ReadyServedOutcome
  <1>4. CASE r.state = "RINSE"
    <2>1. s = r \/ s \in Finalized(r, UserHold)
      BY <1>4 DEF StateServed
    <2>2. r.active
      BY <1>4 DEF Well, Owners
    <2> QED
      BY <1>1, <2>1, <2>2, FinalizedOutcome, UserHoldNames
  <1>5. CASE r.state \in {"BREW", "MANUAL_NO_SCALE"}
    <2>1. s \in ShotServed(r)
      BY <1>5 DEF StateServed
    <2>2. r.active
      BY <1>5 DEF Well, Owners, Brewing
    <2> QED
      BY <2>1, <2>2, ShotServedOutcome
  <1>6. CASE r.state \notin {"REQUIRES_OFF", "READY", "RINSE", "BREW", "MANUAL_NO_SCALE"}
    <2>1. s = r
      BY <1>6 DEF StateServed
    <2> QED
      BY <1>1, <2>1
  <1> QED
    BY <1>2, <1>3, <1>4, <1>5, <1>6


(* A machine that nobody's cycle uses is only opened.                        *)
LEMMA StoppedOutcome ==
    ASSUME NEW r, Well(r), ~r.active
    PROVE  Outcome(r, Stopped(r))
  <1> DEFINE s == Stopped(r)
  <1>1. /\ IsLoop(s) /\ ~s.closed /\ s.wall = r.wall /\ SameTrips(r, s) /\ SameRow(r, s)
        /\ SameSession(r, s) /\ s.shot = r.shot /\ s.scaleCommands = r.scaleCommands
    BY StoppedOpens DEF Well
  <1> HIDE DEF s
  <1>2. Well(s)
    BY <1>1
    DEF Well, Owners, Circuit, Session, Owned, Brewing, Tripped, Backflushing, SameTrips, SameRow,
        SameSession
  <1>3. Outcome(r, s)
    BY <1>1, <1>2 DEF Outcome, SameSession, SameTrips, Backflushing
  <1> QED
    BY <1>3 DEF s

\* A reset of the samples forgets the shot that waits, and nothing else.
LEMMA SamplesResetOutcome ==
    ASSUME NEW r, Well(r)
    PROVE  Outcome(r, SamplesReset(r))
  <1> DEFINE s == SamplesReset(r)
  <1>1. IsLoop(r)
    BY DEF Well
  <1>2. /\ IsLoop(s) /\ SameRelay(r, s) /\ SameRow(r, s) /\ SameSession(r, s)
        /\ s.scaleCommands = r.scaleCommands
        /\ r.active => s = r
    BY <1>1 DEF SamplesReset, ConfigurationAllowed, IsLoop, IsRec, LoopFields, CycleFields,
                GuardFields, SameRelay, SameRow, SameSession
  <1> HIDE DEF s
  <1>3. Well(s)
    BY <1>2
    DEF Well, Owners, Circuit, Session, Owned, Brewing, Tripped, Backflushing, SameRelay, SameRow,
        SameSession
  <1>4. Outcome(r, s)
    BY <1>2, <1>3 DEF Outcome, SameSession, SameRelay, SameTrips, Backflushing
  <1> QED
    BY <1>4 DEF s

\* A web command: outside READY and without a shot it leaves the state.
LEMMA CommandedOutcome ==
    ASSUME NEW r, Well(r), r.wake => HoldActive, NEW command, NEW s \in Commanded(r, command)
    PROVE  /\ Outcome(r, s)
           /\ ~ConfigurationAllowed(r) /\ ~r.closed => s = r
           /\ r.state # "READY" /\ ~r.active => s.state = r.state
  <1>1. Outcome(r, r)
    BY SameOutcome DEF Well, SameView, SameRelay, SameRow, SameSession
  <1>2. CASE command \in {"STOP", "REMOTE_OFF"}
    <2>1. s \in StopCommanded(r, command)
      BY <1>2 DEF Commanded
    <2>2. \/ s = r
          \/ r.closed /\ r.active /\ s \in Finalized(r, UserHold)
          \/ r.closed /\ ~r.active /\ s = Stopped(r)
      BY <2>1 DEF StopCommanded
    <2> QED
      <3>1. Stopped(r).state = r.state
        BY StoppedOpens DEF Well, SameSession
      <3> QED
        BY <1>1, <2>2, <3>1, FinalizedOutcome, StoppedOutcome, UserHoldNames
  <1>3. CASE command \in {"REMOTE_ON", "RINSE"}
    <2>1. s \in StartCommanded(r, command)
      BY <1>3 DEF Commanded
    <2>2. CASE ~ConfigurationAllowed(r)
      <3>1. s = r
        BY <2>1, <2>2 DEF StartCommanded
      <3> QED
        BY <1>1, <3>1
    <2>3. CASE ConfigurationAllowed(r)
      <3>1. r.state = "READY" /\ ~r.wake
        BY <2>3 DEF ConfigurationAllowed
      <3>2. s = r \/ s \in CycleStarts(r, "WEB") \/ s \in RinseBegins(r, "WEB")
        BY <2>1 DEF StartCommanded
      <3> QED
        BY <1>1, <2>3, <3>1, <3>2, CycleStartsOutcome, RinseBeginsOutcome
    <2> QED
      BY <2>2, <2>3
  <1>4. CASE command = "RESET_SAMPLES"
    <2>1. s = SamplesReset(r)
      BY <1>4 DEF Commanded
    <2> QED
      BY <2>1, SamplesResetOutcome DEF SamplesReset, ConfigurationAllowed
  <1>5. CASE command \notin {"STOP", "REMOTE_OFF", "REMOTE_ON", "RINSE", "RESET_SAMPLES"}
    <2>1. s = r
      BY <1>5 DEF Commanded
    <2> QED
      BY <1>1, <2>1
  <1> QED
    BY <1>2, <1>3, <1>4, <1>5

-----------------------------------------------------------------------------
(* The first step of a pass, on the record: nothing that matters changes but *)
(* that the drive may open the circuit.                                      *)

Carried(r, s) ==
    /\ Well(s) /\ s.state = r.state /\ s.active = r.active /\ s.wake = r.wake
    /\ SameTrips(r, s) /\ SameRow(r, s) /\ (AtRest(r) => AtRest(s))

\* The top of the loop carries the invariant of the record on.
LEMMA LoopTopCarries ==
    ASSUME NEW r, Well(r), NEW o
    PROVE  Carried(r, LoopTop(r, o))
  <1> DEFINE a == PendingCommitted(r)
             s == LoopTop(r, o)
  <1>1. Well(a) /\ (AtRest(r) => AtRest(a)) /\ SameRelay(r, a) /\ SameRow(r, a) /\ SameSession(r, a)
    BY WellWithoutShot
  <1> HIDE DEF a
  <1>2. CASE Busy(o) /\ ~r.active
    <2>1. s = [a EXCEPT !.scaleCommands = FALSE]
      BY <1>2 DEF LoopTop, a
    <2> HIDE DEF s
    <2>2. IsLoop(a)
      BY <1>1 DEF Well
    <2>3. /\ IsLoop(s) /\ SameRelay(a, s) /\ SameRow(a, s) /\ SameSession(a, s)
          /\ s.shot = a.shot /\ ~s.scaleCommands
      BY <2>1, <2>2 DEF IsLoop, IsRec, LoopFields, CycleFields, GuardFields, SameRelay, SameRow,
                        SameSession
    <2>4. Well(s)
      BY <1>1, <2>3
      DEF Well, Owners, Circuit, Session, Owned, Brewing, Tripped, Backflushing, SameRelay, SameRow,
          SameSession
    <2>5. Carried(r, s)
      BY <1>1, <2>3, <2>4
      DEF Carried, SameRelay, SameRow, SameSession, SameTrips, AtRest, Owned, Backflushing
    <2> QED
      BY <2>5 DEF s
  <1>3. CASE ~(Busy(o) /\ ~r.active)
    <2>1. LoopTop(r, o) = r
      BY <1>3 DEF LoopTop
    <2> QED
      BY <2>1 DEF Carried, SameTrips, SameRow
  <1> QED
    BY <1>2, <1>3

\* So does the drive of the relay.
LEMMA DriveCarries ==
    ASSUME NEW r, Well(r), NEW p
    PROVE  Carried(r, CyclePolled(Driven(DrivePermission(r), p), p))
  <1> DEFINE a == DrivePermission(r)
             b == Driven(a, p)
             s == CyclePolled(b, p)
  <1>1. IsLoop(r)
    BY DEF Well
  <1>2. IsLoop(a) /\ SameView(r, a)
    BY <1>1 DEF DrivePermission, IsLoop, IsRec, LoopFields, CycleFields, GuardFields, SameView,
                SameRelay, SameRow, SameSession
  <1> HIDE DEF a
  <1>3. Well(a)
    BY <1>2, WellReadsTheView
  <1>4. /\ IsLoop(b) /\ b.wall = a.wall /\ SameTrips(a, b) /\ SameRow(a, b)
        /\ b.state = a.state /\ b.active = a.active /\ b.wake = a.wake
        /\ b.outbound = a.outbound /\ b.cycle.rinsing = a.cycle.rinsing
        /\ b.shot = a.shot /\ b.scaleCommands = a.scaleCommands
        /\ \/ b.closed = a.closed /\ b.muted = a.muted
           \/ ~b.closed /\ (a.active => (b.muted <=> a.muted \/ a.closed))
    <2>1. IsLoop(a)
      BY <1>2
    <2>2. CASE b = a
      BY <2>1, <2>2 DEF SameTrips, SameRow
    <2>3. CASE b = [a EXCEPT !.suppressed = FALSE]
      BY <2>1, <2>3 DEF IsLoop, IsRec, LoopFields, CycleFields, GuardFields, SameTrips, SameRow
    <2>4. CASE b = [a EXCEPT !.suppressed = TRUE, !.closed = FALSE,
                             !.muted = a.active /\ (@ \/ a.closed)]
      BY <2>1, <2>4 DEF IsLoop, IsRec, LoopFields, CycleFields, GuardFields, SameTrips, SameRow
    <2> QED
      BY <2>2, <2>3, <2>4 DEF Driven
  <1> HIDE DEF b
  <1>5. Well(b)
    BY <1>3, <1>4
    DEF Well, Owners, Circuit, Session, Owned, Brewing, Tripped, Backflushing, SameTrips, SameRow
  <1>6. IsLoop(s) /\ SameView(b, s)
    BY <1>4 DEF CyclePolled, IsLoop, IsRec, LoopFields, CycleFields, GuardFields, SameView,
                SameRelay, SameRow, SameSession
  <1> HIDE DEF s
  <1>7. Well(s)
    BY <1>5, <1>6, WellReadsTheView
  <1>8. Carried(r, s)
    BY <1>2, <1>4, <1>6, <1>7
    DEF Carried, SameView, SameRelay, SameRow, SameSession, SameTrips, AtRest, Owned, Backflushing
  <1> QED
    BY <1>8 DEF s, b, a


-----------------------------------------------------------------------------
(* The gestures.                                                             *)

\* The guard of the backflush leaves the view.
LEMMA GuardServedKeeps ==
    ASSUME NEW r, IsLoop(r), NEW p, NEW s \in GuardServed(r, p)
    PROVE  IsLoop(s) /\ SameView(r, s)
  <1> DEFINE held == p.on \/ p.raw
             r1 == [r EXCEPT !.guard.armed = @ \/ (ScaleAvailable /\ ~r.guard.seen),
                             !.guard.seen = ScaleAvailable,
                             !.guard.held = @ /\ held]
             out(x) == [x EXCEPT !.guard.held = FALSE, !.guard.armed = FALSE]
             arm(x) == [x EXCEPT !.guard.armed = TRUE]
             pass(x) == [x EXCEPT !.guard.armed = FALSE, !.guard.held = FALSE,
                                  !.guard.fresh = TRUE, !.guard.done = TRUE]
  <1>1. IsLoop(r1) /\ SameView(r, r1)
    BY DEF IsLoop, IsRec, LoopFields, CycleFields, GuardFields, SameView, SameRelay, SameRow,
           SameSession
  <1>2. ASSUME NEW x, IsLoop(x)
        PROVE  /\ IsLoop(out(x)) /\ SameView(x, out(x))
               /\ IsLoop(arm(x)) /\ SameView(x, arm(x))
               /\ IsLoop(pass(x)) /\ SameView(x, pass(x))
    <2>1. IsLoop(out(x)) /\ SameView(x, out(x))
      BY <1>2 DEF IsLoop, IsRec, LoopFields, CycleFields, GuardFields, SameView, SameRelay,
                  SameRow, SameSession
    <2>2. IsLoop(arm(x)) /\ SameView(x, arm(x))
      BY <1>2 DEF IsLoop, IsRec, LoopFields, CycleFields, GuardFields, SameView, SameRelay,
                  SameRow, SameSession
    <2>3. IsLoop(pass(x)) /\ SameView(x, pass(x))
      BY <1>2 DEF IsLoop, IsRec, LoopFields, CycleFields, GuardFields, SameView, SameRelay,
                  SameRow, SameSession
    <2> QED
      BY <2>1, <2>2, <2>3
  <1>3. \E x \in {r1, out(r1)} : \E y \in {x, arm(x)} : s = y \/ s = pass(y)
    <2> DEFINE outwaited == IF r1.guard.held /\ NoScaleBlocks(r1) /\ cfg.noScale = "ONCE"
                            THEN {r1, out(r1)} ELSE {r1}
               rearmed == outwaited \cup {arm(x) : x \in {z \in outwaited : ~z.active}}
               bypasses(x) == /\ cfg.noScale = "REQUIRE" /\ NoScaleBlocks(x) /\ ~x.active
                              /\ ~held /\ p.settled
    <2>1. s \in rearmed \cup {pass(x) : x \in {z \in rearmed : bypasses(z)}}
      BY DEF GuardServed
    <2> HIDE DEF r1, out, arm, pass, bypasses
    <2>2. outwaited \subseteq {r1, out(r1)}
      OBVIOUS
    <2> HIDE DEF outwaited
    <2>3. \A y \in rearmed : y \in outwaited \/ \E x \in outwaited : y = arm(x)
      OBVIOUS
    <2> HIDE DEF rearmed
    <2>4. PICK y \in rearmed : s = y \/ s = pass(y)
      BY <2>1
    <2>5. PICK x \in outwaited : y = x \/ y = arm(x)
      BY <2>3
    <2> QED
      BY <2>2, <2>4, <2>5
  <1> HIDE DEF r1, out, arm, pass
  <1>4. PICK x \in {r1, out(r1)} : \E y \in {x, arm(x)} : s = y \/ s = pass(y)
    BY <1>3
  <1>5. PICK y \in {x, arm(x)} : s = y \/ s = pass(y)
    BY <1>4
  <1>6. IsLoop(x) /\ SameView(r, x)
    BY <1>1, <1>2, <1>4 DEF SameView, SameRelay, SameRow, SameSession
  <1>7. IsLoop(y) /\ SameView(r, y)
    BY <1>2, <1>5, <1>6 DEF SameView, SameRelay, SameRow, SameSession
  <1> QED
    BY <1>2, <1>5, <1>7 DEF SameView, SameRelay, SameRow, SameSession

(* endBackflush opens the circuit and adds the row.                          *)
LEMMA BackflushEndedRests ==
    ASSUME NEW r, IsLoop(r), r.rows = "once", r.owed = "yes", ~r.active, ~r.wake, ~r.outbound,
           ~r.scaleCommands, ~r.cycle.rinsing
    PROVE  LET s == BackflushEnded(r)
           IN  Well(s) /\ AtRest(s) /\ s.state = "REQUIRES_OFF" /\ ~s.active /\ ~s.wake
  <1> DEFINE a == Stopped(r)
             b == Recorded(a)
             s == [b EXCEPT !.permit = "none", !.state = "REQUIRES_OFF"]
  <1>1. IsLoop(a) /\ ~a.closed /\ SameRow(r, a) /\ SameSession(r, a)
        /\ a.scaleCommands = r.scaleCommands
    BY StoppedOpens
  <1>2. a.rows = "once" /\ a.owed = "yes"
    BY <1>1 DEF SameRow
  <1>3. IsLoop(b) /\ SameRelay(a, b) /\ SameSession(a, b) /\ b.rows = "once" /\ b.owed = "no"
        /\ b.scaleCommands = a.scaleCommands
    BY <1>1, <1>2, RecordedOnce
  <1>4. BackflushEnded(r) = s
    BY DEF BackflushEnded
  <1> HIDE DEF a, b
  <1>5. /\ IsLoop(s) /\ s.closed = b.closed /\ SameRow(b, s) /\ s.state = "REQUIRES_OFF"
        /\ s.active = b.active /\ s.wake = b.wake /\ s.outbound = b.outbound
        /\ s.cycle.rinsing = b.cycle.rinsing /\ s.scaleCommands = b.scaleCommands
    <2>1. IsLoop(b)
      BY <1>3
    <2> QED
      BY <2>1 DEF IsLoop, IsRec, LoopFields, CycleFields, GuardFields, SameRow
  <1> HIDE DEF s
  <1>6. /\ ~s.closed /\ s.rows = "once" /\ s.owed = "no" /\ ~s.active /\ ~s.wake /\ ~s.outbound
        /\ ~s.scaleCommands /\ ~s.cycle.rinsing
    BY <1>1, <1>3, <1>5 DEF SameRelay, SameRow, SameSession
  <1>7. Well(s) /\ AtRest(s)
    BY <1>5, <1>6
    DEF Well, Owners, Circuit, Session, AtRest, Owned, Brewing, Tripped, Backflushing
  <1> QED
    BY <1>4, <1>5, <1>6, <1>7

(* No edge is new: a backflush ends or goes on, a wake gesture ends with the *)
(* release, and everything else is left to the rest of the pass.             *)
LEMMA GestureServedCases ==
    ASSUME NEW r, Well(r), NEW p, NEW g \in GestureServed(r, p)
    PROVE  /\ Well(g.to) /\ g.micra = micra
           /\ AtRest(r) => AtRest(g.to)
           /\ g.to.wake => r.wake /\ p.edge # "off" /\ (p.on \/ p.raw)
           /\ ~g.finish /\ Backflushing(r) => g.skip /\ Backflushing(g.to)
           /\ ~Backflushing(r) => ~g.finish
           /\ ~Backflushing(r) /\ ~r.wake => g.to = r
           /\ ~r.active => ~g.to.active
  <1>1. IsLoop(r) /\ r.rows = "once"
    BY DEF Well, Circuit
  <1>2. CASE Backflushing(r)
    <2>1. /\ ~r.active /\ ~r.wake /\ ~r.outbound /\ ~r.scaleCommands /\ ~r.cycle.rinsing
          /\ r.owed = "yes"
      BY <1>2 DEF Well, Owners, Circuit, Session, Owned, Brewing, Backflushing
    <2>2. \/ g = Ends(r, micra)
          \/ g = Ends(LockedOut(r, r.fault), micra)
          \/ g = Stays(r, micra, TRUE)
          \/ g = Stays([r EXCEPT !.state = "BACKFLUSH_RUNNING"], micra, TRUE)
      BY <1>2 DEF GestureServed, BackflushServed
    <2>3. CASE g = Ends(r, micra)
      <3>1. g.to = BackflushEnded(r) /\ g.micra = micra /\ g.finish
        BY <2>3 DEF Ends
      <3>2. Well(g.to) /\ AtRest(g.to) /\ ~g.to.wake
        BY <1>1, <2>1, <3>1, BackflushEndedRests
      <3> QED
        BY <1>2, <3>1, <3>2 DEF AtRest, Owned
    <2>6. CASE g = Ends(LockedOut(r, r.fault), micra)
      <3> DEFINE a == LockedOut(r, r.fault)
      <3>1. g.to = BackflushEnded(a) /\ g.micra = micra /\ g.finish
        BY <2>6 DEF Ends
      <3>2. /\ IsLoop(a) /\ a.state = r.state /\ a.active = r.active /\ a.wake = r.wake
            /\ a.outbound = r.outbound /\ a.scaleCommands = r.scaleCommands
            /\ a.cycle = r.cycle /\ a.owed = r.owed /\ a.rows = r.rows /\ a.op = r.op
        BY <1>1 DEF LockedOut, IsLoop, IsRec, LoopFields, CycleFields, GuardFields
      <3> HIDE DEF a
      <3>3. Well(g.to) /\ AtRest(g.to) /\ ~g.to.wake
        BY <1>1, <2>1, <3>1, <3>2, BackflushEndedRests
      <3> QED
        BY <1>2, <3>1, <3>3 DEF AtRest, Owned
    <2>4. CASE g = Stays(r, micra, TRUE)
      <3>1. g.to = r /\ g.micra = micra /\ ~g.finish /\ g.skip
        BY <2>4 DEF Stays
      <3> QED
        BY <1>2, <2>1, <3>1
    <2>5. CASE g = Stays([r EXCEPT !.state = "BACKFLUSH_RUNNING"], micra, TRUE)
      <3> DEFINE s == [r EXCEPT !.state = "BACKFLUSH_RUNNING"]
      <3>1. g.to = s /\ g.micra = micra /\ ~g.finish /\ g.skip
        BY <2>5 DEF Stays
      <3>2. /\ IsLoop(s) /\ SameRelay(r, s) /\ SameRow(r, s) /\ s.state = "BACKFLUSH_RUNNING"
            /\ s.active = r.active /\ s.wake = r.wake /\ s.outbound = r.outbound
            /\ s.scaleCommands = r.scaleCommands /\ s.cycle.rinsing = r.cycle.rinsing
        BY <1>1 DEF IsLoop, IsRec, LoopFields, CycleFields, GuardFields, SameRelay, SameRow
      <3> HIDE DEF s
      <3>3. Well(s) /\ Backflushing(s)
        BY <1>2, <2>1, <3>2
        DEF Well, Owners, Circuit, Session, Owned, Brewing, Tripped, Backflushing, SameRelay, SameRow
      <3>4. ~AtRest(r)
        BY <1>2 DEF AtRest, Owned
      <3> QED
        BY <1>2, <2>1, <3>1, <3>2, <3>3, <3>4
    <2> QED
      BY <2>2, <2>3, <2>4, <2>5, <2>6
  <1>3. CASE ~Backflushing(r) /\ r.wake
    <2>1. g = Stays(IF p.edge = "off" \/ ~(p.on \/ p.raw)
                    THEN [Recorded(Stopped(r)) EXCEPT !.wake = FALSE] ELSE r, micra, TRUE)
      BY <1>3 DEF GestureServed
    <2>2. g.micra = micra /\ ~g.finish
      BY <2>1 DEF Stays
    <2>3. ~AtRest(r) /\ ~r.active /\ ~r.outbound /\ ~r.scaleCommands /\ ~r.cycle.rinsing
          /\ r.state = "READY" /\ r.owed = "yes"
      BY <1>3 DEF AtRest, Owned, Well, Owners, Circuit, Session, Brewing
    <2>4. CASE p.edge = "off" \/ ~(p.on \/ p.raw)
      <3> DEFINE a == Stopped(r)
                 b == Recorded(a)
                 s == [b EXCEPT !.wake = FALSE]
      <3>1. g.to = s
        BY <2>1, <2>4 DEF Stays
      <3>2. IsLoop(a) /\ ~a.closed /\ SameRow(r, a) /\ SameSession(r, a)
            /\ a.scaleCommands = r.scaleCommands
        BY <1>1, StoppedOpens
      <3>3. a.rows = "once" /\ a.owed = "yes"
        BY <1>1, <2>3, <3>2 DEF SameRow
      <3>4. IsLoop(b) /\ SameRelay(a, b) /\ SameSession(a, b) /\ b.rows = "once" /\ b.owed = "no"
            /\ b.scaleCommands = a.scaleCommands
        BY <3>2, <3>3, RecordedOnce
      <3> HIDE DEF a, b
      <3>5. /\ IsLoop(s) /\ s.closed = b.closed /\ SameRow(b, s) /\ s.state = b.state
            /\ s.active = b.active /\ ~s.wake /\ s.outbound = b.outbound
            /\ s.cycle.rinsing = b.cycle.rinsing /\ s.scaleCommands = b.scaleCommands
        <4>1. IsLoop(b)
          BY <3>4
        <4> QED
          BY <4>1 DEF IsLoop, IsRec, LoopFields, CycleFields, GuardFields, SameRow
      <3> HIDE DEF s
      <3>6. /\ ~s.closed /\ s.rows = "once" /\ s.owed = "no" /\ ~s.active /\ ~s.outbound
            /\ ~s.scaleCommands /\ ~s.cycle.rinsing /\ s.state = "READY"
        BY <2>3, <3>2, <3>4, <3>5 DEF SameRelay, SameRow, SameSession
      <3>7. Well(s)
        BY <3>5, <3>6
        DEF Well, Owners, Circuit, Session, Owned, Brewing, Tripped, Backflushing
      <3> QED
        BY <1>3, <2>2, <2>3, <3>1, <3>5, <3>6, <3>7
    <2>5. CASE ~(p.edge = "off" \/ ~(p.on \/ p.raw))
      <3>1. g.to = r
        BY <2>1, <2>5 DEF Stays
      <3> QED
        BY <1>3, <2>2, <2>5, <3>1
    <2> QED
      BY <2>4, <2>5
  <1>4. CASE ~Backflushing(r) /\ ~r.wake
    <2>1. g = Stays(r, micra, FALSE)
      BY <1>4 DEF GestureServed
    <2>2. g.to = r /\ g.micra = micra /\ ~g.finish
      BY <2>1 DEF Stays
    <2> QED
      BY <1>4, <2>2
  <1> QED
    BY <1>2, <1>3, <1>4


IsObs(m) == IsRec(m, ObsFields)

\* The integration's records keep their shape.
LEMMA ObservationsKept ==
    ASSUME NEW m, IsObs(m)
    PROVE  /\ IsObs(Finished(m)) /\ ~Finished(m).attempt
           /\ IsObs(Snapshot(m)) /\ Snapshot(m).attempt = m.attempt
           /\ IsObs(Taken(m)) /\ Taken(m).attempt = m.attempt
           /\ IsObs(Started(m)) /\ (Admissible(m) => Started(m).attempt)
  <1>1. IsObs(Finished(m)) /\ ~Finished(m).attempt
    BY DEF Finished, IsObs, IsRec, ObsFields
  <1>2. IsObs(Snapshot(m)) /\ Snapshot(m).attempt = m.attempt
    BY DEF Snapshot, IsObs, IsRec, ObsFields
  <1>3. IsObs(Taken(m)) /\ Taken(m).attempt = m.attempt
    BY DEF Taken, IsObs, IsRec, ObsFields
  <1>4. IsObs(Started(m)) /\ (Admissible(m) => Started(m).attempt)
    BY DEF Started, IsObs, IsRec, ObsFields
  <1> QED
    BY <1>1, <1>2, <1>3, <1>4

(* What the integration observes never gives an attempt back.                *)
LEMMA ObservedKeepsAttempt ==
    ASSUME NEW m, IsObs(m), NEW p, NEW ours
    PROVE  /\ IsObs(Invalidated(m)) /\ Invalidated(m).attempt = m.attempt
           /\ IsObs(Reset(m)) /\ Reset(m).attempt = m.attempt
           /\ IsObs(Observed(m, p, ours)) /\ Observed(m, p, ours).attempt = m.attempt
  <1>1. ASSUME NEW n, IsObs(n)
        PROVE  IsObs(Invalidated(n)) /\ Invalidated(n).attempt = n.attempt
    BY <1>1 DEF Invalidated, IsObs, IsRec, ObsFields
  <1>2. IsObs(Reset(m)) /\ Reset(m).attempt = m.attempt
    <2> DEFINE n == Invalidated(m)
    <2>1. IsObs(n) /\ n.attempt = m.attempt
      BY <1>1
    <2>2. Reset(m) = [n EXCEPT !.unresolved = FALSE, !.consumed = FALSE, !.phase = "UNSUPPORTED"]
      BY DEF Reset
    <2> HIDE DEF n
    <2> QED
      BY <2>1, <2>2 DEF IsObs, IsRec, ObsFields
  <1>3. IsObs(Observed(m, p, ours)) /\ Observed(m, p, ours).attempt = m.attempt
    <2> DEFINE n == Watched(m)
               u == [n EXCEPT !.unresolved = TRUE]
               s == Observed(m, p, ours)
               stored(epi, ext, q) ==
                   [n EXCEPT !.epi = epi, !.extendable = ext, !.seen = @ \/ p = "INACTIVE",
                             !.unresolved = p # "INACTIVE", !.consumed = @ /\ p # "INACTIVE",
                             !.valid = TRUE, !.phase = p, !.queue = q]
    <2>1. IsObs(n) /\ n.attempt = m.attempt
      BY DEF Watched, IsObs, IsRec, ObsFields
    <2>2. \/ s = Invalidated(u)
          \/ s = n
          \/ s = [Invalidated(n) EXCEPT !.unresolved = TRUE]
          \/ \E epi, ext, q : s = stored(epi, ext, q)
      BY DEF Observed
    <2> HIDE DEF n, s
    <2>3. IsObs(u) /\ u.attempt = n.attempt
      BY <2>1 DEF IsObs, IsRec, ObsFields
    <2> HIDE DEF u
    <2>4. CASE s = Invalidated(u)
      BY <1>1, <2>1, <2>3, <2>4 DEF s
    <2>5. CASE s = n
      BY <2>1, <2>5 DEF s
    <2>6. CASE s = [Invalidated(n) EXCEPT !.unresolved = TRUE]
      <3> DEFINE a == Invalidated(n)
      <3>1. IsObs(a) /\ a.attempt = n.attempt
        BY <1>1, <2>1
      <3> HIDE DEF a
      <3>2. s = [a EXCEPT !.unresolved = TRUE]
        BY <2>6 DEF a
      <3>3. IsObs(s) /\ s.attempt = a.attempt
        BY <3>1, <3>2 DEF IsObs, IsRec, ObsFields
      <3> QED
        BY <2>1, <3>1, <3>3 DEF s
    <2>7. ASSUME NEW epi, NEW ext, NEW q
          PROVE  IsObs(stored(epi, ext, q)) /\ stored(epi, ext, q).attempt = n.attempt
      BY <2>1 DEF IsObs, IsRec, ObsFields
    <2> HIDE DEF stored
    <2>8. CASE \E epi, ext, q : s = stored(epi, ext, q)
      BY <2>1, <2>7, <2>8 DEF s
    <2> QED
      BY <2>2, <2>4, <2>5, <2>6, <2>8
  <1> QED
    BY <1>1, <1>2, <1>3

(* What the integration makes of an edge: it starts nothing while it has an  *)
(* attempt that it did not get back.                                         *)
LEMMA PhysicalStartsCases ==
    ASSUME IsObs(micra), IsObs(last), NEW start \in PhysicalStarts
    PROVE  /\ IsObs(start.micra) /\ IsObs(start.last)
           /\ start.does \in {"NORMAL", "BLOCKED", "CANDIDATE", "WAKE"}
           /\ ~start.locked => start.micra = micra /\ start.last = last
           /\ ~start.locked => start.does = "BLOCKED" \/ (start.does = "NORMAL" /\ ~last.attempt)
           /\ start.does \in {"NORMAL", "WAKE"} /\ start.locked => ~start.micra.attempt
           /\ start.does = "BLOCKED" => start.last = last
           /\ start.does = "BLOCKED" /\ start.locked /\ start.micra.attempt =>
                  micra.attempt /\ ~posted
           /\ start.does = "CANDIDATE" => start.locked /\ start.last.attempt
  <1> DEFINE m == IF posted THEN Finished(micra) ELSE micra
             blocked == IF Busy(last) THEN "BLOCKED" ELSE "NORMAL"
  <1>1. IsObs(m) /\ (m.attempt => micra.attempt /\ ~posted)
    BY ObservationsKept
  <1>2. \/ start = [does |-> blocked, micra |-> micra, last |-> last, locked |-> FALSE]
        \/ /\ Admissible(m)
           /\ start = [does |-> "CANDIDATE", micra |-> Started(m), locked |-> TRUE,
                       last |-> Snapshot(Started(m))]
        \/ start = [does |-> "BLOCKED", micra |-> Finished(Started(m)), locked |-> TRUE,
                    last |-> last]
        \/ start = [does |-> "BLOCKED", micra |-> m, locked |-> TRUE, last |-> last]
        \/ /\ ~Busy(m)
           /\ \/ start = [does |-> "NORMAL", micra |-> m, locked |-> TRUE, last |-> last]
              \/ start = [does |-> "WAKE", micra |-> m, locked |-> TRUE, last |-> last]
    BY DEF PhysicalStarts
  <1> HIDE DEF m
  <1>3. CASE start = [does |-> blocked, micra |-> micra, last |-> last, locked |-> FALSE]
    BY <1>3 DEF Busy
  <1>4. CASE /\ Admissible(m)
             /\ start = [does |-> "CANDIDATE", micra |-> Started(m), locked |-> TRUE,
                         last |-> Snapshot(Started(m))]
    <2> DEFINE n == Started(m)
    <2>1. IsObs(n) /\ n.attempt
      BY <1>1, <1>4, ObservationsKept
    <2> HIDE DEF n
    <2>2. IsObs(Snapshot(n)) /\ Snapshot(n).attempt
      BY <2>1, ObservationsKept
    <2>3. start = [does |-> "CANDIDATE", micra |-> n, locked |-> TRUE, last |-> Snapshot(n)]
      BY <1>4 DEF n
    <2> QED
      BY <2>1, <2>2, <2>3
  <1>5. CASE start = [does |-> "BLOCKED", micra |-> Finished(Started(m)), locked |-> TRUE,
                      last |-> last]
    <2>1. IsObs(Finished(Started(m))) /\ ~Finished(Started(m)).attempt
      BY <1>1, ObservationsKept
    <2> QED
      BY <1>5, <2>1
  <1>6. CASE start = [does |-> "BLOCKED", micra |-> m, locked |-> TRUE, last |-> last]
    BY <1>1, <1>6
  <1>7. CASE /\ ~Busy(m)
             /\ \/ start = [does |-> "NORMAL", micra |-> m, locked |-> TRUE, last |-> last]
                \/ start = [does |-> "WAKE", micra |-> m, locked |-> TRUE, last |-> last]
    BY <1>1, <1>7 DEF Busy
  <1> QED
    BY <1>2, <1>3, <1>4, <1>5, <1>6, <1>7


(* The machine at rest closes for a wake gesture or for a cleaning; the      *)
(* driver has no trip pending, or refuses.                                   *)
LEMMA GrantedCloses ==
    ASSUME NEW r, Well(r), r.state = "READY", ~r.active, ~r.wake, Tripped(r) => r.locked,
           NEW k \in Closings([r EXCEPT !.allowed = TRUE, !.suppressed = FALSE], FALSE)
    PROVE  /\ IsLoop(k.to) /\ ~k.to.active /\ ~k.to.wake /\ k.to.state = "READY"
           /\ k.to.rows = "once" /\ ~k.to.outbound /\ ~k.to.scaleCommands /\ ~k.to.cycle.rinsing
           /\ k.ok => k.to.closed /\ ~k.to.wall /\ ~Tripped(k.to) /\ k.to.owed = "yes"
           /\ ~k.ok => ~k.to.closed /\ k.to.owed # "yes"
  <1> DEFINE granted == [r EXCEPT !.allowed = TRUE, !.suppressed = FALSE]
             wall == FALSE
  <1>1. /\ IsLoop(r) /\ ~r.closed /\ r.owed # "yes" /\ r.rows = "once" /\ ~r.outbound
        /\ ~r.scaleCommands /\ ~r.cycle.rinsing
    BY DEF Well, Owners, Circuit, Session, Owned, Brewing, Backflushing
  <1>2. IsLoop(granted) /\ SameView(r, granted)
    BY <1>1 DEF IsLoop, IsRec, LoopFields, CycleFields, GuardFields, SameView, SameRelay, SameRow,
                SameSession
  <1>3. k \in Closings(granted, wall)
    OBVIOUS
  <1>4. ~wall
    OBVIOUS
  <1> HIDE DEF granted, wall
  <1>5. /\ IsLoop(k.to) /\ SameSession(granted, k.to) /\ k.to.rows = granted.rows
        /\ k.to.scaleCommands = granted.scaleCommands
        /\ granted.closed => k.ok /\ k.to = granted
        /\ k.ok /\ ~granted.closed => /\ k.to.closed /\ k.to.wall = wall /\ k.to.owed = "yes"
                                      /\ ~granted.locked /\ SameTrips(granted, k.to)
        /\ ~k.ok => ~k.to.closed /\ k.to.owed = granted.owed
    BY <1>2, <1>3, ClosingsCases
  <1> QED
    BY <1>1, <1>2, <1>4, <1>5
    DEF SameView, SameRelay, SameRow, SameSession, SameTrips, Tripped

\* What an edge of the paddle does while the wake gesture may be under way.
LEMMA EdgeServedCases ==
    ASSUME NEW r, Well(r), ~r.wake, ~Backflushing(r),
           r.state = "READY" /\ Tripped(r) => r.locked,
           NEW start, start.does \in {"NORMAL", "BLOCKED", "CANDIDATE", "WAKE"},
           NEW g \in EdgeServed(r, start)
    PROVE  /\ Well(g.to) /\ g.micra = start.micra
           /\ Leased /\ AtRest(r) => AtRest(g.to)
           /\ start.does = "NORMAL" => g.to = r /\ ~g.finish /\ ~g.to.wake
           /\ start.does = "BLOCKED" => /\ g.skip /\ ~g.finish /\ g.to.owed = r.owed /\ ~g.to.wake
                                        /\ (~r.active => ~g.to.active /\ g.to.state = "REQUIRES_OFF")
           /\ start.does = "CANDIDATE" => /\ g.skip
                                          /\ g.finish \/ (/\ ~g.to.active /\ ~g.to.wake
                                                          /\ g.to.state = "BACKFLUSH_CANDIDATE")
           /\ ~r.active => ~g.to.active
  <1> DEFINE granted == [r EXCEPT !.allowed = TRUE, !.suppressed = FALSE]
             parked == IF r.active THEN r ELSE [r EXCEPT !.state = "REQUIRES_OFF"]
             kind == IF start.micra.extendable THEN "extendable" ELSE "plain"
  <1>1. IsLoop(r)
    BY DEF Well
  <1>2. /\ Well(parked) /\ parked.owed = r.owed /\ ~parked.wake
        /\ AtRest(r) => AtRest(parked)
        /\ ~r.active => ~parked.active /\ parked.state = "REQUIRES_OFF"
    <2>1. CASE r.active
      BY <2>1
    <2>2. CASE ~r.active
      <3> DEFINE s == Parked(r)
      <3>1. /\ IsLoop(s) /\ SameRelay(r, s) /\ SameRow(r, s) /\ s.state = "REQUIRES_OFF"
            /\ s.active = r.active /\ s.wake = r.wake /\ s.outbound = r.outbound
            /\ s.scaleCommands = r.scaleCommands /\ s.cycle.rinsing = r.cycle.rinsing
        BY <1>1, ParkedKeeps
      <3>2. parked = s
        BY <2>2 DEF Parked
      <3> HIDE DEF s, parked
      <3>3. Well(s) /\ (AtRest(r) => AtRest(s))
        BY <2>2, <3>1
        DEF Well, Owners, Circuit, Session, AtRest, Owned, Brewing, Tripped, Backflushing,
            SameRelay, SameRow
      <3>4. s.owed = r.owed /\ ~s.wake /\ ~s.active
        BY <2>2, <3>1 DEF SameRow
      <3> QED
        BY <3>1, <3>2, <3>3, <3>4
    <2> QED
      BY <2>1, <2>2
  <1> HIDE DEF parked
  <1>3. Leased => ~Free(r)
    BY DEF Free
  <1>4. Free(r) => r.state = "READY" /\ ~r.active
    BY DEF Free
  <1>5. CASE start.does = "NORMAL"
    <2>1. g = Stays(r, start.micra, FALSE)
      BY <1>5 DEF EdgeServed
    <2>2. g.to = r /\ g.micra = start.micra /\ ~g.finish
      BY <2>1 DEF Stays
    <2> QED
      BY <1>5, <2>2
  <1>6. CASE start.does = "BLOCKED"
    <2>1. g = Stays(parked, start.micra, TRUE)
      BY <1>6 DEF EdgeServed, parked
    <2>2. g.to = parked /\ g.micra = start.micra /\ ~g.finish /\ g.skip
      BY <2>1 DEF Stays
    <2> QED
      BY <1>2, <1>6, <2>2
  <1>7. CASE start.does = "CANDIDATE" /\ ~(Free(r) /\ ~r.closed)
    <2> DEFINE s == [parked EXCEPT !.permit = "none"]
    <2>1. g = [Stays(s, start.micra, TRUE) EXCEPT !.finish = TRUE]
      BY <1>7 DEF EdgeServed, parked
    <2>2. IsLoop(parked)
      BY <1>2 DEF Well
    <2>3. IsLoop(s) /\ SameView(parked, s)
      BY <2>2 DEF IsLoop, IsRec, LoopFields, CycleFields, GuardFields, SameView, SameRelay,
                  SameRow, SameSession
    <2> HIDE DEF s
    <2>4. g.to = s /\ g.micra = start.micra /\ g.finish /\ g.skip
      BY <2>1 DEF Stays
    <2>5. Well(s) /\ (AtRest(parked) => AtRest(s))
      BY <1>2, <2>3, WellReadsTheView
    <2> QED
      BY <1>2, <1>7, <2>3, <2>4, <2>5 DEF SameView, SameSession
  <1>8. CASE start.does = "CANDIDATE" /\ Free(r) /\ ~r.closed
    <2>1. PICK k \in Closings(granted, FALSE) :
            g \in (IF k.ok
                   THEN {Stays([k.to EXCEPT !.permit = kind, !.state = "BACKFLUSH_CANDIDATE"],
                               start.micra, TRUE),
                         Ends(k.to, start.micra)}
                   ELSE {[Stays([k.to EXCEPT !.state = "REQUIRES_OFF"], start.micra, TRUE)
                            EXCEPT !.finish = TRUE]})
      BY <1>8 DEF EdgeServed
    <2>2. /\ IsLoop(k.to) /\ ~k.to.active /\ ~k.to.wake /\ k.to.state = "READY"
          /\ k.to.rows = "once" /\ ~k.to.outbound /\ ~k.to.scaleCommands /\ ~k.to.cycle.rinsing
          /\ k.ok => k.to.closed /\ ~k.to.wall /\ ~Tripped(k.to) /\ k.to.owed = "yes"
          /\ ~k.ok => ~k.to.closed /\ k.to.owed # "yes"
      BY <1>4, <1>8, <2>1, GrantedCloses
    <2>3. CASE k.ok /\ g = Ends(k.to, start.micra)
      <3>1. g.to = BackflushEnded(k.to) /\ g.micra = start.micra /\ g.finish /\ g.skip
        BY <2>3 DEF Ends
      <3>2. Well(g.to) /\ AtRest(g.to)
        BY <2>2, <2>3, <3>1, BackflushEndedRests
      <3> QED
        BY <1>3, <1>8, <3>1, <3>2 DEF AtRest, Owned
    <2>4. CASE k.ok /\ g # Ends(k.to, start.micra)
      <3> DEFINE s == [k.to EXCEPT !.permit = kind, !.state = "BACKFLUSH_CANDIDATE"]
      <3>1. g = Stays(s, start.micra, TRUE)
        BY <2>1, <2>4
      <3>2. /\ IsLoop(s) /\ SameRelay(k.to, s) /\ SameRow(k.to, s)
            /\ s.state = "BACKFLUSH_CANDIDATE" /\ ~s.active /\ ~s.wake /\ ~s.outbound
            /\ ~s.scaleCommands /\ ~s.cycle.rinsing
        BY <2>2 DEF IsLoop, IsRec, LoopFields, CycleFields, GuardFields, SameRelay, SameRow
      <3> HIDE DEF s
      <3>3. g.to = s /\ g.micra = start.micra /\ ~g.finish /\ g.skip
        BY <3>1 DEF Stays
      <3>4. Well(s)
        BY <2>2, <2>4, <3>2
        DEF Well, Owners, Circuit, Session, Owned, Brewing, Tripped, Backflushing, SameRelay, SameRow
      <3> QED
        BY <1>3, <1>8, <3>2, <3>3, <3>4
    <2>5. CASE ~k.ok
      <3> DEFINE s == Parked(k.to)
      <3>1. g = [Stays(s, start.micra, TRUE) EXCEPT !.finish = TRUE]
        BY <2>1, <2>5 DEF Parked
      <3>2. /\ IsLoop(s) /\ SameRelay(k.to, s) /\ SameRow(k.to, s) /\ s.state = "REQUIRES_OFF"
            /\ s.active = k.to.active /\ s.wake = k.to.wake /\ s.outbound = k.to.outbound
            /\ s.scaleCommands = k.to.scaleCommands /\ s.cycle.rinsing = k.to.cycle.rinsing
        BY <2>2, ParkedKeeps
      <3> HIDE DEF s
      <3>3. g.to = s /\ g.micra = start.micra /\ g.finish /\ g.skip
        BY <3>1 DEF Stays
      <3>4. Well(s)
        BY <2>2, <2>5, <3>2
        DEF Well, Owners, Circuit, Session, Owned, Brewing, Tripped, Backflushing, SameRelay, SameRow
      <3> QED
        BY <1>3, <1>8, <2>2, <3>2, <3>3, <3>4
    <2> QED
      BY <2>3, <2>4, <2>5
  <1>9. CASE start.does = "WAKE" /\ ~Free(r)
    <2>1. g = Stays(r, start.micra, TRUE)
      BY <1>9 DEF EdgeServed
    <2>2. g.to = r /\ g.micra = start.micra
      BY <2>1 DEF Stays
    <2> QED
      BY <1>9, <2>2
  <1>10. CASE start.does = "WAKE" /\ Free(r)
    <2>1. PICK k \in Closings(granted, FALSE) :
            g = Stays(IF k.ok THEN [k.to EXCEPT !.wake = TRUE]
                      ELSE [k.to EXCEPT !.state = "REQUIRES_OFF"], start.micra, TRUE)
      BY <1>10 DEF EdgeServed
    <2>2. /\ IsLoop(k.to) /\ ~k.to.active /\ ~k.to.wake /\ k.to.state = "READY"
          /\ k.to.rows = "once" /\ ~k.to.outbound /\ ~k.to.scaleCommands /\ ~k.to.cycle.rinsing
          /\ k.ok => k.to.closed /\ ~k.to.wall /\ ~Tripped(k.to) /\ k.to.owed = "yes"
          /\ ~k.ok => ~k.to.closed /\ k.to.owed # "yes"
      BY <1>4, <1>10, <2>1, GrantedCloses
    <2>3. CASE k.ok
      <3> DEFINE s == [k.to EXCEPT !.wake = TRUE]
      <3>1. g = Stays(s, start.micra, TRUE)
        BY <2>1, <2>3
      <3>2. /\ IsLoop(s) /\ SameRelay(k.to, s) /\ SameRow(k.to, s)
            /\ s.state = "READY" /\ ~s.active /\ s.wake /\ ~s.outbound
            /\ ~s.scaleCommands /\ ~s.cycle.rinsing
        BY <2>2 DEF IsLoop, IsRec, LoopFields, CycleFields, GuardFields, SameRelay, SameRow
      <3> HIDE DEF s
      <3>3. g.to = s /\ g.micra = start.micra
        BY <3>1 DEF Stays
      <3>4. Well(s)
        BY <2>2, <2>3, <3>2
        DEF Well, Owners, Circuit, Session, Owned, Brewing, Tripped, Backflushing, SameRelay, SameRow
      <3> QED
        BY <1>3, <1>10, <3>2, <3>3, <3>4
    <2>4. CASE ~k.ok
      <3> DEFINE s == Parked(k.to)
      <3>1. g = Stays(s, start.micra, TRUE)
        BY <2>1, <2>4 DEF Parked
      <3>2. /\ IsLoop(s) /\ SameRelay(k.to, s) /\ SameRow(k.to, s) /\ s.state = "REQUIRES_OFF"
            /\ s.active = k.to.active /\ s.wake = k.to.wake /\ s.outbound = k.to.outbound
            /\ s.scaleCommands = k.to.scaleCommands /\ s.cycle.rinsing = k.to.cycle.rinsing
        BY <2>2, ParkedKeeps
      <3> HIDE DEF s
      <3>3. g.to = s /\ g.micra = start.micra
        BY <3>1 DEF Stays
      <3>4. Well(s)
        BY <2>2, <2>4, <3>2
        DEF Well, Owners, Circuit, Session, Owned, Brewing, Tripped, Backflushing, SameRelay, SameRow
      <3> QED
        BY <1>3, <1>10, <2>2, <3>2, <3>3, <3>4
    <2> QED
      BY <2>3, <2>4
  <1> QED
    BY <1>5, <1>6, <1>7, <1>8, <1>9, <1>10


-----------------------------------------------------------------------------
(* The invariant, step by step.                                              *)

\* What the sampled levels and edges say of each other.
LEMMA SampledLevels ==
    ASSUME NEW raw, NEW settled, IsRec(pad, {"raw", "on", "settled", "edge", "intent"}),
           NEW p, p = Sampled(raw, settled)
    PROVE  /\ IsRec(p, {"raw", "on", "settled", "edge", "intent"})
           /\ p.edge = "off" => ~(p.on \/ p.raw)
           /\ p.edge = "on" => p.on /\ p.raw /\ (settled \/ pad.on) /\ raw
  <1> DEFINE on == IF settled THEN raw ELSE pad.on
  <1>1. /\ IsRec(p, {"raw", "on", "settled", "edge", "intent"})
        /\ p.raw = raw /\ p.on = on
        /\ p.edge = (IF on = pad.on THEN "none" ELSE IF on THEN "on" ELSE "off")
    BY DEF Sampled, IsRec
  <1> QED
    BY <1>1

\* The input of a pass carries the record on.
LEMMA InputCarries == Well(c) /\ Input => Carried(c, c')
  <1> SUFFICES ASSUME Well(c), Input PROVE Carried(c, c')
    OBVIOUS
  <1> DEFINE m == IF posted THEN Finished(micra) ELSE micra
  <1>1. PICK poll \in Polls(m), p \in Samples :
          c' = CyclePolled(Driven(DrivePermission(LoopTop(c, poll.obs)), p), p)
    BY DEF Input
  <1> DEFINE a == LoopTop(c, poll.obs)
  <1>2. Carried(c, a)
    BY LoopTopCarries
  <1>3. Well(a)
    BY <1>2 DEF Carried
  <1>4. c' = CyclePolled(Driven(DrivePermission(a), p), p)
    BY <1>1
  <1> HIDE DEF a
  <1>5. Carried(a, c')
    BY <1>3, <1>4, DriveCarries
  <1> QED
    BY <1>2, <1>5 DEF Carried, SameTrips, SameRow

\* The input of a pass keeps the invariant.
LEMMA InputStep == BrewInv /\ Input => BrewInv'
  <1> SUFFICES ASSUME BrewInv, Input PROVE BrewInv'
    OBVIOUS
  <1> DEFINE m == IF posted THEN Finished(micra) ELSE micra
  <1>1. pc = "input" /\ pc' = "gesture" /\ UNCHANGED <<cfg, lease, restart, scale>>
    BY DEF Input
  <1>2. PICK poll \in Polls(m), p \in Samples, brief \in BOOLEAN :
          LET r == CyclePolled(Driven(DrivePermission(LoopTop(c, poll.obs)), p), p)
          IN  /\ obs' = poll.obs /\ micra' = poll.micra /\ posted' = poll.posted
              /\ last' = Taken(poll.obs)
              /\ c' = r
              /\ pad' = [p EXCEPT !.intent = IntentOf(r, p, brief)]
    BY DEF Input
  <1>3. Records /\ Well(c) /\ LeaseInv /\ TripInv /\ AttemptInv
    BY DEF BrewInv
  <1>4. Carried(c, c')
    BY <1>3, InputCarries
  <1>5. /\ IsRec(p, {"raw", "on", "settled", "edge", "intent"})
        /\ p.edge = "off" => ~(p.on \/ p.raw)
        /\ p.edge = "on" => p.on /\ p.raw
        /\ p.edge = "on" => HoldActive
    <2>1. IsRec(pad, {"raw", "on", "settled", "edge", "intent"})
      BY <1>3 DEF Records
    <2>2. p = Sampled(~pad.raw, FALSE) \/ \E s \in BOOLEAN : p = Sampled(pad.raw, s)
      BY DEF Samples
    <2>3. CASE p = Sampled(~pad.raw, FALSE)
      BY <2>1, <2>3, SampledLevels DEF HoldActive
    <2>4. CASE \E s \in BOOLEAN : p = Sampled(pad.raw, s)
      BY <2>1, <2>4, SampledLevels DEF HoldActive
    <2> QED
      BY <2>2, <2>3, <2>4
  <1>6. /\ IsRec(pad', {"raw", "on", "settled", "edge", "intent"})
        /\ pad'.raw = p.raw /\ pad'.on = p.on /\ pad'.edge = p.edge
        /\ pad'.intent = "STOP" => p.edge = "off"
        /\ pad'.intent = "IDLE" => ~(p.on \/ p.raw)
    <2> DEFINE i == IntentOf(c', p, brief)
    <2>1. pad' = [p EXCEPT !.intent = i]
      BY <1>2
    <2>2. i = "STOP" => p.edge = "off"
      BY DEF IntentOf
    <2>3. i = "IDLE" => ~(p.on \/ p.raw)
      BY DEF IntentOf
    <2> HIDE DEF i
    <2> QED
      BY <1>5, <2>1, <2>2, <2>3 DEF IsRec
  <1>7. /\ IsObs(obs') /\ IsObs(micra') /\ IsObs(last') /\ last'.attempt = obs'.attempt
        /\ micra'.attempt /\ ~posted' => Attempted /\ obs'.attempt
    <2>1. IsObs(micra) /\ IsObs(last)
      BY <1>3 DEF Records, IsObs
    <2>2. IsObs(m) /\ (m.attempt => Attempted)
      BY <2>1, ObservationsKept DEF Attempted
    <2>3. \/ obs' = Snapshot(m) /\ micra' = Taken(m)
          \/ obs' = Taken(last) /\ micra' = micra /\ posted' = posted
      BY <1>2 DEF Polls
    <2>4. last' = Taken(obs')
      BY <1>2
    <2> HIDE DEF m
    <2>5. IsObs(obs') /\ IsObs(micra')
      BY <2>1, <2>2, <2>3, ObservationsKept
    <2>6. micra'.attempt /\ ~posted' => Attempted /\ obs'.attempt
      <3>1. CASE obs' = Snapshot(m) /\ micra' = Taken(m)
        BY <2>2, <3>1, ObservationsKept
      <3>2. CASE obs' = Taken(last) /\ micra' = micra /\ posted' = posted
        BY <1>3, <2>1, <3>2, ObservationsKept DEF AttemptInv, Attempted
      <3> QED
        BY <2>3, <3>1, <3>2
    <2> QED
      BY <2>4, <2>5, <2>6, ObservationsKept
  <1>8. Records'
    BY <1>1, <1>3, <1>6, <1>7 DEF Records, IsObs, Leased
  <1>9. Well(c)'
    BY <1>4 DEF Carried
  <1>10. Pad'
    BY <1>5, <1>6 DEF Pad, HoldActive
  <1>11. LeaseInv'
    BY <1>1, <1>3, <1>4 DEF LeaseInv, Leased, Carried
  <1>12. WakeInv'
    BY <1>1 DEF WakeInv
  <1>13. TripInv'
    <2>1. SameTrips(c, c') /\ c'.state = c.state /\ c'.wake = c.wake
      BY <1>4 DEF Carried
    <2>2. Unanswered(c') => Unanswered(c)
      BY <2>1 DEF Unanswered, Tripped, SameTrips
    <2>3. Unanswered(c') => ~HoldActive
      BY <1>1, <1>3, <2>2 DEF TripInv
    <2>4. Unanswered(c') => pad'.edge # "on"
      BY <1>5, <1>6, <2>3
    <2> QED
      BY <1>1, <2>4 DEF TripInv, TurnedOn
  <1>14. AttemptInv'
    <2>1. c'.active = c.active /\ c'.wake = c.wake /\ c'.state = c.state /\ c'.owed = c.owed
      BY <1>4 DEF Carried, SameRow
    <2> QED
      BY <1>1, <1>3, <1>7, <2>1 DEF AttemptInv, Attempted, Blocked, Backflushing
  <1> QED
    BY <1>8, <1>9, <1>10, <1>11, <1>12, <1>13, <1>14 DEF BrewInv


\* What the gesture leaves alone.
LEMMA GesturedFrame ==
    ASSUME NEW g, NEW locked, NEW snapshot, Gestured(g, locked, snapshot),
           IsLoop(g.to), IsObs(g.micra), IsObs(snapshot), IsObs(obs)
    PROVE  /\ IsLoop(c') /\ SameView(g.to, c') /\ (g.skip => c'.skip)
           /\ IsObs(micra') /\ IsObs(last') /\ IsObs(obs') /\ obs'.attempt = obs.attempt
           /\ pc' = "trips" /\ pad' = pad /\ lease' = lease
           /\ micra'.attempt /\ ~posted' =>
                /\ ~g.finish /\ g.micra.attempt /\ last' = snapshot
                /\ ~posted \/ locked
  <1>1. /\ micra' = IF g.finish /\ locked THEN Finished(g.micra) ELSE g.micra
        /\ posted' = ((posted /\ ~locked) \/ (g.finish /\ ~locked))
        /\ last' = IF g.finish THEN Finished(snapshot) ELSE snapshot
        /\ obs' = Taken(obs)
        /\ pc' = "trips" /\ pad' = pad /\ lease' = lease
    BY DEF Gestured
  <1>2. IsLoop(c') /\ SameView(g.to, c') /\ (g.skip => c'.skip)
    <2>1. CASE g.skip \/ (Busy(obs) /\ ~c.active /\ ~TurnedOn)
      <3>1. c' = [g.to EXCEPT !.skip = g.skip]
        BY <2>1 DEF Gestured
      <3> QED
        BY <3>1 DEF IsLoop, IsRec, LoopFields, CycleFields, GuardFields, SameView, SameRelay,
                    SameRow, SameSession
    <2>2. CASE ~(g.skip \/ (Busy(obs) /\ ~c.active /\ ~TurnedOn))
      <3>1. PICK r \in GuardServed(g.to, pad) : c' = [r EXCEPT !.skip = FALSE]
        BY <2>2 DEF Gestured
      <3>2. IsLoop(r) /\ SameView(g.to, r)
        BY GuardServedKeeps
      <3>3. IsLoop(c') /\ SameView(r, c')
        BY <3>1, <3>2 DEF IsLoop, IsRec, LoopFields, CycleFields, GuardFields, SameView,
                          SameRelay, SameRow, SameSession
      <3> QED
        BY <2>2, <3>2, <3>3 DEF SameView, SameRelay, SameRow, SameSession
    <2> QED
      BY <2>1, <2>2
  <1>3. IsObs(micra') /\ IsObs(last') /\ IsObs(obs') /\ obs'.attempt = obs.attempt
    BY <1>1, ObservationsKept
  <1>4. ASSUME micra'.attempt, ~posted'
        PROVE  ~g.finish /\ g.micra.attempt /\ last' = snapshot /\ (~posted \/ locked)
    BY <1>1, <1>4, ObservationsKept
  <1> QED
    BY <1>1, <1>2, <1>3, <1>4

\* So does the wake gesture, without an edge of the paddle.
LEMMA GestureStep == BrewInv /\ Gesture => BrewInv'
  <1> SUFFICES ASSUME BrewInv, Gesture PROVE BrewInv'
    OBVIOUS
  <1>1. pc = "gesture" /\ ~(TurnedOn /\ ~Backflushing(c) /\ ~c.wake)
    BY DEF Gesture
  <1>2. PICK g \in GestureServed(c, pad), locked \in BOOLEAN :
          (~locked \/ g.finish) /\ Gestured(g, locked, last)
    BY DEF Gesture
  <1>3. Records /\ Well(c) /\ Pad /\ LeaseInv /\ AttemptInv
    BY DEF BrewInv
  <1>4. /\ Well(g.to) /\ g.micra = micra
        /\ AtRest(c) => AtRest(g.to)
        /\ g.to.wake => c.wake /\ HoldActive
        /\ ~g.finish /\ Backflushing(c) => g.skip /\ Backflushing(g.to)
        /\ ~Backflushing(c) => ~g.finish
        /\ ~Backflushing(c) /\ ~c.wake => g.to = c
    BY <1>2, <1>3, GestureServedCases DEF HoldActive
  <1>5. IsLoop(g.to) /\ IsObs(micra) /\ IsObs(last) /\ IsObs(obs)
    BY <1>3, <1>4 DEF Well, Records, IsObs
  <1>6. /\ IsLoop(c') /\ SameView(g.to, c') /\ (g.skip => c'.skip)
        /\ IsObs(micra') /\ IsObs(last') /\ IsObs(obs') /\ obs'.attempt = obs.attempt
        /\ pc' = "trips" /\ pad' = pad /\ lease' = lease
        /\ micra'.attempt /\ ~posted' =>
             /\ ~g.finish /\ g.micra.attempt /\ last' = last
             /\ ~posted \/ locked
    BY <1>2, <1>4, <1>5, GesturedFrame
  <1>7. Well(c') /\ (AtRest(g.to) => AtRest(c'))
    BY <1>4, <1>6, WellReadsTheView
  <1>8. Records'
    BY <1>3, <1>6 DEF Records, IsObs, Leased
  <1>9. Pad'
    BY <1>3, <1>6 DEF Pad, HoldActive
  <1>10. LeaseInv'
    BY <1>3, <1>4, <1>6, <1>7 DEF LeaseInv, Leased
  <1>11. WakeInv'
    BY <1>4, <1>6 DEF WakeInv, HoldActive, SameView, SameSession
  <1>12. TripInv'
    BY <1>6 DEF TripInv
  <1>13. AttemptInv'
    <2> SUFFICES ASSUME micra'.attempt, ~posted'
                 PROVE  /\ last'.attempt /\ ~c'.active /\ ~c'.wake
                        /\ Backflushing(c') \/ c'.owed = "missed"
                        /\ obs'.attempt
                           \/ (c'.skip /\ (Backflushing(c') \/ c'.state = "REQUIRES_OFF"))
      BY <1>6 DEF AttemptInv, Attempted, Blocked
    <2>1. ~g.finish /\ micra.attempt /\ last' = last /\ ~posted
      BY <1>2, <1>4, <1>6
    <2>2. /\ last.attempt /\ ~c.active /\ ~c.wake /\ obs.attempt
          /\ Backflushing(c) \/ c.owed = "missed"
      BY <1>1, <1>3, <2>1 DEF AttemptInv, Attempted, Blocked
    <2>3. Backflushing(c') <=> Backflushing(g.to)
      BY <1>6 DEF Backflushing, SameView, SameSession
    <2>4. CASE Backflushing(c)
      <3>1. Backflushing(c')
        BY <1>4, <2>1, <2>3, <2>4
      <3>2. ~c'.active /\ ~c'.wake
        BY <1>7, <3>1 DEF Well, Owners, Brewing, Backflushing
      <3> QED
        BY <1>6, <2>1, <2>2, <3>1, <3>2
    <2>5. CASE ~Backflushing(c)
      <3>1. g.to = c
        BY <1>4, <2>2, <2>5
      <3> QED
        BY <1>6, <2>1, <2>2, <2>5, <3>1 DEF SameView, SameSession, SameRow
    <2> QED
      BY <2>4, <2>5
  <1> QED
    BY <1>7, <1>8, <1>9, <1>10, <1>11, <1>12, <1>13 DEF BrewInv

\* So does an edge that the gesture takes or passes on.
LEMMA GestureEdgeStep == BrewInv /\ GestureEdge => BrewInv'
  <1> SUFFICES ASSUME BrewInv, GestureEdge PROVE BrewInv'
    OBVIOUS
  <1>1. pc = "gesture" /\ TurnedOn /\ ~Backflushing(c) /\ ~c.wake
    BY DEF GestureEdge
  <1>2. PICK start \in PhysicalStarts :
          \E g \in EdgeServed(c, start) : Gestured(g, start.locked, start.last)
    BY DEF GestureEdge
  <1>3. PICK g \in EdgeServed(c, start) : Gestured(g, start.locked, start.last)
    BY <1>2
  <1>4. Records /\ Well(c) /\ Pad /\ LeaseInv /\ TripInv /\ AttemptInv
    BY DEF BrewInv
  <1>5. IsObs(micra) /\ IsObs(last) /\ IsObs(obs)
    BY <1>4 DEF Records, IsObs
  <1>6. /\ IsObs(start.micra) /\ IsObs(start.last)
        /\ start.does \in {"NORMAL", "BLOCKED", "CANDIDATE", "WAKE"}
        /\ ~start.locked => start.micra = micra /\ start.last = last
        /\ ~start.locked => start.does = "BLOCKED" \/ (start.does = "NORMAL" /\ ~last.attempt)
        /\ start.does \in {"NORMAL", "WAKE"} /\ start.locked => ~start.micra.attempt
        /\ start.does = "BLOCKED" => start.last = last
        /\ start.does = "BLOCKED" /\ start.locked /\ start.micra.attempt => micra.attempt /\ ~posted
        /\ start.does = "CANDIDATE" => start.locked /\ start.last.attempt
    BY <1>5, PhysicalStartsCases
  <1>7. c.state = "READY" /\ Tripped(c) => c.locked
    BY <1>1, <1>4 DEF TripInv, Unanswered
  <1>8. /\ Well(g.to) /\ g.micra = start.micra
        /\ Leased /\ AtRest(c) => AtRest(g.to)
        /\ start.does = "NORMAL" => g.to = c /\ ~g.finish /\ ~g.to.wake
        /\ start.does = "BLOCKED" => /\ g.skip /\ ~g.finish /\ g.to.owed = c.owed /\ ~g.to.wake
                                     /\ (~c.active => ~g.to.active /\ g.to.state = "REQUIRES_OFF")
        /\ start.does = "CANDIDATE" => /\ g.skip
                                       /\ g.finish \/ (/\ ~g.to.active /\ ~g.to.wake
                                                       /\ g.to.state = "BACKFLUSH_CANDIDATE")
    BY <1>1, <1>3, <1>4, <1>6, <1>7, EdgeServedCases
  <1>9. IsLoop(g.to)
    BY <1>8 DEF Well
  <1>10. /\ IsLoop(c') /\ SameView(g.to, c') /\ (g.skip => c'.skip)
         /\ IsObs(micra') /\ IsObs(last') /\ IsObs(obs') /\ obs'.attempt = obs.attempt
         /\ pc' = "trips" /\ pad' = pad /\ lease' = lease
         /\ micra'.attempt /\ ~posted' =>
              /\ ~g.finish /\ g.micra.attempt /\ last' = start.last
              /\ ~posted \/ start.locked
    BY <1>3, <1>5, <1>6, <1>8, <1>9, GesturedFrame
  <1>11. Well(c') /\ (AtRest(g.to) => AtRest(c'))
    BY <1>8, <1>10, WellReadsTheView
  <1>12. Records'
    BY <1>4, <1>10 DEF Records, IsObs, Leased
  <1>13. Pad'
    BY <1>4, <1>10 DEF Pad, HoldActive
  <1>14. LeaseInv'
    BY <1>4, <1>8, <1>10, <1>11 DEF LeaseInv, Leased
  <1>15. WakeInv'
    BY <1>1, <1>4, <1>10 DEF WakeInv, Pad, HoldActive, TurnedOn
  <1>16. TripInv'
    BY <1>10 DEF TripInv
  <1>17. AttemptInv'
    <2> SUFFICES ASSUME micra'.attempt, ~posted'
                 PROVE  /\ last'.attempt /\ ~c'.active /\ ~c'.wake
                        /\ Backflushing(c') \/ c'.owed = "missed"
                        /\ obs'.attempt
                           \/ (c'.skip /\ (Backflushing(c') \/ c'.state = "REQUIRES_OFF"))
      BY <1>10 DEF AttemptInv, Attempted, Blocked
    <2>1. ~g.finish /\ start.micra.attempt /\ last' = start.last /\ (~posted \/ start.locked)
      BY <1>8, <1>10
    <2>2. CASE start.does = "BLOCKED"
      <3>1. micra.attempt /\ ~posted
        BY <1>6, <2>1, <2>2
      <3>2. last.attempt /\ ~c.active /\ c.owed = "missed"
        BY <1>1, <1>4, <3>1 DEF AttemptInv, Attempted
      <3> QED
        BY <1>6, <1>8, <1>10, <2>1, <2>2, <3>2 DEF SameView, SameSession, SameRow
    <2>3. CASE start.does = "CANDIDATE"
      BY <1>6, <1>8, <1>10, <2>1, <2>3 DEF SameView, SameSession, Backflushing
    <2>4. CASE start.does \in {"NORMAL", "WAKE"}
      <3>1. ~start.locked /\ start.does = "NORMAL" /\ ~last.attempt /\ micra.attempt /\ ~posted
        BY <1>6, <2>1, <2>4
      <3> QED
        BY <1>4, <3>1 DEF AttemptInv, Attempted
    <2> QED
      BY <1>6, <2>2, <2>3, <2>4
  <1> QED
    BY <1>11, <1>12, <1>13, <1>14, <1>15, <1>16, <1>17 DEF BrewInv


\* An edge is used once: it is gone after the pass it belongs to.
LEMMA PassedOnKeeps ==
    ASSUME Records, pad' = PassedOn(pad)
    PROVE  /\ IsRec(pad', {"raw", "on", "settled", "edge", "intent"})
           /\ pad'.on = pad.on /\ pad'.raw = pad.raw
           /\ pad'.edge = "none" /\ pad'.intent = "NONE"
           /\ (HoldActive)' <=> HoldActive
           /\ Pad'
  <1>1. /\ IsRec(pad', {"raw", "on", "settled", "edge", "intent"})
        /\ pad'.on = pad.on /\ pad'.raw = pad.raw
        /\ pad'.edge = "none" /\ pad'.intent = "NONE"
    BY DEF PassedOn, Records, IsRec
  <1> QED
    BY <1>1 DEF Pad, HoldActive

\* A step that handles a trip keeps the invariant.
LEMMA TripStep ==
    ASSUME BrewInv, pc = "trips", pc' = "commands", pad' = PassedOn(pad),
           UNCHANGED <<cfg, lease, restart, scale, cleaning>>, TripOutcome(c, c')
    PROVE  BrewInv'
  <1>1. Records /\ Well(c) /\ LeaseInv /\ AttemptInv
    BY DEF BrewInv
  <1>2. /\ IsRec(pad', {"raw", "on", "settled", "edge", "intent"})
        /\ Pad'
    BY <1>1, PassedOnKeeps
  <1>3. lease' = lease /\ micra' = micra /\ last' = last /\ posted' = posted /\ obs' = obs
    BY DEF cleaning
  <1>4. /\ Well(c') /\ AtRest(c') /\ c'.state = "REQUIRES_OFF"
        /\ ~c.active /\ ~c.wake /\ Backflushing(c) => c'.owed = "missed"
        /\ ~c.active /\ ~c.wake /\ ~Backflushing(c) => c'.owed = c.owed
    BY DEF TripOutcome
  <1>5. ~c'.active /\ ~c'.wake
    BY <1>4 DEF AtRest, Owned
  <1>6. Records'
    BY <1>1, <1>2, <1>3 DEF Records, Leased
  <1>7. LeaseInv'
    BY <1>4 DEF LeaseInv
  <1>8. WakeInv'
    BY <1>5 DEF WakeInv
  <1>9. TripInv'
    BY <1>4 DEF TripInv, Unanswered
  <1>10. AttemptInv'
    BY <1>1, <1>3, <1>4, <1>5 DEF AttemptInv, Attempted, Blocked
  <1> QED
    BY <1>2, <1>4, <1>6, <1>7, <1>8, <1>9, <1>10 DEF BrewInv

\* So does the trip of the hard limit.
LEMMA HardTripStep == BrewInv /\ HardTrip => BrewInv'
  <1> SUFFICES ASSUME BrewInv, HardTrip PROVE BrewInv'
    OBVIOUS
  <1>1. TripOutcome(c, c')
    BY HardTripOutcome DEF BrewInv, HardTrip
  <1> QED
    BY <1>1, TripStep DEF HardTrip

\* So does that of the operating limit.
LEMMA WallTripStep == BrewInv /\ WallTrip => BrewInv'
  <1> SUFFICES ASSUME BrewInv, WallTrip PROVE BrewInv'
    OBVIOUS
  <1>1. TripOutcome(c, c')
    BY WallTripOutcome DEF BrewInv, WallTrip
  <1> QED
    BY <1>1, TripStep DEF WallTrip

\* So does a pass without a trip.
LEMMA NoTripStep == BrewInv /\ NoTrip => BrewInv'
  <1> SUFFICES ASSUME BrewInv, NoTrip PROVE BrewInv'
    OBVIOUS
  <1>1. Records /\ Well(c) /\ Pad /\ LeaseInv /\ WakeInv /\ AttemptInv
    BY DEF BrewInv
  <1>2. /\ pc = "trips" /\ ~c.hard /\ ~c.op
        /\ c' = [c EXCEPT !.skip = FALSE]
        /\ lease' = lease /\ micra' = micra /\ last' = last /\ posted' = posted /\ obs' = obs
        /\ IF c.wake \/ c.skip
           THEN pc' = "commands" /\ pad' = PassedOn(pad)
           ELSE pc' = "cycle" /\ pad' = pad
    BY DEF NoTrip, cleaning
  <1>3. /\ IsRec(pad', {"raw", "on", "settled", "edge", "intent"})
        /\ Pad' /\ ((HoldActive)' <=> HoldActive)
    <2>1. CASE pad' = PassedOn(pad)
      BY <1>1, <2>1, PassedOnKeeps
    <2>2. CASE pad' = pad
      BY <1>1, <2>2 DEF Records, Pad, HoldActive
    <2> QED
      BY <1>2, <2>1, <2>2
  <1>4. IsLoop(c') /\ SameView(c, c')
    BY <1>1, <1>2 DEF Well, IsLoop, IsRec, LoopFields, CycleFields, GuardFields, SameView,
                      SameRelay, SameRow, SameSession
  <1>5. Well(c') /\ (AtRest(c) => AtRest(c'))
    BY <1>1, <1>4, WellReadsTheView
  <1>6. Records'
    BY <1>1, <1>2, <1>3 DEF Records, Leased
  <1>7. LeaseInv'
    BY <1>1, <1>2, <1>5 DEF LeaseInv, Leased
  <1>8. WakeInv'
    BY <1>1, <1>2, <1>3, <1>4 DEF WakeInv, SameView, SameSession
  <1>9. TripInv'
    BY <1>2, <1>4 DEF TripInv, Unanswered, Tripped, SameView, SameRelay
  <1>10. AttemptInv'
    BY <1>1, <1>2, <1>4
    DEF AttemptInv, Attempted, Blocked, Backflushing, SameView, SameSession, SameRow
  <1> QED
    BY <1>3, <1>5, <1>6, <1>7, <1>8, <1>9, <1>10 DEF BrewInv

(* A step of the rest of the pass with one of the outcomes above.            *)
LEMMA OutcomeStep ==
    ASSUME BrewInv, pc \notin {"input", "gesture", "trips"}, pc' \in {"commands", "leases", "input"},
           Outcome(c, c'),
           pc # "cycle" /\ c.state # "READY" /\ ~c.active => c'.state \in {c.state, "REQUIRES_OFF"},
           Records', Pad', (HoldActive)' <=> HoldActive,
           UNCHANGED <<micra, last, posted, obs>>, Leased' => AtRest(c')
    PROVE  BrewInv'
  <1>1. Well(c) /\ WakeInv /\ TripInv /\ AttemptInv
    BY DEF BrewInv
  <1>2. /\ Well(c') /\ (c'.wake <=> c.wake)
        /\ c'.state = "READY" => ~HoldActive \/ (c.state = "READY" /\ SameTrips(c, c'))
        /\ (obs.attempt \/ c.state # "READY") /\ ~c.active =>
               ~c'.active /\ SameRow(c, c') /\ (Backflushing(c) => Backflushing(c'))
    BY DEF Outcome
  <1>3. WakeInv'
    BY <1>1, <1>2 DEF WakeInv
  <1>4. TripInv'
    BY <1>1, <1>2 DEF TripInv, Unanswered, Tripped, SameTrips
  <1>5. LeaseInv'
    BY DEF LeaseInv
  <1>6. AttemptInv'
    <2> SUFFICES ASSUME micra.attempt, ~posted
                 PROVE  /\ last.attempt /\ ~c'.active /\ ~c'.wake
                        /\ Backflushing(c') \/ c'.owed = "missed"
                        /\ obs.attempt \/ Backflushing(c') \/ c'.state = "REQUIRES_OFF"
      BY DEF AttemptInv, Attempted, Blocked
    <2>1. /\ last.attempt /\ ~c.active /\ ~c.wake /\ (Backflushing(c) \/ c.owed = "missed")
          /\ pc = "cycle" => obs.attempt
          /\ obs.attempt \/ Backflushing(c) \/ c.state = "REQUIRES_OFF"
      BY <1>1 DEF AttemptInv, Attempted, Blocked
    <2>2. obs.attempt \/ c.state # "READY"
      BY <2>1 DEF Backflushing
    <2>3. ~c'.active /\ SameRow(c, c') /\ (Backflushing(c) => Backflushing(c'))
      BY <1>2, <2>1, <2>2
    <2>4. obs.attempt \/ Backflushing(c') \/ c'.state = "REQUIRES_OFF"
      BY <2>1, <2>2, <2>3
    <2> QED
      BY <1>2, <2>1, <2>3, <2>4 DEF SameRow
  <1> QED
    BY <1>2, <1>3, <1>4, <1>5, <1>6 DEF BrewInv


\* So does the state machine.
LEMMA CycleStep == BrewInv /\ Cycle => BrewInv'
  <1> SUFFICES ASSUME BrewInv, Cycle PROVE BrewInv'
    OBVIOUS
  <1>1. Records /\ Well(c) /\ Pad /\ LeaseInv /\ WakeInv
    BY DEF BrewInv
  <1>2. /\ pc = "cycle" /\ pc' = "commands" /\ pad' = PassedOn(pad)
        /\ micra' = micra /\ last' = last /\ posted' = posted /\ obs' = obs
    BY DEF Cycle, CycleBypassed, CycleLeased, CycleOverridden, CycleServed, cleaning
  <1>3. /\ IsRec(pad', {"raw", "on", "settled", "edge", "intent"})
        /\ (HoldActive)' <=> HoldActive
        /\ Pad'
    BY <1>1, <1>2, PassedOnKeeps
  <1>4. IsLoop(c)
    BY <1>1 DEF Well
  <1>5. ~c.wake
    BY <1>1, <1>2 DEF WakeInv
  <1>6. /\ Outcome(c, c') /\ (Leased' => AtRest(c'))
        /\ IsRec(lease', {"kind", "forwarded"}) /\ (lease'.forwarded => lease'.kind # "none")
    <2>1. CASE CycleBypassed
      <3> DEFINE a == AbortRecorded(c)
      <3>1. IsLoop(a) /\ SameView(c, a)
        BY <1>4, AbortRecordedKeeps
      <3>2. c' = [a EXCEPT !.guard.done = FALSE] /\ lease' = lease
        BY <2>1 DEF CycleBypassed
      <3> HIDE DEF a
      <3>3. IsLoop(c') /\ SameView(a, c')
        BY <3>1, <3>2 DEF IsLoop, IsRec, LoopFields, CycleFields, GuardFields, SameView, SameRelay,
                          SameRow, SameSession
      <3>4. SameView(c, c')
        BY <3>1, <3>3 DEF SameView, SameRelay, SameRow, SameSession
      <3>5. Outcome(c, c') /\ (AtRest(c) => AtRest(c'))
        BY <1>1, <3>3, <3>4, SameOutcome, WellReadsTheView
      <3> QED
        BY <1>1, <3>2, <3>5 DEF LeaseInv, Leased, Records
    <2>2. CASE CycleLeased
      <3>1. AtRest(c) /\ ~c.closed
        BY <1>1, <2>2 DEF CycleLeased, LeaseInv, AtRest
      <3>2. c' = [c EXCEPT !.state = IF HoldActive THEN "REQUIRES_OFF" ELSE @]
        BY <2>2, <3>1 DEF CycleLeased
      <3>3. lease' = lease \/ lease' = NoLease
        BY <2>2 DEF CycleLeased
      <3>4. /\ IsLoop(c') /\ SameRelay(c, c') /\ SameRow(c, c') /\ c'.active = c.active
            /\ c'.wake = c.wake /\ c'.outbound = c.outbound /\ c'.scaleCommands = c.scaleCommands
            /\ c'.cycle.rinsing = c.cycle.rinsing /\ c'.shot = c.shot
            /\ HoldActive => c'.state = "REQUIRES_OFF"
            /\ ~HoldActive => c'.state = c.state
        BY <1>4, <3>2 DEF IsLoop, IsRec, LoopFields, CycleFields, GuardFields, SameRelay, SameRow
      <3>5. ~c.active /\ ~Backflushing(c)
        BY <3>1 DEF AtRest, Owned
      <3>6. c'.state # "BACKFLUSH_CANDIDATE" /\ c'.state # "BACKFLUSH_RUNNING"
        BY <3>4, <3>5 DEF Backflushing
      <3>7. Well(c') /\ AtRest(c')
        BY <1>1, <1>5, <3>1, <3>4, <3>5, <3>6
        DEF Well, Owners, Circuit, Session, AtRest, Owned, Brewing, Tripped, Backflushing, SameRelay,
            SameRow
      <3>8. Outcome(c, c')
        BY <1>5, <3>4, <3>5, <3>7 DEF Outcome
      <3> QED
        BY <1>1, <3>3, <3>7, <3>8 DEF Records, NoLease, IsRec, Leased
    <2>3. CASE CycleOverridden
      <3>1. c.active /\ c' \in Finalized(c, UserHold) /\ lease' = lease
        BY <2>3 DEF CycleOverridden
      <3>2. Outcome(c, c') /\ AtRest(c')
        BY <1>1, <3>1, FinalizedOutcome, UserHoldNames
      <3> QED
        BY <1>1, <3>1, <3>2 DEF Records, Leased
    <2>4. CASE CycleServed
      <3>1. ~Leased /\ c' \in StateServed(c) /\ lease' = lease
        BY <2>4 DEF CycleServed
      <3>2. pad.intent \in {"STOP", "IDLE"} => ~HoldActive
        BY <1>1 DEF Pad
      <3>3. Outcome(c, c')
        BY <1>1, <1>5, <3>1, <3>2, StateServedOutcome
      <3> QED
        BY <1>1, <3>1, <3>3 DEF Records, Leased
    <2> QED
      BY <2>1, <2>2, <2>3, <2>4 DEF Cycle
  <1>7. Records'
    BY <1>1, <1>2, <1>3, <1>6 DEF Records, Leased
  <1> QED
    BY <1>2, <1>3, <1>6, <1>7, OutcomeStep

\* Settling what waited touches neither relay, row nor session.
LEMMA SettledKeeps ==
    ASSUME NEW r, Well(r), NEW s \in Settled(r)
    PROVE  Well(s) /\ (AtRest(r) => AtRest(s)) /\ SameRelay(r, s) /\ SameRow(r, s)
           /\ SameSession(r, s)
  <1>1. CASE s = r
    BY <1>1 DEF SameRelay, SameRow, SameSession
  <1>2. CASE s = PendingCommitted(r)
    BY <1>2, WellWithoutShot
  <1> QED
    BY <1>1, <1>2 DEF Settled

\* So does the command of a page.
LEMMA ServeCommandStep == BrewInv /\ ServeCommand => BrewInv'
  <1> SUFFICES ASSUME BrewInv, ServeCommand PROVE BrewInv'
    OBVIOUS
  <1>1. Records /\ Well(c) /\ Pad /\ LeaseInv /\ WakeInv
    BY DEF BrewInv
  <1>2. PICK settled \in Settled(c), command \in cfg.commands :
          c' \in Commanded(settled, command) /\ LeaseCommanded(settled, command)
    BY DEF ServeCommand
  <1>3. /\ pc = "commands" /\ pc' = "leases" /\ pad' = pad
        /\ micra' = micra /\ last' = last /\ posted' = posted /\ obs' = obs
    BY DEF ServeCommand, cleaning
  <1>4. /\ Well(settled) /\ (AtRest(c) => AtRest(settled)) /\ SameRelay(c, settled)
        /\ SameRow(c, settled) /\ SameSession(c, settled)
    BY <1>1, SettledKeeps
  <1>5. c.wake => HoldActive
    BY <1>1, <1>3 DEF WakeInv
  <1>6. /\ Outcome(settled, c')
        /\ ~ConfigurationAllowed(settled) /\ ~settled.closed => c' = settled
        /\ settled.state # "READY" /\ ~settled.active => c'.state = settled.state
    BY <1>2, <1>4, <1>5, CommandedOutcome DEF SameSession
  <1>7. Outcome(c, c')
    BY <1>4, <1>6 DEF Outcome, SameRelay, SameRow, SameSession, SameTrips, Backflushing
  <1>8. c.state # "READY" /\ ~c.active => c'.state = c.state
    BY <1>4, <1>6 DEF SameSession
  <1>9. /\ Leased' => AtRest(c')
        /\ IsRec(lease', {"kind", "forwarded"}) /\ (lease'.forwarded => lease'.kind # "none")
    <2>1. CASE ConfigurationAllowed(settled) /\ command \in {"LEASE", "RESTART"}
      <3>1. AtRest(settled)
        BY <1>4, <1>5, <2>1 DEF ConfigurationAllowed, AtRest, Owned, Backflushing, SameSession
      <3>2. c' = settled
        BY <1>2, <2>1 DEF Commanded
      <3>3. lease' = [kind |-> IF command = "RESTART" THEN "restart" ELSE "other",
                      forwarded |-> FALSE]
        BY <1>2, <2>1 DEF LeaseCommanded
      <3> QED
        BY <3>1, <3>2, <3>3 DEF IsRec
    <2>2. CASE ~(ConfigurationAllowed(settled) /\ command \in {"LEASE", "RESTART"})
      <3>1. lease' = lease
        BY <1>2, <2>2 DEF LeaseCommanded
      <3>2. ASSUME Leased PROVE AtRest(c')
        <4>1. AtRest(settled) /\ ~ConfigurationAllowed(settled)
          BY <1>1, <1>4, <3>2 DEF LeaseInv, ConfigurationAllowed
        <4> QED
          BY <1>6, <4>1 DEF AtRest
      <3> QED
        BY <1>1, <3>1, <3>2 DEF Records, Leased
    <2> QED
      BY <2>1, <2>2
  <1>10. Records'
    BY <1>1, <1>3, <1>9 DEF Records, Leased
  <1>11. Pad' /\ ((HoldActive)' <=> HoldActive)
    BY <1>1, <1>3 DEF Pad, HoldActive
  <1> QED
    BY <1>3, <1>7, <1>8, <1>9, <1>10, <1>11, OutcomeStep

\* So does the end of a maintenance lease.
LEMMA LeaseDoneStep == BrewInv /\ LeaseDone => BrewInv'
  <1> SUFFICES ASSUME BrewInv, LeaseDone PROVE BrewInv'
    OBVIOUS
  <1>1. Records /\ Well(c) /\ Pad /\ LeaseInv /\ WakeInv
    BY DEF BrewInv
  <1>2. PICK settled \in Settled(c) :
          c' = [settled EXCEPT !.state = IF HoldActive THEN "REQUIRES_OFF" ELSE @]
    BY DEF LeaseDone
  <1>3. /\ pc = "commands" /\ pc' = "leases" /\ pad' = pad /\ lease.forwarded /\ lease' = NoLease
        /\ micra' = micra /\ last' = last /\ posted' = posted /\ obs' = obs
    BY DEF LeaseDone, cleaning
  <1>4. /\ Well(settled) /\ (AtRest(c) => AtRest(settled)) /\ SameRelay(c, settled)
        /\ SameRow(c, settled) /\ SameSession(c, settled)
    BY <1>1, SettledKeeps
  <1>5. AtRest(c) /\ AtRest(settled)
    BY <1>1, <1>3, <1>4 DEF LeaseInv, Records
  <1>6. IsLoop(settled)
    BY <1>4 DEF Well
  <1>7. /\ IsLoop(c') /\ SameRelay(settled, c') /\ SameRow(settled, c')
        /\ c'.active = settled.active /\ c'.wake = settled.wake /\ c'.outbound = settled.outbound
        /\ c'.scaleCommands = settled.scaleCommands
        /\ c'.cycle.rinsing = settled.cycle.rinsing
        /\ HoldActive => c'.state = "REQUIRES_OFF"
        /\ ~HoldActive => c'.state = settled.state
    BY <1>2, <1>6 DEF IsLoop, IsRec, LoopFields, CycleFields, GuardFields, SameRelay, SameRow
  <1>8. ~settled.active /\ ~settled.wake /\ ~Backflushing(settled) /\ ~settled.closed
    BY <1>5 DEF AtRest, Owned
  <1>9. c'.state # "BACKFLUSH_CANDIDATE" /\ c'.state # "BACKFLUSH_RUNNING"
    BY <1>7, <1>8 DEF Backflushing
  <1>10. Well(c') /\ AtRest(c')
    BY <1>4, <1>7, <1>8, <1>9
    DEF Well, Owners, Circuit, Session, AtRest, Owned, Brewing, Tripped, Backflushing, SameRelay,
        SameRow
  <1>11. Outcome(c, c')
    BY <1>4, <1>7, <1>8, <1>10
    DEF Outcome, SameRelay, SameRow, SameSession, SameTrips, Backflushing
  <1>12. c'.state \in {c.state, "REQUIRES_OFF"}
    BY <1>4, <1>7 DEF SameSession
  <1>13. Records'
    BY <1>1, <1>3 DEF Records, Leased, NoLease, IsRec
  <1>14. Pad' /\ ((HoldActive)' <=> HoldActive)
    BY <1>1, <1>3 DEF Pad, HoldActive
  <1> QED
    BY <1>3, <1>10, <1>11, <1>12, <1>13, <1>14, OutcomeStep

\* So does a lease that is asked for, forwarded or given back.
LEMMA LeasesStep == BrewInv /\ Leases => BrewInv'
  <1> SUFFICES ASSUME BrewInv, Leases PROVE BrewInv'
    OBVIOUS
  <1>1. Records /\ Well(c) /\ Pad /\ LeaseInv /\ WakeInv
    BY DEF BrewInv
  <1>2. /\ pc = "leases" /\ pc' = "input" /\ pad' = pad
        /\ micra' = micra /\ last' = last /\ posted' = posted /\ obs' = obs
    BY DEF Leases, cleaning
  <1>3. c.wake => HoldActive
    BY <1>1, <1>2 DEF WakeInv
  <1>4. Outcome(c, c)
    BY <1>1, SameOutcome DEF Well, SameView, SameRelay, SameRow, SameSession
  <1>5. /\ Outcome(c, c') /\ (Leased' => AtRest(c'))
        /\ c'.state = c.state
        /\ IsRec(lease', {"kind", "forwarded"}) /\ (lease'.forwarded => lease'.kind # "none")
    <2>1. CASE /\ Leased
               /\ \E settled \in BOOLEAN :
                    lease' = [lease EXCEPT !.forwarded = @ \/ (settled /\ StablyOff)]
               /\ UNCHANGED <<c, restart>>
      BY <1>1, <1>4, <2>1 DEF LeaseInv, Leased, Records, IsRec
    <2>2. CASE /\ ~Leased /\ restart = "held" /\ ConfigurationAllowed(c)
               /\ lease' = [kind |-> "restart", forwarded |-> FALSE]
               /\ restart' = "none"
               /\ c' = Stopped(c)
      <3>1. ~c.active /\ ~c.wake /\ c.state = "READY"
        BY <1>3, <2>2 DEF ConfigurationAllowed
      <3>2. Outcome(c, c')
        BY <1>1, <2>2, <3>1, StoppedOutcome
      <3>3. ~c'.closed /\ SameSession(c, c')
        BY <1>1, <2>2, StoppedOpens DEF Well
      <3> QED
        BY <2>2, <3>1, <3>2, <3>3 DEF AtRest, Owned, Backflushing, SameSession, IsRec
    <2>3. CASE /\ ~Leased /\ ~(restart = "held" /\ ConfigurationAllowed(c))
               /\ UNCHANGED <<c, lease, restart>>
      BY <1>1, <1>4, <2>3 DEF Leased, Records
    <2> QED
      BY <2>1, <2>2, <2>3 DEF Leases
  <1>6. Records'
    BY <1>1, <1>2, <1>5 DEF Records, Leased
  <1>7. Pad' /\ ((HoldActive)' <=> HoldActive)
    BY <1>1, <1>2 DEF Pad, HoldActive
  <1> QED
    BY <1>2, <1>5, <1>6, <1>7, OutcomeStep

\* A boot leaves nothing of what was.
LEMMA BootIsWell ==
    ASSUME NEW shot, NEW s, s = Boot \/ s = [Boot EXCEPT !.shot = shot]
    PROVE  Well(s) /\ AtRest(s) /\ ~s.wake /\ ~s.active /\ ~Tripped(s)
  <1> DEFINE Resting(r) ==
               /\ IsLoop(r) /\ r.state = "REQUIRES_OFF" /\ ~r.active /\ ~r.closed /\ ~r.wake
               /\ r.owed = "no" /\ r.rows = "once" /\ ~r.outbound /\ ~r.scaleCommands
               /\ ~r.cycle.rinsing /\ ~r.hard /\ ~r.op
  <1>1. Resting(Boot)
    BY DEF Boot, NoCycle, IsLoop, IsRec, LoopFields, CycleFields, GuardFields
  <1>2. ASSUME s = [Boot EXCEPT !.shot = shot]
        PROVE  Resting(s)
    BY <1>1, <1>2 DEF IsLoop, IsRec, LoopFields, CycleFields, GuardFields
  <1>3. Resting(s)
    BY <1>1, <1>2
  <1> QED
    BY <1>3 DEF Well, Owners, Circuit, Session, AtRest, Owned, Brewing, Tripped, Backflushing

\* The invariant holds at power on.
LEMMA BrewInit == Init => BrewInv
  <1> SUFFICES ASSUME Init PROVE BrewInv
    OBVIOUS
  <1>1. c = Boot
    BY DEF Init
  <1>2. Well(c) /\ AtRest(c) /\ ~c.wake /\ ~Tripped(c)
    BY <1>1, BootIsWell
  <1>3. PICK on \in BOOLEAN :
          pad = [raw |-> on, on |-> on, settled |-> FALSE, edge |-> "none", intent |-> "NONE"]
    BY DEF Init
  <1>4. /\ pc = "input" /\ lease = NoLease
        /\ micra = Idle /\ last = Idle /\ obs = Idle
    BY DEF Init
  <1>5. Records
    BY <1>3, <1>4 DEF Records, IsRec, ObsFields, NoLease, Idle, Leased
  <1>6. Pad
    BY <1>3 DEF Pad
  <1>7. ~Attempted
    BY <1>4 DEF Attempted, Idle
  <1> QED
    BY <1>2, <1>4, <1>5, <1>6, <1>7
    DEF BrewInv, LeaseInv, WakeInv, TripInv, Unanswered, AttemptInv, Tripped

(* A planned restart forgets everything but the levels of the inputs.        *)
LEMMA RestartStep == BrewInv /\ Restart => BrewInv'
  <1> SUFFICES ASSUME BrewInv, Restart PROVE BrewInv'
    OBVIOUS
  <1>1. c' = [Boot EXCEPT !.shot = Forgotten(c.shot)]
    BY DEF Restart
  <1>2. Well(c') /\ AtRest(c') /\ ~c'.wake /\ ~Tripped(c')
    BY <1>1, BootIsWell
  <1>3. /\ pad' = [pad EXCEPT !.on = pad.raw, !.settled = FALSE, !.edge = "none", !.intent = "NONE"]
        /\ IsRec(pad, {"raw", "on", "settled", "edge", "intent"})
    BY DEF Restart, BrewInv, Records
  <1>4. /\ IsRec(pad', {"raw", "on", "settled", "edge", "intent"})
        /\ pad'.edge = "none" /\ pad'.intent = "NONE"
    BY <1>3 DEF IsRec
  <1>5. /\ pc = "input" /\ pc' = pc /\ lease' = NoLease
        /\ micra' = Idle /\ last' = Idle /\ obs' = Idle
    BY DEF Restart
  <1>6. Records'
    BY <1>4, <1>5 DEF Records, IsRec, ObsFields, NoLease, Idle, Leased
  <1>7. Pad'
    BY <1>4 DEF Pad
  <1>8. ~Attempted'
    BY <1>5 DEF Attempted, Idle
  <1> QED
    BY <1>2, <1>5, <1>6, <1>7, <1>8
    DEF BrewInv, LeaseInv, WakeInv, TripInv, Unanswered, AttemptInv, Tripped

(* The relay opened the circuit between two steps of the loop: a session is  *)
(* told by the flag, and a wake gesture or a backflush by the hard one; or   *)
(* the driver is locked out, and a restart was asked for.                    *)
LEMMA CutStep ==
    ASSUME BrewInv, IsLoop(c'), SameSession(c, c'), SameRow(c, c'), c'.shot = c.shot,
           c'.scaleCommands = c.scaleCommands, c'.skip = c.skip, ~c'.closed,
           Tripped(c') \/ (c'.locked /\ c'.fault # "none"),
           c'.op => c.op \/ c.active,
           Unanswered(c') => c.closed,
           UNCHANGED <<pc, cfg, pad, lease, scale, cleaning>>
    PROVE  BrewInv'
  <1>1. Records /\ Well(c) /\ Pad /\ LeaseInv /\ WakeInv /\ AttemptInv
    BY DEF BrewInv
  <1>2. /\ pc' = pc /\ pad' = pad /\ lease' = lease /\ micra' = micra /\ last' = last
        /\ posted' = posted /\ obs' = obs
    BY DEF cleaning
  <1>3. Backflushing(c') <=> Backflushing(c)
    BY DEF SameSession, Backflushing
  <1>4. c.op \/ c.active => ~c.wake /\ ~Backflushing(c)
    BY <1>1 DEF Well, Owners, Circuit, Brewing, Backflushing
  <1>5. Well(c')
    BY <1>1, <1>3, <1>4
    DEF Well, Owners, Circuit, Session, Owned, Brewing, SameSession, SameRow
  <1>6. ~Unanswered(c')
    BY <1>1 DEF Unanswered, Well, Owners, Circuit, Owned, Brewing, Backflushing, SameSession
  <1>7. Records' /\ Pad'
    BY <1>1, <1>2 DEF Records, Pad, Leased, HoldActive
  <1>8. LeaseInv' /\ WakeInv'
    BY <1>1, <1>2, <1>3 DEF LeaseInv, WakeInv, Leased, HoldActive, AtRest, Owned, SameSession
  <1>9. AttemptInv'
    BY <1>1, <1>2, <1>3 DEF AttemptInv, Attempted, Blocked, SameSession, SameRow
  <1> QED
    BY <1>5, <1>6, <1>7, <1>8, <1>9 DEF BrewInv, TripInv

\* The hard limit opens the relay beside the loop and keeps the invariant.
LEMMA HardCutStep == BrewInv /\ HardCut => BrewInv'
  <1> SUFFICES ASSUME BrewInv, HardCut PROVE BrewInv'
    OBVIOUS
  <1>1. IsLoop(c) /\ c.closed /\ c' = [c EXCEPT !.closed = FALSE, !.hard = TRUE, !.op = FALSE]
    BY DEF HardCut, BrewInv, Well
  <1>2. /\ IsLoop(c') /\ SameSession(c, c') /\ SameRow(c, c') /\ c'.shot = c.shot
        /\ c'.scaleCommands = c.scaleCommands /\ c'.skip = c.skip /\ ~c'.closed /\ c'.hard /\ ~c'.op
    BY <1>1 DEF IsLoop, IsRec, LoopFields, CycleFields, GuardFields, SameSession, SameRow
  <1>3. UNCHANGED <<pc, cfg, pad, lease, scale, cleaning>>
    BY DEF HardCut
  <1> QED
    BY <1>1, <1>2, <1>3, CutStep DEF Tripped

\* So does the operating limit.
LEMMA WallCutStep == BrewInv /\ WallCut => BrewInv'
  <1> SUFFICES ASSUME BrewInv, WallCut PROVE BrewInv'
    OBVIOUS
  <1>1. /\ Well(c) /\ IsLoop(c) /\ c.closed /\ c.wall
        /\ c' = [c EXCEPT !.closed = FALSE, !.op = TRUE, !.hard = FALSE]
    BY DEF WallCut, BrewInv, Well
  <1>2. /\ IsLoop(c') /\ SameSession(c, c') /\ SameRow(c, c') /\ c'.shot = c.shot
        /\ c'.scaleCommands = c.scaleCommands /\ c'.skip = c.skip /\ ~c'.closed /\ c'.op
    BY <1>1 DEF IsLoop, IsRec, LoopFields, CycleFields, GuardFields, SameSession, SameRow
  <1>3. c.active
    BY <1>1 DEF Well, Circuit
  <1>4. UNCHANGED <<pc, cfg, pad, lease, scale, cleaning>>
    BY DEF WallCut
  <1> QED
    BY <1>1, <1>2, <1>3, <1>4, CutStep DEF Tripped

\* So does a power fault, which locks the driver out and asks for a restart.
LEMMA PowerFaultStep == BrewInv /\ PowerFault => BrewInv'
  <1> SUFFICES ASSUME BrewInv, PowerFault PROVE BrewInv'
    OBVIOUS
  <1>1. IsLoop(c) /\ c' = LockedOut(c, PowerFailed(c)) /\ PowerFailed(c) # "none"
    BY DEF PowerFault, PowerFailed, BrewInv, Well
  <1>2. /\ IsLoop(c') /\ SameSession(c, c') /\ SameRow(c, c') /\ c'.shot = c.shot
        /\ c'.scaleCommands = c.scaleCommands /\ c'.skip = c.skip /\ ~c'.closed
        /\ c'.op = c.op /\ c'.locked /\ c'.fault # "none"
    BY <1>1 DEF LockedOut, IsLoop, IsRec, LoopFields, CycleFields, GuardFields, SameSession, SameRow
  <1>3. UNCHANGED <<pc, cfg, pad, lease, scale, cleaning>>
    BY DEF PowerFault
  <1> QED
    BY <1>2, <1>3, CutStep DEF Unanswered

\* A missed watchdog only asks for the restart.
LEMMA WatchdogFaultStep == BrewInv /\ WatchdogFault => BrewInv'
  <1> SUFFICES ASSUME BrewInv, WatchdogFault PROVE BrewInv'
    OBVIOUS
  <1>1. IsLoop(c) /\ c' = [c EXCEPT !.fault = "watchdog"]
    BY DEF WatchdogFault, BrewInv, Well
  <1>2. /\ IsLoop(c') /\ SameSession(c, c') /\ SameRow(c, c') /\ c'.shot = c.shot
        /\ c'.scaleCommands = c.scaleCommands /\ c'.skip = c.skip
        /\ c'.closed = c.closed /\ c'.wall = c.wall /\ c'.hard = c.hard /\ c'.op = c.op
        /\ c'.locked = c.locked /\ c'.fault # "none"
    BY <1>1 DEF IsLoop, IsRec, LoopFields, CycleFields, GuardFields, SameSession, SameRow
  <1>3. /\ pc' = pc /\ pad' = pad /\ lease' = lease /\ micra' = micra /\ last' = last
        /\ posted' = posted /\ obs' = obs
    BY DEF WatchdogFault, cleaning
  <1>4. Backflushing(c') <=> Backflushing(c)
    BY <1>2 DEF SameSession, Backflushing
  <1>5. Records /\ Well(c) /\ Pad /\ LeaseInv /\ WakeInv /\ TripInv /\ AttemptInv
    BY DEF BrewInv
  <1>6. Well(c')
    BY <1>2, <1>4, <1>5
    DEF Well, Owners, Circuit, Session, Owned, Brewing, Tripped, SameSession, SameRow
  <1>7. Records' /\ Pad'
    BY <1>3, <1>5 DEF Records, Pad, Leased, HoldActive
  <1>8. LeaseInv' /\ WakeInv'
    BY <1>2, <1>3, <1>4, <1>5
    DEF LeaseInv, WakeInv, Leased, HoldActive, AtRest, Owned, SameSession
  <1>9. TripInv'
    BY <1>2, <1>3, <1>5 DEF TripInv, Unanswered, Tripped, TurnedOn, HoldActive, SameSession
  <1>10. AttemptInv'
    BY <1>2, <1>3, <1>4, <1>5 DEF AttemptInv, Attempted, Blocked, SameSession, SameRow
  <1> QED
    BY <1>6, <1>7, <1>8, <1>9, <1>10 DEF BrewInv

\* A scale that comes or goes keeps the invariant.
LEMMA ScaleChangesStep == BrewInv /\ ScaleChanges => BrewInv'
  <1> SUFFICES ASSUME BrewInv, ScaleChanges PROVE BrewInv'
    OBVIOUS
  <1>1. UNCHANGED <<pc, pad, c, lease, micra, last, posted, obs>>
    BY DEF ScaleChanges, cleaning
  <1> QED
    BY <1>1
    DEF BrewInv, Records, Pad, LeaseInv, WakeInv, TripInv, AttemptInv, Leased, HoldActive, TurnedOn,
        Unanswered, Attempted, Blocked

\* So does what the cloud shows of the machine.
LEMMA MachineObservedStep == BrewInv /\ MachineObserved => BrewInv'
  <1> SUFFICES ASSUME BrewInv, MachineObserved PROVE BrewInv'
    OBVIOUS
  <1>1. UNCHANGED <<pc, pad, c, lease, last, posted, obs>>
    BY DEF MachineObserved
  <1>2. IsObs(micra)
    BY DEF BrewInv, Records, IsObs
  <1>3. \/ \E p, ours : micra' = Observed(micra, p, ours)
        \/ micra' = Invalidated(micra)
        \/ micra' = Reset(micra)
    BY DEF MachineObserved
  <1>4. IsObs(micra') /\ micra'.attempt = micra.attempt
    BY <1>2, <1>3, ObservedKeepsAttempt
  <1> QED
    BY <1>1, <1>4
    DEF BrewInv, Records, Pad, LeaseInv, WakeInv, TripInv, AttemptInv, Leased, HoldActive, TurnedOn,
        Unanswered, Attempted, Blocked, IsObs

\* Every step keeps the invariant.
LEMMA BrewStep == BrewInv /\ [Next]_vars => BrewInv'
  <1> SUFFICES ASSUME BrewInv, [Next]_vars PROVE BrewInv'
    OBVIOUS
  <1>1. CASE Loop
    BY <1>1, InputStep, GestureStep, GestureEdgeStep, HardTripStep, WallTripStep, NoTripStep,
       CycleStep, ServeCommandStep, LeaseDoneStep, LeasesStep, RestartStep
    DEF Loop
  <1>2. CASE HardCut
    BY <1>2, HardCutStep
  <1>3. CASE WallCut
    BY <1>3, WallCutStep
  <1>4. CASE WatchdogFault \/ PowerFault
    BY <1>4, WatchdogFaultStep, PowerFaultStep
  <1>5. CASE ScaleChanges
    BY <1>5, ScaleChangesStep
  <1>6. CASE MachineObserved
    BY <1>6, MachineObservedStep
  <1>7. CASE UNCHANGED vars
    BY <1>7
    DEF vars, cleaning, BrewInv, Records, Pad, LeaseInv, WakeInv, TripInv, AttemptInv, Leased,
        HoldActive, TurnedOn, Unanswered, Attempted, Blocked
  <1> QED
    BY <1>1, <1>2, <1>3, <1>4, <1>5, <1>6, <1>7 DEF Next

-----------------------------------------------------------------------------
(* The theorems.                                                             *)

(* The invariant of the control loop: every step of loop(), the relay timers *)
(* between them and a planned restart keep it.                               *)
THEOREM BrewInvariance == Spec => []BrewInv
  <1> QED
    BY BrewInit, BrewStep, PTL DEF Spec

(* K1 is closed for a cycle, a wake gesture or a backflush, which will open  *)
(* it again, and a cleaning attempt that was not given back belongs to a     *)
(* backflush (beginCycle, serviceMachineWakeGesture, serviceBackflush,       *)
(* handleGlobalLimitTrip).                                                   *)
THEOREM ClosuresHaveOwners == Spec => []ClosureHasOwner
  <1>1. BrewInv => ClosureHasOwner
    BY DEF BrewInv, Well, Circuit, Owned, AttemptInv, Attempted, ClosureHasOwner
  <1> QED
    BY <1>1, BrewInvariance, PTL

(* A session whose circuit a timer opened finds the flag of the trip in its   *)
(* next pass (consumeRelaySafetyTrip, consumeTripFlag); one that a power      *)
(* fault cut has a restart waiting for it (requestSafeRestart); no other      *)
(* lockout leaves a session (beginCycle, enterRinse).                         *)
THEOREM CutsAreTold == Spec => []ActiveIsClosedOrTold
  <1>1. BrewInv => ActiveIsClosedOrTold
    BY DEF BrewInv, Well, Session, Tripped, ActiveIsClosedOrTold
  <1> QED
    BY <1>1, BrewInvariance, PTL

(* No closure has two rows of the activation history, and one that ended has *)
(* its row, unless a trip ended a backflush (appendHistoryRecord).           *)
THEOREM HistoryIsKeptExact == Spec => []HistoryIsExact
  <1>1. BrewInv => HistoryIsExact
    BY DEF BrewInv, Well, Circuit, Owned, HistoryIsExact, Quiet
  <1> QED
    BY <1>1, BrewInvariance, PTL

(* An ended shot is committed before the next cycle replaces what it is      *)
(* analysed from, and the scale and the network are given back with the      *)
(* cycle (cancelPendingFinalize, enterRinse, finalizeCycle).                 *)
THEOREM ShotsLeaveNothing == Spec => []ShotLeavesNothing
  <1>1. BrewInv => ShotLeavesNothing
    BY DEF BrewInv, Well, Owners, Session, Brewing, ShotLeavesNothing
  <1> QED
    BY <1>1, BrewInvariance, PTL

(* No handler starts a cycle or closes the circuit under a maintenance lease *)
(* (beginMaintenanceLease, stateMachineTask).                                *)
THEOREM LeasesAreQuiet == Spec => []LeaseIsQuiet
  <1>1. BrewInv => LeaseIsQuiet
    BY DEF BrewInv, LeaseInv, AtRest, Owned, LeaseIsQuiet
  <1> QED
    BY <1>1, BrewInvariance, PTL

-----------------------------------------------------------------------------
(* The action properties.                                                    *)

(* A hold that was refused, tripped or overridden does not close the circuit *)
(* again before the paddle was released: REQUIRES_OFF has no owner           *)
(* (applyPaddleRelayDrive, stateMachineTask).                                *)
THEOREM HoldsStayOpen == Spec => NoRecloseInHold
  <1>1. BrewInv => (c.state = "REQUIRES_OFF" => ~c.closed)
    BY DEF BrewInv, Well, Owners, Circuit, Owned, Brewing, Backflushing
  <1>2. BrewInv' => (c'.state = "REQUIRES_OFF" => ~c'.closed)
    BY DEF BrewInv, Well, Owners, Circuit, Owned, Brewing, Backflushing
  <1>3. BrewInv /\ BrewInv' /\ [Next]_vars
          => [c.state = "REQUIRES_OFF" /\ c'.state = "REQUIRES_OFF" /\ c'.closed => c.closed]_vars
    BY <1>2
  <1> QED
    BY <1>3, BrewInvariance, PTL DEF Spec, NoRecloseInHold

(* A planned restart is handed from the hold of the loop to a lease, from    *)
(* the lease to the request, or back to the hold by a paddle; nothing else   *)
(* touches it (holdOrBeginPlannedRestart, stateMachineTask,                  *)
(* completeMaintenanceLease).                                                *)
THEOREM RestartsAreKept == Spec => RestartIsKept
  <1> DEFINE Planned == restart # "none" \/ lease.kind = "restart"
             Kept == Planned' \/ (pc = "input" /\ RestartDue)
  <1>1. ASSUME BrewInv, Next, Planned PROVE Kept
    <2>1. IsRec(lease, {"kind", "forwarded"}) /\ (lease.forwarded => Leased)
      BY <1>1 DEF BrewInv, Records
    <2>2. CASE Input \/ HardTrip \/ WallTrip \/ NoTrip \/ HardCut \/ WallCut
               \/ WatchdogFault \/ PowerFault \/ ScaleChanges \/ MachineObserved
      BY <1>1, <2>2
      DEF Input, HardTrip, WallTrip, NoTrip, HardCut, WallCut, WatchdogFault, PowerFault,
          ScaleChanges, MachineObserved
    <2>3. CASE Gesture \/ GestureEdge
      BY <1>1, <2>3 DEF Gesture, GestureEdge, Gestured
    <2>4. CASE Cycle
      BY <1>1, <2>4 DEF Cycle, CycleBypassed, CycleLeased, CycleOverridden, CycleServed
    <2>5. CASE ServeCommand
      <3>1. PICK settled \in Settled(c), command \in cfg.commands :
              LeaseCommanded(settled, command)
        BY <2>5 DEF ServeCommand
      <3> QED
        BY <1>1, <3>1 DEF LeaseCommanded, ConfigurationAllowed, Leased
    <2>6. CASE LeaseDone
      BY <1>1, <2>6 DEF LeaseDone
    <2>7. CASE Leases
      BY <1>1, <2>1, <2>7 DEF Leases, Leased, IsRec
    <2>8. CASE Restart
      BY <2>8 DEF Restart
    <2> QED
      BY <1>1, <2>2, <2>3, <2>4, <2>5, <2>6, <2>7, <2>8 DEF Next, Loop
  <1>2. BrewInv /\ [Next]_vars => [Planned /\ c' # Boot
             => restart' # "none" \/ lease'.kind = "restart"
                \/ (pc = "input" /\ RestartDue)]_vars
    BY <1>1
  <1> QED
    BY <1>2, BrewInvariance, PTL DEF Spec, RestartIsKept

(* A shot that begins has a scale to measure it, or does not ask for one.    *)
StartsMeasured(r, s) ==
    ~r.active /\ s.active /\ s.state # "RINSE" /\ cfg.noScale = "REQUIRE"
        => ScaleUsable \/ cfg.timerOnly \/ ~r.guard.armed

\* A cycle that starts has the scale it requires.
LEMMA CycleStartsMeasured ==
    ASSUME NEW r, IsLoop(r), NEW source, NEW s \in CycleStarts(r, source)
    PROVE  StartsMeasured(r, s)
  <1> DEFINE physical == source = "PHYSICAL"
             r1 == [r EXCEPT !.guard.fresh = @ /\ ~(physical /\ TurnedOn)]
             free == [r1 EXCEPT !.guard.held = FALSE]
  <1>1. IsLoop(r1) /\ r1.active = r.active /\ r1.guard.armed = r.guard.armed
    BY DEF IsLoop, IsRec, LoopFields, CycleFields, GuardFields
  <1>2. CASE s = r
    BY <1>2 DEF StartsMeasured
  <1>3. CASE NoScaleBlocks(r1) /\ s # r
    <2>1. s = (IF physical
               THEN [r1 EXCEPT !.guard.held = TRUE, !.guard.aborted = TRUE, !.guard.fresh = TRUE]
               ELSE [GuardConsumed(r1) EXCEPT !.guard.held = FALSE])
      BY <1>3 DEF CycleStarts
    <2> HIDE DEF r1
    <2>2. physical => s.active = r1.active
      BY <1>1, <2>1 DEF IsLoop, IsRec, LoopFields
    <2>3. ~physical => s.active = r1.active
      BY <1>1, <2>1 DEF GuardConsumed, IsLoop, IsRec, LoopFields, GuardFields
    <2> QED
      BY <1>1, <2>2, <2>3 DEF StartsMeasured
  <1>4. CASE ~NoScaleBlocks(r1)
    <2> HIDE DEF r1
    <2> QED
      BY <1>1, <1>4 DEF NoScaleBlocks, StartsMeasured
  <1> QED
    BY <1>2, <1>3, <1>4

\* A rinse requires none.
LEMMA RinseBeginsMeasured ==
    ASSUME NEW r, IsLoop(r), NEW source, NEW s \in RinseBegins(r, source)
    PROVE  StartsMeasured(r, s)
  <1> DEFINE noted == NoScaleBlocks(r) \/ r.guard.held
             r1 == [r EXCEPT !.guard.aborted = @ \/ (source = "PHYSICAL" /\ noted)]
             spent(t) == IF t.guard.armed /\ ~ScaleUsable /\ cfg.noScale # "REQUIRE"
                         THEN GuardConsumed(t) ELSE t
             a == SessionBegun(r1, source)
             b == [a EXCEPT !.guard.fresh = FALSE]
             begun == CycleBegun(b, FALSE)
  <1> SUFFICES ASSUME ~r.active, s.active PROVE s.state = "RINSE"
    BY DEF StartsMeasured
  <1>1. IsLoop(r1) /\ r1.active = r.active
    BY DEF IsLoop, IsRec, LoopFields, CycleFields, GuardFields
  <1>2. IsLoop(begun)
    <2> HIDE DEF r1
    <2>1. IsLoop(a)
      BY <1>1, SessionBegunKeeps
    <2> HIDE DEF a
    <2>2. IsLoop(b)
      BY <2>1 DEF IsLoop, IsRec, LoopFields, CycleFields, GuardFields
    <2> HIDE DEF b
    <2> QED
      BY <2>2, CycleBegunKeeps
  <1>3. s # r
    OBVIOUS
  <1>4. CASE RinseBlocked(r1, source)
    <2>1. s = (IF cfg.noScale = "REQUIRE" THEN r1
               ELSE [r1 EXCEPT !.guard.armed = FALSE,
                               !.guard.held = @ \/ (source = "PHYSICAL" /\ HoldActive)])
      BY <1>3, <1>4 DEF RinseBegins
    <2> HIDE DEF r1
    <2>2. s.active = r1.active
      BY <1>1, <2>1 DEF IsLoop, IsRec, LoopFields
    <2> QED
      BY <1>1, <2>2
  <1>5. CASE ~RinseBlocked(r1, source)
    <2>1. PICK k \in RinseStarts(begun) :
             s \in (IF k.ok THEN RinseEntered(spent(k.to)) ELSE {StartRefused(k.to)})
      BY <1>3, <1>5 DEF RinseBegins
    <2> HIDE DEF begun
    <2>2. IsLoop(k.to)
      BY <1>2, <2>1, RinseStartsCases
    <2>3. k.ok
      <3>1. ~StartRefused(k.to).active
        BY <2>2, EndedRests DEF StartRefused
      <3> QED
        BY <2>1, <3>1
    <2> DEFINE t == spent(k.to)
    <2>4. IsLoop(t)
      BY <2>2 DEF GuardConsumed, IsLoop, IsRec, LoopFields, CycleFields, GuardFields
    <2>5. s \in RinseEntered(t)
      BY <2>1, <2>3
    <2> HIDE DEF t
    <2>6. PICK j \in RinseStarts(t) :
             s \in (IF j.ok
                    THEN {[j.to EXCEPT !.automatic = FALSE, !.outbound = FALSE, !.state = "RINSE"]}
                    ELSE Finalized(j.to, "REQUIRES_OFF"))
      BY <2>5 DEF RinseEntered
    <2>7. IsLoop(j.to)
      BY <2>4, <2>6, RinseStartsCases
    <2>8. CASE j.ok
      BY <2>6, <2>7, <2>8 DEF IsLoop, IsRec, LoopFields
    <2>9. CASE ~j.ok
      <3>1. PICK keep \in BOOLEAN : s = Ended(Recorded(Scheduled(Stopped(j.to), keep)), "REQUIRES_OFF")
        BY <2>6, <2>9 DEF Finalized
      <3> DEFINE u == Stopped(j.to)
                 v == Scheduled(u, keep)
                 w == Recorded(v)
      <3>2. IsLoop(u)
        BY <2>7, StoppedOpens
      <3> HIDE DEF u
      <3>3. IsLoop(v)
        BY <3>2, ScheduledKeeps
      <3> HIDE DEF v
      <3>4. IsLoop(w)
        BY <3>3 DEF Recorded, IsLoop, IsRec, LoopFields, CycleFields, GuardFields
      <3>5. s = Ended(w, "REQUIRES_OFF")
        BY <3>1 DEF u, v
      <3> HIDE DEF w
      <3> QED
        BY <3>4, <3>5, EndedRests
    <2> QED
      BY <2>8, <2>9
  <1> QED
    BY <1>4, <1>5

\* The pass of the loop starts only cycles with the scale they require.
LEMMA ReadyServedMeasured ==
    ASSUME NEW r, Well(r), r.state = "READY", ~r.wake, NEW s \in ReadyServed(r)
    PROVE  StartsMeasured(r, s)
  <1> DEFINE started == IF pad.intent = "START" THEN CycleStarts(r, "PHYSICAL") ELSE {r}
             rinsed(x) ==
               IF /\ pad.intent = "RINSE" /\ cfg.rinse
                  /\ ~(cfg.noScale = "REQUIRE" /\ x.guard.fresh)
               THEN {[t EXCEPT !.guard.held = @ /\ t.state # "RINSE"] :
                       t \in RinseBegins(x, "PHYSICAL")}
               ELSE {x}
  <1>1. PICK x \in started : \E t \in rinsed(x) : s = AbortRecorded(t)
    BY DEF ReadyServed
  <1>2. PICK t \in rinsed(x) : s = AbortRecorded(t)
    BY <1>1
  <1>3. IsLoop(r)
    BY DEF Well
  <1>4. IsLoop(t) /\ StartsMeasured(r, t)
    <2>1. CASE pad.intent = "START"
      <3>1. x \in CycleStarts(r, "PHYSICAL") /\ t = x
        BY <1>1, <1>2, <2>1
      <3>2. IsLoop(t)
        BY <3>1, CycleStartsOutcome DEF Outcome, Well
      <3> QED
        BY <1>3, <3>1, <3>2, CycleStartsMeasured
    <2>2. CASE pad.intent # "START" /\ t = r
      BY <1>3, <2>2 DEF StartsMeasured
    <2>3. CASE pad.intent # "START" /\ t # r
      <3>1. PICK u \in RinseBegins(r, "PHYSICAL") :
              t = [u EXCEPT !.guard.held = @ /\ u.state # "RINSE"]
        BY <1>1, <1>2, <2>3
      <3>2. IsLoop(u) /\ StartsMeasured(r, u)
        BY <1>3, RinseBeginsOutcome, RinseBeginsMeasured DEF Outcome, Well
      <3>3. IsLoop(t) /\ t.active = u.active /\ t.state = u.state
        BY <3>1, <3>2 DEF IsLoop, IsRec, LoopFields, CycleFields, GuardFields
      <3> QED
        BY <3>2, <3>3 DEF StartsMeasured
    <2> QED
      BY <2>1, <2>2, <2>3
  <1>5. s.active = t.active /\ s.state = t.state
    BY <1>2, <1>4, AbortRecordedKeeps DEF SameView, SameSession
  <1> QED
    BY <1>4, <1>5 DEF StartsMeasured

\* So does the state machine.
LEMMA CycleMeasured == BrewInv /\ Cycle => StartsMeasured(c, c')
  <1> SUFFICES ASSUME BrewInv, Cycle, ~c.active, c'.active PROVE StartsMeasured(c, c')
    BY DEF StartsMeasured
  <1>1. Well(c) /\ IsLoop(c) /\ ~c.wake
    BY DEF BrewInv, Well, WakeInv, Cycle, CycleBypassed, CycleLeased, CycleOverridden, CycleServed
  <1>2. ~CycleBypassed
    <2>1. ASSUME CycleBypassed PROVE ~c'.active
      <3> DEFINE a == AbortRecorded(c)
      <3>1. IsLoop(a) /\ ~a.active
        BY <1>1, AbortRecordedKeeps DEF SameView, SameSession
      <3>2. c' = [a EXCEPT !.guard.done = FALSE]
        BY <2>1 DEF CycleBypassed
      <3> HIDE DEF a
      <3> QED
        BY <3>1, <3>2 DEF IsLoop, IsRec, LoopFields
    <2> QED
      BY <2>1
  <1>3. ~CycleLeased
    <2>1. ASSUME CycleLeased PROVE ~c'.active
      <3>1. ~c.closed
        BY <2>1 DEF BrewInv, CycleLeased, LeaseInv, AtRest
      <3>2. c' = [c EXCEPT !.state = IF HoldActive THEN "REQUIRES_OFF" ELSE @]
        BY <2>1, <3>1 DEF CycleLeased
      <3> QED
        BY <1>1, <3>2 DEF IsLoop, IsRec, LoopFields
    <2> QED
      BY <2>1
  <1>4. c' \in StateServed(c)
    BY <1>2, <1>3 DEF Cycle, CycleOverridden, CycleServed
  <1>5. c.state = "READY" \/ c' = c \/ c' = [c EXCEPT !.state = "READY"]
    BY <1>1, <1>4 DEF StateServed, Well, Owners, Brewing
  <1>6. c'.active = c.active \/ c.state = "READY"
    BY <1>1, <1>5 DEF IsLoop, IsRec, LoopFields
  <1>7. c' \in ReadyServed(c) /\ c.state = "READY"
    BY <1>4, <1>6 DEF StateServed
  <1> QED
    BY <1>1, <1>7, ReadyServedMeasured

\* So does a command.
LEMMA CommandMeasured == BrewInv /\ ServeCommand => StartsMeasured(c, c')
  <1> SUFFICES ASSUME BrewInv, ServeCommand, ~c.active, c'.active PROVE StartsMeasured(c, c')
    BY DEF StartsMeasured
  <1>1. IsLoop(c)
    BY DEF BrewInv, Well
  <1>2. PICK r \in Settled(c), command \in cfg.commands : c' \in Commanded(r, command)
    BY DEF ServeCommand
  <1>3. IsLoop(r) /\ ~r.active /\ r.guard = c.guard
    BY <1>1, <1>2, PendingCommittedKeeps DEF Settled, SameSession
  <1>4. CASE command \in {"STOP", "REMOTE_OFF"}
    <2>1. c' = r \/ c' = Stopped(r)
      BY <1>2, <1>3, <1>4 DEF Commanded, StopCommanded
    <2> QED
      BY <1>3, <2>1, StoppedOpens DEF SameSession
  <1>5. CASE command \in {"REMOTE_ON", "RINSE"}
    <2>1. c' = r \/ c' \in CycleStarts(r, "WEB") \/ c' \in RinseBegins(r, "WEB")
      BY <1>2, <1>5 DEF Commanded, StartCommanded
    <2>2. StartsMeasured(r, c')
      BY <1>3, <2>1, CycleStartsMeasured, RinseBeginsMeasured DEF StartsMeasured
    <2> QED
      BY <1>3, <2>2 DEF StartsMeasured
  <1>6. CASE command = "RESET_SAMPLES"
    <2>1. c' = r \/ c' = [r EXCEPT !.shot = Forgotten(@)]
      BY <1>2, <1>6 DEF Commanded, SamplesReset
    <2>2. ~c'.active
      BY <1>3, <2>1 DEF IsLoop, IsRec, LoopFields
    <2> QED
      BY <2>2
  <1>7. CASE command \notin {"STOP", "REMOTE_OFF", "REMOTE_ON", "RINSE", "RESET_SAMPLES"}
    BY <1>2, <1>3, <1>7 DEF Commanded
  <1> QED
    BY <1>4, <1>5, <1>6, <1>7

\* A gesture starts no cycle.
LEMMA GesturesStartNoCycle ==
    BrewInv /\ (Gesture \/ GestureEdge) /\ ~c.active => ~c'.active
  <1> SUFFICES ASSUME BrewInv, Gesture \/ GestureEdge, ~c.active PROVE ~c'.active
    OBVIOUS
  <1>1. Well(c) /\ IsObs(micra) /\ IsObs(last) /\ IsObs(obs)
    BY DEF BrewInv, Records, IsObs
  <1>2. ASSUME Gesture PROVE ~c'.active
    <2>1. PICK g \in GestureServed(c, pad), locked \in BOOLEAN : Gestured(g, locked, last)
      BY <1>2 DEF Gesture
    <2>2. Well(g.to) /\ ~g.to.active /\ g.micra = micra
      BY <1>1, GestureServedCases
    <2>3. IsLoop(g.to)
      BY <2>2 DEF Well
    <2>4. SameView(g.to, c')
      BY <1>1, <2>1, <2>2, <2>3, GesturedFrame
    <2> QED
      BY <2>2, <2>4 DEF SameView, SameSession
  <1>3. ASSUME GestureEdge PROVE ~c'.active
    <2>1. pc = "gesture" /\ TurnedOn /\ ~Backflushing(c) /\ ~c.wake
      BY <1>3 DEF GestureEdge
    <2>2. PICK start \in PhysicalStarts :
            \E g \in EdgeServed(c, start) : Gestured(g, start.locked, start.last)
      BY <1>3 DEF GestureEdge
    <2>3. PICK g \in EdgeServed(c, start) : Gestured(g, start.locked, start.last)
      BY <2>2
    <2>4. /\ IsObs(start.micra) /\ IsObs(start.last)
          /\ start.does \in {"NORMAL", "BLOCKED", "CANDIDATE", "WAKE"}
      BY <1>1, PhysicalStartsCases
    <2>5. c.state = "READY" /\ Tripped(c) => c.locked
      BY <2>1 DEF BrewInv, TripInv, Unanswered
    <2>6. Well(g.to) /\ ~g.to.active /\ g.micra = start.micra
      BY <1>1, <2>1, <2>3, <2>4, <2>5, EdgeServedCases
    <2>7. IsLoop(g.to)
      BY <2>6 DEF Well
    <2>8. SameView(g.to, c')
      BY <1>1, <2>3, <2>4, <2>6, <2>7, GesturedFrame
    <2> QED
      BY <2>6, <2>8 DEF SameView, SameSession
  <1> QED
    BY <1>2, <1>3

(* With "Require", a shot begins only with a scale that can measure it, in   *)
(* the timer-only mode, or when the three quick presses have let it through  *)
(* (beginCycle, noScaleShotGuardWouldBlock).                                 *)
THEOREM ShotsAreMeasured == Spec => RequireNeedsScale
  <1>1. ASSUME BrewInv, Next PROVE StartsMeasured(c, c')
    <2>1. Well(c) /\ IsLoop(c)
      BY <1>1 DEF BrewInv, Well
    <2>2. CASE Input
      BY <2>1, <2>2, InputCarries DEF Carried, StartsMeasured
    <2>3. CASE Gesture \/ GestureEdge
      BY <1>1, <2>3, GesturesStartNoCycle DEF StartsMeasured
    <2>4. CASE HardTrip \/ WallTrip
      <3>1. TripOutcome(c, c')
        BY <2>1, <2>4, HardTripOutcome, WallTripOutcome DEF HardTrip, WallTrip
      <3> QED
        BY <3>1 DEF TripOutcome, AtRest, Owned, StartsMeasured
    <2>5. CASE NoTrip \/ HardCut \/ WallCut \/ WatchdogFault \/ PowerFault
      BY <2>1, <2>5
      DEF NoTrip, HardCut, WallCut, WatchdogFault, PowerFault, LockedOut, StartsMeasured, IsLoop, IsRec, LoopFields
    <2>6. CASE Cycle
      BY <1>1, <2>6, CycleMeasured
    <2>7. CASE ServeCommand
      BY <1>1, <2>7, CommandMeasured
    <2>8. CASE LeaseDone
      <3>1. PICK r \in Settled(c) : c' = [r EXCEPT !.state = IF HoldActive THEN "REQUIRES_OFF" ELSE @]
        BY <2>8 DEF LeaseDone
      <3>2. IsLoop(r) /\ r.active = c.active
        BY <2>1, <3>1, PendingCommittedKeeps DEF Settled, SameSession
      <3>3. c'.active = r.active
        BY <3>1, <3>2 DEF IsLoop, IsRec, LoopFields
      <3> QED
        BY <3>2, <3>3 DEF StartsMeasured
    <2>9. CASE Leases
      <3>1. c' = c \/ c' = Stopped(c)
        BY <2>9 DEF Leases
      <3> QED
        BY <2>1, <3>1, StoppedOpens DEF SameSession, StartsMeasured
    <2>10. CASE Restart
      BY <2>10 DEF Restart, Boot, StartsMeasured
    <2>11. CASE ScaleChanges \/ MachineObserved
      BY <2>11 DEF ScaleChanges, MachineObserved, StartsMeasured
    <2> QED
      BY <1>1, <2>2, <2>3, <2>4, <2>5, <2>6, <2>7, <2>8, <2>9, <2>10, <2>11 DEF Next, Loop
  <1>2. BrewInv /\ [Next]_vars
          => [c'.active /\ ~c.active /\ c'.state # "RINSE" /\ cfg.noScale = "REQUIRE"
                => ScaleUsable \/ cfg.timerOnly \/ ~c.guard.armed]_vars
    BY <1>1 DEF StartsMeasured
  <1> QED
    BY <1>2, BrewInvariance, PTL DEF Spec, RequireNeedsScale
=============================================================================
