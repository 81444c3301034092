------------------------------ MODULE IdleTare ------------------------------
(* The automatic tare of a cup that is placed between two shots: the request of
   the control task, the slot it shares with the scale worker, and the weight
   samples that both of them must agree on before the scale is zeroed.

   Three sequence numbers of the code are kept as relations between them: a
   sample is approved while it is the newest one published (approved, for any
   tare; granted, for the request in the slot), fresh says that nothing arrived
   from the scale since the newest sample was captured, and a sample carries
   after when it was captured behind the boundary of the current write.

   A write may be carried out by the scale and yet be reported as failed, and the
   debug page may zero the scale with no request at all: pan.apart observes that
   the cup was zeroed in such a way. *)
EXTENDS Naturals, Sequences

CONSTANTS MaxRequests,    \* bound: tare requests of one behaviour
          MaxMoves,       \* bound: times a cup or an item on it is put down or lifted
          MaxShots,       \* bound: shots of one behaviour
          MaxGenerations, \* bound: connections of one behaviour
          MaxNoise,       \* bound: notifications that are not weights
          MaxDebugTares,  \* bound: tares asked for on the debug page
          WindowCapacity, \* SCALE_WEIGHT_EVENT_CAPACITY
          QueueCapacity   \* free entries of scaleCommandQueue

ASSUME CapacityAssumption ==
    /\ MaxRequests \in Nat \ {0} /\ WindowCapacity \in Nat \ {0} /\ QueueCapacity \in Nat
    /\ MaxMoves \in Nat /\ MaxShots \in Nat /\ MaxGenerations \in Nat /\ MaxNoise \in Nat
    /\ MaxDebugTares \in Nat

VARIABLES pan,      \* the physical scale: the cup, the item on it, whether that cup was
                    \* zeroed and with the item (base), moves, apart
          air,      \* notification not yet read by the worker, fresh, noise
          window,   \* scaleWeightEvents: samples the control task has not read
          approval, \* approvedTareSample and the slot's approvedPacketSequence
          gen,      \* scaleConnectionGeneration
          slot,     \* workerIdleTare
          pending,  \* the idle tares in scaleCommandQueue
          worker,   \* the worker executing one of them
          notice,   \* the REFERENCE_CHANGED event not yet read, and how many there were
          tare,     \* IdleTareRuntime and the cup presence of the control task
          shot      \* whether a session is active, and how many there were

vars == <<pan, air, window, approval, gen, slot, pending, worker, notice, tare, shot>>

Phases == {"NONE", "QUEUED", "WRITING", "SUCCEEDED", "FAILED"}
Verdicts == {"none", "placed", "removed", "empty", "retare"}
NoSlot == [id |-> 0, phase |-> "NONE", gen |-> 0]
NoWork == [pc |-> "idle", id |-> 0, gen |-> 0, ok |-> FALSE]

(* A cup weighs, or reads zero once the scale was zeroed under it, and then over
   or under zero when an item is laid on it or one that was there is taken off;
   the empty scale reads zero, or the negative of that cup. *)
Reading == CASE pan.cup /\ ~pan.zeroed -> "cup"
             [] pan.cup /\ pan.zeroed /\ pan.item = pan.base -> "zero"
             [] pan.cup /\ pan.zeroed /\ pan.item /\ ~pan.base -> "over"
             [] pan.cup /\ pan.zeroed /\ ~pan.item /\ pan.base -> "under"
             [] ~pan.cup /\ pan.zeroed -> "negative"
             [] OTHER -> "zero"
Zeroed(p) == [p EXCEPT !.zeroed = p.cup, !.base = p.item]
ZeroedUnheard(p) == [Zeroed(p) EXCEPT !.apart = p.cup]

NoTare == [req |-> 0, gen |-> 0, eligible |-> FALSE, absent |-> FALSE, still |-> FALSE,
           notified |-> FALSE, unchanged |-> FALSE, deferred |-> FALSE, present |-> FALSE,
           reference |-> "untared", plateau |-> "cup", accessory |-> FALSE, tracked |-> FALSE,
           next |-> 1, seen |-> 1]

Init ==
    /\ pan = [cup |-> FALSE, item |-> FALSE, zeroed |-> FALSE, base |-> FALSE, moves |-> 0,
              apart |-> FALSE]
    /\ air = [frame |-> "none", reading |-> "zero", after |-> FALSE, fresh |-> TRUE, noise |-> 0]
    /\ window = <<>>
    /\ approval = [approved |-> FALSE, granted |-> FALSE]
    /\ gen = 1 /\ slot = NoSlot /\ pending = <<>> /\ worker = NoWork
    /\ notice = [event |-> "none", count |-> 0]
    /\ tare = [NoTare EXCEPT !.gen = 1]
    /\ shot = [active |-> FALSE, count |-> 0]

-----------------------------------------------------------------------------
(* The scale. *)

MoveCup ==
    /\ pan.moves < MaxMoves
    /\ pan' = [cup |-> ~pan.cup, item |-> FALSE, zeroed |-> pan.cup /\ pan.zeroed, base |-> FALSE,
               moves |-> pan.moves + 1, apart |-> pan.cup /\ pan.apart]
    /\ ~pan.cup => ~pan.zeroed          \* bound: one cup is zeroed per behaviour
    /\ UNCHANGED <<air, window, approval, gen, slot, pending, worker, notice, tare, shot>>

(* An item is laid on the cup that was zeroed, or taken off it. *)
MoveItem ==
    /\ pan.moves < MaxMoves /\ pan.cup /\ pan.zeroed
    /\ pan' = [pan EXCEPT !.item = ~@, !.moves = @ + 1]
    /\ UNCHANGED <<air, window, approval, gen, slot, pending, worker, notice, tare, shot>>

Notify(frame) ==
    /\ air.frame = "none"
    /\ frame = "noise" => air.noise < MaxNoise
    /\ air' = [frame |-> frame, reading |-> Reading,
               after |-> slot.phase \in {"WRITING", "SUCCEEDED"}, fresh |-> FALSE,
               noise |-> IF frame = "noise" THEN air.noise + 1 ELSE air.noise]
    /\ UNCHANGED <<pan, window, approval, gen, slot, pending, worker, notice, tare, shot>>

(* The link is lost and made again; what was under way goes with it, the events of
   the old connection too: processScaleWorkerEvents drops them unread. *)
Reconnect ==
    /\ gen < MaxGenerations
    /\ gen' = gen + 1
    /\ air' = [air EXCEPT !.frame = "none", !.fresh = FALSE]
    /\ window' = <<>>
    /\ approval' = [approved |-> FALSE, granted |-> FALSE]
    /\ notice' = [notice EXCEPT !.event = "none"]
    /\ UNCHANGED <<pan, slot, pending, worker, tare, shot>>

-----------------------------------------------------------------------------
(* The worker.  publishScaleEvent empties a full window and marks the break. *)

WeightSample(discontinuity) == [reading |-> air.reading, after |-> air.after, break |-> discontinuity]
Published(w) == IF Len(w) = WindowCapacity THEN <<WeightSample(TRUE)>> ELSE Append(w, WeightSample(FALSE))
ReadFrame ==
    IF air.frame = "weight"
    THEN /\ window' = Published(window)
         /\ air' = [air EXCEPT !.frame = "none", !.fresh = TRUE]
         /\ approval' = [approved |-> FALSE, granted |-> FALSE]
    ELSE /\ air' = [air EXCEPT !.frame = "none"]
         /\ UNCHANGED <<window, approval>>

Poll ==
    /\ worker.pc = "idle" /\ air.frame # "none"
    /\ ReadFrame
    /\ UNCHANGED <<pan, gen, slot, pending, worker, notice, tare, shot>>

TakeCommand ==
    /\ worker.pc = "idle" /\ pending # <<>>
    /\ worker' = [pc |-> IF Head(pending).gen = gen THEN "admit" ELSE "finish",
                  id |-> Head(pending).id, gen |-> Head(pending).gen, ok |-> FALSE]
    /\ pending' = Tail(pending)
    /\ UNCHANGED <<pan, air, window, approval, gen, slot, notice, tare, shot>>

(* capturePreTareWeight publishes what has arrived before the admission looks. *)
Capture ==
    /\ worker.pc = "admit" /\ air.frame # "none"
    /\ ReadFrame
    /\ UNCHANGED <<pan, gen, slot, pending, worker, notice, tare, shot>>

(* finishIdleScaleTare leaves a slot that has gone to another request alone. *)
FinishedMutant(s, id, ok) == [s EXCEPT !.phase = IF ok THEN "SUCCEEDED" ELSE "FAILED"]
Finished(s, id, ok) ==
    IF s.id = id THEN [s EXCEPT !.phase = IF ok THEN "SUCCEEDED" ELSE "FAILED"] ELSE s

(* The tail of executeScaleTareCommand for a deferred idle tare. *)
BackInQueue(s, id) ==
    IF s.id = id /\ s.phase = "WRITING" THEN [s EXCEPT !.phase = "QUEUED"] ELSE s
Deferred(s) ==
    LET back == BackInQueue(s, worker.id) IN
    IF back.id # worker.id \/ back.phase # "QUEUED" THEN slot' = back /\ pending' = pending
    ELSE IF Len(pending) < QueueCapacity
    THEN slot' = back /\ pending' = Append(pending, [id |-> worker.id, gen |-> worker.gen])
    ELSE slot' = [back EXCEPT !.phase = "FAILED"] /\ pending' = pending

(* approveScaleWrite: the write is admitted when the newest sample is the one
   the control task approved for this request and nothing arrived since. *)
ClaimableMutant == approval.approved /\ air.fresh /\ slot.id = worker.id /\ slot.phase = "QUEUED"
Claimable ==
    /\ approval.approved /\ air.fresh
    /\ slot.id = worker.id /\ slot.phase = "QUEUED" /\ approval.granted
BeforeBoundary(w) == [i \in DOMAIN w |-> [w[i] EXCEPT !.after = FALSE]]
Admit ==
    /\ worker.pc = "admit" /\ air.frame = "none"
    /\ \/ /\ Claimable
          /\ slot' = [slot EXCEPT !.phase = "WRITING"]
          /\ window' = BeforeBoundary(window)
          /\ worker' = [worker EXCEPT !.pc = "write"]
          /\ UNCHANGED pending
       \/ /\ ~Claimable
          /\ Deferred(slot) /\ worker' = NoWork
          /\ UNCHANGED window
    /\ UNCHANGED <<pan, air, approval, gen, notice, tare, shot>>

(* approveScaleWrite fails a request that is older than its expiry, which a
   deferred request keeps. *)
Expire ==
    /\ worker.pc = "admit" /\ air.frame = "none"
    /\ slot' = Finished(slot, worker.id, FALSE)
    /\ worker' = NoWork
    /\ UNCHANGED <<pan, air, window, approval, gen, pending, notice, tare, shot>>

(* submitWrite refuses with EAGAIN when a notification came after the boundary.
   Otherwise the write succeeds, or it fails; a failed one may have been carried
   out, for an error response does not prove that the scale ignored the command. *)
Submitted == air.fresh
Write ==
    /\ worker.pc = "write"
    /\ IF worker.gen = gen /\ ~Submitted
       THEN Deferred(slot) /\ worker' = NoWork /\ UNCHANGED pan
       ELSE /\ \/ /\ worker.gen = gen
                  /\ pan' = Zeroed(pan) /\ worker' = [worker EXCEPT !.pc = "finish", !.ok = TRUE]
               \/ /\ worker.gen = gen
                  /\ pan' = ZeroedUnheard(pan) /\ worker' = [worker EXCEPT !.pc = "finish"]
               \/ UNCHANGED pan /\ worker' = [worker EXCEPT !.pc = "finish"]
            /\ UNCHANGED <<slot, pending>>
    /\ UNCHANGED <<air, window, approval, gen, notice, tare, shot>>

Finish ==
    /\ worker.pc = "finish"
    /\ slot' = Finished(slot, worker.id, worker.ok)
    /\ worker' = NoWork
    /\ UNCHANGED <<pan, air, window, approval, gen, pending, notice, tare, shot>>

(* executeScaleDebugCommand: the tare of the debug page has no request and no
   capture to agree on; it publishes what became of it. *)
DebugTare ==
    /\ worker.pc = "idle" /\ notice.count < MaxDebugTares
    /\ notice.event = "none"             \* bound: one of them is read before the next
    /\ \E ok \in BOOLEAN :
         /\ pan' \in {ZeroedUnheard(pan)} \cup (IF ok THEN {} ELSE {pan})
         /\ notice' = [event |-> IF ok THEN "done" ELSE "failed", count |-> notice.count + 1]
    /\ UNCHANGED <<air, window, approval, gen, slot, pending, worker, tare, shot>>

-----------------------------------------------------------------------------
(* The control task.  Its operators map a pair of the slot and the control
   task's record to the next pair: c.slot, c.tare. *)

Now == [slot |-> slot, tare |-> tare]

(* releaseIdleTareRequest: a request that is being written cannot be taken back. *)
ReferenceAfterMutant(t, released, old) ==
    IF ~t.still THEN t.reference
    ELSE CASE released = "SUCCEEDED" /\ t.notified -> "tared"
           [] released = "SUCCEEDED" /\ ~t.notified -> t.reference
           [] released # "SUCCEEDED" /\ t.notified -> IF t.accessory THEN "tared" ELSE "untared"
           [] OTHER -> t.reference
ReferenceAfter(t, released, old) ==
    IF ~t.still THEN t.reference
    ELSE CASE released = "SUCCEEDED" /\ t.notified -> "tared"
           [] released = "SUCCEEDED" /\ ~t.notified ->
                IF ~t.unchanged \/ old THEN "uncertain" ELSE t.reference
           [] released # "SUCCEEDED" /\ t.notified -> IF t.accessory THEN "tared" ELSE "untared"
           [] OTHER -> t.reference
TracksAfter(t, released) ==
    t.still /\ released = "SUCCEEDED" /\ t.notified /\ ~t.accessory /\ t.eligible /\ ~shot.active
Release(c, old) ==
    LET mine == c.slot.id = c.tare.req
        released == IF mine THEN c.slot.phase ELSE "NONE" IN
    IF mine /\ c.slot.phase = "WRITING" THEN [c EXCEPT !.tare.deferred = TRUE]
    ELSE [slot |-> IF mine THEN NoSlot ELSE c.slot,
          tare |-> [c.tare EXCEPT !.reference = ReferenceAfter(c.tare, released, old),
                                  !.tracked = @ \/ TracksAfter(c.tare, released),
                                  !.accessory = FALSE, !.req = 0, !.notified = FALSE, !.still = FALSE,
                                  !.unchanged = FALSE, !.deferred = FALSE]]

(* serviceIdleTare: a change of eligibility or of the connection, then the state
   of the slot, the cup, the age of the newest sample, and the time-out. *)
Changed(c, eligible) ==
    LET moved == gen # c.tare.gen
        t == [c.tare EXCEPT !.eligible = eligible, !.gen = gen, !.absent = FALSE,
                            !.tracked = FALSE, !.still = @ /\ ~moved]
        d == [c EXCEPT !.tare = t] IN
    IF eligible = c.tare.eligible /\ ~moved THEN c
    ELSE IF t.req # 0 /\ (moved \/ c.slot.phase = "QUEUED") THEN Release(d, FALSE) ELSE d
Checked(c, old, late) ==
    LET t == [c.tare EXCEPT !.still = @ /\ c.tare.present]
        d == [c EXCEPT !.tare = t]
        failed == c.slot.id # t.req \/ c.slot.phase \in {"NONE", "FAILED"} IN
    IF t.req = 0 THEN c
    ELSE IF \/ failed \/ ~t.still \/ late
            \/ c.slot.phase = "SUCCEEDED" /\ t.notified
            \/ c.slot.phase = "QUEUED" /\ old
    THEN Release(d, old) ELSE d
Serviced(c, active, old, late) == Checked(Changed(c, ~active), old, late)

Take(c) == slot' = c.slot /\ tare' = c.tare

ServiceIdleTare(old, late) ==
    /\ Take(Serviced(Now, shot.active, old, late))
    /\ UNCHANGED <<pan, air, window, approval, gen, pending, worker, notice, shot>>

Withdrawn(c) == IF c.tare.req # 0 /\ c.slot.phase = "QUEUED" THEN Release(c, FALSE) ELSE c

(* resetCupSampleEvidence: the empty pan has to be seen again. *)
Voided(c) == [c EXCEPT !.tare.absent = FALSE]
Broken(c, s) == IF s.break THEN Withdrawn(Voided(c)) ELSE c

(* observeIdleTareSample: the request is checked against the sample, and its
   effect is recognised by a reading near zero behind the boundary. *)
Observed(c, s) ==
    LET t == c.tare
        mine == c.slot.id = t.req
        near == s.reading = "zero"
        seen == [c EXCEPT !.tare = [t EXCEPT
                   !.unchanged = s.reading = t.plateau, !.notified = @ \/ near,
                   !.reference = IF ~t.notified /\ near /\ t.present THEN "tared" ELSE @]] IN
    IF t.req = 0 \/ ~t.still \/ ~mine THEN c
    ELSE IF c.slot.phase = "QUEUED"
         THEN (IF s.reading # t.plateau THEN Release(c, FALSE) ELSE c)
    ELSE IF c.slot.phase \in {"WRITING", "SUCCEEDED"} /\ s.after
         THEN (IF c.slot.phase = "SUCCEEDED" /\ seen.tare.notified THEN Release(seen, FALSE) ELSE seen)
    ELSE c

(* feedCupPresence decides on several samples: that a cup came or went, that the pan
   is empty.  observeIdleAccessory decides that the item on a tared cup changed. *)
Shown(verdict, t, s) ==
    CASE verdict = "placed" -> ~t.present /\ s.reading \in {"cup", "over"}
      [] verdict = "removed" ->
           /\ t.present
           /\ s.reading \in {"negative", "under"} \/ (s.reading = "zero" /\ t.reference = "untared")
      [] verdict = "empty" -> ~shot.active /\ ~t.present /\ t.eligible /\ s.reading = "zero"
      [] verdict = "retare" -> /\ ~shot.active /\ t.present /\ t.reference = "tared" /\ t.tracked
                               /\ t.eligible /\ t.req = 0 /\ t.next <= MaxRequests
                               /\ s.reading \in {"over", "under"}
      [] OTHER -> TRUE

(* handleIdleCupEvent, which a shot leaves out. *)
Lifted(c) == [c EXCEPT !.tare = [c.tare EXCEPT !.present = FALSE, !.reference = "untared"]]
Removed(c) ==
    LET d == [Lifted(c) EXCEPT !.tare.still = FALSE, !.tare.tracked = FALSE]
        r == IF c.tare.req # 0 THEN Release(d, FALSE) ELSE d IN
    [r EXCEPT !.tare.absent = r.tare.eligible]
Placed(c) ==
    [c EXCEPT !.tare = [c.tare EXCEPT !.present = TRUE, !.reference = "untared", !.absent = FALSE]]
Requests(c) ==
    ~shot.active /\ c.tare.absent /\ c.tare.eligible /\ c.tare.req = 0 /\ c.tare.next <= MaxRequests
Enqueued(c, s, accessory) ==
    LET id == c.tare.next IN
    IF c.slot.phase # "NONE" \/ Len(pending) >= QueueCapacity
    THEN [c EXCEPT !.tare.next = @ + 1]
    ELSE [slot |-> [id |-> id, phase |-> "QUEUED", gen |-> gen],
          tare |-> [c.tare EXCEPT !.req = id, !.next = @ + 1, !.still = TRUE,
                                  !.notified = FALSE, !.unchanged = FALSE, !.deferred = FALSE,
                                  !.plateau = s.reading, !.accessory = accessory]]
Decided(c, s, verdict) ==
    CASE verdict = "removed" -> IF shot.active THEN Lifted(c) ELSE Removed(c)
      [] verdict = "placed" -> IF Requests(c) THEN Enqueued(Placed(c), s, FALSE) ELSE Placed(c)
      [] verdict = "retare" -> Enqueued(c, s, TRUE)
      [] verdict = "empty" -> [c EXCEPT !.tare.absent = TRUE]
      [] OTHER -> c

(* recordWeightSampleWithProvenance: a sample that is too old or out of order is
   rejected, and an automatic tare it should have confirmed is taken back; one that
   is accepted approves the tare, outside a shot for the request in the slot too. *)
ReadsSample == window # <<>> /\ notice.event = "none"
RejectSample ==
    /\ ReadsSample
    /\ LET c == Broken(Now, Head(window)) IN
       Take(IF shot.active THEN c ELSE Withdrawn(Voided(Serviced(c, FALSE, FALSE, FALSE))))
    /\ approval' = [approval EXCEPT !.approved = FALSE]
    /\ window' = Tail(window)
    /\ UNCHANGED <<pan, air, gen, pending, worker, notice, shot>>

Evidence(s) ==
    LET c == Broken(Now, s) IN
    IF shot.active THEN c ELSE Observed(Serviced(c, FALSE, FALSE, FALSE), s)
Grants(c) == ~shot.active /\ c.tare.req # 0 /\ c.slot.id = c.tare.req /\ c.slot.phase = "QUEUED"
ReadSample(verdict) ==
    /\ ReadsSample
    /\ LET s == Head(window)
           newest == Len(window) = 1
           c == Evidence(s)
           done == Decided(c, s, verdict)
           asked == done.tare.req # 0 /\ done.tare.req # c.tare.req IN
       /\ Shown(verdict, c.tare, s)
       /\ Take(done)
       /\ pending' = IF asked THEN Append(pending, [id |-> done.tare.req, gen |-> gen]) ELSE pending
       /\ approval' = [approved |-> newest, granted |-> newest /\ (Grants(c) \/ asked)]
    /\ window' = Tail(window)
    /\ UNCHANGED <<pan, air, gen, worker, notice, shot>>

(* REFERENCE_CHANGED goes ahead of the samples: a request is taken back and the cup
   forgotten; otherwise the reference of the cup is the new zero, or is uncertain. *)
ReadNotice ==
    /\ notice.event # "none"
    /\ LET lost == [Lifted(Now) EXCEPT !.tare.still = FALSE]
           d == IF tare.req # 0 THEN Release(lost, FALSE) ELSE Now
           reference == CASE ~d.tare.present -> d.tare.reference
                          [] d.tare.present /\ notice.event = "done" -> "tared"
                          [] OTHER -> "uncertain" IN
       Take(Voided([d EXCEPT !.tare.reference = reference]))
    /\ notice' = [notice EXCEPT !.event = "none"]
    /\ UNCHANGED <<pan, air, window, approval, gen, pending, worker, shot>>

(* A start.  The paddle goes ahead of a request (idleTareBlocksStart with
   preempt); a web start takes a queued one back and waits for a written one. *)
PaddleStart ==
    /\ ~shot.active /\ shot.count < MaxShots
    /\ LET c == Serviced([Now EXCEPT !.tare.deferred = @ \/ tare.req # 0], FALSE, FALSE, FALSE)
           d == IF c.tare.req # 0 THEN Release(c, FALSE) ELSE c IN
       Take(Serviced(d, TRUE, FALSE, FALSE))
    /\ shot' = [active |-> TRUE, count |-> shot.count + 1]
    /\ UNCHANGED <<pan, air, window, approval, gen, pending, worker, notice>>
WebStart ==
    /\ ~shot.active /\ shot.count < MaxShots
    /\ LET c == Serviced(Now, FALSE, FALSE, FALSE) IN
       IF c.tare.req = 0
       THEN /\ Take(Serviced(c, TRUE, FALSE, FALSE))
            /\ shot' = [active |-> TRUE, count |-> shot.count + 1]
       ELSE Take(Withdrawn(c)) /\ UNCHANGED shot
    /\ UNCHANGED <<pan, air, window, approval, gen, pending, worker, notice>>
EndShot ==
    /\ shot.active
    /\ shot' = [shot EXCEPT !.active = FALSE]
    /\ UNCHANGED <<pan, air, window, approval, gen, slot, pending, worker, notice, tare>>

(* processScaleLinkTransitions: the disconnection forgets the cup. *)
ForgetCup ==
    /\ tare.seen # gen
    /\ tare' = [tare EXCEPT !.seen = gen, !.present = FALSE, !.reference = "untared"]
    /\ UNCHANGED <<pan, air, window, approval, gen, slot, pending, worker, notice, shot>>

-----------------------------------------------------------------------------
WorkerStep == Poll \/ TakeCommand \/ Capture \/ Admit \/ Expire \/ Write \/ Finish
ControlStep ==
    \/ \E old, late \in BOOLEAN : ServiceIdleTare(old, late)
    \/ \E verdict \in Verdicts : ReadSample(verdict)
    \/ RejectSample \/ ReadNotice
    \/ PaddleStart \/ WebStart \/ EndShot \/ ForgetCup
Environment == MoveCup \/ MoveItem \/ Reconnect \/ DebugTare \/ \E f \in {"weight", "noise"} : Notify(f)
Next == WorkerStep \/ ControlStep \/ Environment
Spec == Init /\ [][Next]_vars

(* Both tasks run for ever.  A request that is tried again and again passes its
   expiry, and a shot comes to an end. *)
Fairness == /\ WF_vars(WorkerStep) /\ SF_vars(Expire)
            /\ WF_vars(ServiceIdleTare(TRUE, TRUE)) /\ WF_vars(EndShot)
FairSpec == Spec /\ Fairness

-----------------------------------------------------------------------------
(* The shared slot and the request of the control task stay in step: a slot that
   is in use belongs to the request in progress, so that it cannot stay taken
   after its request ended and refuse every later one. *)
SlotIsOwned == slot.phase # "NONE" => slot.id # 0 /\ slot.id = tare.req

(* No idle tare begins to be written once a shot runs: a request that the start
   could not take back, because it was being written, is not claimed again when
   the write is deferred. *)
NoClaimInShot ==
    [][slot.phase # "WRITING" /\ slot'.phase = "WRITING" => ~shot.active]_vars

(* With no request left, the cup the control task believes in is read as it is: a
   tare it knows of was really done, and one that was done is known or the reference
   is marked uncertain, unless the scale had reported that it failed or the debug
   page asked for it. *)
ReferenceMatchesScale ==
    tare.req = 0 /\ tare.present /\ tare.seen = gen /\ pan.cup /\ pan.moves = 1 =>
        /\ tare.reference = "tared" => pan.zeroed
        /\ tare.reference = "untared" => ~pan.zeroed \/ pan.apart

(* A request ends, whatever the worker, the cup, the link and the shots do. *)
RequestEnds == (tare.req # 0) ~> (tare.req = 0)
=============================================================================
