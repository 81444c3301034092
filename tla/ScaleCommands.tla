--------------------------- MODULE ScaleCommands ---------------------------
(* The commands that the control task sends to the Bluetooth scale and the
   worker task that executes them: the link snapshot with its connection
   generation, the command queue, the one-slot beep mailboxes, the remote
   power-off with the generation it blocks, and the life of the remote timer of
   a shot (START, delayed STOP, retries).  The BLE client library is external
   here: scale.up says whether it holds a link; a submitted write may fail, and one
   that is reported as failed may have been carried out.

   Between two steps of the worker the control task, the link and the scale may
   all move: a command is checked when it is taken, again when the library asks
   for its admission, and only then submitted.  A START is one write or up to three,
   each with an admission of its own. *)
EXTENDS Naturals, Sequences, FiniteSets

CONSTANTS Bounds,         \* bounds: [cycles, generations] of one behaviour, and the room
                          \* in scaleCommandQueue (queue, of SCALE_COMMAND_QUEUE_LENGTH)
          MaxAttempts,    \* SCALE_STOP_MAX_ATTEMPTS
          Beeps,          \* the beep mailboxes, a subset of AllBeeps
          WriteFaults     \* whether a submitted write may fail

ASSUME BoundsAssumption ==
    /\ Bounds \subseteq [cycles : Nat \ {0}, generations : Nat \ {0}, queue : Nat \ {0}]
    /\ MaxAttempts \in Nat \ {0} /\ WriteFaults \in BOOLEAN

VARIABLES bound,    \* the bounds of this behaviour
          scale,    \* the device and the library's link to it
          link,     \* ScaleLinkSnapshot: what the worker has published
          queue,    \* scaleCommandQueue
          mail,     \* the beep mailboxes: the generation addressed, 0 when empty
          power,    \* the power-off mailbox and the generation it blocks
          worker,   \* the worker's place in its loop
          events,   \* scaleEventQueue
          command,  \* activeScaleCommandCycle
          session,  \* the shot's remote timer as the control task sees it
          caller    \* the control task inside requestScalePowerOff

vars == <<bound, scale, link, queue, mail, power, worker, events, command, session, caller>>
control == <<session, command, caller>>
MaxCycles == bound.cycles
MaxGenerations == bound.generations
QueueLength == bound.queue

AllBeeps == {"brew", "reminder", "completion"}
Cycles == 0..MaxCycles
Generations == 0..MaxGenerations
NoJob == [kind |-> "stop", cycle |-> 0, gen |-> 0]

(* In the order in which the worker empties the mailboxes. *)
BeepOrder == <<"brew", "reminder", "completion">>

Connected == link.state = "CONNECTED"
BlocksMutant(g) == g # 0 /\ power.pending = g
Blocks(g) == g # 0 /\ power.blocked = g
Idle == [pc |-> "tick", job |-> NoJob, op |-> "only", clear |-> 0, back |-> "tick", result |-> "none"]

FreshSession(c) ==
    [id |-> c, active |-> TRUE, queued |-> FALSE, settled |-> FALSE, started |-> FALSE,
     due |-> FALSE, requested |-> FALSE, inQueue |-> FALSE, stop |-> "none",
     attempts |-> 0, window |-> FALSE]

Init ==
    /\ bound \in Bounds
    /\ scale = [up |-> FALSE, timer |-> 0, told |-> FALSE]
    /\ link = [state |-> "DISCONNECTED", gen |-> 0, disc |-> 0]
    /\ queue = <<>> /\ events = <<>> /\ command = 0 /\ caller = 0
    /\ mail = [b \in Beeps |-> 0]
    /\ power = [pending |-> 0, blocked |-> 0, sent |-> FALSE]
    /\ worker = Idle
    /\ session = [FreshSession(0) EXCEPT !.active = FALSE]

-----------------------------------------------------------------------------
(* The scale and the library. *)

ScaleConnects ==
    /\ worker.pc = "tick" /\ ~scale.up /\ ~Connected /\ link.gen < MaxGenerations
    /\ scale' = [up |-> TRUE, timer |-> 0, told |-> FALSE]
    /\ UNCHANGED <<link, queue, mail, power, worker, events, control>>

ScaleDrops ==
    /\ scale.up
    /\ scale' = [up |-> FALSE, timer |-> 0, told |-> FALSE]
    /\ UNCHANGED <<link, queue, mail, power, worker, events, control>>

-----------------------------------------------------------------------------
(* The worker: publication of the link. *)

(* setScaleLinkState: the snapshot changes in one section, the power-off
   lifecycle is cleared in another one afterwards. *)
NothingToClear == MaxGenerations + 1
Published(up) ==
    IF up = Connected THEN link
    ELSE IF up THEN [link EXCEPT !.state = "CONNECTED", !.gen = @ + 1]
    ELSE [link EXCEPT !.state = "DISCONNECTED", !.disc = @ + 1]
ToClear(up) ==
    CASE up /\ ~Connected -> link.gen + 1
      [] ~up /\ Connected /\ Blocks(link.gen) -> 0
      [] OTHER -> NothingToClear
UpdateLink(up, next) ==
    /\ link' = Published(up)
    /\ worker' = IF ToClear(up) = NothingToClear THEN next
                 ELSE [next EXCEPT !.pc = "clear", !.clear = ToClear(up), !.back = next.pc]

ClearLifecycle ==
    /\ worker.pc = "clear"
    /\ power' = IF worker.clear = 0 \/ power.blocked # worker.clear
                THEN [pending |-> 0, blocked |-> 0, sent |-> FALSE]
                ELSE power
    /\ worker' = [worker EXCEPT !.pc = worker.back, !.clear = 0, !.back = "tick"]
    /\ UNCHANGED <<scale, link, queue, mail, events, control>>

(* The head of a pass: the power-off timeout, and the link as the library has it. *)
Tick ==
    /\ worker.pc = "tick"
    /\ UpdateLink(scale.up, [Idle EXCEPT !.pc = "take"])
    /\ UNCHANGED <<scale, queue, mail, power, events, control>>

PowerOffTimesOut ==
    /\ worker.pc = "tick" /\ power.sent /\ Blocks(link.gen)
    /\ scale' = [up |-> FALSE, timer |-> 0, told |-> FALSE]
    /\ UpdateLink(FALSE, [Idle EXCEPT !.pc = "take"])
    /\ UNCHANGED <<queue, mail, power, events, control>>

-----------------------------------------------------------------------------
(* The worker: one thing to send per pass. *)

TakePowerOff ==
    /\ worker.pc = "take" /\ power.pending # 0
    /\ power' = [power EXCEPT !.pending = 0]
    /\ worker' = IF Connected /\ power.pending = link.gen
                 THEN [worker EXCEPT !.pc = "off"] ELSE worker
    /\ UNCHANGED <<scale, link, queue, mail, events, control>>

(* executeScalePowerOffCommand: sent is noted before the write. *)
SendPowerOff ==
    /\ worker.pc = "off"
    /\ power' = IF scale.up THEN [power EXCEPT !.sent = TRUE] ELSE power
    /\ worker' = [worker EXCEPT !.pc = IF scale.up THEN "offwrite" ELSE "report"]
    /\ UNCHANGED <<scale, link, queue, mail, events, control>>
WritePowerOff ==
    /\ worker.pc = "offwrite"
    /\ \/ scale' = [scale EXCEPT !.told = scale.up]
       \/ WriteFaults /\ UNCHANGED scale
    /\ worker' = [worker EXCEPT !.pc = "report"]
    /\ UNCHANGED <<link, queue, mail, power, events, control>>

(* executeScaleStartCommand: the combined write when the shot is configured for it and
   the scale has it; otherwise the timer is reset, where the scale can do that, and
   started, and the tare follows when the shot tares. *)
FirstOps(job) == IF job.kind = "start" THEN {"combined", "reset", "timer"} ELSE {"only"}
Stale(job) == job.gen = 0 \/ job.gen # link.gen \/ ~Connected \/ Blocks(job.gen)

TakeCommand ==
    /\ worker.pc = "take" /\ power.pending = 0 /\ queue # <<>>
    /\ queue' = Tail(queue)
    /\ LET job == Head(queue) IN
       \/ /\ Stale(job)
          /\ worker' = [worker EXCEPT !.job = job, !.pc = "event", !.result = "skipped"]
       \/ /\ ~Stale(job)
          /\ \E op \in FirstOps(job) :
               worker' = [worker EXCEPT !.job = job, !.pc = "admit", !.op = op, !.result = "none"]
    /\ UNCHANGED <<scale, link, mail, power, events, control>>

(* takeScaleBrewBeep and its two siblings: the mailbox is emptied also when what
   it held is refused, and the next mailbox is then looked at in the same pass. *)
TakeBeep ==
    /\ worker.pc = "take" /\ power.pending = 0 /\ queue = <<>>
    /\ \E i \in DOMAIN BeepOrder :
         LET b == BeepOrder[i]
             job == [kind |-> b, cycle |-> 0, gen |-> mail[b]] IN
         /\ b \in Beeps /\ mail[b] # 0
         /\ \A j \in 1..(i - 1) : BeepOrder[j] \in Beeps => mail[BeepOrder[j]] = 0
         /\ mail' = [mail EXCEPT ![b] = 0]
         /\ worker' = IF Stale(job) THEN worker ELSE [worker EXCEPT !.job = job, !.pc = "admit"]
    /\ UNCHANGED <<scale, link, queue, power, events, control>>

NothingToSend ==
    /\ worker.pc = "take" /\ power.pending = 0 /\ queue = <<>> /\ \A b \in Beeps : mail[b] = 0
    /\ worker' = Idle
    /\ UNCHANGED <<scale, link, queue, mail, power, events, control>>

(* The admission callback of the library (approveScaleWrite,
   approveScaleGeneration): a START or a tare also needs its shot to be the one
   in progress.  A beep is admitted for the connection of this moment. *)
Admitted(job) ==
    /\ job.kind \in {"start", "tare"} => job.cycle = command
    /\ ~Blocks(IF job.kind \in AllBeeps THEN link.gen ELSE job.gen)

(* A write that is not admitted ends the command; a STOP whose link is lost after the
   last look at it counts as tried.  A START that began stays one. *)
Ended(result) == [worker EXCEPT !.pc = "report", !.result = IF @ = "ok" THEN @ ELSE result]
Admit ==
    /\ worker.pc = "admit"
    /\ \/ scale.up /\ Admitted(worker.job) /\ worker' = [worker EXCEPT !.pc = "write"]
       \/ ~(scale.up /\ Admitted(worker.job)) /\ worker' = Ended("skipped")
       \/ ~scale.up /\ worker.job.kind = "stop" /\ worker' = Ended("failed")
    /\ UNCHANGED <<scale, link, queue, mail, power, events, control>>

Effect(job, op) ==
    CASE job.kind = "start" /\ op \in {"combined", "timer"} -> [scale EXCEPT !.timer = job.cycle]
      [] job.kind = "stop" \/ op = "reset" -> [scale EXCEPT !.timer = 0]
      [] OTHER -> scale
NextOps(op) == CASE op = "reset" -> {"timer"} [] op = "timer" -> {"tare", "end"} [] OTHER -> {"end"}
Continued(op) ==
    LET done == IF worker.op = "reset" THEN "none" ELSE "ok" IN
    IF op = "end" THEN [worker EXCEPT !.pc = "report", !.result = "ok"]
    ELSE [worker EXCEPT !.pc = "admit", !.op = op, !.result = done]
Write ==
    /\ worker.pc = "write"
    /\ \/ /\ scale.up /\ scale' = Effect(worker.job, worker.op)
          /\ \E op \in NextOps(worker.op) : worker' = Continued(op)
       \/ /\ ~scale.up \/ WriteFaults
          /\ scale' \in {scale} \cup IF scale.up THEN {Effect(worker.job, worker.op)} ELSE {}
          /\ worker' = Ended("failed")
    /\ UNCHANGED <<link, queue, mail, power, events, control>>

(* updateWorkerLinkState after the write, before the result is published. *)
HasResult(job) == job.kind \in {"start", "stop", "tare"} /\ job # NoJob
Report ==
    /\ worker.pc = "report"
    /\ UpdateLink(scale.up, IF HasResult(worker.job) THEN [worker EXCEPT !.pc = "event"] ELSE Idle)
    /\ UNCHANGED <<scale, queue, mail, power, events, control>>

(* publishScaleEvent: the result carries the generation of its command and the
   disconnection count of now. *)
PublishResult ==
    /\ worker.pc = "event"
    /\ events' = Append(events, [job |-> worker.job, disc |-> link.disc, result |-> worker.result])
    /\ worker' = Idle
    /\ UNCHANGED <<scale, link, queue, mail, power, control>>

-----------------------------------------------------------------------------
(* The control task: commands.  enqueueScaleCommand stamps the generation, refuses
   the one that a power-off blocks, and drops the command when the queue is full. *)

Stamped(kind, c) == [kind |-> kind, cycle |-> c, gen |-> link.gen]
Accepts(q) == ~Blocks(link.gen) /\ Len(q) < QueueLength
Appended(q, kind, c) == IF Accepts(q) THEN Append(q, Stamped(kind, c)) ELSE q

(* tryQueueRemoteTimerStop: in front of the queue only when START was answered. *)
CanQueueStop(s) ==
    /\ s.requested /\ ~s.inQueue /\ s.stop # "ok" /\ s.attempts < MaxAttempts /\ s.window
    /\ Connected
StopTried(s, q) ==
    IF ~CanQueueStop(s) THEN s
    ELSE [s EXCEPT !.attempts = @ + 1, !.inQueue = Accepts(q),
                   !.stop = IF Accepts(q) THEN "pending" ELSE "skipped"]
StopQueued(s, q) ==
    IF ~CanQueueStop(s) \/ ~Accepts(q) THEN q
    ELSE IF s.settled THEN <<Stamped("stop", s.id)>> \o q ELSE Append(q, Stamped("stop", s.id))

(* requestRemoteTimerStop. *)
StopAskedMutant(s) ==
    IF ~s.started \/ s.requested THEN s
    ELSE [s EXCEPT !.requested = TRUE, !.window = TRUE, !.stop = "skipped"]
StopAsked(s) ==
    IF ~s.queued \/ s.requested THEN s
    ELSE [s EXCEPT !.requested = TRUE, !.window = TRUE, !.stop = "skipped"]
Completed(s) == StopTried(StopAsked([s EXCEPT !.due = FALSE]), queue)
CompletedQueue(s) == StopQueued(StopAsked([s EXCEPT !.due = FALSE]), queue)

(* A start flushes the delayed STOP of the shot before, then forgets that shot. *)
Flushed(q) == IF session.due THEN StopQueued(StopAsked([session EXCEPT !.due = FALSE]), q) ELSE q
Started(q, c) == IF Connected THEN Appended(q, "start", c) ELSE q
QueueOfStartMutant(c) == Flushed(Started(queue, c))
QueueOfStart(c) == Started(Flushed(queue), c)
BeginCycle ==
    /\ ~session.active /\ session.id < MaxCycles /\ caller = 0
    /\ command' = session.id + 1
    /\ queue' = QueueOfStart(session.id + 1)
    /\ session' = [FreshSession(session.id + 1) EXCEPT !.queued = Connected /\ Accepts(Flushed(queue))]
    /\ UNCHANGED <<scale, link, mail, power, worker, events, caller>>

(* finalizeCycle, and scheduleScaleTimerStopAfterCycle that waits for the
   scale's timer to show the time of the shot. *)
EndCycle ==
    /\ session.active /\ caller = 0
    /\ command' = 0
    /\ mail' = IF "brew" \in Beeps THEN [mail EXCEPT !["brew"] = 0] ELSE mail
    /\ session' = [session EXCEPT !.active = FALSE, !.due = session.queued /\ ~session.requested]
    /\ UNCHANGED <<scale, link, queue, power, worker, events, caller>>

(* servicePendingScaleTimerStop: the timer got there, or the wait is over. *)
StopIsDue ==
    /\ session.due /\ caller = 0
    /\ session' = Completed(session)
    /\ queue' = CompletedQueue(session)
    /\ UNCHANGED <<scale, link, mail, power, worker, events, command, caller>>

(* serviceRemoteTimerStopRetry. *)
RetryStop ==
    /\ CanQueueStop(session) /\ caller = 0
    /\ session' = StopTried(session, queue)
    /\ queue' = StopQueued(session, queue)
    /\ UNCHANGED <<scale, link, mail, power, worker, events, command, caller>>

WindowCloses ==
    /\ session.window /\ session.requested
    /\ session' = [session EXCEPT !.window = FALSE]
    /\ UNCHANGED <<scale, link, queue, mail, power, worker, events, command, caller>>

Retare ==
    /\ session.active /\ Connected /\ Accepts(queue) /\ caller = 0 /\ session.settled
    /\ \A i \in DOMAIN queue : queue[i].kind # "tare"
    /\ worker.job.kind # "tare" /\ \A i \in DOMAIN events : events[i].job.kind # "tare"
    /\ queue' = Appended(queue, "tare", session.id)
    /\ UNCHANGED <<scale, link, mail, power, worker, events, control>>

RequestBeep(b) ==
    /\ Connected /\ ~Blocks(link.gen) /\ caller = 0
    /\ mail' = [mail EXCEPT ![b] = link.gen]
    /\ UNCHANGED <<scale, link, queue, power, worker, events, control>>

(* requestScalePowerOff: the snapshot is read first; the mailbox and the block
   are written in another section. *)
ReadForPowerOff ==
    /\ caller = 0 /\ Connected
    /\ caller' = link.gen
    /\ UNCHANGED <<scale, link, queue, mail, power, worker, events, session, command>>
RequestPowerOff ==
    /\ caller # 0
    /\ IF power.blocked = caller THEN UNCHANGED <<power, mail>>
       ELSE /\ power' = [pending |-> caller, blocked |-> caller, sent |-> FALSE]
            /\ mail' = [b \in Beeps |-> 0]
    /\ caller' = 0
    /\ UNCHANGED <<scale, link, queue, worker, events, session, command>>

(* processScaleWorkerEvents: a result of another link epoch is thrown away. *)
SameEpoch(e) == e.job.gen = link.gen /\ e.disc = link.disc
Settles(s, e) ==
    IF e.job.kind = "tare" \/ e.job.cycle # s.id \/ ~SameEpoch(e) THEN s
    ELSE IF e.job.kind = "start" THEN [s EXCEPT !.settled = TRUE, !.started = e.result = "ok"]
    ELSE [s EXCEPT !.inQueue = FALSE, !.stop = e.result]
ProcessEvent ==
    /\ events # <<>> /\ caller = 0
    /\ session' = Settles(session, Head(events))
    /\ events' = Tail(events)
    /\ UNCHANGED <<scale, link, queue, mail, power, worker, command, caller>>

-----------------------------------------------------------------------------
WorkerStep ==
    \/ ClearLifecycle \/ Tick \/ PowerOffTimesOut \/ TakePowerOff \/ SendPowerOff
    \/ WritePowerOff \/ TakeCommand \/ TakeBeep \/ NothingToSend \/ Admit \/ Write
    \/ Report \/ PublishResult
ControlStep ==
    \/ BeginCycle \/ EndCycle \/ StopIsDue \/ RetryStop \/ WindowCloses \/ Retare
    \/ ReadForPowerOff \/ RequestPowerOff \/ ProcessEvent
    \/ \E b \in Beeps : RequestBeep(b)
Next ==
    /\ WorkerStep \/ ControlStep \/ ScaleConnects \/ ScaleDrops
    /\ UNCHANGED bound

Spec == Init /\ [][Next]_vars

(* The worker's loop runs for ever, and the control loop serves the events, the
   delayed STOP and its retry in every pass. *)
Fairness ==
    /\ WF_vars(UNCHANGED bound /\ WorkerStep)
    /\ WF_vars(UNCHANGED bound /\ (ProcessEvent \/ StopIsDue \/ RetryStop \/ RequestPowerOff))
FairSpec == Spec /\ Fairness

-----------------------------------------------------------------------------
(* A power-off holds: accepted for the connection that is up, it blocks that
   connection until it ends, although the worker clears the lifecycle in a section
   of its own after it published the connection; and a connection that was told to
   power off is told nothing more, so that neither a queued command, nor the beep of
   a mailbox, nor a retried STOP wakes the scale again (requestScalePowerOff,
   clearScalePowerOffLifecycle, scalePowerOffBlocksGeneration). *)
PowerOffHolds ==
    [][/\ Connected /\ Blocks(link.gen) => link' # link \/ power'.blocked = link.gen
       /\ worker.pc = "write" /\ worker'.pc # "write" => ~scale.told]_vars

(* What is written to a scale was meant for this connection of it, and the STOP of
   one shot never stops the timer of a later one, whatever the order in which START,
   the delayed STOP, its retries and the next START are queued
   (executeScaleCommand, tryQueueRemoteTimerStop). *)
CommandIsForItsShot ==
    worker.pc = "write" /\ worker.job.kind \notin AllBeeps =>
        /\ worker.job.gen = link.gen
        /\ worker.job.kind = "stop" /\ scale.up => scale.timer <= worker.job.cycle

(* The scale's timer does not run on after the shot, although the write that started
   it may have been reported as failed: it is stopped, or the write of STOP failed, or
   STOP found no room in the queue until its tries or their time were used up, or a
   later shot began, or the connection ended or is being powered off. *)
NoRoomForStop ==
    session.stop = "skipped" /\ ~session.inQueue /\ (session.attempts = MaxAttempts \/ ~session.window)
TimerIsStopped ==
    (scale.timer = session.id /\ scale.timer # 0 /\ ~session.active)
        ~> (scale.timer # session.id \/ session.stop = "failed" \/ NoRoomForStop \/ power.blocked # 0)
=============================================================================
