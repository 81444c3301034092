---------------------------- MODULE MicraService ----------------------------
(* The cloud side of a La Marzocco Micra: the commands that the control task and
   the web ask for, the worker that carries them out over HTTP, and the events
   that must stop it: a shot, a save of the settings, another account, an outage.

   The worker holds a copy of what it works on, and every generation counter of
   the code exists to tell it that the copy is old.  A counter matters only as
   far as it equals the copy, so the model keeps the set of the counters that
   still do: job.holds for a command (request, configuration, identity, shot) and
   job.fresh for the stamp of a dashboard read.  A retry that is not due yet is a
   worker that has not chosen the command.  The connection type is WEBSOCKET. *)
EXTENDS Naturals

CONSTANTS Targets,     \* brew temperatures a preset may ask for
          MaxAttempts, \* kMaxAttempts (4 in the code)
          MaxEvents    \* bound: what reaches the service of one behaviour

ASSUME MicraAssumption ==
    /\ MaxAttempts \in Nat \ {0} /\ MaxEvents \in Nat

VARIABLES conf,      \* config_: whether an account is configured, the command options
          shot,      \* outboundShotActive, shotActive_, inhibitCloud() outstanding
          up,        \* the station has a network (and no access point runs)
          cleaning,  \* backflush_.status().busy()
          desired,   \* desiredTemperature_ and desiredPower_
          posted,    \* commands that found the mutex taken
          pending,   \* pending_: a connect, or a deferred observation
          abort,     \* abortRequested_
          session,   \* the token of the worker, and clearSessionRequested_
          published, \* published_, and whether it shows the machine of this identity
          candidate, \* candidate_ and discovery_: none, of this identity, or of an old one
          job,       \* the execution the worker is in
          left       \* events still to come

vars == <<conf, shot, up, cleaning, desired, posted, pending, abort, session, published,
          candidate, job, left>>

Modes == {"SET_STANDBY", "SET_POWER_ON"}
Commands == {"temperature", "power"}
Nothing == "none"
(* current: asked for in this shot generation; taken (a history): the cloud has
   accepted it, whether that was remembered or not. *)
NoCommand == [value |-> Nothing, accepted |-> FALSE, current |-> FALSE, taken |-> FALSE]
Command(v) == [value |-> v, accepted |-> FALSE, current |-> TRUE, taken |-> FALSE]
NoCommands == [k \in Commands |-> NoCommand]
Values(k) == IF k = "temperature" THEN Targets ELSE Modes

(* A read or a connect looks at the identity; a command does not, but what the
   worker copied with it is of one identity all the same. *)
Counters(k) == CASE k = "temperature" -> {"request", "configuration", "identity"}
                 [] k = "power" -> {"request", "configuration", "shot", "identity"}
                 [] OTHER -> {"identity"}
Stamp == {"identity", "epoch", "connection", "intent", "power", "temperature"}
Powers == {"ON", "OFF"}
NoAnswer == [target |-> Nothing, power |-> "UNKNOWN"]
NoJob == [pc |-> "select", kind |-> Nothing, value |-> Nothing, holds |-> {}, accepted |-> FALSE,
          tries |-> 0, error |-> "none", attempted |-> FALSE, fresh |-> {}, answer |-> NoAnswer,
          crossed |-> FALSE, shown |-> FALSE]

NoStatus == [mine |-> TRUE, target |-> Nothing, power |-> "UNKNOWN", state |-> "idle"]

Init ==
    /\ conf = [account |-> TRUE, options |-> Commands]
    /\ shot = [on |-> FALSE, seen |-> FALSE, inhibit |-> FALSE, scale |-> FALSE]
       \/ shot = [on |-> FALSE, seen |-> FALSE, inhibit |-> FALSE, scale |-> TRUE]
    /\ up = TRUE /\ cleaning = FALSE /\ abort = FALSE /\ session = "none"
    /\ desired = NoCommands /\ posted = [k \in Commands |-> Nothing] /\ pending = Nothing
    /\ published = NoStatus /\ candidate = "none" /\ job = NoJob
    /\ left = MaxEvents

Event == left > 0 /\ left' = left - 1

-----------------------------------------------------------------------------
(* Admission *)

InShot == shot.on \/ shot.seen
Paused == shot.scale /\ InShot                                  \* shotTransportPaused
NetworkEligible == up /\ ~Paused
TemperatureEligible == NetworkEligible /\ ~cleaning /\ ~InShot
Active(k) == job.kind = k

(* Checked before and after every step of an exchange. *)
RequestAllowed ==
    /\ NetworkEligible /\ ~abort
    /\ ~(InShot /\ job.kind \in Commands)

SameRequest == desired[job.kind].value # Nothing /\ "request" \in job.holds

(* temperatureRequestCurrent, powerRequestCurrent, identity- and
   observationCurrent. *)
Current ==
    CASE job.kind = "temperature" ->
             SameRequest /\ "configuration" \in job.holds /\ "temperature" \in conf.options
      [] job.kind = "power" ->
             /\ SameRequest /\ {"configuration", "shot"} \subseteq job.holds
             /\ "power" \in conf.options /\ ~cleaning
      [] OTHER -> "identity" \in job.holds /\ (job.kind = "observe" => conf.account)

-----------------------------------------------------------------------------
(* Commands: queueLocked, and post() for a control task that may not wait *)

(* What one lock acquisition makes of the commands cs: a command that is refused
   leaves the desire alone, one that is taken replaces it. *)
Admitted(k) ==
    /\ conf.account /\ k \in conf.options
    /\ k = "power" => ~InShot

Queue(ds, cs) == [k \in Commands |-> IF cs[k] # Nothing /\ Admitted(k) THEN Command(cs[k]) ELSE ds[k]]
Taken(cs) == {k \in Commands : cs[k] # Nothing /\ Admitted(k)}

(* A new command supersedes the one in execution. *)
Superseded(j, cs) == IF j.kind \in Taken(cs) THEN [j EXCEPT !.holds = @ \ {"request"}] ELSE j

QueueLocked(cs) ==
    /\ desired' = Queue(desired, cs)
    /\ abort' = (abort \/ job.kind \in Taken(cs))
    /\ job' = Superseded(job, cs)
    /\ published' = IF "temperature" \in Taken(cs) THEN [published EXCEPT !.state = "pending"] ELSE published

NonePosted == [k \in Commands |-> Nothing]

ControlIsFree == ~shot.inhibit

Post(k, v, contended) ==
    /\ ControlIsFree /\ Event
    /\ k = "power" => ~shot.on
    /\ IF contended
       THEN posted' = [posted EXCEPT ![k] = v] /\ UNCHANGED <<desired, abort, job, published>>
       ELSE posted' = NonePosted /\ QueueLocked([posted EXCEPT ![k] = v])
    /\ UNCHANGED <<conf, shot, up, cleaning, pending, session, candidate>>

(* Every later lock of the control task: its poll of the cleaning state. *)
ApplyPosted ==
    /\ ControlIsFree /\ posted # NonePosted
    /\ posted' = NonePosted /\ QueueLocked(posted)
    /\ UNCHANGED <<conf, shot, up, cleaning, pending, session, candidate, left>>

-----------------------------------------------------------------------------
(* The control task: paddle edges and shots *)

(* physicalStart: a cleaning program in progress cancels power commands, and a
   wake gesture is an intent that no earlier read may contradict. A contended
   edge is decided from the last resolution, and leaves the desire alone; one that
   gets the lock has applied what was posted. *)
PhysicalStart(contended) ==
    /\ ControlIsFree /\ ~shot.on /\ Event
    /\ contended \/ posted = NonePosted
    /\ \/ /\ cleaning /\ abort' = (abort \/ job.kind \in Commands) /\ job' = job
          /\ desired' = IF contended THEN desired ELSE [desired EXCEPT !["power"] = NoCommand]
       \/ /\ ~cleaning /\ ~contended /\ published.power = "OFF"
          /\ job' = [job EXCEPT !.fresh = @ \ {"intent"}]
          /\ UNCHANGED <<abort, desired>>
    /\ UNCHANGED <<conf, shot, up, cleaning, posted, pending, session, published, candidate>>

(* beginCycle publishes the shot, then inhibits the cloud. *)
ShotStarts ==
    /\ ControlIsFree /\ ~shot.on /\ ~cleaning /\ Event
    /\ shot' = [shot EXCEPT !.on = TRUE, !.inhibit = TRUE]
    /\ job' = [job EXCEPT !.crossed = @ \/ (job.pc = "answer" /\ job.kind \in Commands)]
    /\ UNCHANGED <<conf, up, cleaning, desired, posted, pending, abort, session, published, candidate>>

InhibitCloudMutOnlyWithScale ==
    /\ shot.inhibit
    /\ shot' = [shot EXCEPT !.inhibit = FALSE]
    /\ desired' = [desired EXCEPT !["power"].current = FALSE]
    /\ abort' = (abort \/ shot.scale)
    /\ job' = [job EXCEPT !.holds = @ \ {"shot"}]
    /\ UNCHANGED <<conf, up, cleaning, posted, pending, session, published, candidate, left>>

InhibitCloud ==
    /\ shot.inhibit
    /\ shot' = [shot EXCEPT !.inhibit = FALSE]
    /\ desired' = [desired EXCEPT !["power"].current = FALSE]
    /\ abort' = (abort \/ shot.scale \/ job.kind \in Commands)
    /\ job' = [job EXCEPT !.holds = @ \ {"shot"},
                          !.fresh = IF shot.scale THEN @ \ {"epoch"} ELSE @]
    /\ UNCHANGED <<conf, up, cleaning, posted, pending, session, published, candidate, left>>

(* The end of a shot, a rinse, or a start that the relay refused. *)
ShotEnds ==
    /\ ControlIsFree /\ shot.on
    /\ shot' = [shot EXCEPT !.on = FALSE]
    /\ UNCHANGED <<conf, up, cleaning, desired, posted, pending, abort, session, published,
                   candidate, job, left>>

-----------------------------------------------------------------------------
(* The network task, which the worker cannot interrupt: publishNetworkState *)

NetworkState(sta) ==
    /\ sta # up \/ shot.on # shot.seen
    /\ IF up /\ ~sta THEN Event ELSE UNCHANGED left
    /\ up' = sta /\ shot' = [shot EXCEPT !.seen = shot.on]
    /\ LET starts == shot.on /\ ~shot.seen
           lost == up /\ ~sta
       IN /\ desired' = IF starts THEN [desired EXCEPT !["power"] = NoCommand] ELSE desired
          /\ abort' = (abort \/ (starts /\ (shot.scale \/ job.kind \in Commands)) \/ lost)
          /\ session' = IF lost /\ session = "open" THEN "clearing" ELSE session
          /\ job' = IF lost THEN [job EXCEPT !.fresh = @ \ {"epoch", "connection"}] ELSE job
    /\ UNCHANGED <<conf, cleaning, posted, pending, published, candidate>>

CancelsExecutionMutCommandsOnly(identityChanged, off) == job.kind \in off \cap conf.options

(* What a save aborts: everything of another identity, and the execution of a
   command that is switched off. *)
CancelsExecution(identityChanged, off) ==
    \/ identityChanged
    \/ /\ job.kind \in off \cap conf.options
       /\ job.kind = "temperature" \/ desired["power"].value # Nothing

(* publishConfig: another account cancels everything; an option that is switched
   off cancels its command; any save makes the copy of the worker old, but a
   command that is still wanted goes on with the new configuration. *)
PublishConfig(identityChanged, account, options) ==
    /\ account # conf.account => identityChanged
    /\ Event
    /\ conf' = [account |-> account, options |-> options]
    /\ LET off == Commands \ options
       IN /\ desired' = [k \in Commands |-> IF identityChanged \/ k \in off THEN NoCommand ELSE desired[k]]
          /\ abort' = (abort \/ CancelsExecution(identityChanged, off))
          /\ job' = [job EXCEPT !.holds = @ \ (IF identityChanged THEN {"configuration", "identity"}
                                               ELSE {"configuration"}),
                                !.fresh = IF identityChanged THEN @ \ {"identity", "epoch"} ELSE @]
          /\ published' = IF identityChanged THEN NoStatus
                          ELSE IF "temperature" \in off THEN [published EXCEPT !.state = "idle"]
                          ELSE published
          /\ pending' = IF identityChanged THEN Nothing ELSE pending
          /\ session' = IF identityChanged /\ session = "open" THEN "clearing" ELSE session
    /\ candidate' = IF identityChanged \/ options # conf.options THEN "none"
                    ELSE candidate
    /\ UNCHANGED <<shot, up, cleaning, posted>>

QueueConnect ==
    /\ pending = Nothing /\ job.kind = Nothing /\ Event
    /\ pending' = "connect" /\ candidate' = "none"
    /\ UNCHANGED <<conf, shot, up, cleaning, desired, posted, abort, session, published, job>>

-----------------------------------------------------------------------------
(* The socket: what the machine pushes *)

Cleaning(busy) ==
    /\ busy # cleaning /\ cleaning' = busy
    /\ IF busy THEN Event /\ ~shot.on /\ conf.account /\ up ELSE UNCHANGED left
    /\ UNCHANGED <<conf, shot, up, desired, posted, pending, abort, session, published, candidate, job>>

(* A push is newer than any read in flight. Pushes between two reads are left
   out: they change what the next one starts from, as one before the stamp does. *)
Push(target, power) ==
    /\ job.pc \in {"read", "reading"} /\ up /\ conf.account /\ Event
    /\ published' = [published EXCEPT !.target = target, !.power = power]
    /\ job' = [job EXCEPT !.fresh = @ \ {"power", "temperature"},
                          !.shown = @ \/ (job.accepted /\ target = job.value)]
    /\ UNCHANGED <<conf, shot, up, cleaning, desired, posted, pending, abort, session, candidate>>

(* The socket is lost, or the machine goes offline and comes back. *)
SocketLost ==
    /\ job.pc = "reading" /\ "connection" \in job.fresh /\ Event
    /\ job' = [job EXCEPT !.fresh = @ \ {"connection"}]
    /\ UNCHANGED <<conf, shot, up, cleaning, desired, posted, pending, abort, session, published, candidate>>

-----------------------------------------------------------------------------
(* The worker *)

Goto(pc) == job' = [job EXCEPT !.pc = pc]

TopMutKeepsAbort ==
    /\ UNCHANGED abort
    /\ session' = IF session = "clearing" \/ job.kind = "connect" THEN "none" ELSE session
    /\ job' = NoJob

(* The top of the loop: only the idle worker consumes a cancellation, before it
   selects new work. It comes here from an execution, or after a wait; a connect
   gives its session up. *)
Top ==
    /\ abort' = FALSE
    /\ session' = IF session = "clearing" \/ job.kind = "connect" THEN "none" ELSE session
    /\ job' = NoJob

Finish ==
    /\ job.pc = "finish" /\ Top
    /\ UNCHANGED <<conf, shot, up, cleaning, desired, posted, pending, published, candidate, left>>

(* The desire the worker leaves behind when it looks for work. *)
PowerIsCurrent == desired["power"].current /\ ~cleaning

Selectable ==
    IF pending # Nothing /\ NetworkEligible THEN {pending}
    ELSE {k \in Commands : /\ NetworkEligible /\ ~InShot /\ desired[k].value # Nothing
                           /\ k = "temperature" => ~cleaning
                           /\ k = "power" => PowerIsCurrent}
         \cup (IF NetworkEligible /\ conf.account THEN {"observe"} ELSE {})

DropsOldPower == desired' = IF PowerIsCurrent THEN desired ELSE [desired EXCEPT !["power"] = NoCommand]

(* The worker takes k, and copies what it works with. *)
Select(k) ==
    /\ job.pc = "select" /\ k \in Selectable /\ DropsOldPower
    /\ job' = [NoJob EXCEPT !.pc = "gate", !.kind = k, !.holds = Counters(k),
                            !.value = IF k \in Commands THEN desired[k].value ELSE Nothing,
                            !.accepted = k \in Commands /\ desired[k].accepted]
    /\ pending' = IF pending = k THEN Nothing ELSE pending
    /\ published' = IF k = "temperature" THEN [published EXCEPT !.state = "pending"] ELSE published
    /\ UNCHANGED <<conf, shot, up, cleaning, posted, abort, session, candidate, left>>

SelectNothing ==
    /\ job.pc = "select" /\ Top /\ DropsOldPower
    /\ UNCHANGED <<conf, shot, up, cleaning, posted, pending, published, candidate, left>>

(* deferTemperature and deferPower: only the request that failed is deferred, or
   dropped when another attempt would not help. *)
Defer(retryable) ==
    /\ desired' = IF SameRequest /\ ~retryable THEN [desired EXCEPT ![job.kind] = NoCommand] ELSE desired
    /\ published' = IF SameRequest /\ job.kind = "temperature"
                    THEN [published EXCEPT !.state = "failed"] ELSE published

(* deferObservation: the read is queued again, ahead of the commands. *)
DeferObservation ==
    /\ pending' = IF Current /\ pending = Nothing THEN "observe" ELSE pending
    /\ Goto("finish")

(* The top of the attempt loop. *)
Gate ==
    /\ job.pc = "gate"
    /\ CASE ~Current -> Goto("finish") /\ UNCHANGED <<desired, published, pending>>
         [] Current /\ job.kind = "temperature" /\ ~TemperatureEligible ->
                Goto("finish") /\ Defer(TRUE) /\ UNCHANGED pending
         [] Current /\ job.kind = "power" /\ (InShot \/ ~NetworkEligible) ->
                Goto("finish") /\ Defer(~InShot) /\ UNCHANGED pending
         [] Current /\ job.kind = "observe" /\ ~NetworkEligible ->
                DeferObservation /\ UNCHANGED <<desired, published>>
         [] OTHER -> Goto("session") /\ UNCHANGED <<desired, published, pending>>
    /\ UNCHANGED <<conf, shot, up, cleaning, posted, abort, session, candidate, left>>

Failed(error) ==
    job' = [job EXCEPT !.pc = "failed", !.error = IF job.attempted /\ ~job.accepted THEN @ ELSE error,
                        !.fresh = {}, !.answer = NoAnswer]

(* ensureSession: the token of the worker, or a sign-in; a connect always
   registers and signs in with the credentials it was given. *)
Session ==
    /\ job.pc = "session"
    /\ LET ready == CASE job.kind = "connect" -> "list"
                      [] job.kind = "observe" -> "read"
                      [] OTHER -> IF ~Current THEN "failed"
                                  ELSE IF job.accepted THEN "read" ELSE "send"
       IN \/ /\ session # "none" /\ job.kind # "connect" /\ Goto(ready) /\ UNCHANGED session
          \/ /\ (session = "none" \/ job.kind = "connect") /\ RequestAllowed
             /\ Goto(ready)
             /\ session' = IF session = "clearing" THEN session ELSE "open"
          \/ /\ session = "none" \/ job.kind = "connect"
             /\ \E e \in {"retry", "auth"} : (e = "auth" => RequestAllowed) /\ Failed(e)
             /\ UNCHANGED session
    /\ UNCHANGED <<conf, shot, up, cleaning, desired, posted, pending, abort, published, candidate, left>>

(* The command leaves: from here on the cloud may carry it out. *)
Send ==
    /\ job.pc = "send"
    /\ IF RequestAllowed
       THEN job' = [job EXCEPT !.pc = "answer", !.attempted = TRUE, !.crossed = FALSE]
       ELSE job' = [job EXCEPT !.pc = "failed", !.attempted = TRUE, !.error = "retry"]
    /\ UNCHANGED <<conf, shot, up, cleaning, desired, posted, pending, abort, session, published,
                   candidate, left>>

Answer ==
    /\ job.pc = "answer"
    /\ \/ /\ RequestAllowed /\ job' = [job EXCEPT !.pc = "note", !.accepted = TRUE]
          /\ desired' = IF SameRequest THEN [desired EXCEPT ![job.kind].taken = TRUE] ELSE desired
       \/ \E e \in {"retry", "auth", "rejected"} :
              /\ e # "retry" => RequestAllowed
              /\ job' = [job EXCEPT !.pc = "failed", !.error = e, !.crossed = FALSE]
              /\ UNCHANGED desired
    /\ UNCHANGED <<conf, shot, up, cleaning, posted, pending, abort, session, published,
                   candidate, left>>

(* An accepted command is remembered with the request, for later executions. *)
RememberedMutOnlyIfCurrent == Current

Remembered == SameRequest /\ (job.kind = "power" => "shot" \in job.holds)

Note ==
    /\ job.pc = "note"
    /\ desired' = IF Remembered THEN [desired EXCEPT ![job.kind].accepted = TRUE] ELSE desired
    /\ job' = [job EXCEPT !.pc = IF Current THEN "read" ELSE "failed", !.crossed = FALSE,
                          !.error = "none"]
    /\ UNCHANGED <<conf, shot, up, cleaning, posted, pending, abort, session, published, candidate, left>>

(* readDashboard: the stamp, the exchange, and the merge under the lock. *)
Read ==
    /\ job.pc = "read"
    /\ IF RequestAllowed THEN job' = [job EXCEPT !.pc = "reading", !.fresh = Stamp]
                         ELSE Failed("retry")
    /\ UNCHANGED <<conf, shot, up, cleaning, desired, posted, pending, abort, session, published,
                   candidate, left>>

Reading(target, power) ==
    /\ job.pc = "reading" /\ RequestAllowed
    /\ job' = [job EXCEPT !.pc = "merge", !.answer = [target |-> target, power |-> power],
                          !.shown = @ \/ (job.accepted /\ target = job.value)]
    /\ UNCHANGED <<conf, shot, up, cleaning, desired, posted, pending, abort, session, published,
                   candidate, left>>

ReadFails ==
    /\ job.pc = "reading"
    /\ \E e \in {"retry", "auth"} : (e = "auth" => RequestAllowed) /\ Failed(e)
    /\ UNCHANGED <<conf, shot, up, cleaning, desired, posted, pending, abort, session, published,
                   candidate, left>>

(* MicraObservationFence::merge: an old epoch fails the read, an old connection
   is passed over, and a field that was pushed meanwhile keeps the push. *)
MergedPower == IF {"connection", "power", "intent"} \subseteq job.fresh THEN job.answer.power ELSE published.power
MergedTarget == IF {"connection", "temperature"} \subseteq job.fresh THEN job.answer.target ELSE published.target

Wanted(power) == IF job.value = "SET_STANDBY" THEN power = "OFF" ELSE power = "ON"

Merge ==
    /\ job.pc = "merge"
    /\ IF abort \/ ~{"identity", "epoch"} \subseteq job.fresh \/ Paused
       THEN Failed("retry") /\ UNCHANGED published
       ELSE /\ published' = [published EXCEPT !.power = MergedPower, !.target = MergedTarget,
                !.mine = @ /\ ("connection" \in job.fresh => "identity" \in job.holds)]
            /\ IF CASE job.kind = "temperature" -> MergedTarget = job.value
                    [] job.kind = "power" -> Wanted(MergedPower)
                    [] OTHER -> TRUE
               THEN job' = [job EXCEPT !.pc = "settle", !.fresh = {}, !.answer = NoAnswer] ELSE Failed("retry")
    /\ UNCHANGED <<conf, shot, up, cleaning, desired, posted, pending, abort, session, candidate, left>>

(* Success: the desire is cleared if it is still the same one. *)
Settle ==
    /\ job.pc = "settle" /\ Goto("finish")
    /\ IF job.kind \in Commands /\ SameRequest
       THEN /\ desired' = [desired EXCEPT ![job.kind] = NoCommand]
            /\ published' = IF job.kind = "temperature" THEN [published EXCEPT !.state = "confirmed"]
                            ELSE published
       ELSE UNCHANGED <<desired, published>>
    /\ UNCHANGED <<conf, shot, up, cleaning, posted, pending, abort, session, candidate, left>>

(* listMachines of a connect, and the candidate it stores under the lock. *)
List ==
    /\ job.pc = "list"
    /\ \/ RequestAllowed /\ Current /\ Goto("store")
       \/ Failed("retry")
    /\ UNCHANGED <<conf, shot, up, cleaning, desired, posted, pending, abort, session, published,
                   candidate, left>>

OfIdentity == IF "identity" \in job.holds THEN "current" ELSE "old"

Store ==
    /\ job.pc = "store" /\ Goto("finish")
    /\ candidate' = IF Current THEN OfIdentity ELSE candidate
    /\ UNCHANGED <<conf, shot, up, cleaning, desired, posted, pending, abort, session, published, left>>

(* The end of a failed attempt: an error that a retry cannot mend, or the last
   attempt, ends the execution; an accepted command is always worth another. *)
Exhausted == job.tries + 1 = MaxAttempts \/ (job.error = "rejected" /\ ~job.accepted)

AttemptFails ==
    /\ job.pc = "failed"
    /\ session' = IF job.error = "auth" /\ session = "open" THEN "none" ELSE session
    /\ CASE job.kind = "connect" -> Goto("finish") /\ UNCHANGED <<desired, published, pending>>
         [] job.kind # "connect" /\ ~Current -> Goto("finish") /\ UNCHANGED <<desired, published, pending>>
         [] job.kind = "observe" /\ Current /\ (abort \/ (~NetworkEligible /\ ~Paused)) ->
                DeferObservation /\ UNCHANGED <<desired, published>>
         [] job.kind = "temperature" /\ Current /\ ~TemperatureEligible ->
                Goto("finish") /\ Defer(TRUE) /\ UNCHANGED pending
         [] OTHER ->
                IF Exhausted
                THEN /\ Goto("finish") /\ UNCHANGED pending
                     /\ IF job.kind \in Commands
                        THEN Defer(job.accepted \/ job.error \notin {"auth", "rejected"})
                        ELSE UNCHANGED <<desired, published>>
                ELSE /\ job' = [job EXCEPT !.pc = "gate", !.tries = @ + 1]
                     /\ UNCHANGED <<desired, published, pending>>
    /\ UNCHANGED <<conf, shot, up, cleaning, posted, abort, candidate, left>>

-----------------------------------------------------------------------------
Control ==
    \/ \E k \in Commands, contended \in BOOLEAN : \E v \in Values(k) : Post(k, v, contended)
    \/ ApplyPosted \/ ShotStarts \/ InhibitCloud \/ ShotEnds
    \/ \E contended \in BOOLEAN : PhysicalStart(contended)

Network ==
    \/ \E sta \in BOOLEAN : NetworkState(sta)
    \/ \E c \in BOOLEAN, a \in BOOLEAN, o \in SUBSET Commands : PublishConfig(c, a, o)
    \/ QueueConnect

Machine ==
    \/ \E busy \in BOOLEAN : Cleaning(busy)
    \/ \E t \in Targets, p \in Powers : Push(t, p)
    \/ SocketLost

Worker ==
    \/ Finish \/ SelectNothing \/ \E k \in Commands \cup {"observe", "connect"} : Select(k)
    \/ Gate \/ Session \/ Send \/ Answer \/ Note \/ Read
    \/ \E t \in Targets \cup {Nothing}, p \in Powers : Reading(t, p)
    \/ ReadFails \/ Merge \/ Settle \/ List \/ Store \/ AttemptFails

Next == Control \/ Network \/ Machine \/ Worker

Spec == Init /\ [][Next]_vars

(* The worker runs, the other tasks finish what they began, a network comes back,
   and a retry time passes. The cloud answers a command that is tried for ever,
   and in the end the dashboard shows what the command asked for. *)
SignsIn == job.kind = "temperature" /\ Session /\ job'.pc # "failed"
Accepts == job.kind = "temperature" /\ Answer /\ job'.pc = "note"
Shows == job.kind = "temperature" /\ \E p \in Powers : Reading(job.value, p)

FairSpec ==
    /\ Spec /\ WF_vars(Worker) /\ WF_vars(NetworkState(TRUE))
    /\ WF_vars(InhibitCloud) /\ WF_vars(ShotEnds) /\ WF_vars(Cleaning(FALSE))
    /\ SF_vars(Select("temperature")) /\ SF_vars(SignsIn) /\ SF_vars(Accepts) /\ SF_vars(Shows)

-----------------------------------------------------------------------------
(* A shot that begins while a command is at the cloud cancels it, however short
   the shot is: the answer is not taken once a shot has begun (STATE_MACHINES.md
   "Power commands are canceled when a shot starts"; request, inhibitCloud). *)
ShotCancelsCommand == job.pc = "note" => ~job.crossed

(* What is published, and the machines that are offered for selection, are those
   of the identity that is configured: an execution that copied the settings of
   another account publishes nothing over the new one (M115; publishConfig). *)
ShowsThisIdentity == published.mine /\ candidate # "old"

(* A command that the cloud has accepted is not sent again, whatever interrupts
   the execution that sent it: later executions only read the dashboard (M112,
   M114; executeTemperatureApplication, executePowerApplication). *)
AcceptedIsSentOnce ==
    [][job.pc = "send" /\ job'.pc = "answer" /\ SameRequest => ~desired[job.kind].taken]_vars

(* A temperature is settled: confirmed, refused for good, or canceled. A shot, a
   save, an outage or a cleaning program only delays it (deferTemperature,
   deferPower, taskLoop). *)
TemperatureSettles ==
    (desired["temperature"].value # Nothing) ~> (desired["temperature"].value = Nothing)

(* A temperature is confirmed only when a readback has shown it since the cloud
   accepted the command: "then confirmed with retryable false when readback
   matches" (docs/MANUAL_TEST_PLAN.md, M112). *)
ConfirmedByReadback ==
    [][published.state # "confirmed" /\ published'.state = "confirmed" => job.shown]_vars
=============================================================================
