---------------------------- MODULE ScaleClient ----------------------------
(* The Bluetooth client of the scale: the worker task that scans, connects,
   discovers, subscribes, writes commands and tears a link down, and the host
   task whose callbacks report to it.  Each step below is one critical section,
   or one call into the host, of either task.

   A link belongs to an operation, the number of the scan that led to it; all
   links have the same connection handle, as a controller reuses them.  A GATT
   operation is a pair of that number and a stage. *)
EXTENDS Naturals, Sequences

CONSTANTS MaxScans,      \* bound: scans of one behaviour
          MaxCommands,   \* bound: commands on one link
          MaxResets,     \* bound: host resets
          RadioFaults    \* whether the host may refuse a procedure

ASSUME ClientAssumption ==
    MaxScans \in Nat \ {0} /\ MaxCommands \in Nat /\ MaxResets \in Nat /\ RadioFaults \in BOOLEAN

VARIABLES stack,    \* the host and the controller: what is under way on the air
          host,     \* the callback the host task is in
          client,   \* the client's state, its operations and its flags
          cleanup,  \* the link whose closure is still to be confirmed
          inbox,    \* the event queues and the candidate mailbox
          task      \* the worker's place in the client's code

clientVars == <<stack, host, client, cleanup, inbox, task>>

NoGatt == <<0, 0>>
Discovery == <<"DiscoveringServices", "DiscoveringCharacteristics", "DiscoveringDescriptors",
               "Subscribing", "Initializing">>
Stages == 1..Len(Discovery)
Deadline == {Discovery[i] : i \in Stages} \cup {"Connecting"}
NoHost == [pc |-> "idle", kind |-> "none", op |-> 0, gatt |-> NoGatt, ok |-> FALSE]
NoCleanup == [op |-> 0, sync |-> 0, handle |-> FALSE, terminate |-> FALSE, gap |-> FALSE]
EmptyInbox == [critical |-> <<>>, candidate |-> 0, control |-> <<>>]
NoWrite == [on |-> FALSE, done |-> FALSE, interrupted |-> FALSE, ok |-> FALSE]
AtHome == [pc |-> "home", proc |-> "none", back |-> "none", rc |-> "none", term |-> FALSE,
         reason |-> "none", initial |-> "Scanning", rescan |-> FALSE,
         command |-> "none", op |-> 0]

ClientInit ==
    /\ stack = [ready |-> TRUE, sync |-> 1, scan |-> 0, attempt |-> 0, link |-> 0, closing |-> FALSE,
                gatt |-> NoGatt, acked |-> NoGatt, quiet |-> FALSE]
    /\ host = NoHost
    /\ client = [state |-> "Idle", active |-> FALSE, sync |-> 0, scans |-> 0, scanOp |-> 0,
                 linkOp |-> 0, gattOp |-> NoGatt, handle |-> FALSE, connected |-> FALSE,
                 pending |-> FALSE, submit |-> FALSE, silent |-> FALSE, gapInSubmit |-> FALSE,
                 queued |-> FALSE, backoffScan |-> FALSE, closed |-> FALSE, commands |-> 0,
                 write |-> NoWrite]
    /\ cleanup = NoCleanup
    /\ inbox = EmptyInbox
    /\ task = AtHome

-----------------------------------------------------------------------------
(* The host task.  Every callback is admitted by the operation it was registered
   with; what it reports is pushed to a queue in a later section. *)

Push(kind, op, gatt, ok) ==
    host' = [pc |-> "push", kind |-> kind, op |-> op, gatt |-> gatt, ok |-> ok]

PushEvent ==
    /\ host.pc = "push"
    /\ LET e == [kind |-> host.kind, op |-> host.op, gatt |-> host.gatt, ok |-> host.ok] IN
       inbox' = IF host.kind = "gatt" THEN [inbox EXCEPT !.control = Append(@, e)]
                ELSE [inbox EXCEPT !.critical = Append(@, e)]
    /\ host' = NoHost
    /\ UNCHANGED <<stack, client, cleanup, task>>

Advertise ==
    /\ host.pc = "idle" /\ stack.scan # 0
    /\ client.state = "Scanning" /\ stack.scan = client.scanOp /\ ~client.queued
    /\ client' = [client EXCEPT !.queued = TRUE]
    /\ inbox' = [inbox EXCEPT !.candidate = stack.scan]
    /\ UNCHANGED <<stack, host, cleanup, task>>

ScanStops ==
    /\ host.pc = "idle" /\ stack.scan # 0 /\ RadioFaults
    /\ stack' = [stack EXCEPT !.scan = 0]
    /\ IF stack.scan = client.scanOp THEN Push("scan", stack.scan, NoGatt, TRUE) ELSE host' = host
    /\ UNCHANGED <<client, cleanup, inbox, task>>

(* BLE_GAP_EVENT_CONNECT: for the current operation, or for the one being
   cleaned up, whose link is then to be terminated. *)
CurrentConnect(op) == op = client.linkOp /\ client.state = "Connecting" /\ ~client.pending
CleanupConnect(op) == op = cleanup.op /\ cleanup.sync = stack.sync
AfterCleanupConnectMutant(ok) ==
    IF cleanup.handle THEN cleanup ELSE IF ok THEN [cleanup EXCEPT !.handle = TRUE] ELSE NoCleanup
AfterCleanupConnect(ok) ==
    IF cleanup.handle THEN cleanup
    ELSE IF ok THEN [cleanup EXCEPT !.handle = TRUE, !.terminate = TRUE]
    ELSE NoCleanup
ConnectDone(ok) ==
    /\ host.pc = "idle" /\ stack.attempt # 0
    /\ LET op == stack.attempt IN
       /\ stack' = [stack EXCEPT !.attempt = 0, !.link = IF ok THEN op ELSE @]
       /\ IF CurrentConnect(op)
          THEN /\ client' = [client EXCEPT !.handle = @ \/ ok, !.connected = TRUE]
               /\ Push("connect", op, NoGatt, ok)
               /\ UNCHANGED cleanup
          ELSE /\ cleanup' = IF CleanupConnect(op) THEN AfterCleanupConnect(ok) ELSE cleanup
               /\ UNCHANGED <<client, host>>
    /\ UNCHANGED <<inbox, task>>

(* The link is gone before the callback of BLE_GAP_EVENT_DISCONNECT runs. *)
LinkEnded ==
    /\ host.pc = "idle" /\ stack.link # 0
    /\ stack' = [stack EXCEPT !.link = 0, !.closing = FALSE]
    /\ host' = [NoHost EXCEPT !.pc = "gap", !.op = stack.link]
    /\ UNCHANGED <<client, cleanup, inbox, task>>

GapOfCleanup ==
    host.op = cleanup.op /\ ~cleanup.gap /\ cleanup.handle /\ cleanup.sync = stack.sync
GapCleanup ==
    /\ host.pc = "gap"
    /\ IF GapOfCleanup
       THEN /\ cleanup' = [cleanup EXCEPT !.gap = TRUE]
            /\ client' = IF client.submit THEN [client EXCEPT !.gapInSubmit = TRUE]
                         ELSE [client EXCEPT !.silent = TRUE]
            /\ stack' = [stack EXCEPT !.quiet = TRUE]
            /\ host' = NoHost
       ELSE host' = [host EXCEPT !.pc = "arm"] /\ UNCHANGED <<cleanup, client, stack>>
    /\ UNCHANGED <<inbox, task>>

(* armGapSilenceIfCurrent. *)
Armed(c) ==
    [c EXCEPT !.pending = TRUE, !.silent = @ \/ ~c.submit, !.write.interrupted = @ \/ c.write.on]
GapCurrent ==
    /\ host.pc = "arm"
    /\ IF host.op = client.linkOp /\ client.handle
       THEN /\ client' = Armed(client)
            /\ stack' = [stack EXCEPT !.quiet = TRUE]
            /\ Push("disconnect", host.op, NoGatt, TRUE)
       ELSE host' = NoHost /\ UNCHANGED <<client, stack>>
    /\ UNCHANGED <<cleanup, inbox, task>>

(* The callback of a GATT procedure; its success is only possible on its link. *)
Acknowledges(g, ok) == IF ok /\ g[2] > Len(Discovery) THEN g ELSE stack.acked
MatchGatt(g) == g # NoGatt /\ g = client.gattOp
GattDone(ok) ==
    /\ host.pc = "idle" /\ stack.gatt # NoGatt
    /\ ok => stack.link = stack.gatt[1]
    /\ stack' = [stack EXCEPT !.gatt = NoGatt, !.acked = Acknowledges(stack.gatt, ok)]
    /\ host' = IF MatchGatt(stack.gatt)
               THEN [pc |-> "result", kind |-> "gatt", op |-> stack.gatt[1], gatt |-> stack.gatt, ok |-> ok]
               ELSE host
    /\ UNCHANGED <<client, cleanup, inbox, task>>
GattResult ==
    /\ host.pc = "result"
    /\ IF host.gatt[2] <= Len(Discovery)
       THEN host' = [host EXCEPT !.pc = "push"] /\ UNCHANGED client
       ELSE /\ client' = IF MatchGatt(host.gatt) /\ client.write.on /\ ~client.write.done
                         THEN [client EXCEPT !.write.done = TRUE, !.write.ok = host.ok] ELSE client
            /\ host' = NoHost
    /\ UNCHANGED <<stack, cleanup, inbox, task>>

(* A reset forgets every procedure and every link.  The host is not back before
   the worker came out of the client. *)
HostReset ==
    /\ stack.ready /\ stack.sync <= MaxResets
    /\ stack' = [stack EXCEPT !.ready = FALSE, !.scan = 0, !.attempt = 0, !.link = 0, !.gatt = NoGatt,
                             !.closing = FALSE]
    /\ UNCHANGED <<host, client, cleanup, inbox, task>>
HostSync ==
    /\ ~stack.ready /\ task.pc = "home" /\ host.pc = "idle"
    /\ stack' = [stack EXCEPT !.ready = TRUE, !.sync = @ + 1]
    /\ UNCHANGED <<host, client, cleanup, inbox, task>>

(* SCALE_DISCONNECT_SILENCE_MS after the silence was armed. *)
SilenceEnds ==
    /\ client.silent
    /\ client' = [client EXCEPT !.silent = FALSE]
    /\ stack' = [stack EXCEPT !.quiet = FALSE]
    /\ UNCHANGED <<host, cleanup, inbox, task>>

-----------------------------------------------------------------------------
(* The worker: submitRadioProcedure, in three steps, and what follows it. *)

Radio(w, proc, back) == [w EXCEPT !.pc = "submit", !.proc = proc, !.back = back]
FinishLink(w, term, reason) == [w EXCEPT !.pc = "finish", !.term = term, !.reason = reason]
Return(w) == IF w.command = "none" THEN AtHome ELSE [w EXCEPT !.pc = "judge"]

MaySubmitMutant == ~client.submit /\ ~client.pending
MaySubmit ==
    /\ ~client.submit /\ ~client.pending
    /\ ~client.silent \/ (task.proc = "command" /\ client.closed)
Submit ==
    /\ task.pc = "submit"
    /\ IF MaySubmit
       THEN client' = [client EXCEPT !.submit = TRUE] /\ task' = [task EXCEPT !.pc = "call"]
       ELSE UNCHANGED client /\ task' = [task EXCEPT !.pc = "done", !.rc = "busy"]
    /\ UNCHANGED <<stack, host, cleanup, inbox>>

(* What the host does with each procedure, and what it answers. *)
Performed(proc) ==
    CASE proc = "scan" -> [stack EXCEPT !.scan = client.scanOp]
      [] proc \in {"select", "stopScan"} -> [stack EXCEPT !.scan = 0]
      [] proc = "connect" -> [stack EXCEPT !.attempt = client.linkOp]
      [] proc \in {"gatt", "command"} -> [stack EXCEPT !.gatt = client.gattOp]
      [] proc = "terminate" -> [stack EXCEPT !.closing = TRUE]
      [] proc = "stopConnect" -> stack      \* a failed CONNECT event follows
Possible(proc) ==
    /\ stack.ready
    /\ proc = "connect" => stack.attempt = 0
    /\ proc \in {"gatt", "command", "terminate"} => stack.link # 0
    /\ proc = "stopConnect" => stack.attempt # 0
Answer(rc) == task' = [task EXCEPT !.pc = "end", !.rc = rc]
Accepted ==
    /\ task.pc = "call" /\ Possible(task.proc)
    /\ stack' = Performed(task.proc)
    /\ Answer("ok")
    /\ UNCHANGED <<host, client, cleanup, inbox>>
Refused ==
    /\ task.pc = "call" /\ (~Possible(task.proc) \/ RadioFaults)
    /\ Answer(IF task.proc = "terminate" /\ stack.ready /\ stack.link = 0 THEN "gone" ELSE "error")
    /\ UNCHANGED <<stack, host, client, cleanup, inbox>>

Submitted(c) ==
    [c EXCEPT !.submit = FALSE, !.gapInSubmit = FALSE, !.silent = @ \/ c.pending \/ c.gapInSubmit]
EndSubmit ==
    /\ task.pc = "end"
    /\ client' = Submitted(client)
    /\ task' = [task EXCEPT !.pc = "done"]
    /\ UNCHANGED <<stack, host, cleanup, inbox>>

(* What the caller of each procedure does with its answer. *)
ScanAnswered ==
    /\ task.proc = "scan"
    /\ IF task.rc = "ok"
       THEN /\ client' = [client EXCEPT !.backoffScan = TRUE, !.state = task.initial]
            /\ task' = Return(task)
       ELSE /\ task' = FinishLink(task, FALSE, IF task.rc = "busy" /\ client.silent
                                                   THEN "none" ELSE "scan")
            /\ UNCHANGED client
    /\ UNCHANGED cleanup
(* beginSettle, which begins the connection at once: SCALE_CONNECT_SETTLE_MS is 0. *)
BeginSettle ==
    /\ client' = [client EXCEPT !.state = "Connecting", !.linkOp = client.scans, !.connected = FALSE]
    /\ task' = Radio(task, "connect", "none")
SelectAnswered ==
    /\ task.proc = "select"
    /\ IF task.rc = "ok"
       THEN BeginSettle
       ELSE task' = FinishLink(task, FALSE, "scan") /\ UNCHANGED client
    /\ UNCHANGED cleanup
ConnectAnswered ==
    /\ task.proc = "connect"
    /\ IF task.rc = "ok" THEN task' = [task EXCEPT !.pc = "events"] /\ UNCHANGED client
       ELSE /\ client' = [client EXCEPT !.connected = TRUE]
            /\ task' = FinishLink(task, FALSE, "connect")
    /\ UNCHANGED cleanup
GattAnswered ==
    /\ task.proc = "gatt"
    /\ task' = IF task.rc = "ok" THEN [task EXCEPT !.pc = "events"]
                 ELSE FinishLink(task, TRUE, "gatt")
    /\ UNCHANGED <<client, cleanup>>
StopAnswered ==
    /\ task.proc \in {"stopScan", "stopConnect"}
    /\ task' = [task EXCEPT !.pc = "reconcile", !.back = "clear"]
    /\ UNCHANGED <<client, cleanup>>
TerminateAnswered ==
    /\ task.proc = "terminate"
    /\ IF cleanup.op = task.op /\ ~cleanup.gap
       THEN /\ cleanup' = IF task.rc = "gone" THEN NoCleanup
                          ELSE [cleanup EXCEPT !.terminate = @ /\ task.rc # "ok"]
            /\ client' = [client EXCEPT !.silent = TRUE]
       ELSE UNCHANGED <<cleanup, client>>
    /\ task' = IF task.back = "clear" THEN [task EXCEPT !.pc = "clear"] ELSE Return(task)
CommandAnswered ==
    /\ task.proc = "command"
    /\ IF task.rc = "ok" THEN task' = [task EXCEPT !.pc = "await"] /\ UNCHANGED client
       ELSE /\ client' = [client EXCEPT !.write = NoWrite, !.gattOp = NoGatt]
            /\ task' = [task EXCEPT !.pc = "service",
                                        !.command = IF task.rc = "busy" THEN "rejected" ELSE "failed"]
    /\ UNCHANGED cleanup
Answered ==
    /\ task.pc = "done"
    /\ \/ ScanAnswered \/ SelectAnswered \/ ConnectAnswered \/ GattAnswered
       \/ StopAnswered \/ TerminateAnswered \/ CommandAnswered
    /\ UNCHANGED <<stack, host, inbox>>

-----------------------------------------------------------------------------
(* The worker: finishLink.  invalidateGeneration forgets the operations, and
   hands a link that is up, or an attempt without an answer, to the cleanup. *)

TerminatesPeer(w) == w.term /\ w.reason # "reset" /\ ~client.pending
HandsOver == client.handle \/ (client.state = "Connecting" /\ ~client.connected)
Invalidated ==
    [client EXCEPT !.state = "Idle", !.active = FALSE, !.backoffScan = FALSE, !.handle = FALSE,
                   !.pending = FALSE, !.scanOp = 0, !.linkOp = 0, !.gattOp = NoGatt,
                   !.closed = FALSE, !.commands = 0]
CleanupAfter(w) ==
    IF w.reason = "reset" THEN NoCleanup
    ELSE IF TerminatesPeer(w) /\ HandsOver
    THEN [op |-> client.linkOp, sync |-> client.sync, handle |-> client.handle,
          terminate |-> client.handle, gap |-> FALSE]
    ELSE cleanup
Teardown(w) ==
    IF ~client.silent /\ client.state \in {"Scanning", "CancelPending", "Backoff"}
    THEN Radio(w, "stopScan", "none")
    ELSE IF ~client.silent /\ client.state = "Connecting" /\ ~client.connected
    THEN Radio(w, "stopConnect", "none")
    ELSE [w EXCEPT !.pc = "reconcile", !.back = "clear"]
EndLink ==
    /\ task.pc = "finish"
    /\ IF client.active
       THEN /\ client' = Invalidated
            /\ cleanup' = CleanupAfter(task)
            /\ task' = Teardown(task)
       ELSE /\ client' = [client EXCEPT !.state =
                            IF @ = "Backoff" /\ task.reason \notin {"user", "reset"} THEN @ ELSE "Idle"]
            /\ cleanup' = IF task.reason = "reset" THEN NoCleanup ELSE cleanup
            /\ task' = IF task.rescan THEN [task EXCEPT !.pc = "scan"] ELSE Return(task)
    /\ UNCHANGED <<stack, host, inbox>>

(* reconcileLinkCleanup: a link still up is terminated, once the silence is over. *)
Reconcile ==
    /\ task.pc = "reconcile"
    /\ cleanup' = IF cleanup.gap THEN NoCleanup ELSE cleanup
    /\ task' =
         IF ~cleanup.gap /\ cleanup.terminate /\ ~client.silent /\ stack.ready /\ cleanup.sync = stack.sync
         THEN [Radio(task, "terminate", task.back) EXCEPT !.op = cleanup.op]
         ELSE IF task.back = "clear" THEN [task EXCEPT !.pc = "clear"]
         ELSE IF cleanup.op = 0 THEN [task EXCEPT !.pc = "pending"]
         ELSE Return(task)
    /\ UNCHANGED <<stack, host, client, inbox>>

(* The tail: the queues are emptied, a writer is woken, and a retryable loss
   waits in Backoff, with a scan under way when the radio may be used. *)
Retryable(reason) == reason \notin {"none", "user", "reset", "unsupported"}
Clear ==
    /\ task.pc = "clear"
    /\ inbox' = EmptyInbox
    /\ client' = [client EXCEPT
         !.write = IF @.on THEN [@ EXCEPT !.interrupted = TRUE, !.on = FALSE] ELSE @,
         !.state = IF Retryable(task.reason) THEN "Backoff" ELSE @]
    /\ task' = IF Retryable(task.reason) /\ task.reason # "scan"
                    /\ ~client.silent /\ cleanup.op = 0
                 THEN [task EXCEPT !.pc = "scan", !.initial = "Backoff"]
                 ELSE IF task.rescan THEN [task EXCEPT !.pc = "scan", !.initial = "Scanning"]
                 ELSE Return(task)
    /\ UNCHANGED <<stack, host, cleanup>>

(* beginConfiguredScan. *)
ScanAllowedMutant == ~client.silent
ScanAllowed == ~client.silent /\ cleanup.op = 0
BeginScan ==
    /\ task.pc = "scan"
    /\ IF ScanAllowed
       THEN /\ client.scans < MaxScans
            /\ client' = [client EXCEPT !.scans = @ + 1, !.scanOp = client.scans + 1, !.active = TRUE,
                                        !.sync = stack.sync, !.queued = FALSE]
            /\ inbox' = [inbox EXCEPT !.candidate = 0]
            /\ task' = [Radio(task, "scan", "none") EXCEPT !.rescan = FALSE]
       ELSE UNCHANGED <<client, inbox>> /\ task' = Return(task)
    /\ UNCHANGED <<stack, host, cleanup>>

-----------------------------------------------------------------------------
(* The worker: service, and the calls of the facade. *)

Enter(pc) == task.pc = "home" /\ task' = [AtHome EXCEPT !.pc = pc]

Service == Enter("service") /\ UNCHANGED <<stack, host, client, cleanup, inbox>>

(* startScan for the target of before, for another one, and disconnect. *)
StartScan(other) ==
    /\ task.pc = "home" /\ stack.ready /\ client.sync \in {0, stack.sync}
    /\ ~client.silent /\ cleanup.op = 0
    /\ client.state \in {"Scanning", "Backoff"} => other
    /\ task' = IF client.state = "Idle" THEN [AtHome EXCEPT !.pc = "scan"]
                 ELSE [FinishLink(AtHome, TRUE, "none") EXCEPT !.rescan = TRUE]
    /\ UNCHANGED <<stack, host, client, cleanup, inbox>>
Disconnect ==
    /\ task.pc = "home" /\ client.state # "Idle"
    /\ task' = FinishLink(AtHome, TRUE, "user")
    /\ UNCHANGED <<stack, host, client, cleanup, inbox>>

CheckHost ==
    /\ task.pc = "service"
    /\ LET changed == client.sync \notin {0, stack.sync}
           down == ~stack.ready /\ (client.state # "Idle" \/ cleanup.op # 0) IN
       /\ task' = IF changed \/ down THEN FinishLink(task, FALSE, "reset")
                    ELSE [task EXCEPT !.pc = "reconcile", !.back = "pending"]
       /\ client' = IF changed THEN [client EXCEPT !.sync = stack.sync] ELSE client
    /\ UNCHANGED <<stack, host, cleanup, inbox>>

CheckPending ==
    /\ task.pc = "pending"
    /\ task' = IF client.pending THEN FinishLink(task, FALSE, "gap")
                 ELSE IF client.silent THEN Return(task) ELSE [task EXCEPT !.pc = "events"]
    /\ UNCHANGED <<stack, host, client, cleanup, inbox>>

(* eventMatches. *)
Matches(e) ==
    CASE e.kind = "scan" -> e.op = client.scanOp
      [] e.kind = "gatt" -> e.gatt = client.gattOp
      [] OTHER -> e.op = client.linkOp

(* handleEvent, for the events of the two queues. *)
BeginGatt(stage) ==
    /\ client' = [client EXCEPT !.state = Discovery[stage], !.gattOp = <<client.linkOp, stage>>]
    /\ task' = Radio(task, "gatt", "none")
Stage(state) == CHOOSE i \in Stages : Discovery[i] = state
Handle(e) ==
    \/ /\ e.kind = "scan"
       /\ IF client.state = "CancelPending" THEN BeginSettle
          ELSE /\ task' = IF client.state \in {"Scanning", "Backoff"}
                           THEN FinishLink(task, FALSE, "scan") ELSE task
               /\ UNCHANGED client
    \/ /\ e.kind = "connect"
       /\ IF client.state = "Connecting" /\ e.ok THEN BeginGatt(1)
          ELSE /\ task' = IF client.state = "Connecting" THEN FinishLink(task, FALSE, "connect") ELSE task
               /\ UNCHANGED client
    \/ /\ e.kind = "disconnect"
       /\ task' = IF client.handle THEN FinishLink(task, FALSE, "gap") ELSE task
       /\ UNCHANGED client
    \/ /\ e.kind = "gatt" /\ client.state = Discovery[e.gatt[2]]
       /\ IF ~e.ok THEN task' = FinishLink(task, TRUE, "gatt") /\ UNCHANGED client
          ELSE IF e.gatt[2] = Len(Discovery)
          THEN client' = [client EXCEPT !.state = "Ready"] /\ UNCHANGED task
          ELSE \/ BeginGatt(e.gatt[2] + 1)
               \/ /\ e.gatt[2] = 2      \* no protocol has the characteristics found
                  /\ task' = FinishLink(task, TRUE, "unsupported") /\ UNCHANGED client
    \/ e.kind = "gatt" /\ client.state # Discovery[e.gatt[2]] /\ UNCHANGED <<client, task>>

PopCritical ==
    /\ task.pc = "events" /\ inbox.critical # <<>>
    /\ inbox' = [inbox EXCEPT !.critical = Tail(@)]
    /\ IF Matches(Head(inbox.critical)) THEN Handle(Head(inbox.critical)) ELSE UNCHANGED <<client, task>>
    /\ UNCHANGED <<stack, host, cleanup>>
PopCandidate ==
    /\ task.pc = "events" /\ inbox.critical = <<>> /\ inbox.candidate # 0
    /\ inbox' = [inbox EXCEPT !.candidate = 0]
    /\ IF inbox.candidate = client.scanOp /\ client.state = "Scanning"
       THEN /\ client' = [client EXCEPT !.state = "CancelPending"]
            /\ task' = Radio(task, "select", "none")
       ELSE UNCHANGED <<client, task>>
    /\ UNCHANGED <<stack, host, cleanup>>
PopControl ==
    /\ task.pc = "events" /\ inbox.critical = <<>> /\ inbox.candidate = 0 /\ inbox.control # <<>>
    /\ inbox' = [inbox EXCEPT !.control = Tail(@)]
    /\ IF Matches(Head(inbox.control)) THEN Handle(Head(inbox.control)) ELSE UNCHANGED <<client, task>>
    /\ UNCHANGED <<stack, host, cleanup>>

(* With no event left: a deadline of the state, the end of the backoff, the
   silence of the scale, or nothing. *)
NoEvent ==
    task.pc = "events" /\ inbox.critical = <<>> /\ inbox.candidate = 0 /\ inbox.control = <<>>
TimesOut ==
    /\ NoEvent /\ client.state \in Deadline \cup {"Ready"} /\ task.command = "none"
    /\ task' = FinishLink(task, TRUE, "timeout")
    /\ UNCHANGED <<stack, host, client, cleanup, inbox>>
BackoffEnds ==
    /\ NoEvent /\ client.state = "Backoff"
    /\ IF client.backoffScan
       THEN client' = [client EXCEPT !.state = "Scanning"] /\ task' = Return(task)
       ELSE client' = [client EXCEPT !.state = "Idle"] /\ task' = [task EXCEPT !.pc = "scan"]
    /\ UNCHANGED <<stack, host, cleanup, inbox>>
ServiceEnds ==
    /\ NoEvent
    /\ task' = Return(task)
    /\ UNCHANGED <<stack, host, client, cleanup, inbox>>

-----------------------------------------------------------------------------
(* The worker: writeOp and writeCommand.  A power-off closes the link to every
   later command and arms the silence before it is written. *)
Command(off) ==
    /\ task.pc = "home" /\ client.state = "Ready" /\ ~client.closed /\ client.commands < MaxCommands
    /\ ~client.pending /\ ~client.silent
    /\ client' = [client EXCEPT !.commands = @ + 1, !.closed = off, !.silent = @ \/ off,
                    !.gattOp = <<client.linkOp, Len(Discovery) + 1 + client.commands>>,
                    !.write = [NoWrite EXCEPT !.on = TRUE]]
    /\ task' = [Radio(AtHome, "command", "none") EXCEPT !.op = client.linkOp]
    /\ UNCHANGED <<stack, host, cleanup, inbox>>

(* The write is over when it was answered, interrupted or timed out. *)
OutcomeMutant(w) == IF w.done \/ w.interrupted THEN "ok" ELSE "failed"
Outcome(w) ==
    IF w.interrupted \/ ~w.done THEN "failed" ELSE IF w.ok THEN "ok" ELSE "rejected"
AwaitEnds ==
    /\ task.pc = "await"
    /\ client' = [client EXCEPT !.write = NoWrite, !.gattOp = NoGatt]
    /\ task' = [task EXCEPT !.pc = "service", !.command = Outcome(client.write)]
    /\ UNCHANGED <<stack, host, cleanup, inbox>>

(* After a pass of service: is the link of the command still the one in use? *)
Survived == client.linkOp = task.op /\ client.state = "Ready"
JudgeCommand ==
    /\ task.pc = "judge"
    /\ task' = IF task.command = "failed" /\ Survived
                 THEN FinishLink(AtHome, TRUE, "command") ELSE AtHome
    /\ UNCHANGED <<stack, host, client, cleanup, inbox>>

-----------------------------------------------------------------------------
HostStep ==
    \/ PushEvent \/ Advertise \/ ScanStops \/ LinkEnded \/ GapCleanup \/ GapCurrent \/ GattResult
    \/ \E ok \in BOOLEAN : ConnectDone(ok) \/ GattDone(ok)
TaskStep ==
    \/ Submit \/ Accepted \/ Refused \/ EndSubmit \/ Answered \/ EndLink \/ Reconcile \/ Clear \/ BeginScan
    \/ CheckHost \/ CheckPending \/ PopCritical \/ PopCandidate \/ PopControl
    \/ TimesOut \/ BackoffEnds \/ ServiceEnds \/ AwaitEnds \/ JudgeCommand
Facade ==
    \/ Service \/ Disconnect
    \/ \E b \in BOOLEAN : StartScan(b) \/ Command(b)
ClientNext == HostStep \/ TaskStep \/ Facade \/ HostReset \/ HostSync \/ SilenceEnds
ClientSpec == ClientInit /\ [][ClientNext]_clientVars

(* The worker calls service in every pass of its loop; a callback that began
   ends; a termination asked for again and again is accepted at last; a connection
   attempt is answered and a link that was told to close closes; the silence ends. *)
ClientFairness ==
    /\ WF_clientVars(TaskStep) /\ SF_clientVars(Service)
    /\ WF_clientVars(PushEvent \/ GapCleanup \/ GapCurrent \/ GattResult)
    /\ SF_clientVars(task.proc = "terminate" /\ Accepted)
    /\ SF_clientVars(\E ok \in BOOLEAN : ConnectDone(ok))
    /\ SF_clientVars(stack.closing /\ LinkEnded)
    /\ WF_clientVars(SilenceEnds) /\ WF_clientVars(HostSync)
ClientFairSpec == ClientSpec /\ ClientFairness

-----------------------------------------------------------------------------
Operations == 0..MaxScans
(* One link at a time, and none forgotten: what the controller holds or tries to
   make belongs to the operation in use or to the cleanup, so that somebody will
   close it; a connection is not asked for, and no scan begins, while the closure of
   the link before is not confirmed; and what is terminated is the link that is being
   cleaned up, although its handle is used again (invalidateGeneration,
   beginConfiguredScan, reconcileLinkCleanup). *)
OneOwnedLink ==
    /\ client.sync = stack.sync =>
           \A op \in {stack.attempt, stack.link} \ {0} : op \in {client.linkOp, cleanup.op}
    /\ task.pc = "call" =>
           /\ task.proc \in {"scan", "connect"} => stack.attempt = 0 /\ stack.link = 0
           /\ task.proc = "terminate" => stack.link \in {0, task.op}

(* The whole silence after a link ended: no procedure begins before it is over,
   also when the link ended while one was being submitted. *)
SilenceIsKept ==
    [][(task.pc = "submit" /\ task'.pc = "call") => ~stack.quiet]_clientVars

(* A command is reported as done only when the peer acknowledged that very
   command on the link that is still in use. *)
OkIsAcknowledged ==
    task.pc = "judge" /\ task.command = "ok" /\ Survived =>
        stack.acked[1] = task.op /\ stack.acked[2] = Len(Discovery) + client.commands

(* The cleanup of a link ends. *)
CleanupEnds == (cleanup.op # 0) ~> (cleanup.op = 0)
=============================================================================
