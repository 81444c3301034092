----------------------------- MODULE WifiSetup -----------------------------
(* The Wi-Fi of the controller: the station, the setup network (SoftAP), the *)
(* probation of a new configuration and the network scan.  The network task  *)
(* runs its service pass in four steps; between them act the HTTP server's   *)
(* task, the control task (which grants the maintenance lease of a command), *)
(* the Wi-Fi driver and the phones on the setup network.                     *)
(*                                                                           *)
(* w is everything the network task keeps, with the durable configuration c. *)
(* Durations are not counted: each step chooses the deadlines that are due.  *)
EXTENDS Naturals, FiniteSets

CONSTANTS
    Networks,      \* the configurations somebody may save
    Known,         \* those of them that flash may hold at first
    None,          \* no configuration, no link
    MaxWifiEvents,     \* bound: commands, requests, lost links, resets
    Attempts       \* COMMAND_MAX_ATTEMPTS

ASSUME WifiAssumption ==
    None \notin Networks /\ Known \subseteq Networks /\ Attempts \in Nat \ {0}

VARIABLES
    wpc,           \* the step of the service pass that is next
    w,             \* see WInit
    wevents

wifiVars == <<wpc, w, wevents>>

Phase == {"NONE", "KEEP", "QUEUED", "ATTEMPTING", "FAILED", "JOINED", "CONFIRMED"}
Timers == {"grace", "window", "attempt"}
\* No deadline, one of them, or all.
Due == {{}, Timers} \cup {{t} : t \in Timers}

-----------------------------------------------------------------------------
(* The phases of an onboarding.                                              *)

NextPhase(phase, event) ==
    CASE event = "KEEP_REQUESTED" /\ phase \in {"NONE", "CONFIRMED"} -> "KEEP"
      [] event = "KEEP_RELEASED" /\ phase # "QUEUED" -> "NONE"
      [] event = "APPLY_SAVED" -> "QUEUED"
      [] event = "ATTEMPT_STARTED" /\ phase = "QUEUED" -> "ATTEMPTING"
      [] event \in {"ATTEMPT_FAILED", "JOINED_OTHER"} /\ phase = "ATTEMPTING" -> "FAILED"
      [] event = "JOINED" /\ phase \in {"ATTEMPTING", "FAILED"} -> "JOINED"
      [] event = "CONFIRMED" /\ phase # "NONE" -> "CONFIRMED"
      [] event \in {"REVERTED", "APPLY_RESTARTS"} -> "NONE"
      [] event = "AP_STOPPED" /\ phase = "CONFIRMED" -> "NONE"
      [] OTHER -> phase

Advance(r, event) == [r EXCEPT !.phase = NextPhase(r.phase, event)]

KeepsSoftAp(phase) == phase \notin {"NONE", "CONFIRMED"}

\* Mutant: only a failed attempt refuses, so the old link confirms the new network.
ConfirmAllowedMutUntried(r) == r.phase # "FAILED"

ConfirmAllowed(r) ==
    r.phase \in {"JOINED", "KEEP"} \/ (r.phase \in {"NONE", "CONFIRMED"} /\ ~r.ap)

FinishAllowed(r) == r.ap /\ (r.phase = "JOINED" \/ r.grace)

ReconnectHeld(r) == r.staHeld \/ r.phase = "FAILED"

Configured(r) == r.c.sta # None

-----------------------------------------------------------------------------
(* The scan, the HTTP server, the setup network, the station.  Each operator *)
(* gives the record after the call, those that may fail a set of pairs       *)
(* <<succeeded, record>>.                                                    *)

ScanBusy(r) == r.requested \/ r.scan \in {"QUEUED", "RUNNING"}

\* The completion of a scan's command lets the control task drop its lease.
ScanEnds(r) ==
    [r EXCEPT !.requested = FALSE, !.scan = "ENDED", !.scanLease = FALSE,
              !.lease = @ /\ ~r.scanLease]

AbortScan(r) == IF ScanBusy(r) THEN ScanEnds(r) ELSE r

Disconnect(r) == [r EXCEPT !.link = None, !.trying = None]

\* startHttpServer, unless it is held; it may lack the memory.
StartHttp(r, works) == [r EXCEPT !.server = @ \/ (works /\ ~r.httpHeld)]

StopSoftAp(r, stopHttp) ==
    IF ~r.ap THEN r
    ELSE Advance([r EXCEPT !.ap = FALSE, !.clients = FALSE, !.grace = FALSE,
                           !.server = @ /\ ~stopHttp], "AP_STOPPED")

\* ensureAccessPoint.
RaiseSoftAp(r, works) ==
    LET s == AbortScan(r)
        linkUp == Configured(s) /\ s.link # None
        keepHttp == s.server /\ ~s.httpHeld /\ linkUp
        t == [(IF Configured(s) THEN s ELSE Disconnect(s))
              EXCEPT !.server = keepHttp \/ (works /\ ~s.httpHeld), !.ap = works,
                     !.clients = FALSE, !.grace = FALSE,
                     !.sta = CASE ~Configured(s) -> "NONE"
                               [] Configured(s) /\ @ = "CONNECTED" /\ ~linkUp -> "DISCONNECTED"
                               [] OTHER -> @]
    IN <<works, t>>

EnsureSoftAp(r, force, works) ==
    CASE ~force /\ r.ap /\ r.server -> <<TRUE, r>>
      [] ~force /\ ~(r.ap /\ r.server) /\ (r.exhausted \/ r.apHeld) -> <<FALSE, r>>
      [] OTHER -> RaiseSoftAp(r, works)

\* beginStationConnect; it may also fail with the state left at CONNECTING.
BeginConnect(r, rf, works) ==
    LET s == [Disconnect(AbortScan(r)) EXCEPT !.sta = "CONNECTING"]
    IN CASE rf -> {<<FALSE, r>>}
         [] ~rf /\ works -> {<<TRUE, [s EXCEPT !.trying = s.c.sta]>>}
         [] OTHER -> {<<FALSE, s>>, <<FALSE, [s EXCEPT !.sta = "DISCONNECTED"]>>}

StartStation(r, rf, works) ==
    LET s == [AbortScan(r) EXCEPT !.ap = FALSE, !.clients = FALSE, !.grace = FALSE,
                                  !.server = FALSE, !.window = FALSE, !.sta = "CONNECTING"]
    IN {IF ~b[1] /\ b[2].sta = "CONNECTING" THEN [b[2] EXCEPT !.sta = "DISCONNECTED"] ELSE b[2] :
          b \in BeginConnect(s, rf, works)}

StartNetwork(r, rf, works) ==
    IF Configured(r)
      THEN {<<TRUE, [s EXCEPT !.started = TRUE, !.fallback = FALSE]>> :
              s \in StartStation(r, rf, works)}
      ELSE LET e == EnsureSoftAp(r, FALSE, works)
           IN {<<e[1], [e[2] EXCEPT !.started = e[1], !.fallback = @ /\ ~e[1]]>>}

-----------------------------------------------------------------------------
(* Probation.  flash: a durable write succeeds, is not allowed now, fails.   *)

\* confirmPendingNetwork, asked for by the page or by the station itself.
ConfirmPending(r, flash) ==
    LET s == [r EXCEPT !.ask = FALSE]
        kept == KeepsSoftAp(s.phase)
    IN CASE ~s.c.pending \/ s.sta # "CONNECTED" \/ ~ConfirmAllowed(s) \/ flash = "FAILS" -> s
         [] s.c.pending /\ s.sta = "CONNECTED" /\ ConfirmAllowed(s) /\ flash = "BUSY" -> r
         [] OTHER ->
              [s EXCEPT !.c = [@ EXCEPT !.pending = FALSE, !.lkg = s.c.sta],
                        !.window = FALSE, !.staHeld = @ /\ ~kept,
                        !.phase = IF kept THEN NextPhase(@, "CONFIRMED") ELSE @,
                        !.grace = @ \/ (kept /\ s.ap)]

\* restoreLkgToActive, or else clearStaNetwork.
Restored(c) == [sta |-> c.lkg, pending |-> FALSE, lkg |-> c.lkg]

\* revertPendingNetwork.
RevertPending(r, flash) ==
    LET onboarding == KeepsSoftAp(r.phase)
        s == [Advance(r, "REVERTED") EXCEPT !.c = Restored(@), !.window = FALSE,
                                            !.staHeld = FALSE]
        t == [s EXCEPT !.sta = IF Configured(s) THEN @ ELSE "NONE"]
    IN CASE ~r.c.pending \/ flash # "OK" -> <<FALSE, r>>
         [] r.c.pending /\ flash = "OK" /\ ~Configured(t) /\ r.ever /\ ~onboarding ->
              <<TRUE, [t EXCEPT !.server = FALSE, !.ap = FALSE, !.clients = FALSE,
                                !.grace = FALSE, !.link = None]>>
         [] OTHER -> <<TRUE, [t EXCEPT !.started = FALSE,
                                       !.fallback = onboarding /\ ~Configured(t)]>>

\* A failed rollback outside onboarding restarts the network.
RevertOrRestart(r, flash) ==
    LET v == RevertPending(r, flash)
    IN IF v[1] THEN v[2] ELSE [v[2] EXCEPT !.started = FALSE]

-----------------------------------------------------------------------------
(* The station (serviceStaState).                                            *)

\* serviceSoftApTeardown: a phone on the setup network gets a grace.
Teardown(r, due) ==
    CASE ~r.ap \/ KeepsSoftAp(r.phase) -> r
      [] r.ap /\ ~KeepsSoftAp(r.phase) /\ ~r.grace /\ r.clients -> [r EXCEPT !.grace = TRUE]
      [] r.ap /\ ~KeepsSoftAp(r.phase) /\ r.grace /\ "grace" \notin due -> r
      [] OTHER -> StopSoftAp(r, TRUE)

\* The radio belongs to the shot or to the scale's connection.
AssociateAborted(r) ==
    Advance([Disconnect(r) EXCEPT !.sta = "DISCONNECTED"], "ATTEMPT_FAILED")

LinkIsLost(r, rf, works) ==
    LET s == [r EXCEPT !.sta = "DISCONNECTED"]
    IN IF ReconnectHeld(r) \/ ScanBusy(r) \/ rf THEN {s}
       ELSE {b[2] : b \in BeginConnect(s, rf, works)}

\* Mutant: only the loss of the link rolls a configuration back.
StaysConnectedMutTrusts(r, flash, works, due) ==
    {StartHttp(Teardown(r, due), works)}

StaysConnected(r, flash, works, due) ==
    LET s == StartHttp(Teardown(r, due), works)
    IN {IF s.window /\ s.c.pending /\ "window" \in due
          THEN RevertOrRestart(Disconnect(s), flash) ELSE s}

Connects(r, works, due) ==
    LET s == [StartHttp(Teardown(r, due), works)
              EXCEPT !.sta = "CONNECTED", !.ever = TRUE, !.window = @ \/ r.c.pending]
        t == Advance(s, IF s.link = s.c.sta THEN "JOINED" ELSE "JOINED_OTHER")
    IN IF r.phase \in {"ATTEMPTING", "FAILED"}
         THEN {[t EXCEPT !.ask = @ \/ t.phase = "JOINED"]} ELSE {s}

\* The page of an onboarding was closed, or its credentials are wrong.
OnboardingExpires(r, flash) == {RevertPending(Disconnect(r), flash)[2]}

\* Mutant: the setup network is raised after an earlier join as well.
AttemptTimesOutMutRaises(r, flash, works) ==
    LET e == EnsureSoftAp([Disconnect(r) EXCEPT !.sta = "FAILED"], FALSE, works)
    IN IF r.c.pending THEN {RevertOrRestart([Disconnect(r) EXCEPT !.sta = "FAILED"], flash)}
       ELSE {[e[2] EXCEPT !.sta = "DISCONNECTED"]}

AttemptTimesOut(r, flash, works) ==
    LET s == [Disconnect(r) EXCEPT !.sta = "FAILED"]
        e == EnsureSoftAp(s, FALSE, works)
    IN CASE r.c.pending -> {RevertOrRestart(s, flash)}
         [] ~r.c.pending /\ (r.ever \/ r.apHeld \/ r.exhausted) ->
              {[s EXCEPT !.sta = "DISCONNECTED"]}
         [] OTHER -> {IF e[1] THEN [e[2] EXCEPT !.sta = "DISCONNECTED"]
                      ELSE [e[2] EXCEPT !.started = FALSE]}

Bootstrap(r, works) ==
    LET e == EnsureSoftAp(r, FALSE, works)
    IN {IF e[1] THEN e[2] ELSE [e[2] EXCEPT !.started = FALSE]}

AttemptAges(r) == {Advance([r EXCEPT !.sta = "DISCONNECTED"], "ATTEMPT_FAILED")}

ServiceStation(r, rf, flash, works, due) ==
    LET idle == r.sta \in {"DISCONNECTED", "FAILED"}
        aged == "attempt" \in due
    IN CASE ~Configured(r) -> {r}
         [] Configured(r) /\ rf /\ r.sta = "CONNECTING" /\ r.link = None -> {AssociateAborted(r)}
         [] Configured(r) /\ r.sta = "CONNECTED" ->
              IF r.link = None THEN LinkIsLost(r, rf, works)
              ELSE StaysConnected(r, flash, works, due)
         [] Configured(r) /\ r.sta # "CONNECTED" /\ r.sta # "NONE" /\ r.link # None ->
              Connects(r, works, due)
         [] OTHER ->
              IF r.ap /\ KeepsSoftAp(r.phase) /\ r.window /\ "window" \in due /\ ~ScanBusy(r)
                THEN OnboardingExpires(r, flash)
              ELSE IF r.sta = "NONE" \/ ScanBusy(r) \/ ~aged THEN {r}
              ELSE IF r.sta = "CONNECTING"
                THEN IF r.ap THEN AttemptAges(r) ELSE AttemptTimesOut(r, flash, works)
              ELSE IF idle /\ ~r.ever /\ ~r.ap /\ ~rf /\ ~r.apHeld /\ ~r.exhausted
                THEN Bootstrap(r, works)
              ELSE IF ReconnectHeld(r) \/ rf THEN {r}
              ELSE {b[2] : b \in BeginConnect(r, rf, works)}

-----------------------------------------------------------------------------
(* Commands: from the web under a maintenance lease, from USB without.       *)

Save == [kind : {"SAVE"}, net : Networks, live : BOOLEAN, usb : BOOLEAN]
Other == [kind : {"FORGET", "PASSWORD", "RESTART", "SETTINGS", "SCAN"}]
Cli == {"WIFI_CONNECT", "WIFI_DISCONNECT", "AP_START", "AP_STOP", "WEBUI_START", "WEBUI_STOP"}

\* What the command would leave in flash.
Saved(c, command) ==
    CASE command.kind = "SAVE" /\ command.net # c.sta ->
            [sta |-> command.net, pending |-> ~command.usb,
             lkg |-> IF command.usb THEN command.net
                     ELSE IF c.sta # None /\ ~c.pending THEN c.sta ELSE c.lkg]
      [] command.kind = "FORGET" -> [sta |-> None, pending |-> FALSE, lkg |-> None]
      [] OTHER -> c

\* The flags processPersistedCommand sets before it saves.
Announced(r, command) ==
    CASE command.kind = "SAVE" /\ command.net # r.c.sta ->
            IF command.live THEN Advance([r EXCEPT !.restart = FALSE], "APPLY_SAVED")
            ELSE [r EXCEPT !.restart = TRUE]
      [] command.kind \in {"FORGET", "RESTART"} -> [r EXCEPT !.restart = TRUE]
      [] command.kind = "PASSWORD" -> [r EXCEPT !.apRestart = r.ap]
      [] OTHER -> r

\* A save that fails takes them back, whoever set them.
Failed(r, command) ==
    LET s == Announced(r, command)
    IN [s EXCEPT !.restart = @ /\ command.kind = "RESTART", !.apRestart = FALSE,
                 !.dropped = @ \/ (r.restart /\ command.kind # "RESTART")]

Persisted(r, command) ==
    LET s == Announced(r, command)
        c == Saved(r.c, command)
    IN [s EXCEPT !.c = c, !.proven = IF c.sta = r.c.sta THEN @ ELSE FALSE,
                 !.dropped = @ /\ ~s.restart]

CommandEnds(r) == [r EXCEPT !.cmd = None, !.attempts = 0, !.lease = FALSE]

\* processAcceptedMaintenanceCommand.
AcceptedCommand(r, flash) ==
    LET k == r.cmd
        again == [r EXCEPT !.attempts = @ + 1]
        failed == Failed(again, k)
    IN CASE ~r.lease ->
              CommandEnds(IF k.kind = "SCAN" THEN AbortScan(r) ELSE r)
         [] r.lease /\ k.kind = "SCAN" ->
              [r EXCEPT !.cmd = None, !.attempts = 0, !.requested = TRUE, !.scan = "QUEUED",
                        !.scanLease = TRUE]
         [] r.lease /\ k.kind # "SCAN" /\ flash = "OK" -> CommandEnds(Persisted(again, k))
         [] OTHER -> IF again.attempts = Attempts \/ k.kind = "RESTART"
                       THEN CommandEnds(failed) ELSE failed

\* handleCliNetworkAction.
CliAction(r, action, rf, works) ==
    CASE action = "WIFI_CONNECT" ->
            IF ~Configured(r) \/ (r.sta = "CONNECTED" /\ r.link # None) THEN {r}
            ELSE {b[2] : b \in BeginConnect([r EXCEPT !.staHeld = FALSE], rf, works)}
      [] action = "WIFI_DISCONNECT" ->
            {[Disconnect(r) EXCEPT !.staHeld = TRUE,
                                   !.sta = IF Configured(r) THEN "DISCONNECTED" ELSE "NONE"]}
      [] action = "AP_START" ->
            LET e == EnsureSoftAp(Advance([r EXCEPT !.apHeld = FALSE], "KEEP_REQUESTED"),
                                  TRUE, works)
            IN {IF ~e[1] /\ e[2].phase = "KEEP" THEN Advance(e[2], "KEEP_RELEASED") ELSE e[2]}
      [] action = "AP_STOP" ->
            {StopSoftAp(Advance([r EXCEPT !.apHeld = TRUE], "KEEP_RELEASED"),
                        ~(r.sta = "CONNECTED" /\ r.link # None))}
      [] action = "WEBUI_START" -> {StartHttp([r EXCEPT !.httpHeld = FALSE], works)}
      [] OTHER -> {[r EXCEPT !.httpHeld = TRUE, !.server = FALSE]}

\* noteCliNetworkProgress.
CliProgress(r) ==
    [r EXCEPT !.started = @ \/ r.ap \/ r.server \/ r.sta \in {"CONNECTING", "CONNECTED"}]

\* The live apply of an onboarding (service).
LiveApply(r, rf, works) ==
    CASE r.phase # "QUEUED" -> {r}
      [] r.phase = "QUEUED" /\ ~r.ap -> {Advance([r EXCEPT !.restart = TRUE], "APPLY_RESTARTS")}
      [] OTHER -> {IF b[1] THEN Advance([b[2] EXCEPT !.window = TRUE], "ATTEMPT_STARTED")
                   ELSE b[2] : b \in BeginConnect([r EXCEPT !.staHeld = FALSE], rf, works)}

-----------------------------------------------------------------------------
(* The scan and the idle setup network (the rest of the pass).               *)

ServiceScan(r, rf, idle, works, due) ==
    LET safe == idle /\ (r.lease => r.scanLease)
        on == r.requested \/ r.scan = "RUNNING"
    IN CASE rf \/ ~safe -> {IF on THEN AbortScan(r) ELSE r}
         [] ~rf /\ safe /\ r.requested /\ r.scan = "QUEUED" ->
              {IF works THEN [r EXCEPT !.requested = FALSE, !.scan = "RUNNING"] ELSE ScanEnds(r)}
         [] ~rf /\ safe /\ r.scan = "RUNNING" -> {r, ScanEnds(r)}
         [] OTHER -> {r}

ServiceIdle(r, turnedOn, due) ==
    IF ~r.ap \/ KeepsSoftAp(r.phase) \/ (~turnedOn /\ (r.clients \/ "grace" \notin due)) THEN r
    ELSE StopSoftAp([r EXCEPT !.exhausted = TRUE], ~(r.sta = "CONNECTED" /\ r.link # None))

RestartSoftAp(r, idle, works) ==
    IF ~r.apRestart \/ ~idle \/ r.lease THEN r
    ELSE LET e == EnsureSoftAp([r EXCEPT !.apRestart = FALSE], TRUE, works)
         IN IF e[1] THEN e[2] ELSE [e[2] EXCEPT !.started = FALSE, !.fallback = TRUE]

-----------------------------------------------------------------------------

\* The state after a reset, with what flash holds.
Boot(c, proven) ==
    [c |-> c, link |-> None, trying |-> None, sta |-> "NONE", ap |-> FALSE, phase |-> "NONE",
     grace |-> FALSE, window |-> FALSE, ask |-> FALSE, started |-> FALSE, ever |-> FALSE,
     staHeld |-> FALSE, apHeld |-> FALSE, httpHeld |-> FALSE, exhausted |-> FALSE,
     server |-> FALSE, restart |-> FALSE, apRestart |-> FALSE, clients |-> FALSE,
     scan |-> "ENDED", requested |-> FALSE, scanLease |-> FALSE, lease |-> FALSE,
     cmd |-> None, attempts |-> 0,
     proven |-> proven,      \* observer: c.sta has been joined since it was saved
     dropped |-> FALSE,      \* observer: a failed save cleared an earlier restart
     fallback |-> FALSE]     \* observer: the setup network was up when it was to be raised again

WifiInit ==
    /\ wpc = "commands" /\ wevents = 0
    /\ \E sta \in Known \cup {None} :
          w = Boot([sta |-> sta, pending |-> FALSE, lkg |-> sta], TRUE)

Event == wevents < MaxWifiEvents /\ wevents' = wevents + 1

\* Commands, the live apply, a restart that is asked for, and the start.
ServiceCommands(rf, idle, flash, works, action) ==
    /\ wpc = "commands"
    /\ IF action = "none" THEN UNCHANGED wevents ELSE Event
    /\ \E r \in IF w.cmd # None THEN {AcceptedCommand(w, flash)}
                ELSE IF action = "none" THEN {w}
                ELSE {CliProgress(s) : s \in CliAction(w, action, rf, works)} :
       \E a \in LiveApply(r, rf, works) :
          IF a.restart
            THEN wpc' = wpc /\ w' = IF idle /\ ~a.lease THEN Boot(a.c, a.proven) ELSE a
            ELSE IF a.started THEN wpc' = "confirm" /\ w' = a
            ELSE wpc' = wpc /\ \E n \in StartNetwork(a, rf, works) : w' = n[2]

ServiceConfirm(flash) ==
    /\ wpc = "confirm" /\ wpc' = "station"
    /\ w' = IF w.ask THEN ConfirmPending(w, flash) ELSE w
    /\ UNCHANGED wevents

ServiceSta(rf, flash, works, due) ==
    /\ wpc = "station" /\ wpc' = "rest"
    /\ w' \in ServiceStation(w, rf, flash, works, due)
    /\ UNCHANGED wevents

ServiceRest(rf, idle, works, due) ==
    /\ wpc = "rest" /\ wpc' = "commands"
    /\ \E r \in ServiceScan(w, rf, idle, works, due) :
          w' = RestartSoftAp(ServiceIdle(r, ~idle, due), idle, works)
    /\ UNCHANGED wevents

\* The driver completes an association, gives it up, or loses the link.
Associates ==
    /\ w.trying # None
    /\ w' = [w EXCEPT !.link = w.trying, !.trying = None,
                      !.proven = @ \/ w.trying = w.c.sta]
    /\ UNCHANGED <<wpc, wevents>>

AssociationFails ==
    /\ w.trying # None /\ Event
    /\ w' = [w EXCEPT !.trying = None]
    /\ UNCHANGED wpc

LinkDrops ==
    /\ w.link # None /\ Event
    /\ w' = [w EXCEPT !.link = None]
    /\ UNCHANGED wpc

PhoneMoves ==
    /\ w.ap
    /\ w' = [w EXCEPT !.clients = ~@]
    /\ UNCHANGED <<wpc, wevents>>

\* An administrator's command; the control task grants it the lease.
AdminAsks ==
    /\ w.cmd = None /\ ~w.lease /\ Event
    /\ \E k \in Save \cup Other :
          /\ k.kind = "SAVE" /\ k.live => w.ap /\ ~k.usb
          /\ k.kind = "SCAN" => w.server
          /\ w' = [w EXCEPT !.cmd = k, !.lease = TRUE,
                            !.scan = IF k.kind = "SCAN" THEN "QUEUED" ELSE @]
    /\ UNCHANGED wpc

\* The control task refuses the lease of a scan the page was promised.
ScanIsRefused ==
    /\ w.server /\ Event
    /\ w' = [w EXCEPT !.scan = "QUEUED"]
    /\ UNCHANGED wpc

\* A shot takes the lease away.
LeaseIsCancelled ==
    /\ w.lease /\ Event
    /\ w' = [w EXCEPT !.lease = FALSE]
    /\ UNCHANGED wpc

\* The page asks to confirm (requestPendingNetworkConfirm), or to finish.
PageConfirms ==
    /\ w.server /\ w.c.pending /\ Configured(w) /\ ConfirmAllowed(w) /\ w.sta = "CONNECTED"
    /\ ~w.ask
    /\ w' = [w EXCEPT !.ask = TRUE]
    /\ UNCHANGED <<wpc, wevents>>

PageFinishes ==
    /\ w.server /\ FinishAllowed(w) /\ ~w.grace
    /\ w' = [w EXCEPT !.grace = TRUE]
    /\ UNCHANGED <<wpc, wevents>>

PowerCut ==
    /\ Event
    /\ w' = Boot(w.c, w.proven) /\ wpc' = "commands"

WifiPass ==
    \/ \E rf, idle, works \in BOOLEAN, flash \in {"OK", "FAILS"}, action \in Cli \cup {"none"} :
          ServiceCommands(rf, idle, flash, works, action)
    \/ \E flash \in {"OK", "BUSY", "FAILS"} : ServiceConfirm(flash)
    \/ \E rf, works \in BOOLEAN, flash \in {"OK", "FAILS"}, due \in Due :
          ServiceSta(rf, flash, works, due)
    \/ \E rf, idle, works \in BOOLEAN, due \in {{}, Timers} : ServiceRest(rf, idle, works, due)

WifiNext ==
    \/ WifiPass
    \/ Associates \/ AssociationFails \/ LinkDrops \/ PhoneMoves
    \/ AdminAsks \/ ScanIsRefused \/ LeaseIsCancelled
    \/ PageConfirms \/ PageFinishes \/ PowerCut

WifiSpec == WifiInit /\ [][WifiNext]_wifiVars
\* A shot, a busy control task, a refused write and a start that lacks memory
\* may come back again and again, but a step of the pass that meets none of them
\* comes as well, and so does a rollback that can be written.
WifiFairness ==
    /\ SF_wifiVars(ServiceCommands(FALSE, TRUE, "OK", TRUE, "none"))
    /\ SF_wifiVars(ServiceConfirm("OK"))
    /\ SF_wifiVars(ServiceSta(FALSE, "OK", TRUE, Timers))
    /\ SF_wifiVars(ServiceSta(FALSE, "OK", TRUE, Timers) /\ w.c # w'.c)
    /\ SF_wifiVars(ServiceRest(FALSE, TRUE, TRUE, Timers))
    /\ WF_wifiVars(Associates)

WifiFairSpec == WifiSpec /\ WifiFairness

-----------------------------------------------------------------------------
(* Properties. *)

\* confirmPendingNetwork makes a configuration on probation the good one only if
\* the station has joined it since it was saved.  (w.dropped: a failing command
\* has cancelled the restart that would have tried it.)
ConfirmsWhatWasJoined ==
    [][wpc = "confirm" /\ w.c.pending /\ ~w'.c.pending => w.proven \/ w.dropped]_wifiVars

\* ensureAccessPoint is called from six places: once the station has been joined,
\* AP_STOP was given or the setup network was closed for being idle, the firmware
\* does not open it by itself, but to restart it under a new password or to keep an
\* onboarding reachable.
NoUnaskedAp ==
    [][~w.ap /\ w'.ap /\ wevents' = wevents
         => ~(w.apHeld \/ w.exhausted \/ w.ever) \/ w.apRestart \/ w.fallback]_wifiVars

\* A probation whose window runs ends: it is confirmed or rolled back.  It may take
\* longer while a phone is on the setup network, a scan is under way, or the
\* station is held and there is no setup network to try again from.
ProbationSettles ==
    (w.window /\ w.c.pending) ~>
        \/ ~w.window \/ ~w.c.pending
        \/ w.clients \/ ScanBusy(w) \/ (ReconnectHeld(w) /\ ~w.ap)

\* docs/SERIAL_CLI.md: AP_STOP stays in effect until AP_START or a reboot.
ApStopIsObeyed == [][w.apHeld /\ w'.apHeld /\ ~w.ap => ~w'.ap]_wifiVars

\* "A bare QUEUED [...] is still waiting for its own maintenance lease": a scan the
\* page was promised is carried out or given up, and the station may reconnect.
ScanEndsAtLast == ScanBusy(w) ~> ~ScanBusy(w)
=============================================================================
