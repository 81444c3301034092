------------------------------ MODULE UiStream ------------------------------
(* The live stream of the web interface.  A page opens one of the two socket
   slots, binds it as the active client and subscribes to views; the network
   task queues at most one dispatch, which httpd runs over every slot: Home and
   the shot card in one write, then the views.  What a page was told is kept as
   fingerprints, and only differences are sent.  One value stands for the fields
   of Home, Settings and Diagnostics, one for the active preset, a count for the
   points of the curve and the lines of the log, and one list of contents for
   the shots of Stats and the records of History.  The 300 ms timer makes a
   dispatch due again and again, so the urgent flag is left out; what a page
   says is heard at once. *)
EXTENDS Naturals, Sequences, FiniteSets

CONSTANTS Pages,        \* clients, each with its own identity
          Sockets,      \* 1..Cardinality(uiStreams_)
          Views,        \* what the pages subscribe to
          HomeFits, CardFits,   \* how the frames of a batch fit the coalescing buffer
          MaxOpens, MaxOps, MaxFaults, MaxUiChanges

ASSUME UiStreamAssumption ==
    /\ IsFiniteSet(Sockets) /\ Sockets = 1 .. Cardinality(Sockets)
    /\ Views \subseteq {"settings", "diagnostic", "log", "history", "stats"}
    /\ HomeFits \subseteq {"alone", "batch"}
    /\ CardFits \subseteq {"alone", "together", "payload", "header"}
    /\ {MaxOpens, MaxOps, MaxFaults, MaxUiChanges} \subseteq Nat

VARIABLES owner,    \* activeWebUiClientId_
          socket,   \* uiStreams_ and the fingerprints of each slot
          page,     \* what each page shows, and the slot its socket is on
          device,   \* what there is to show
          dispatch, \* uiStreamWorkPending_, the queued work and its snapshot
          uiUsed    \* bounds

uiStreamVars == <<owner, socket, page, device, dispatch, uiUsed>>

Nobody == "nobody"
Unknown == 2         \* no fingerprint, no value
Sections == {"telemetry", "tasks", "profile", "audit"}     \* the frames of a sample
NoSample == [x \in Sections |-> Unknown]

FreeSocket ==
    [open |-> FALSE, closing |-> FALSE, peer |-> Nobody, bound |-> FALSE, late |-> FALSE,
     silent |-> FALSE, paused |-> FALSE,
     home |-> [owed |-> TRUE, value |-> Unknown],
     presets |-> [hash |-> Unknown, sent |-> Unknown, tag |-> Unknown],
     card |-> [owed |-> TRUE, seq |-> 0, cycle |-> 0, count |-> 0],
     settings |-> [on |-> FALSE, owed |-> TRUE, value |-> Unknown],
     diagnostic |-> [on |-> FALSE, owed |-> TRUE, value |-> Unknown, sample |-> NoSample],
     log |-> [on |-> FALSE, push |-> FALSE, after |-> 0],
     history |-> [on |-> FALSE, owed |-> TRUE, fetch |-> FALSE, epoch |-> 0, held |-> <<>>],
     stats |-> [on |-> FALSE, owed |-> TRUE, fetch |-> FALSE, epoch |-> 0, preset |-> Unknown,
                print |-> [epoch |-> 0, preset |-> Unknown], held |-> <<>>,
                paging |-> FALSE, snapshot |-> FALSE, ofFetch |-> FALSE, at |-> 0, next |-> <<>>]]

NoPage == [on |-> FALSE, header |-> Unknown, rows |-> <<>>]
BlankPage == [slot |-> 0, home |-> Unknown, presets |-> Unknown, tag |-> Unknown,
              card |-> [seq |-> 0, cycle |-> 0, count |-> 0], settings |-> Unknown,
              diagnostic |-> [value |-> Unknown, sample |-> NoSample], log |-> 0, history |-> <<>>,
              stats |-> [known |-> FALSE, shown |-> <<>>, header |-> Unknown, building |-> NoPage]]

AtRest == [value |-> 0, preset |-> 0, cycle |-> 0, count |-> 0, live |-> FALSE]
NoDispatch == [pending |-> FALSE, queued |-> FALSE, at |-> 0, seen |-> AtRest]

UiStreamInit ==
    /\ owner = Nobody /\ socket = [s \in Sockets |-> FreeSocket]
    /\ page = [p \in Pages |-> BlankPage]
    /\ device = [shown |-> AtRest, rows |-> <<>>, epoch |-> 0]
    /\ dispatch = NoDispatch
    /\ uiUsed = [opens |-> 0, ops |-> 0, faults |-> 0, changes |-> 0]

Httpd == dispatch.at = 0         \* httpd is not inside a dispatch
Owns(k) == k.peer = owner        \* the session carries the active client's id
Served(s) == socket[s].open /\ socket[s].bound /\ Owns(socket[s]) /\ ~socket[s].closing
Reaches(s, p) == socket[s].peer = p /\ page[p].slot = s

-----------------------------------------------------------------------------
(* Sessions.  claimHandler, the sign-out of another task, the handshake. *)
Claim(p) ==
    /\ Httpd /\ owner # p /\ uiUsed.opens < MaxOpens /\ owner' = p
    /\ UNCHANGED <<socket, page, device, dispatch, uiUsed>>
SignOutUi ==
    /\ owner # Nobody /\ uiUsed.changes < MaxUiChanges
    /\ owner' = Nobody /\ uiUsed' = [uiUsed EXCEPT !.changes = @ + 1]
    /\ UNCHANGED <<socket, page, device, dispatch>>

(* The page keeps its presets, its log and its lists from one socket to the next. *)
Open(p, s) ==
    /\ Httpd /\ page[p].slot = 0 /\ ~socket[s].open /\ uiUsed.opens < MaxOpens
    /\ \A t \in Sockets : t < s => socket[t].open
    /\ socket' = [socket EXCEPT ![s] = [FreeSocket EXCEPT !.open = TRUE, !.peer = p]]
    /\ page' = [page EXCEPT ![p].slot = s, ![p].home = Unknown, ![p].card = BlankPage.card,
                            ![p].settings = Unknown, ![p].diagnostic = BlankPage.diagnostic,
                            ![p].stats.building = NoPage]
    /\ uiUsed' = [uiUsed EXCEPT !.opens = @ + 1]
    /\ UNCHANGED <<owner, device, dispatch>>

(* The page closes its socket, or goes out of reach without a word. *)
Leave(p) ==
    /\ page[p].slot # 0 /\ page' = [page EXCEPT ![p].slot = 0]
    /\ \/ socket' = [socket EXCEPT ![page[p].slot].closing = TRUE]
       \/ UNCHANGED socket
    /\ UNCHANGED <<owner, device, dispatch, uiUsed>>

(* uiStreamFree, after httpd closed the socket; the page sees it end. *)
Close(s) ==
    /\ Httpd /\ socket[s].closing
    /\ socket' = [socket EXCEPT ![s] = FreeSocket]
    /\ page' = [p \in Pages |-> IF Reaches(s, p) THEN [page[p] EXCEPT !.slot = 0] ELSE page[p]]
    /\ UNCHANGED <<owner, device, dispatch, uiUsed>>

(* Five seconds without a bind, or 330 s without a word. *)
BindTimesOut(s) ==
    /\ socket[s].open /\ ~socket[s].bound /\ ~socket[s].late
    /\ socket' = [socket EXCEPT ![s].late = TRUE]
    /\ UNCHANGED <<owner, page, device, dispatch, uiUsed>>
GoesSilent(s) ==
    /\ socket[s].bound /\ ~socket[s].silent
    /\ socket[s].paused \/ ~Reaches(s, socket[s].peer)
    /\ socket' = [socket EXCEPT ![s].silent = TRUE]
    /\ UNCHANGED <<owner, page, device, dispatch, uiUsed>>

-----------------------------------------------------------------------------
(* uiStreamHandler.  A bind takes the stream from the socket that had it. *)
Supersede(f, s) == [t \in Sockets |->
    IF t # s /\ f[t].bound THEN [f[t] EXCEPT !.bound = FALSE, !.late = TRUE, !.closing = TRUE]
    ELSE f[t]]
Bind(p, s) ==
    /\ Httpd /\ Reaches(s, p) /\ ~socket[s].bound /\ ~socket[s].closing
    /\ socket' = IF Owns(socket[s]) /\ ~socket[s].late
                 THEN Supersede([socket EXCEPT ![s].bound = TRUE, ![s].silent = FALSE,
                                               ![s].presets.tag = page[p].tag], s)
                 ELSE [socket EXCEPT ![s].closing = TRUE]
    /\ UNCHANGED <<owner, page, device, dispatch, uiUsed>>

(* An op of a page that no longer owns the machine, or one that fails validation,
   is refused and closes the socket. *)
Heard(k) == [k EXCEPT !.silent = FALSE]
Op(p, s, becomes) ==
    /\ Httpd /\ Reaches(s, p) /\ socket[s].bound /\ ~socket[s].closing /\ uiUsed.ops < MaxOps
    /\ socket' = [socket EXCEPT ![s] = IF Owns(@) THEN Heard(becomes)
                                       ELSE [@ EXCEPT !.closing = TRUE]]
    /\ uiUsed' = [uiUsed EXCEPT !.ops = @ + 1]
    /\ UNCHANGED <<owner, device, dispatch>>

Activity(p, s) ==
    \E hidden \in BOOLEAN :
      /\ hidden # socket[s].paused \/ socket[s].silent
      /\ Op(p, s, [socket[s] EXCEPT !.paused = hidden]) /\ UNCHANGED page

(* A page that could not use a frame asks for everything again, but for the log. *)
Resynced(k) == [k EXCEPT !.home.owed = TRUE, !.card.owed = TRUE, !.settings.owed = TRUE,
                         !.diagnostic.owed = k.diagnostic.on, !.history.owed = TRUE,
                         !.stats.owed = TRUE, !.stats.fetch = FALSE]
Resync(p, s) ==
    /\ ~socket[s].card.owed /\ Op(p, s, Resynced(socket[s]))
    /\ page' = [page EXCEPT ![p].stats.building = NoPage]

Unsubscribed(k, v) ==
    CASE v \in {"settings", "log"} -> [k EXCEPT ![v].on = FALSE]
      [] v = "diagnostic" -> [k EXCEPT !.diagnostic.on = FALSE, !.diagnostic.owed = FALSE]
      [] v = "history" -> [k EXCEPT !.history.on = FALSE, !.history.fetch = FALSE]
      [] v = "stats" -> [k EXCEPT !.stats.on = FALSE, !.stats.fetch = FALSE, !.stats.paging = FALSE]
Subscribed(k, p, v) ==
    CASE v \in {"settings", "diagnostic", "history"} -> [k EXCEPT ![v].on = TRUE, ![v].owed = TRUE]
      [] v = "log" -> [k EXCEPT !.log = [on |-> TRUE, push |-> TRUE, after |-> page[p].log]]
      [] v = "stats" -> [k EXCEPT !.stats.on = TRUE, !.stats.owed = TRUE, !.stats.fetch = FALSE,
                                  !.stats.paging = FALSE]
Subscribe(p, s) ==
    \E v \in Views :
      /\ Op(p, s, IF socket[s][v].on THEN Unsubscribed(socket[s], v) ELSE Subscribed(socket[s], p, v))
      /\ page' = IF v = "stats" THEN [page EXCEPT ![p].stats.building = NoPage] ELSE page

(* One more page of a list, or its export.  A later one supersedes an earlier one. *)
Fetch(p, s) ==
    \E v \in Views \cap {"history", "stats"} :
      /\ socket[s][v].on
      /\ Op(p, s, IF v = "history" THEN [socket[s] EXCEPT !.history.fetch = TRUE]
                  ELSE [socket[s] EXCEPT !.stats.fetch = TRUE,
                                         !.stats.paging = @ /\ ~socket[s].stats.ofFetch])
      /\ UNCHANGED page
BadOp(p, s) == Op(p, s, [socket[s] EXCEPT !.closing = TRUE]) /\ UNCHANGED page

-----------------------------------------------------------------------------
(* The rows of a list.  A row that the page holds unchanged is named by its id. *)
Kept == 0
Held(held, i, content) == i \in DOMAIN held /\ held[i] = content
Row(held, i, content) == IF Held(held, i, content) THEN Kept ELSE content
Told(rows, shown, base) ==
    [i \in DOMAIN rows |-> IF rows[i] = Kept THEN shown[base + i] ELSE rows[i]]
KnownRows(rows, shown, base) == \A i \in DOMAIN rows : rows[i] = Kept => base + i \in DOMAIN shown

(* What the page does with a frame of Stats: it assembles a page out of its frames
   and shows it with the last one.  It refuses a page that is no snapshot before
   it has shown one, and a frame that does not continue what it has. *)
StatsFits(q, f) ==
    /\ KnownRows(f.rows, q.shown, f.base)
    /\ IF f.base = 0 THEN f.snapshot \/ q.known
       ELSE q.building.on /\ Len(q.building.rows) = f.base
TellStats(q, f) ==
    LET header == IF f.base = 0 THEN f.header ELSE q.building.header
        rows == IF f.base = 0 THEN Told(f.rows, q.shown, 0)
                ELSE q.building.rows \o Told(f.rows, q.shown, f.base)
    IN  CASE ~StatsFits(q, f) -> [q EXCEPT !.building = NoPage]
          [] StatsFits(q, f) /\ f.more ->
               [q EXCEPT !.building = [on |-> TRUE, header |-> header, rows |-> rows]]
          [] StatsFits(q, f) /\ ~f.more /\ f.fetch -> [q EXCEPT !.building = NoPage]
          [] StatsFits(q, f) /\ ~f.more /\ ~f.fetch ->
               [known |-> TRUE, shown |-> rows, header |-> header, building |-> NoPage]

Tells(g, f) ==      \* what the page does with a frame
    CASE f.part = "home" -> [g EXCEPT !.home = IF f.value = Unknown THEN @ ELSE f.value,
                                      !.presets = IF f.presets = Unknown THEN @ ELSE f.presets,
                                      !.tag = IF f.tag = Unknown THEN @ ELSE f.tag]
      [] f.part = "card" -> [g EXCEPT !.card = f.card]
      [] f.part = "settings" -> [g EXCEPT !.settings = f.value]
      [] f.part = "event" -> [g EXCEPT !.diagnostic = [value |-> f.value,
                                                       sample |-> IF f.snapshot THEN NoSample ELSE @.sample]]
      [] f.part \in Sections -> [g EXCEPT !.diagnostic.sample[f.part] = f.value]
      [] f.part = "log" -> [g EXCEPT !.log = f.value]
      [] f.part = "history" -> [g EXCEPT !.history = IF f.fetch THEN @ ELSE Told(f.rows, @, 0)]
      [] f.part = "stats" -> [g EXCEPT !.stats = TellStats(@, f)]
      [] f.part = "none" -> g

-----------------------------------------------------------------------------
(* The transport.  c is a dispatch's work on one slot: the session k, the page g,
   whether the socket stays open, whether the dispatch ends here, and the frames
   that wait in the coalescing buffer.  An operator yields what may come of it: a
   write fails "clean", with nothing of it sent, only if its frame has not begun;
   "broken" also stands for the dispatch budget of 800 ms being used up. *)
NoFrame == [part |-> "none"]
NoFrames == <<NoFrame, NoFrame>>
AllTold(c) == [c EXCEPT !.g = Tells(Tells(c.g, c.waits[1]), c.waits[2]), !.waits = NoFrames]
Failures(c, committed) ==
    IF c.failed \/ uiUsed.faults = MaxFaults THEN {}
    ELSE IF committed THEN {"broken"} ELSE {"clean", "broken"}

Write(c, committed) ==
    {AllTold(c)} \cup {[c EXCEPT !.waits = NoFrames, !.failed = TRUE, !.result = r] :
                         r \in Failures(c, committed)}
Waiting(c, f) == [c EXCEPT !.waits = <<f, NoFrame>>]
Alone(c, f) == Write(Waiting(c, f), FALSE)

(* A frame of the batch waits for the other one, or does not fit: then what waits
   is flushed first, and a payload that follows its header out is committed. *)
Follows(d, f, fit) ==
    CASE d.result # "sent" -> {d}
      [] d.result = "sent" /\ fit = "payload" -> Write(Waiting(d, f), TRUE)
      [] d.result = "sent" /\ fit # "payload" -> {Waiting(d, f)}
Flushed(c, f, fit) == UNION {Follows(d, f, fit) : d \in Write(c, FALSE)}
Put(c, f, fit) ==
    CASE c.result # "sent" -> {c}
      [] c.result = "sent" /\ c.waits[1] = NoFrame ->
           IF fit = "alone" THEN Alone(c, f) ELSE {Waiting(c, f)}
      [] c.result = "sent" /\ c.waits[1] # NoFrame ->
           IF fit = "together" THEN {[c EXCEPT !.waits = <<c.waits[1], f>>]} ELSE Flushed(c, f, fit)

-----------------------------------------------------------------------------
(* sendHomeStream.  HomeStreamDelta records every field as it is compared; the
   preset record is written once the frame was taken by the transport. *)
HomeSays(k, n) == k.home.owed \/ k.home.value # n.value
PresetsListed(k, n) ==
    /\ ~(k.home.owed /\ k.presets.tag = n.preset)
    /\ k.home.owed \/ k.presets.hash # n.preset
HomeFrame(k, n) ==
    [part |-> "home", value |-> IF HomeSays(k, n) THEN n.value ELSE Unknown,
     presets |-> IF PresetsListed(k, n) /\ (k.home.owed \/ k.presets.sent # n.preset)
                 THEN n.preset ELSE Unknown,
     tag |-> IF PresetsListed(k, n) \/ k.home.owed THEN n.preset ELSE Unknown]
HomeTaken(d, n) ==
    CASE d.result = "sent" -> [d EXCEPT !.k.home.owed = FALSE, !.k.presets.sent = n.preset]
      [] d.result = "clean" -> [d EXCEPT !.k.home.owed = TRUE]
      [] d.result = "broken" -> [d EXCEPT !.open = FALSE]
SendHome(c, n, fit) ==
    LET k == c.k
        compared == [c EXCEPT !.k.home.value = n.value, !.k.presets.hash = n.preset,
                              !.k.presets.tag = Unknown]
        says == HomeSays(k, n) \/ PresetsListed(k, n)
    IN  CASE ~says -> {compared}
          [] says /\ ~Owns(k) -> {[c EXCEPT !.open = FALSE]}
          [] says /\ Owns(k) -> {HomeTaken(d, n) : d \in Put(compared, HomeFrame(k, n), fit)}

(* sendShotCard: a snapshot of the whole curve, or the points after the cursor. *)
CardMoves(k, n) == k.card.owed \/ k.card.cycle # n.cycle \/ k.card.count # n.count
CardShown(k, n) == [seq |-> k.card.seq + 1, cycle |-> n.cycle, count |-> n.count]
CardTaken(d, shown) ==
    CASE d.result = "sent" -> [d EXCEPT !.k.card = [owed |-> FALSE, seq |-> shown.seq,
                                                    cycle |-> shown.cycle, count |-> shown.count]]
      [] d.result = "clean" -> d
      [] d.result = "broken" -> [d EXCEPT !.open = FALSE]
SendCard(c, n, fit) ==
    LET shown == CardShown(c.k, n)
        sends == c.open /\ CardMoves(c.k, n)
    IN  CASE ~sends -> {c}
          [] sends /\ ~Owns(c.k) -> {[c EXCEPT !.open = FALSE]}
          [] sends /\ Owns(c.k) ->
               {CardTaken(d, shown) : d \in Put(c, [part |-> "card", card |-> shown], fit)}

(* sendUiStream: what still waits is flushed, and a batch that was dropped cleanly
   rolls the session and the fingerprints of Home and the card back; the preset
   record stays. *)
Batched(d) ==
    IF d.result = "sent" /\ d.open /\ d.waits[1] # NoFrame THEN Write(d, FALSE) ELSE {d}
RolledBackMutant(saved, k) == [k EXCEPT !.home = saved.home]
RolledBack(saved, k) == [saved EXCEPT !.presets.sent = k.presets.sent]
BatchEnds(saved, d) ==
    CASE d.result = "sent" -> d
      [] d.result = "clean" -> [d EXCEPT !.k = IF d.open THEN RolledBack(saved, @) ELSE @, !.ends = TRUE]
      [] d.result = "broken" -> [d EXCEPT !.open = FALSE]
SendBatch(c, n, fits) ==
    LET home == SendHome(c, n, fits[1])
        card == UNION {SendCard(d, n, fits[2]) : d \in home}
    IN  {BatchEnds(c.k, d) : d \in UNION {Batched(d) : d \in card}}

(* The views: sendUiStreamFrame.  A frame that was deferred arms a snapshot, for
   its fingerprints are taken already; the log and the lists keep their cursors. *)
GoesOn(c) == c.open /\ ~c.ends /\ c.result = "sent"
Taken(d, deferred) ==
    CASE d.result = "sent" -> d
      [] d.result = "clean" -> [d EXCEPT !.k = deferred]
      [] d.result = "broken" -> [d EXCEPT !.open = FALSE]
Sent(c, f, accepted, deferred) ==
    IF Owns(c.k) THEN {Taken(d, deferred) : d \in Alone([c EXCEPT !.k = accepted], f)}
    ELSE {[c EXCEPT !.open = FALSE]}
Again(c) == IF c.result = "clean" /\ ~c.ends THEN [c EXCEPT !.result = "sent"] ELSE c

(* sendDiagnosticStream: the event fields, and every 4 s the sampled sections on
   frames of their own; the first frame that is deferred ends the pass. *)
DiagnosticDeferred(k) == [k EXCEPT !.diagnostic.owed = TRUE]
EventsMoved(k, n) == k.diagnostic.owed \/ k.diagnostic.value # n.value
SendEvents(c, n) ==
    LET k == c.k
        compared == [k EXCEPT !.diagnostic.value = n.value, !.diagnostic.owed = FALSE]
    IN  IF EventsMoved(k, n)
        THEN Sent(c, [part |-> "event", value |-> n.value, snapshot |-> k.diagnostic.owed],
                  compared, DiagnosticDeferred(compared))
        ELSE {c}
SendSection(c, x, n, snapshot) ==
    LET k == c.k
        compared == [k EXCEPT !.diagnostic.sample[x] = n.value]
    IN  IF GoesOn(c) /\ (snapshot \/ k.diagnostic.sample[x] # n.value)
        THEN Sent(c, [part |-> x, value |-> n.value], compared, DiagnosticDeferred(compared))
        ELSE {c}
SendAudit(c, n, snapshot) == SendSection(c, "audit", n, snapshot)
SendSample(c, n, snapshot) ==
    LET telemetry == SendSection(c, "telemetry", n, snapshot)
        tasks == UNION {SendSection(d, "tasks", n, snapshot) : d \in telemetry}
        profile == UNION {SendSection(d, "profile", n, snapshot) : d \in tasks}
    IN  UNION {SendAudit(d, n, snapshot) : d \in profile}
SendDiagnostic(c, n, slow) ==
    LET snapshot == c.k.diagnostic.owed
        pass == IF snapshot \/ slow THEN UNION {SendSample(d, n, snapshot) : d \in SendEvents(c, n)}
                ELSE SendEvents(c, n)
    IN  IF GoesOn(c) /\ c.k.diagnostic.on THEN {Again(d) : d \in pass} ELSE {c}

SettingsDeferred(k) == [k EXCEPT !.settings.owed = TRUE]
SettingsMoved(k, n) == k.settings.owed \/ k.settings.value # n.value
SendSettings(c, n) ==
    LET k == c.k
        compared == [k EXCEPT !.settings.value = n.value, !.settings.owed = FALSE]
    IN  IF GoesOn(c) /\ k.settings.on /\ SettingsMoved(k, n)
        THEN {Again(d) : d \in Sent(c, [part |-> "settings", value |-> n.value], compared,
                                    SettingsDeferred(compared))}
        ELSE {c}

(* sendLogStream: every change leaves one line, and a frame carries one. *)
SendLog(c) ==
    LET k == c.k
        lines == uiUsed.changes
        next == IF k.log.after < lines THEN k.log.after + 1 ELSE k.log.after
    IN  IF GoesOn(c) /\ k.log.on /\ (k.log.push \/ k.log.after # lines)
        THEN {Again(d) : d \in Sent(c, [part |-> "log", value |-> next],
                                    [k EXCEPT !.log.after = next, !.log.push = next < lines], k)}
        ELSE {c}

(* sendHistoryStream: the whole page in one frame.  A snapshot supersedes a fetch,
   and a fetch leaves the standing page as it is. *)
HistoryFrame(h) ==
    [part |-> "history", fetch |-> h.fetch /\ ~h.owed,
     rows |-> [i \in DOMAIN device.rows |->
                 IF h.owed \/ h.fetch THEN device.rows[i] ELSE Row(h.held, i, device.rows[i])]]
HistoryAccepted(h) ==
    IF h.fetch /\ ~h.owed THEN [h EXCEPT !.fetch = FALSE]
    ELSE [h EXCEPT !.owed = FALSE, !.fetch = FALSE, !.epoch = device.epoch, !.held = device.rows]
SendHistory(c) ==
    LET k == c.k
        h == k.history
    IN  IF GoesOn(c) /\ h.on /\ (h.owed \/ h.fetch \/ h.epoch # device.epoch)
        THEN {Again(d) : d \in Sent(c, HistoryFrame(h), [k EXCEPT !.history = HistoryAccepted(h)],
                                    [k EXCEPT !.history.fetch = @ /\ ~h.owed])}
        ELSE {c}

(* sendStatsStream: a page is delivered a frame at a time, paced.  It starts anew
   when the list moves, when it is superseded and for a snapshot. *)
Fetches(q) == q.fetch /\ ~q.owed /\ (~q.paging \/ q.ofFetch)
Continues(q) == q.paging /\ ~q.owed /\ q.ofFetch = Fetches(q) /\ q.at = device.epoch
Fingerprint(n) == [epoch |-> device.epoch, preset |-> n.preset]
StatsIdle(q, n) ==
    /\ ~Continues(q) /\ ~q.owed /\ ~Fetches(q)
    /\ (q.epoch = device.epoch /\ q.preset = n.preset) \/ Fingerprint(n) = q.print
BegunPage(q, n) ==
    IF Continues(q) THEN q
    ELSE [q EXCEPT !.paging = TRUE, !.snapshot = q.owed, !.ofFetch = Fetches(q), !.owed = FALSE,
                   !.at = device.epoch, !.next = <<>>, !.preset = IF Fetches(q) THEN @ ELSE n.preset]
StatsRows(q, base, count) ==
    [i \in 1 .. count |-> IF q.snapshot \/ q.ofFetch THEN device.rows[base + i]
                          ELSE Row(q.held, base + i, device.rows[base + i])]
StatsHeader(n) == n.preset
StatsFrame(q, n, count) ==
    LET base == Len(q.next) IN
    [part |-> "stats", base |-> base, header |-> StatsHeader(n), fetch |-> q.ofFetch,
     snapshot |-> base = 0 /\ q.snapshot, more |-> base + count < Len(device.rows),
     rows |-> StatsRows(q, base, count)]
(* q once the frame is out. *)
Delivered(q, n, count) ==
    LET rows == q.next \o SubSeq(device.rows, Len(q.next) + 1, Len(q.next) + count)
        ends == Len(rows) = Len(device.rows)
    IN  CASE ~ends -> [q EXCEPT !.next = rows]
          [] ends /\ q.ofFetch -> [q EXCEPT !.paging = FALSE, !.fetch = FALSE, !.next = rows]
          [] ends /\ ~q.ofFetch ->
               [q EXCEPT !.paging = FALSE, !.epoch = device.epoch, !.print = Fingerprint(n),
                         !.next = rows, !.held = rows]
Stopped(q, n) ==      \* nothing to send: what the check of the page leaves
    [q EXCEPT !.paging = FALSE, !.epoch = device.epoch, !.preset = n.preset]
FrameRows(q, take) ==     \* a frame carries one row, or all that are left
    LET left == Len(device.rows) - Len(q.next) IN IF take = "one" /\ left > 0 THEN 1 ELSE left
SendPage(c, q, n, count) ==
    {Again(d) : d \in Sent(c, StatsFrame(q, n, count), [c.k EXCEPT !.stats = Delivered(q, n, count)],
                           [c.k EXCEPT !.stats = q])}
SendStats(c, n, take) ==
    LET q == c.k.stats
        sends == GoesOn(c) /\ q.on /\ ~(take = "none" /\ Continues(q))
    IN  CASE ~sends -> {c}
          [] sends /\ StatsIdle(q, n) -> {[c EXCEPT !.k.stats = Stopped(q, n)]}
          [] sends /\ ~StatsIdle(q, n) ->
               UNION {SendPage(c, b, n, FrameRows(b, take)) : b \in {BegunPage(q, n)}}

-----------------------------------------------------------------------------
(* The dispatch.  serviceUiStream queues it; httpd begins it with one copy of the
   state, unless settings work holds the response buffer, and serves slot by slot. *)
Queue ==
    /\ ~dispatch.pending /\ \E s \in Sockets : socket[s].open
    /\ dispatch' = [dispatch EXCEPT !.pending = TRUE, !.queued = TRUE]
    /\ UNCHANGED <<owner, socket, page, device, uiUsed>>
Busy ==
    /\ Httpd /\ dispatch.queued /\ dispatch' = NoDispatch
    /\ UNCHANGED <<owner, socket, page, device, uiUsed>>
Begin ==
    /\ Httpd /\ dispatch.queued
    /\ dispatch' = [dispatch EXCEPT !.queued = FALSE, !.at = 1, !.seen = device.shown]
    /\ UNCHANGED <<owner, socket, page, device, uiUsed>>

Allowed(k) == IF k.bound THEN Owns(k) ELSE ~k.late
Owed(k) == ~k.paused \/ dispatch.seen.live \/ k.home.owed \/ k.card.owed
UnheardOf(k) == k.bound /\ Owns(k) /\ k.silent /\ ~dispatch.seen.live
NextSlot == IF dispatch.at = Cardinality(Sockets) THEN NoDispatch ELSE [dispatch EXCEPT !.at = @ + 1]

Work(s) ==
    [k |-> socket[s], open |-> TRUE, ends |-> FALSE, failed |-> FALSE, result |-> "sent",
     waits |-> NoFrames, g |-> IF Reaches(s, socket[s].peer) THEN page[socket[s].peer] ELSE BlankPage]
SendViews(c, n, slow, take) ==
    LET diagnostic == SendDiagnostic(c, n, slow)
        settings == UNION {SendSettings(d, n) : d \in diagnostic}
        history == UNION {SendHistory(d) : d \in settings}
        stats == UNION {SendStats(d, n, take) : d \in history}
    IN  UNION {SendLog(d) : d \in stats}
SendTo(s) ==
    LET n == dispatch.seen IN
    \E fits \in HomeFits \X CardFits : \E batch \in SendBatch(Work(s), n, fits) :
    \E slow \in BOOLEAN, take \in {"none", "one", "rest"} :
      /\ slow => socket[s].diagnostic.on
      /\ take # "rest" => socket[s].stats.on
      /\ \E d \in SendViews(batch, n, slow, take) :
           /\ socket' = [socket EXCEPT ![s] = [d.k EXCEPT !.closing = @ \/ ~d.open]]
           /\ page' = [p \in Pages |-> IF Reaches(s, p) THEN d.g ELSE page[p]]
           /\ uiUsed' = [uiUsed EXCEPT !.faults = IF d.failed THEN @ + 1 ELSE @]

Serve ==
    /\ ~Httpd
    /\ LET s == dispatch.at
           k == socket[s]
           silent == k.open /\ UnheardOf(k)
           refused == k.open /\ ~silent /\ ~Allowed(k)
           sends == k.open /\ ~silent /\ ~refused /\ k.bound /\ Owed(k)
       IN  \/ /\ silent
              /\ socket' = [socket EXCEPT ![s].bound = FALSE, ![s].late = TRUE, ![s].closing = TRUE]
              /\ UNCHANGED <<page, uiUsed>>
           \/ /\ refused /\ socket' = [socket EXCEPT ![s].closing = TRUE]
              /\ UNCHANGED <<page, uiUsed>>
           \/ sends /\ SendTo(s)
           \/ ~silent /\ ~refused /\ ~sends /\ UNCHANGED <<socket, page, uiUsed>>
    /\ dispatch' = NextSlot
    /\ UNCHANGED <<owner, device>>

-----------------------------------------------------------------------------
(* What there is to show moves on; a shot draws its curve while it is live, and
   leaves a row that can be rated. *)
Changes ==
    /\ uiUsed.changes < MaxUiChanges /\ uiUsed' = [uiUsed EXCEPT !.changes = @ + 1]
    /\ \/ device' = [device EXCEPT !.shown.value = 1 - @]
       \/ device' = [device EXCEPT !.shown.preset = 1 - @]
       \/ device' = [device EXCEPT !.shown.cycle = @ + 1, !.shown.count = 0, !.shown.live = TRUE]
       \/ device.shown.live /\ device' = [device EXCEPT !.shown.count = @ + 1]
       \/ device' = [device EXCEPT !.rows = Append(@, 1), !.epoch = @ + 1]
       \/ \E i \in DOMAIN device.rows : device' = [device EXCEPT !.rows[i] = @ + 1, !.epoch = @ + 1]
    /\ UNCHANGED <<owner, socket, page, dispatch>>
LiveEnds ==
    /\ device.shown.live /\ device' = [device EXCEPT !.shown.live = FALSE]
    /\ UNCHANGED <<owner, socket, page, dispatch, uiUsed>>

UiStreamNext ==
    \/ \E p \in Pages :
          \/ Claim(p) \/ Leave(p)
          \/ \E s \in Sockets : Open(p, s) \/ Bind(p, s) \/ Activity(p, s) \/ Resync(p, s)
                              \/ Subscribe(p, s) \/ Fetch(p, s) \/ BadOp(p, s)
    \/ \E s \in Sockets : Close(s) \/ BindTimesOut(s) \/ GoesSilent(s)
    \/ SignOutUi \/ Queue \/ Busy \/ Begin \/ Serve \/ Changes \/ LiveEnds

UiStreamSpec == UiStreamInit /\ [][UiStreamNext]_uiStreamVars

-----------------------------------------------------------------------------
(* Differences are only sent on top of what the page shows: the card's sequence,
   shot and cursor, and the values of the subscribed views, are what the session
   has recorded unless a snapshot is owed, and a row is named by its id only when
   the page shows it, whatever was deferred, rolled back, superseded or fetched. *)
CardInStep(k, g) ==
    k.card.owed \/ g.card = [seq |-> k.card.seq, cycle |-> k.card.cycle, count |-> k.card.count]
SettingsInStep(k, g) == k.settings.on /\ ~k.settings.owed => g.settings = k.settings.value
DiagnosticInStep(k, g) ==
    k.diagnostic.on /\ ~k.diagnostic.owed =>
      g.diagnostic = [value |-> k.diagnostic.value, sample |-> k.diagnostic.sample]
LogInStep(k, g) == k.log.on => g.log = k.log.after
HistoryInStep(k, g) == k.history.held = <<>> \/ k.history.held = g.history
StatsInStep(k, g) == k.stats.held = <<>> \/ ~g.stats.known \/ k.stats.held = g.stats.shown
PageIsWhereTheSessionIs ==
    \A s \in Sockets, p \in Pages :
      LET k == socket[s]
          g == page[p]
      IN  k.bound /\ ~k.closing /\ Reaches(s, p) =>
            /\ CardInStep(k, g) /\ SettingsInStep(k, g) /\ DiagnosticInStep(k, g)
            /\ LogInStep(k, g) /\ HistoryInStep(k, g) /\ StatsInStep(k, g)

(* "The header identity a standing page carries: a later window or preset change,
   even mid-page, sends the header again" (OpenBrewByWeightHomeStream.inc:1407): a page
   that has come to rest shows the header of the preset its session has recorded. *)
HeaderIsShown ==
    \A s \in Sockets, p \in Pages :
      LET q == socket[s].stats IN
      /\ Served(s) /\ Reaches(s, p) /\ q.on /\ ~q.owed /\ ~q.fetch /\ ~q.paging
      /\ page[p].stats.known
      => page[p].stats.header = q.preset
=============================================================================
