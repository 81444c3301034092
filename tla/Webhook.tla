------------------------------ MODULE Webhook ------------------------------
(* The webhook dispatcher: a queue of events, one worker task that posts     *)
(* them, and the gates that hold it back.                                    *)
(*                                                                           *)
(* Three tasks enter it beside the worker: control (the events of a shot),   *)
(* the HTTP server (the test event) and the network task (a saved            *)
(* configuration).  hook is guarded by mux_, one short section per step;     *)
(* hook.lock is lifecycleMutex_, which enqueue() only tries.  A configuration*)
(* selects every event or, when it is disabled, none.  Times are not counted:*)
(* a delay or a deadline ends by choice of the step that reads it.           *)
EXTENDS Integers, Sequences, FiniteSets

CONSTANTS
    HookConfigs,     \* the [enabled, url, defer] a page may save
    HookKinds,       \* the kinds of event that happen
    QueueDepth,      \* kWebhookQueueDepth
    PostAttempts,    \* kWebhookAttempts
    MaxPosts,        \* bound: events
    MaxSaves,        \* bound: configurations saved
    MaxGates         \* bound: openings and closings of a gate

ASSUME WebhookAssumption ==
    /\ \A config \in HookConfigs : config.enabled \in BOOLEAN /\ config.defer \in BOOLEAN
    /\ {QueueDepth, PostAttempts, MaxPosts, MaxSaves, MaxGates} \subseteq Nat

VARIABLES
    hook,      \* the dispatcher's shared state
    calls,     \* what each calling task is doing
    post,      \* the worker's own state
    gates,     \* what holds deliveries back, written by other tasks
    fate       \* what became of each event (history)

webhookVars == <<hook, calls, post, gates, fate>>

Callers == {"control", "http", "network"}
EventKinds(c) ==
    CASE c = "control" -> HookKinds \ {"test"}
      [] c = "http" -> HookKinds \cap {"test"}
      [] OTHER -> {}

NoUrl == "none"
NoItem == [id |-> 0, kind |-> "none", gen |-> 0, url |-> NoUrl]

\* stateSlot: the events whose newest copy says everything.
HasSlot(kind) == kind = "brew_state"

DispatchAllowed == ~gates.held /\ ~(hook.config.defer /\ gates.critical)

\* And no acquisition began or ended since the request was prepared.
Admitted == DispatchAllowed /\ ~post.fenced

Free == hook.lock = "none"
NoCall == [at |-> "idle", item |-> NoItem, enabled |-> FALSE]
Idle(c) == calls' = [calls EXCEPT ![c] = NoCall]
Goes(c, step) == calls' = [calls EXCEPT ![c].at = step]
Becomes(item, end) == fate' = [fate EXCEPT ![item.id] = end]

-----------------------------------------------------------------------------
(* startWorker, called with lifecycleMutex_ held from its first step to its  *)
(* last.  A test starts the worker before it is queued, a saved              *)
(* configuration after it is stored.                                         *)

StartTakes(c) ==
    /\ calls[c].at = "start" /\ Free
    /\ hook' = [hook EXCEPT
         !.lock = c,
         !.stopAfterDrain = @ /\ ~hook.config.enabled,
         !.state = IF @ = "STOPPED" THEN "STARTING" ELSE @]
    /\ Goes(c, IF hook.state = "STOPPED" THEN "allocate" ELSE "started")
    /\ UNCHANGED <<post, gates, fate>>

AfterStart(c) == IF c = "network" THEN Idle(c) ELSE Goes(c, "read")

WorkerRuns(c) ==
    /\ calls[c].at = "allocate"
    /\ hook' = [hook EXCEPT !.lock = "none", !.state = "READY", !.queue = <<>>,
                            !.noMemory = FALSE]
    /\ post' = [post EXCEPT !.pc = "top"]
    /\ AfterStart(c)
    /\ UNCHANGED <<gates, fate>>

WorkerRefused(c) ==
    /\ calls[c].at = "allocate"
    /\ hook' = [hook EXCEPT !.lock = "none", !.state = "STOPPED", !.noMemory = TRUE]
    /\ AfterStart(c)
    /\ UNCHANGED <<post, gates, fate>>

StartGives(c) ==
    /\ calls[c].at = "started"
    /\ hook' = [hook EXCEPT !.lock = "none"]
    /\ AfterStart(c)
    /\ UNCHANGED <<post, gates, fate>>

-----------------------------------------------------------------------------
(* enqueue().                                                                *)

Posts(c, kind) ==
    /\ calls[c].at = "idle" /\ kind \in EventKinds(c)
    /\ hook.posts < MaxPosts
    /\ hook' = [hook EXCEPT !.posts = @ + 1]
    /\ calls' = [calls EXCEPT
         ![c] = [@ EXCEPT !.at = IF kind = "test" THEN "start" ELSE "read",
                          !.item = [NoItem EXCEPT !.id = hook.posts + 1, !.kind = kind]]]
    /\ UNCHANGED <<post, gates, fate>>

\* The configuration is copied once; what follows goes by the copy.
ReadsConfig(c) ==
    LET selected == calls[c].item.kind = "test" \/ hook.config.enabled IN
    /\ calls[c].at = "read"
    /\ calls' = [calls EXCEPT
         ![c] = IF selected
                  THEN [@ EXCEPT !.at = "lock", !.enabled = hook.config.enabled,
                                 !.item.gen = hook.gen, !.item.url = hook.config.url]
                  ELSE NoCall]
    /\ IF selected THEN UNCHANGED fate ELSE Becomes(calls[c].item, "ended")
    /\ UNCHANGED <<hook, post, gates>>

TriesLock(c) ==
    /\ calls[c].at = "lock" /\ Free
    /\ hook' = [hook EXCEPT !.lock = c]
    /\ Goes(c, "send")
    /\ UNCHANGED <<post, gates, fate>>

LockIsTaken(c) ==
    /\ calls[c].at = "lock" /\ ~Free
    /\ Becomes(calls[c].item, "ended")
    /\ Idle(c)
    /\ UNCHANGED <<hook, post, gates>>

Accepts == hook.state = "READY" /\ Len(hook.queue) < QueueDepth

\* The event is in the queue before it is counted: the worker may be faster.
SendsToQueue(c) ==
    /\ calls[c].at = "send" /\ Accepts
    /\ hook' = [hook EXCEPT !.queue = Append(@, calls[c].item)]
    /\ Becomes(calls[c].item, "queued")
    /\ Goes(c, "count")
    /\ UNCHANGED <<post, gates>>

QueueRefuses(c) ==
    /\ calls[c].at = "send" /\ ~Accepts
    /\ hook' = [hook EXCEPT !.lock = "none"]
    /\ Becomes(calls[c].item, "ended")
    /\ Idle(c)
    /\ UNCHANGED <<post, gates>>

Counts(c) ==
    LET kind == calls[c].item.kind IN
    /\ calls[c].at = "count"
    /\ hook' = [hook EXCEPT
         !.lock = "none",
         !.newer = IF HasSlot(kind) THEN @ + 1 ELSE @,
         !.stopAfterDrain = @ \/ (kind = "test" /\ ~calls[c].enabled)]
    /\ Idle(c)
    /\ UNCHANGED <<post, gates, fate>>

\* setConfig.
SavesConfig(config) ==
    /\ calls["network"].at = "idle"
    /\ hook.gen <= MaxSaves /\ config # hook.config
    /\ hook' = [hook EXCEPT
         !.config = config, !.gen = @ + 1,
         !.cleanup = @ \/ ~config.enabled \/ config.url # hook.config.url]
    /\ Goes("network", IF config.enabled THEN "start" ELSE "idle")
    /\ UNCHANGED <<post, gates, fate>>

Caller(c) ==
    \/ StartTakes(c) \/ WorkerRuns(c) \/ WorkerRefused(c) \/ StartGives(c)
    \/ ReadsConfig(c) \/ TriesLock(c) \/ LockIsTaken(c)
    \/ SendsToQueue(c) \/ QueueRefuses(c) \/ Counts(c)

-----------------------------------------------------------------------------
(* The worker: task().                                                       *)

TopOfLoop ==
    /\ post.pc = "top" /\ hook.state # "STOPPING"
    /\ hook' = [hook EXCEPT !.cleanup = FALSE]
    /\ post' = [post EXCEPT
         !.client = IF hook.cleanup THEN NoUrl ELSE @,
         !.pc = CASE post.have -> "decide"
                  [] ~post.have /\ DispatchAllowed -> "receive"
                  [] OTHER -> "drain"]
    /\ UNCHANGED <<calls, gates, fate>>

Receives ==
    /\ post.pc = "receive" /\ hook.queue # <<>>
    /\ hook' = [hook EXCEPT !.queue = Tail(@)]
    /\ post' = [post EXCEPT !.have = TRUE, !.item = Head(hook.queue), !.pc = "uncount"]
    /\ UNCHANGED <<calls, gates, fate>>

WaitsInVain ==
    /\ post.pc = "receive" /\ hook.queue = <<>>
    /\ post' = [post EXCEPT !.pc = "drain"]
    /\ UNCHANGED <<hook, calls, gates, fate>>

\* Mutant: a received event still counts as waiting.
UncountsMutKeeps ==
    /\ post.pc = "uncount"
    /\ post' = [post EXCEPT !.pc = "decide"]
    /\ UNCHANGED <<hook, calls, gates, fate>>

Uncounts ==
    /\ post.pc = "uncount"
    /\ hook' = [hook EXCEPT !.newer = IF HasSlot(post.item.kind) THEN @ - 1 ELSE @]
    /\ post' = [post EXCEPT !.pc = "decide"]
    /\ UNCHANGED <<calls, gates, fate>>

IsSuperseded ==
    post.failures # 0 /\ HasSlot(post.item.kind) /\ hook.newer > 0

MaySend ==
    /\ DispatchAllowed
    /\ post.item.kind = "started" => gates.wifi
    /\ post.failures # 0 => post.due

\* The pass goes on without a request; the event goes with it or stays.
Rests(p) == [p EXCEPT !.url = NoUrl, !.fenced = FALSE, !.sent = FALSE,
                      !.answer = "failed", !.reached = {}, !.pc = "drain"]
Forgets(p) ==
    [Rests(p) EXCEPT !.have = FALSE, !.failures = 0, !.due = FALSE, !.item = NoItem]

Supersedes ==
    /\ post.pc = "decide" /\ IsSuperseded
    /\ post' = Forgets(post)
    /\ Becomes(post.item, "superseded")
    /\ UNCHANGED <<hook, calls, gates>>

HoldsBack ==
    /\ post.pc = "decide" /\ ~IsSuperseded /\ ~MaySend
    /\ post' = [post EXCEPT !.pc = "drain"]
    /\ UNCHANGED <<hook, calls, gates, fate>>

\* kWebhookRetryDelaysMs.
BackoffEnds ==
    /\ post.have /\ post.failures # 0 /\ ~post.due
    /\ post' = [post EXCEPT !.due = TRUE]
    /\ UNCHANGED <<hook, calls, gates, fate>>

-----------------------------------------------------------------------------
(* send().                                                                   *)

Sends == post.pc = "decide" /\ ~IsSuperseded /\ MaySend

DropsStale ==
    /\ Sends /\ post.item.gen # hook.gen
    /\ post' = Forgets(post)
    /\ Becomes(post.item, "ended")
    /\ UNCHANGED <<hook, calls, gates>>

Permanent(answer) ==
    \/ post.item.kind = "test" \/ answer = "rejected"
    \/ post.failures + 1 >= PostAttempts

Outcome(answer) ==
    CASE answer = "ok" -> "ended"
      [] answer = "interrupted" /\ ~post.sent -> "held"
      [] answer # "ok" /\ (answer = "interrupted" => post.sent) /\ Permanent(answer)
           -> "ended"
      [] OTHER -> "retry"

\* What becomes of the event, and of the worker's count of its failures.
EndsRequest(answer) ==
    /\ post' = CASE Outcome(answer) = "held" -> Rests(post)
                 [] Outcome(answer) = "retry" ->
                      [Rests(post) EXCEPT !.failures = @ + 1, !.due = FALSE]
                 [] OTHER -> Forgets(post)
    /\ IF Outcome(answer) = "ended" THEN Becomes(post.item, "ended") ELSE UNCHANGED fate
    /\ UNCHANGED <<hook, calls, gates>>

Prepares ==
    /\ Sends /\ post.item.gen = hook.gen /\ gates.wifi
    /\ post' = [post EXCEPT !.url = hook.config.url, !.pc = "resolve"]
    /\ UNCHANGED <<hook, calls, gates, fate>>

FailsOffline ==
    /\ Sends /\ post.item.gen = hook.gen /\ ~gates.wifi
    /\ EndsRequest("failed")

\* Mutant: any client that is there is used.
UsableClientMutAny(client, url) == IF client = NoUrl THEN url ELSE client

\* ensureHttpClient: the address the client of a request posts to.
UsableClient(client, url) == url

\* resolveHost and ensureHttpClient.
Resolves ==
    /\ post.pc = "resolve"
    /\ post' = [post EXCEPT !.client = UsableClient(@, post.url), !.pc = "perform"]
    /\ UNCHANGED <<hook, calls, gates, fate>>

\* The name is not found in time, or not before the gate closes.
NotResolved ==
    /\ post.pc = "resolve"
    /\ EndsRequest(IF Admitted THEN "failed" ELSE "interrupted")

\* A client that would have to be made, without the memory for it.
NoClient ==
    /\ post.pc = "resolve" /\ UsableClient(post.client, post.url) # post.client
    /\ EndsRequest("failed")

\* One call of esp_http_client_perform: the headers reach the socket.
HeadersGo ==
    /\ post.pc = "perform" /\ Admitted /\ ~post.sent
    /\ post' = [post EXCEPT !.sent = TRUE,
                            !.reached = @ \cup {<<post.item.url, post.client>>}]
    /\ UNCHANGED <<hook, calls, gates, fate>>

\* The answer, an error or the deadline, or a gate that closes the loop.
Performed(answer) ==
    /\ post.pc = "perform"
    /\ answer # "failed" => post.sent /\ Admitted
    /\ post' = [post EXCEPT !.answer = answer, !.pc = "judge"]
    /\ UNCHANGED <<hook, calls, gates, fate>>

\* After the last call the gate is looked at once more.
Judges ==
    /\ post.pc = "judge"
    /\ EndsRequest(IF Admitted THEN post.answer ELSE "interrupted")

-----------------------------------------------------------------------------
(* The end of a pass, and of a worker that a test of a disabled receiver     *)
(* started.                                                                  *)

EndsPass ==
    /\ post.pc = "drain"
    /\ post' = [post EXCEPT
         !.pc = IF hook.stopAfterDrain /\ ~post.have THEN "stop" ELSE "top"]
    /\ UNCHANGED <<hook, calls, gates, fate>>

\* Mutant: what is still queued is not looked at.
MayStopMutQueued == hook.state = "READY" /\ hook.stopAfterDrain

MayStop == hook.state = "READY" /\ hook.stopAfterDrain /\ hook.queue = <<>>

StopsAfterDrain ==
    /\ post.pc = "stop" /\ Free
    /\ hook' = [hook EXCEPT !.state = IF MayStop THEN "STOPPING" ELSE @]
    /\ post' = [post EXCEPT !.pc = IF MayStop THEN "release" ELSE "top"]
    /\ UNCHANGED <<calls, gates, fate>>

\* releaseWorkerFromTask.
Releases ==
    /\ post.pc = "release" /\ Free
    /\ hook' = [hook EXCEPT !.state = "STOPPED", !.queue = <<>>, !.newer = 0,
                            !.stopAfterDrain = FALSE]
    /\ post' = [post EXCEPT !.client = NoUrl, !.pc = "gone"]
    /\ UNCHANGED <<calls, gates, fate>>

Worker ==
    \/ TopOfLoop \/ Receives \/ WaitsInVain \/ Uncounts
    \/ Supersedes \/ HoldsBack \/ DropsStale \/ Prepares \/ FailsOffline
    \/ Resolves \/ NotResolved \/ NoClient \/ HeadersGo
    \/ (\E answer \in {"ok", "rejected", "failed"} : Performed(answer))
    \/ Judges \/ EndsPass \/ StopsAfterDrain \/ Releases

-----------------------------------------------------------------------------
(* The gates.                                                                *)

Closes(g) ==
    /\ gates.turns < MaxGates
    /\ gates' = [g EXCEPT !.turns = @ + 1]
    /\ UNCHANGED <<hook, calls, fate>>
Opens(g) == gates' = g /\ UNCHANGED <<hook, calls, fate>>

\* setControlCritical: a shot begins, a shot ends.
ShotBegins ==
    ~gates.critical /\ Closes([gates EXCEPT !.critical = TRUE]) /\ UNCHANGED post
ShotEnds ==
    gates.critical /\ Opens([gates EXCEPT !.critical = FALSE]) /\ UNCHANGED post

\* publishOutboundAcquisition: each edge is a new generation, and a request
\* that began under an older one is not admitted any more.
Fences ==
    post' = [post EXCEPT !.fenced = @ \/ post.pc \in {"resolve", "perform", "judge"}]

AcquisitionBegins == ~gates.held /\ Closes([gates EXCEPT !.held = TRUE]) /\ Fences
AcquisitionEnds == gates.held /\ Opens([gates EXCEPT !.held = FALSE]) /\ Fences

WifiLost == gates.wifi /\ Closes([gates EXCEPT !.wifi = FALSE]) /\ UNCHANGED post
WifiBack == ~gates.wifi /\ Opens([gates EXCEPT !.wifi = TRUE]) /\ UNCHANGED post

Gate == ShotBegins \/ ShotEnds \/ AcquisitionBegins \/ AcquisitionEnds \/ WifiLost \/ WifiBack

-----------------------------------------------------------------------------
\* begin() at boot: a worker is started only for an enabled receiver.
WebhookInit ==
    /\ \E config \in HookConfigs :
         hook = [config |-> config, gen |-> 1, lock |-> "none", queue |-> <<>>,
                 state |-> IF config.enabled THEN "READY" ELSE "STOPPED",
                 stopAfterDrain |-> FALSE, newer |-> 0, cleanup |-> FALSE,
                 noMemory |-> FALSE, posts |-> 0]
    /\ post = [pc |-> IF hook.config.enabled THEN "top" ELSE "gone", have |-> FALSE,
               item |-> NoItem, failures |-> 0, due |-> FALSE, url |-> NoUrl,
               client |-> NoUrl, fenced |-> FALSE, sent |-> FALSE,
               answer |-> "failed", reached |-> {}]
    /\ calls = [c \in Callers |-> NoCall]
    /\ gates = [critical |-> FALSE, held |-> FALSE, wifi |-> TRUE, turns |-> 0]
    /\ fate = [i \in 1 .. MaxPosts |-> "none"]

WebhookNext ==
    \/ \E c \in Callers : Caller(c) \/ \E kind \in EventKinds(c) : Posts(c, kind)
    \/ \E config \in HookConfigs : SavesConfig(config)
    \/ Worker \/ BackoffEnds
    \/ Gate

WebhookSpec == WebhookInit /\ [][WebhookNext]_webhookVars

\* Every task runs on, a backoff ends, a shot ends, a hunt for the scale ends
\* and the Wi-Fi comes back.
WebhookFairness ==
    /\ \A c \in Callers : WF_webhookVars(Caller(c))
    /\ WF_webhookVars(Worker) /\ WF_webhookVars(BackoffEnds)
    /\ WF_webhookVars(ShotEnds) /\ WF_webhookVars(AcquisitionEnds)
    /\ WF_webhookVars(WifiBack)

WebhookFairSpec == WebhookSpec /\ WebhookFairness

-----------------------------------------------------------------------------
(* Properties.                                                               *)

\* A state that is given up for a newer one (task(), "superseded by a newer
\* queued copy") is given up only while that newer one waits in the queue: the
\* receiver is never left with the older state and nothing to follow.
SupersededHasSuccessor ==
    [][\A i \in 1 .. MaxPosts :
         fate[i] # "superseded" /\ fate'[i] = "superseded" =>
           \E n \in 1 .. Len(hook.queue) :
              HasSlot(hook.queue[n].kind) /\ hook.queue[n].id > i]_webhookVars

\* An event reaches only the receiver that was configured when it happened,
\* whatever is saved while it waits (generation, ensureHttpClient).
RightReceiver == \A r \in post.reached : r[1] = r[2]

\* An accepted event is delivered, replaced or given up for a reason: nothing
\* stays in the worker's hands, and no queue is released with an event in it.
EventSettles == \A i \in 1 .. MaxPosts : fate[i] = "queued" ~> fate[i] # "queued"

\* "Enabling while a disabled test drains keeps the running worker alive"
\* (startWorker): an enabled receiver has a worker unless memory ran out.
EnablingKeepsWorker ==
    hook.config.enabled /\ calls["network"].at = "idle" /\ ~hook.noMemory
        => hook.state # "STOPPED"

\* "This non-blocking take only fails during a worker start/stop transition"
\* (enqueue): an event is not dropped because another task is queuing one.
OnlyTransitionsDrop ==
    [][\A c \in Callers : LockIsTaken(c) => hook.state # "READY"]_webhookVars
=============================================================================
