----------------------------- MODULE SettingsStore -----------------------------
(***************************************************************************)
(* The settings record in its two NVS slots (src/src/                       *)
(* OpenBrewByWeightPersistence.h) and its two writers.                      *)
(*                                                                         *)
(* The control task owns the runtime settings and presets; an edit is       *)
(* applied to RAM at once and reaches flash later, as a copy of the whole   *)
(* record that the settings_persist worker saves.  The network task owns    *)
(* the network part (settings_) and saves the whole record, too: under a    *)
(* maintenance lease for an admin command, and without one when a pending   *)
(* Wi-Fi configuration is confirmed or reverted.  A factory reset writes    *)
(* both slots, guarded by a recovery intent that a reboot resumes.          *)
(*                                                                         *)
(* NVS is external: a put stores the record or fails and leaves the old     *)
(* one.  Runtime settings are a version; 0 is the factory version.          *)
(***************************************************************************)
EXTENDS Integers

CONSTANTS
    MaxEdits,        \* bound on the changes of the runtime settings
    MaxNetworks,     \* bound on the Wi-Fi configurations saved
    MaxRevision,     \* bound on storageRevision (2^32, with wrap, in the code)
    MaxAttempts,     \* COMMAND_MAX_ATTEMPTS
    Commands,        \* admin commands given
    LeaseFreeSaves   \* are pending Wi-Fi configurations confirmed or reverted?

ASSUME SettingsAssumption ==
    /\ MaxEdits \in Nat /\ MaxNetworks \in Nat /\ MaxRevision \in Nat \ {0}
    /\ MaxAttempts \in Nat \ {0}
    /\ Commands \subseteq {"SAVE_NETWORK", "RESTART", "FACTORY_RESET"}
    /\ LeaseFreeSaves \in BOOLEAN

VARIABLES
    slots,       \* the two NVS slots; B is 0 and A is 1, the revision's parity
    revision,    \* durableStorageRevision; 0 when it is not valid
    live,        \* runtimeConfig and presetBank of the control task
    pending,     \* runtimePersistPending
    request,     \* settingsPersistRequest.blob, the worker's mailbox
    worker,      \* what the worker does with it
    lease,       \* the maintenance lease and its command
    settings,    \* settings_ of the network task: the Wi-Fi configuration
    network,     \* what the network task is saving
    wipe,        \* progress of resetPersistedSettingsToFactory
    intent,      \* is a FACTORY_RESET recovery intent stored?
    restarting,  \* restartPending_
    boot,        \* up, or resuming an interrupted factory reset
    edits,       \* number of changes so far
    last,        \* observer: the last successful put, and whether RAM's revision
                 \* was behind flash when it was made
    erased       \* observer: a factory reset succeeded, nothing changed since

ramVars == <<live, pending, request, worker, lease, settings, network, restarting>>
vars == <<slots, revision, ramVars, wipe, intent, boot, edits, last, erased>>

Cfgs == 0..MaxEdits
\* The Wi-Fi configuration: its identity, its probation and the last known good
Nets == [id : 0..MaxNetworks, sta : {"CONFIRMED", "PENDING"}, lkg : 0..MaxNetworks]
Blobs == [net : Nets, cfg : Cfgs]
Slots == [rev : 0..MaxRevision, blob : Blobs]   \* revision 0: no valid record

FactoryNet == [id |-> 0, sta |-> "CONFIRMED", lkg |-> 0]
Factory    == [net |-> FactoryNet, cfg |-> 0]
NoLease    == [state |-> "none", command |-> "RESTART", attempts |-> 0]
NoSave     == [state |-> "idle", blob |-> Factory]
NoWipe     == [step |-> "none", base |-> 0, first |-> FALSE]
Put(blob, behind) == [blob |-> blob, behind |-> behind]

TypeOK ==
    /\ slots \in [{0, 1} -> Slots] /\ revision \in 0..MaxRevision
    /\ live \in Cfgs /\ pending \in BOOLEAN /\ request \in Blobs
    /\ worker \in {"idle", "queued", "admitted", "saved", "failed"}
    /\ lease \in [state : {"none", "held", "forwarded", "done"},
                  command : Commands \union {"RESTART"}, attempts : 0..MaxAttempts]
    /\ settings \in Nets
    /\ network \in [state : {"idle", "command", "probation"}, blob : Blobs]
    /\ wipe \in [step : {"none", "first", "second", "noting", "written", "failed"},
                 base : 0..MaxRevision, first : BOOLEAN]
    /\ intent \in BOOLEAN /\ restarting \in BOOLEAN
    /\ boot \in {"up", "recovering", "abandoning"}
    /\ edits \in Cfgs /\ last \in [blob : Blobs, behind : BOOLEAN] /\ erased \in BOOLEAN

\* A device after its first boot: the defaults are in slot A.
Init ==
    /\ slots = [s \in {0, 1} |-> [rev |-> s, blob |-> Factory]] /\ revision = 1
    /\ live = 0 /\ pending = FALSE /\ request = Factory /\ worker = "idle"
    /\ lease = NoLease /\ settings = FactoryNet /\ network = NoSave
    /\ wipe = NoWipe /\ intent = FALSE /\ restarting = FALSE /\ boot = "up"
    /\ edits = 0 /\ last = Put(Factory, FALSE) /\ erased = FALSE

-----------------------------------------------------------------------------
(* The slots. *)

\* loadPersistedSettings: slot B only when its revision is newer
LoadedSlot == IF slots[0].rev > slots[1].rev THEN slots[0] ELSE slots[1]
Loaded == LoadedSlot.blob

PutIn(s, rev, blob) == slots' = [slots EXCEPT ![s] = [rev |-> rev, blob |-> blob]]

\* savePersistedSettings that succeeds: the parity of the revision is the slot.
Saved(blob) ==
    LET rev == revision + 1 IN
    /\ rev <= MaxRevision
    /\ PutIn(rev % 2, rev, blob)
    /\ revision' = rev
    /\ last' = Put(blob, revision < LoadedSlot.rev)

\* The flash lock is held from the first put of a factory reset to its second.
Unlocked == wipe.step # "second"

-----------------------------------------------------------------------------
(* The control task. *)

Up == boot = "up"

\* A runtime or preset change that is to be kept: applied to RAM, then queued
Edit ==
    /\ Up /\ edits < MaxEdits
    /\ edits' = edits + 1 /\ live' = edits' /\ pending' = TRUE /\ erased' = FALSE
    /\ UNCHANGED <<slots, revision, request, worker, lease, settings, network,
                   wipe, intent, restarting, boot, last>>

\* dispatchSettingsPersist: the network task's copy, overlaid with the live values
Dispatch ==
    /\ Up /\ pending /\ worker = "idle" /\ lease.state = "none"
    /\ request' = [net |-> settings, cfg |-> live]
    /\ pending' = FALSE /\ worker' = "queued"
    /\ UNCHANGED <<slots, revision, live, lease, settings, network, wipe, intent,
                   restarting, boot, edits, last, erased>>

PendingAfterMutDropsFailure == pending \/ live > request.cfg
\* What serviceSettingsPersistResult makes of runtimePersistPending
PendingAfter == pending \/ worker = "failed" \/ live > request.cfg
TakeResult ==
    /\ Up /\ worker \in {"saved", "failed"}
    /\ pending' = PendingAfter
    /\ worker' = "idle"
    /\ UNCHANGED <<slots, revision, live, request, lease, settings, network,
                   wipe, intent, restarting, boot, edits, last, erased>>

BeginLease ==
    /\ Up /\ lease.state = "none"
    /\ \E c \in Commands :
          /\ c = "SAVE_NETWORK" => settings.id < MaxNetworks
          /\ lease' = [state |-> "held", command |-> c, attempts |-> 0]
    /\ UNCHANGED <<slots, revision, live, pending, request, worker, settings,
                   network, wipe, intent, restarting, boot, edits, last, erased>>

\* The paddle wins over a lease that was not forwarded yet.
CancelLease ==
    /\ Up /\ lease.state = "held"
    /\ lease' = NoLease
    /\ UNCHANGED <<slots, revision, live, pending, request, worker, settings,
                   network, wipe, intent, restarting, boot, edits, last, erased>>

\* serviceMaintenanceLease waits for the shot stores, not for the settings.
Forward ==
    /\ Up /\ lease.state = "held"
    /\ lease' = [lease EXCEPT !.state = "forwarded"]
    /\ UNCHANGED <<slots, revision, live, pending, request, worker, settings,
                   network, wipe, intent, restarting, boot, edits, last, erased>>

CompleteLease ==
    /\ Up /\ lease.state = "done"
    /\ lease' = NoLease
    /\ UNCHANGED <<slots, revision, live, pending, request, worker, settings,
                   network, wipe, intent, restarting, boot, edits, last, erased>>

-----------------------------------------------------------------------------
(* The settings_persist worker. *)

\* waitForShotStoreWriteGate(true): admitted, or abandoned under a lease
Admit ==
    /\ Up /\ worker = "queued"
    /\ worker' = IF lease.state = "none" THEN "admitted" ELSE "failed"
    /\ UNCHANGED <<slots, revision, live, pending, request, lease, settings,
                   network, wipe, intent, restarting, boot, edits, last, erased>>

WorkerSaves ==
    /\ Up /\ worker = "admitted" /\ Unlocked
    /\ Saved(request)
    /\ worker' = "saved"
    /\ UNCHANGED <<live, pending, request, lease, settings, network, wipe, intent,
                   restarting, boot, edits, erased>>

WorkerFails ==
    /\ Up /\ worker = "admitted"
    /\ worker' = "failed"
    /\ UNCHANGED <<slots, revision, live, pending, request, lease, settings,
                   network, wipe, intent, restarting, boot, edits, last, erased>>

-----------------------------------------------------------------------------
(* The network task. *)

\* The configuration given over USB commits at once; one of the Web UI stays
\* PENDING until an HTTP request confirms it.
NewNetworks(net) ==
    {[id |-> net.id + 1, sta |-> "CONFIRMED", lkg |-> net.id + 1],
     [id |-> net.id + 1, sta |-> "PENDING",
      lkg |-> IF net.sta = "CONFIRMED" THEN net.id ELSE net.lkg]}

MayRetry == lease.attempts < MaxAttempts

\* A command starts: the record it will save is composed before the save.
ProcessCommand ==
    /\ Up /\ network.state = "idle" /\ wipe.step = "none"
    /\ lease.state = "forwarded" /\ lease.command # "FACTORY_RESET" /\ MayRetry
    /\ lease' = [lease EXCEPT !.attempts = @ + 1]
    /\ \E net \in IF lease.command = "RESTART" THEN {settings} ELSE NewNetworks(settings) :
          /\ net.id <= MaxNetworks
          /\ network' = [state |-> "command", blob |-> [net |-> net, cfg |-> live]]
    /\ UNCHANGED <<slots, revision, live, pending, request, worker, settings,
                   wipe, intent, restarting, boot, edits, last, erased>>

\* The intent and the erasure of the shot stores come first, and may fail.
ProcessReset ==
    /\ Up /\ network.state = "idle" /\ wipe.step = "none"
    /\ lease.state = "forwarded" /\ lease.command = "FACTORY_RESET" /\ MayRetry
    /\ lease' = [lease EXCEPT !.attempts = @ + 1]
    /\ \/ intent' = TRUE /\ wipe' = [NoWipe EXCEPT !.step = "first"]
       \/ intent' \in {intent, TRUE} /\ wipe' = [NoWipe EXCEPT !.step = "failed"]
    /\ UNCHANGED <<slots, revision, live, pending, request, worker, settings,
                   network, restarting, boot, edits, last, erased>>

\* CANCELED: a shot began before the command was processed
RefuseCommand ==
    /\ Up /\ network.state = "idle" /\ wipe.step = "none"
    /\ lease.state = "forwarded"
    /\ lease' = [lease EXCEPT !.state = "done"]
    /\ UNCHANGED <<slots, revision, live, pending, request, worker, settings,
                   network, wipe, intent, restarting, boot, edits, last, erased>>

\* The next attempt, or the end of the lease
NextAttempt ==
    lease' = IF MayRetry THEN lease ELSE [lease EXCEPT !.state = "done"]

CommandSaves ==
    /\ Up /\ network.state = "command" /\ Unlocked
    /\ Saved(network.blob)
    /\ settings' = network.blob.net /\ network' = NoSave
    /\ lease' = [lease EXCEPT !.state = "done"]
    \* An onboarding choice is applied live, everything else restarts.
    /\ restarting' \in {TRUE} \union {FALSE : c \in {lease.command} \cap {"SAVE_NETWORK"}}
    /\ erased' = FALSE
    /\ UNCHANGED <<live, pending, request, worker, wipe, intent, boot, edits>>

\* A restart is carried out although its save failed.
CommandFails ==
    /\ Up /\ network.state = "command"
    /\ network' = NoSave
    /\ IF lease.command = "RESTART"
       THEN restarting' = TRUE /\ lease' = [lease EXCEPT !.state = "done"]
       ELSE restarting' = FALSE /\ NextAttempt
    /\ UNCHANGED <<slots, revision, live, pending, request, worker, settings, wipe,
                   intent, boot, edits, last, erased>>

\* confirmPendingNetwork and revertPendingNetwork, which take no lease
Probation ==
    /\ Up /\ LeaseFreeSaves /\ network.state = "idle" /\ wipe.step = "none"
    /\ ~restarting /\ lease.state = "none" /\ settings.sta = "PENDING"
    /\ \E id \in {settings.id, settings.lkg} :
          network' = [state |-> "probation",
                      blob |-> [net |-> [id |-> id, sta |-> "CONFIRMED", lkg |-> id],
                                cfg |-> live]]
    /\ UNCHANGED <<slots, revision, live, pending, request, worker, lease, settings,
                   wipe, intent, restarting, boot, edits, last, erased>>

ProbationSaves ==
    /\ Up /\ network.state = "probation" /\ Unlocked
    /\ Saved(network.blob)
    /\ settings' = network.blob.net /\ network' = NoSave /\ erased' = FALSE
    /\ UNCHANGED <<live, pending, request, worker, lease, wipe, intent, restarting,
                   boot, edits>>

ProbationFails ==
    /\ Up /\ network.state = "probation"
    /\ network' = NoSave
    /\ UNCHANGED <<slots, revision, live, pending, request, worker, lease, settings,
                   wipe, intent, restarting, boot, edits, last, erased>>

-----------------------------------------------------------------------------
(* The factory reset, of the network task or of a boot that resumes it. *)

BaseMutFromZero == 0
\* existingMax: no readable revision is newer than what the reset writes
Base ==
    LET newer(a, b) == IF a > b THEN a ELSE b
    IN newer(LoadedSlot.rev, revision)

\* The flash lock or the first put may fail.
WipeFirst ==
    /\ wipe.step = "first" /\ Base + 2 <= MaxRevision
    /\ \/ /\ wipe' = [step |-> "second", base |-> Base, first |-> TRUE]
          /\ PutIn(1, Base + 1, Factory) /\ last' = Put(Factory, FALSE)
       \/ /\ wipe' \in {[step |-> "second", base |-> Base, first |-> FALSE],
                        [NoWipe EXCEPT !.step = "failed"]}
          /\ UNCHANGED <<slots, last>>
    /\ UNCHANGED <<revision, ramVars, intent, boot, edits, erased>>

\* The lock is given up before the new revision is noted.
WipeSecond ==
    /\ wipe.step = "second"
    /\ \/ /\ PutIn(0, wipe.base + 2, Factory) /\ last' = Put(Factory, FALSE)
          /\ wipe' = [NoWipe EXCEPT !.step = "noting", !.base = wipe.base + 2]
       \/ /\ UNCHANGED <<slots, last>>
          /\ wipe' = IF wipe.first
                     THEN [NoWipe EXCEPT !.step = "noting", !.base = wipe.base + 1]
                     ELSE [NoWipe EXCEPT !.step = "failed"]
    /\ UNCHANGED <<revision, ramVars, intent, boot, edits, erased>>

\* noteDurableStorageRevision, which does nothing when the lock times out
NoteRevision ==
    /\ wipe.step = "noting"
    /\ revision' \in {wipe.base, revision}
    /\ wipe' = [NoWipe EXCEPT !.step = "written"]
    /\ UNCHANGED <<slots, ramVars, intent, boot, edits, last, erased>>

\* The rest of resetAllDurableStores succeeds; clearing the intent may not.
ResetSucceeds ==
    /\ Up /\ wipe.step = "written"
    /\ wipe' = NoWipe /\ intent' \in {FALSE, intent}
    /\ settings' = FactoryNet /\ restarting' = TRUE
    /\ lease' = [lease EXCEPT !.state = "done"]
    /\ erased' = TRUE
    /\ UNCHANGED <<slots, revision, live, pending, request, worker, network, boot,
                   edits, last>>

\* It fails, before or after the settings were written: the intent stays.
ResetFails ==
    /\ Up /\ wipe.step \in {"written", "failed"}
    /\ wipe' = NoWipe
    /\ NextAttempt
    /\ UNCHANGED <<slots, revision, live, pending, request, worker, settings,
                   network, intent, restarting, boot, edits, last, erased>>

-----------------------------------------------------------------------------
(* Restart: planned, or a loss of power at any moment. *)

\* setup() loads the record and starts the tasks.
ComesUp ==
    /\ boot' = "up"
    /\ live' = Loaded.cfg /\ settings' = Loaded.net /\ revision' = LoadedSlot.rev
    /\ pending' = FALSE /\ request' = Factory /\ worker' = "idle"
    /\ lease' = NoLease /\ network' = NoSave /\ restarting' = FALSE

Restart ==
    /\ IF intent
       THEN /\ boot' = "recovering" /\ revision' = 0
            /\ wipe' \in {[NoWipe EXCEPT !.step = s] : s \in {"first", "failed"}}
            /\ UNCHANGED ramVars
       ELSE ComesUp /\ wipe' = NoWipe
    /\ UNCHANGED <<slots, intent, edits, last, erased>>

\* A reset that cannot be completed is tried once more, for the settings only.
BootAbandons ==
    /\ boot = "recovering" /\ wipe.step \in {"written", "failed"}
    /\ boot' = "abandoning" /\ wipe' = [NoWipe EXCEPT !.step = "first"]
    /\ UNCHANGED <<slots, revision, ramVars, intent, edits, last, erased>>

\* completeBootRecovery ends, or gives up; the intent may resist.
BootCompletes ==
    /\ \/ boot = "recovering" /\ wipe.step = "written"
       \/ boot = "abandoning" /\ wipe.step \in {"written", "failed"}
    /\ intent' \in {FALSE, TRUE}
    /\ ComesUp /\ wipe' = NoWipe
    /\ erased' = (wipe.step = "written")
    /\ UNCHANGED <<slots, edits, last>>

-----------------------------------------------------------------------------
Next ==
    \/ Edit \/ Dispatch \/ TakeResult
    \/ BeginLease \/ CancelLease \/ Forward \/ CompleteLease
    \/ Admit \/ WorkerSaves \/ WorkerFails
    \/ ProcessCommand \/ ProcessReset \/ RefuseCommand
    \/ CommandSaves \/ CommandFails
    \/ Probation \/ ProbationSaves \/ ProbationFails
    \/ WipeFirst \/ WipeSecond \/ NoteRevision \/ ResetSucceeds \/ ResetFails
    \/ Restart \/ BootAbandons \/ BootCompletes

Spec == Init /\ [][Next]_vars

\* Every task keeps running; a save that is tried again and again succeeds once,
\* and admin commands leave the worker its turn.
Fairness ==
    /\ SF_vars(Dispatch) /\ WF_vars(TakeResult)
    /\ WF_vars(Forward \/ CancelLease) /\ WF_vars(CompleteLease)
    /\ SF_vars(Admit /\ worker' = "admitted") /\ WF_vars(Admit)
    /\ SF_vars(WorkerSaves)
    /\ WF_vars(ProcessCommand \/ ProcessReset \/ RefuseCommand)
    /\ WF_vars(CommandSaves \/ CommandFails) /\ WF_vars(ProbationSaves \/ ProbationFails)
    /\ WF_vars(WipeFirst) /\ WF_vars(WipeSecond) /\ WF_vars(NoteRevision)
    /\ WF_vars(ResetSucceeds \/ ResetFails)
    /\ WF_vars(BootAbandons \/ BootCompletes)
    /\ WF_vars(restarting /\ Restart)

FairSpec == Spec /\ Fairness

-----------------------------------------------------------------------------
(* Properties. *)

\* Whatever fails and whenever the power is lost, a restart loads the record that
\* was put into flash last: revisions and slots never shadow a successful save.  Only
\* a save that knows nothing of a factory reset's revision may lose against it.
LastPutLoads == Loaded = last.blob \/ (last.behind /\ Loaded = Factory)

\* Every edit is eventually in flash, up to the bound on the revisions.
EditsReachFlash ==
    <>[](Loaded.cfg = live \/ ~Up \/ erased \/ intent \/ last.behind
         \/ revision + 2 > MaxRevision)

\* "PERSISTED: Durable store committed" - an edit that the worker reports as saved,
\* with no factory reset pending or newer, is what a restart loads.
ReportedEditLoads ==
    Up /\ worker = "saved" /\ request.cfg = live /\ ~intent /\ ~erased
    => Loaded.cfg = live

\* docs/STATE_MACHINES.md: "CONFIRMED: Current STA addressing is committed" - a
\* configuration that was confirmed is not on probation again after a restart.
ConfirmedIsCommitted ==
    Up /\ settings.sta = "CONFIRMED" /\ Loaded.net.id = settings.id
    => Loaded.net.sta = "CONFIRMED"

\* A worker "never resume[s] over a factory reset": while nothing was changed since
\* a reset reported success, a restart loads factory settings.
FactoryResetErases == erased => Loaded = Factory
=============================================================================
