--------------------------- MODULE ScaleDiscovery ---------------------------
(* Which scale the worker may look for, and when.  The control task changes the
   preferred scale and the policy and hands the choice to flash; the worker task
   scans, connects, adopts the first scale and gives up a link that the choice
   no longer allows; the network task tells it that the setup network is up.
   A step is one section under scalePreferredMacMux, one read or write of an
   atomic, or one call of the client.  The client is ScaleClient's, reduced to
   what discovery sees of it; names, history and friendly names are left out. *)
EXTENDS Naturals

CONSTANTS Scales,        \* the addresses that answer
          Modes,         \* the policies of this instance
          ClockRange,    \* the number of values of millis()
          PauseTicks,    \* SCALE_PAIRING_DISCOVERY_PAUSE_MS
          MaxClock,      \* bound: ticks of a behaviour
          MaxChanges     \* bound: changes of the choice and of the radios

ASSUME DiscoveryAssumption ==
    /\ Modes \subseteq {"FIRST", "PREFER", "ONLY"}
    /\ Scales \cap {"none", "idle", "saved", "failed"} = {}
    /\ ClockRange \in Nat /\ PauseTicks \in 1..(ClockRange \div 2 - 1)
    /\ MaxClock \in Nat /\ MaxChanges \in Nat

VARIABLES pref,      \* the section: preferred address, dirty flag, pause, reset reasons
          policy,    \* the atomics: mode, the Bluetooth switch, the setup network
          radio,     \* the client
          seeker,    \* the worker's place and locals
          chooser,   \* the control task's place and locals
          saved,     \* the records on the way to flash, and flash
          ticks      \* time since boot

discoveryVars == <<pref, policy, radio, seeker, chooser, saved, ticks>>

Quiet == [st |-> "idle", mac |-> "none"]
Silenced == [st |-> "silenced", mac |-> "none"]
AtTick == [pc |-> "tick", from |-> "disc", reasons |-> {}, mac |-> "none", mode |-> "ONLY"]
NoChoice == [pc |-> "idle", mac |-> "none"]

(* scaleWorkerLoadPreferred, publishScaleWorkerPolicy: what setup() read. *)
DiscoveryInit ==
    \E p \in Scales \cup {"none"}, m \in Modes :
        /\ pref = [mac |-> p, dirty |-> FALSE, until |-> 0, reasons |-> {}, forgot |-> 0]
        /\ policy = [mode |-> m, ble |-> TRUE, ap |-> FALSE]
        /\ radio = Quiet /\ seeker = AtTick /\ chooser = NoChoice /\ ticks = 1
        /\ saved = [known |-> p, pending |-> FALSE, image |-> "idle", flash |-> p, changes |-> 0]

-----------------------------------------------------------------------------
(* scaleMacCachePauseRemainingMs: a signed difference of 32-bit times. *)
Now == ticks % ClockRange
Paused ==
    /\ pref.until # 0
    /\ (pref.until + ClockRange - Now) % ClockRange \in 1..(ClockRange \div 2 - 1)

Pass == /\ ticks < MaxClock /\ ticks' = ticks + 1
        /\ UNCHANGED <<pref, policy, radio, seeker, chooser, saved>>

(* The control task.  A change of the mode is published before its reset is
   requested; the other changes ask in the section that makes them. *)
Chosen(p) == chooser.pc = "idle" /\ saved.changes < MaxChanges /\ p
Count == saved' = [saved EXCEPT !.changes = @ + 1]

SetMode(m) ==
    /\ Chosen(policy.mode # m)
    /\ policy' = [policy EXCEPT !.mode = m]
    /\ chooser' = [pc |-> "reset", mac |-> "none"] /\ Count
    /\ UNCHANGED <<pref, radio, seeker, ticks>>
ModeReset ==
    /\ chooser.pc = "reset"
    /\ pref' = [pref EXCEPT !.reasons = @ \cup {"mode"}]
    /\ chooser' = NoChoice
    /\ UNCHANGED <<policy, radio, seeker, saved, ticks>>

(* selectPreferredScale, with an address or with none. *)
SelectMutantNoReset(s) ==
    /\ Chosen(pref.mac # s)
    /\ pref' = [pref EXCEPT !.mac = s, !.dirty = TRUE, !.until = 0]
    /\ chooser' = [pc |-> "copy", mac |-> "none"] /\ Count
    /\ UNCHANGED <<policy, radio, seeker, ticks>>
Select(s) ==
    /\ Chosen(pref.mac # s)
    /\ pref' = [pref EXCEPT !.mac = s, !.dirty = TRUE, !.until = 0,
                            !.reasons = @ \cup {"identity"}]
    /\ chooser' = [pc |-> "copy", mac |-> "none"] /\ Count
    /\ UNCHANGED <<policy, radio, seeker, ticks>>

(* clearPreferredScaleCache *)
Forget ==
    /\ Chosen(TRUE)
    /\ pref' = [mac |-> "none", dirty |-> TRUE, until |-> (Now + PauseTicks) % ClockRange,
                reasons |-> pref.reasons \cup {"identity"}, forgot |-> ticks]
    /\ chooser' = [pc |-> "copy", mac |-> "none"] /\ Count
    /\ UNCHANGED <<policy, radio, seeker, ticks>>

SwitchBle == /\ Chosen(TRUE) /\ policy' = [policy EXCEPT !.ble = ~@] /\ Count
             /\ UNCHANGED <<pref, radio, seeker, chooser, ticks>>
SetupNetwork == /\ Chosen(TRUE) /\ policy' = [policy EXCEPT !.ap = ~@] /\ Count
                /\ UNCHANGED <<pref, radio, seeker, chooser, ticks>>

(* servicePreferredScaleMacPersistence, after a command and in every pass of the
   loop: the dirty identity is copied, compared with the last one handed over,
   and cleared only if it has not moved since. *)
CopyDirty ==
    /\ chooser.pc \in {"idle", "copy"}
    /\ chooser.pc = "copy" \/ pref.dirty
    /\ chooser' = IF pref.dirty THEN [pc |-> "decide", mac |-> pref.mac] ELSE NoChoice
    /\ UNCHANGED <<pref, policy, radio, seeker, saved, ticks>>
Decide ==
    /\ chooser.pc = "decide"
    /\ IF chooser.mac = saved.known
       THEN chooser' = [chooser EXCEPT !.pc = "clear"] /\ UNCHANGED saved
       ELSE /\ saved' = IF radio.st \in {"connecting", "linked"} \/ saved.image # "idle" THEN saved
                        ELSE [saved EXCEPT !.known = chooser.mac, !.pending = TRUE]
            /\ chooser' = NoChoice
    /\ UNCHANGED <<pref, policy, radio, seeker, ticks>>
ClearsMutantAlways(p, mac) == [p EXCEPT !.dirty = FALSE]
Clears(p, mac) == [p EXCEPT !.dirty = @ /\ p.mac # mac]
ClearDirty ==
    /\ chooser.pc = "clear"
    /\ pref' = Clears(pref, chooser.mac) /\ chooser' = NoChoice
    /\ UNCHANGED <<policy, radio, seeker, saved, ticks>>

(* dispatchSettingsPersist, also on behalf of other settings; the writer; and
   serviceSettingsPersistResult.  The identity counts as handed over before the queue
   takes the request, also when the queue refuses it and the save stays owed. *)
Dispatch ==
    /\ chooser.pc = "idle" /\ saved.image = "idle" /\ radio.st # "connecting"
    /\ saved.pending
    /\ \/ saved' = [saved EXCEPT !.known = pref.mac, !.image = pref.mac, !.pending = FALSE]
       \/ saved' = [saved EXCEPT !.known = pref.mac]
    /\ UNCHANGED <<pref, policy, radio, seeker, chooser, ticks>>
WriteEnds(ok) ==
    /\ saved.image \notin {"idle", "saved", "failed"}
    /\ saved' = [saved EXCEPT !.flash = IF ok THEN saved.image ELSE @,
                              !.image = IF ok THEN "saved" ELSE "failed"]
    /\ UNCHANGED <<pref, policy, radio, seeker, chooser, ticks>>
PersistResult ==
    /\ chooser.pc = "idle" /\ saved.image \in {"saved", "failed"}
    /\ LET ok == saved.image = "saved"
           still == pref.dirty /\ pref.mac # saved.known IN
       /\ pref' = IF ok THEN Clears(pref, saved.known) ELSE pref
       /\ saved' = [saved EXCEPT !.image = "idle",
                      !.pending = @ \/ ~ok \/ (still /\ radio.st \notin {"connecting", "linked"})]
    /\ UNCHANGED <<policy, radio, seeker, chooser, ticks>>

-----------------------------------------------------------------------------
(* The worker task. *)
Go(pc) == seeker' = [seeker EXCEPT !.pc = pc]
Fresh(pc) == seeker' = [AtTick EXCEPT !.pc = pc]
Home == seeker' = AtTick
(* disconnect(): a link is silent until its closure is confirmed. *)
Dropped(r) == IF r.st \in {"connecting", "linked"} THEN {Quiet, Silenced}
              ELSE IF r.st = "scanning" THEN {Quiet} ELSE {r}

(* The top of the loop: serviceBleMasterSwitch, the live link, and the pause
   that is checked before discovery. *)
TickOff ==
    /\ seeker.pc = "tick" /\ ~policy.ble /\ radio.st # "idle"
    /\ radio' \in Dropped(radio)
    /\ UNCHANGED <<pref, policy, seeker, chooser, saved, ticks>>
TickLinked ==
    /\ seeker.pc = "tick" /\ policy.ble /\ radio.st = "linked"
    /\ seeker' = [seeker EXCEPT !.pc = "reset", !.from = "link"]
    /\ UNCHANGED <<pref, policy, radio, chooser, saved, ticks>>
TickDiscovery ==
    /\ seeker.pc = "tick" /\ policy.ble /\ radio.st # "linked"
    /\ IF radio.st # "connecting" /\ Paused
       THEN radio' \in Dropped(radio) /\ UNCHANGED seeker
       ELSE seeker' = [seeker EXCEPT !.pc = "reset", !.from = "disc"] /\ UNCHANGED radio
    /\ UNCHANGED <<pref, policy, chooser, saved, ticks>>

(* applyScalePreferenceReset: the reasons are taken in one section; a link is
   then judged by the preferred scale, the mode and the pause, each read later. *)
Onward == IF seeker.from = "link" THEN Fresh("linkcheck") ELSE Fresh("discover")
AfterReset == IF seeker.from = "link" THEN Home ELSE Fresh("discover")
TakeReset ==
    /\ seeker.pc = "reset"
    /\ pref' = [pref EXCEPT !.reasons = {}]
    /\ IF pref.reasons = {} THEN Onward /\ UNCHANGED radio
       ELSE IF radio.st = "linked"
       THEN seeker' = [seeker EXCEPT !.pc = "readpref", !.reasons = pref.reasons] /\ UNCHANGED radio
       ELSE IF radio.st \in {"scanning", "connecting"}
       THEN radio' \in Dropped(radio) /\ AfterReset
       ELSE Onward /\ UNCHANGED radio
    /\ UNCHANGED <<policy, chooser, saved, ticks>>
ReadPreferred ==
    /\ seeker.pc = "readpref"
    /\ seeker' = [seeker EXCEPT !.pc = "readmode", !.mac = pref.mac]
    /\ UNCHANGED <<pref, policy, radio, chooser, saved, ticks>>
ReadMode ==
    /\ seeker.pc = "readmode"
    /\ seeker' = [seeker EXCEPT !.pc = "judge", !.mode = policy.mode]
    /\ UNCHANGED <<pref, policy, radio, chooser, saved, ticks>>
IdentityCleared == "identity" \in seeker.reasons /\ seeker.mac = "none"
Violates == seeker.mode # "FIRST" /\ seeker.mac # "none" /\ radio.mac # seeker.mac
Judge ==
    /\ seeker.pc = "judge"
    /\ IF Paused \/ IdentityCleared \/ Violates
       THEN radio' \in Dropped(radio) /\ AfterReset
       ELSE Onward /\ UNCHANGED radio
    /\ UNCHANGED <<pref, policy, chooser, saved, ticks>>

(* serviceScaleWorkerLink: a linked scale is adopted when a mode that has no
   preferred scale yet is chosen. *)
LinkCheck ==
    /\ seeker.pc = "linkcheck"
    /\ IF radio.st = "linked" /\ policy.mode # "FIRST" /\ pref.mac = "none" /\ ~Paused
       THEN Fresh("note") ELSE Home
    /\ UNCHANGED <<pref, policy, radio, chooser, saved, ticks>>

(* notePreferredScale: the mode is read before the section. *)
NoteMode ==
    /\ seeker.pc = "note"
    /\ seeker' = [seeker EXCEPT !.pc = "noted", !.mode = policy.mode]
    /\ UNCHANGED <<pref, policy, radio, chooser, saved, ticks>>
NoteScale ==
    /\ seeker.pc = "noted" /\ Home
    /\ pref' = [pref EXCEPT !.dirty = TRUE,
                  !.mac = IF seeker.mode # "FIRST" /\ ~Paused /\ pref.mac = "none"
                          THEN radio.mac ELSE @]
    /\ UNCHANGED <<policy, radio, chooser, saved, ticks>>

(* serviceScaleWorkerDiscovery: silence, the pause, the setup network. *)
Discover ==
    /\ seeker.pc = "discover"
    /\ IF radio.st = "silenced" THEN Home /\ UNCHANGED radio
       ELSE IF Paused \/ (policy.ap /\ radio.st \notin {"connecting", "linked"})
       THEN radio' \in Dropped(radio) /\ Home
       ELSE Go("mode") /\ UNCHANGED radio
    /\ UNCHANGED <<pref, policy, chooser, saved, ticks>>
CacheMode ==
    /\ seeker.pc = "mode"
    /\ seeker' = [seeker EXCEPT !.pc = "poll", !.mode = policy.mode]
    /\ UNCHANGED <<pref, policy, radio, chooser, saved, ticks>>

(* pollScan: while connecting, and while scanning. *)
PollConnecting ==
    /\ seeker.pc = "poll" /\ radio.st = "connecting"
    /\ \/ radio' = [radio EXCEPT !.st = "linked"] /\ Fresh("note")
       \/ radio' \in Dropped(radio) \cup {radio} /\ Home
    /\ UNCHANGED <<pref, policy, chooser, saved, ticks>>
PollScanning ==
    /\ seeker.pc = "poll" /\ radio.st = "scanning"
    /\ \/ \E s \in Scales : /\ radio.mac \in {"none", s}
                            /\ radio' = [st |-> "connecting", mac |-> s] /\ Home
       \/ UNCHANGED radio /\ Go("scanned")
       \/ radio' = Quiet /\ Go("start")
    /\ UNCHANGED <<pref, policy, chooser, saved, ticks>>
PollIdle ==
    /\ seeker.pc = "poll" /\ radio.st \notin {"connecting", "scanning"} /\ Go("start")
    /\ UNCHANGED <<pref, policy, radio, chooser, saved, ticks>>

(* A scan that goes on: PREFER's fallback, a restart after silence, and a change
   of the intensity, which keeps the kind of the scan. *)
UseDirected(waiting) ==
    pref.mac # "none" /\ (seeker.mode = "ONLY" \/ (seeker.mode = "PREFER" /\ waiting))
Filter(directed) == IF directed THEN pref.mac ELSE "none"
Scanned ==
    /\ seeker.pc = "scanned"
    /\ \/ Home
       \/ /\ seeker.mode = "PREFER" /\ radio.mac # "none"
          /\ seeker' = [AtTick EXCEPT !.pc = "launch", !.mac = "none"]
       \/ \E w \in BOOLEAN :
             /\ seeker.mode # "PREFER" => w
             /\ seeker' = [AtTick EXCEPT !.pc = "launch", !.mac = Filter(UseDirected(w))]
       \/ seeker' = [AtTick EXCEPT !.pc = "launch", !.mac = Filter(radio.mac # "none")]
    /\ UNCHANGED <<pref, policy, radio, chooser, saved, ticks>>
StartRead ==
    /\ seeker.pc = "start"
    /\ seeker' = [AtTick EXCEPT !.pc = "launch", !.mac = Filter(UseDirected(TRUE))]
    /\ UNCHANGED <<pref, policy, radio, chooser, saved, ticks>>

(* startScaleDiscoveryScan; a forced restart that fails has ended the old scan. *)
Launch ==
    /\ seeker.pc = "launch" /\ Home
    /\ \/ (~policy.ble \/ policy.ap) /\ UNCHANGED radio
       \/ /\ policy.ble /\ ~policy.ap
          /\ radio' \in {Quiet, [st |-> "scanning", mac |-> seeker.mac]}
    /\ UNCHANGED <<pref, policy, chooser, saved, ticks>>

(* The host: a link is lost, a closure confirmed. *)
LinkLost == /\ radio.st \in {"linked", "silenced"}
            /\ radio' \in (IF radio.st = "linked" THEN {Quiet, Silenced} ELSE {Quiet})
            /\ UNCHANGED <<pref, policy, seeker, chooser, saved, ticks>>

ChooserStep == ModeReset \/ CopyDirty \/ Decide \/ ClearDirty \/ Dispatch \/ PersistResult
SeekerStep ==
    \/ TickOff \/ TickLinked \/ TickDiscovery \/ TakeReset \/ ReadPreferred \/ ReadMode \/ Judge
    \/ LinkCheck \/ NoteMode \/ NoteScale \/ Discover \/ CacheMode \/ PollConnecting \/ PollScanning
    \/ PollIdle \/ Scanned \/ StartRead \/ Launch
DiscoveryNext ==
    \/ \E m \in Modes : SetMode(m)
    \/ \E s \in Scales \cup {"none"} : Select(s)
    \/ \E ok \in BOOLEAN : WriteEnds(ok)
    \/ Forget \/ SwitchBle \/ SetupNetwork \/ Pass \/ LinkLost \/ ChooserStep \/ SeekerStep

DiscoverySpec == DiscoveryInit /\ [][DiscoveryNext]_discoveryVars
DiscoveryFairness == WF_discoveryVars(SeekerStep) /\ WF_discoveryVars(ChooserStep)
DiscoveryFairSpec == DiscoverySpec /\ DiscoveryFairness

-----------------------------------------------------------------------------
(* A preferred scale that is not marked dirty is in flash, or a record that
   holds it is being written, or a write is owed: an adoption by the worker
   between the copy and the clearing of the mark is not forgotten.  The record in
   flight is the current one, and a failed write owes another. *)
CleanIsSaved ==
    \/ pref.dirty \/ saved.pending \/ saved.image = "failed"
    \/ pref.mac \in {saved.flash, saved.image}

(* With "Only my scale" a link to another scale does not last, however the choice
   was made and whatever the worker was doing: the mode is published before the
   reset is asked for, and a reset is never lost.  Unless the choice is changed
   again. *)
OnlyMeansOnly ==
    \A p, s \in Scales : p # s =>
        (policy.mode = "ONLY" /\ pref.mac = p /\ radio = [st |-> "linked", mac |-> s]
            ~> policy.mode # "ONLY" \/ pref.mac # p \/ radio # [st |-> "linked", mac |-> s])

(* "Forget scale pauses discovery for 30 s" (docs/settings/scales.md:175). *)
PauseIsBrief == Paused => ticks - pref.forgot < PauseTicks
=============================================================================
