------------------------------- MODULE FlashLog -------------------------------
(***************************************************************************)
(* One dual-slot flash store: src/src/OpenBrewByWeightDualSlotFlashLog.h    *)
(* with the stepped transaction of OpenBrewByWeightFlashIoScratch.h.        *)
(*                                                                         *)
(* live is the store in RAM, which the control and network tasks mutate     *)
(* under shotStoreMutex.  image is the copy the persistence worker writes   *)
(* to flash, one erase or program operation a step; the control task then   *)
(* acknowledges it.  A factory reset saves the cleared live store at once.  *)
(* Power may fail in the middle of every flash operation.                   *)
(*                                                                         *)
(* The records of a store are one version number: every mutation makes a    *)
(* fresh one.  A slot is its header (generation and checksum) and its body, *)
(* split into the pieces that are erased and programmed together; a piece   *)
(* that is blank or torn holds NoVersion.  A header is torn or whole, and   *)
(* its checksum holds the version of the body it was computed from.         *)
(***************************************************************************)
EXTENDS Integers

CONSTANTS
    Pieces,          \* number of body pieces of a slot
    MaxVersion,      \* bound on the mutations
    MaxGeneration    \* bound on header.generation (2^32 in the code)

ASSUME FlashAssumption ==
    Pieces \in Nat \ {0} /\ MaxVersion \in Nat /\ MaxGeneration \in Nat \ {0}

VARIABLES
    live,       \* store_, activeSlot_ and dirty_ of the live store
    image,      \* the same of the worker's image, with persistProgress_
    worker,     \* what the worker does with the image
    clear,      \* progress of an immediate save of the cleared store
    slots,      \* the two flash slots
    fresh,      \* the version the next mutation makes
    settled     \* observer: the newest version reported to be persistent

vars == <<live, image, worker, clear, slots, fresh, settled>>

NoVersion   == -1
Versions    == 0..MaxVersion
Generations == 0..MaxGeneration
Body        == 1..Pieces
SlotIds     == {0, 1}
Phases      == {"IDLE", "ERASE", "BODY", "COMMIT"}
Other(s)    == 1 - s

Blank == [gen |-> -1, crc |-> NoVersion, body |-> [i \in Body |-> NoVersion]]
\* A blank header reads as generation UINT32_MAX, which is -1 to the wrapping
\* comparison of secondRevisionIsNewer; a torn one reads as any generation.
Slot  == [gen : Generations \union {-1}, crc : Versions \union {NoVersion},
          body : [Body -> Versions \union {NoVersion}]]
Store == [version : Versions, gen : Generations, active : SlotIds, dirty : BOOLEAN]
Image == [version : Versions, gen : Generations, active : SlotIds, dirty : BOOLEAN,
          phase : Phases, at : 0..Pieces]

TypeOK ==
    /\ live \in Store /\ image \in Image
    /\ worker \in {"idle", "writing", "failed"}
    /\ clear \in [step : {"none", "erase", "write"}, at : 0..Pieces]
    /\ slots \in [SlotIds -> Slot]
    /\ fresh \in 1..MaxVersion + 1
    /\ settled \in Versions

EmptyStore == [version |-> 0, gen |-> 1, active |-> 0, dirty |-> FALSE]
NotClearing == [step |-> "none", at |-> 0]

Init ==
    /\ live = EmptyStore
    /\ image = [version |-> 0, gen |-> 0, active |-> 0, dirty |-> FALSE,
                phase |-> "IDLE", at |-> 0]
    /\ worker = "idle" /\ clear = NotClearing
    /\ slots = [s \in SlotIds |-> Blank]
    /\ fresh = 1 /\ settled = 0

-----------------------------------------------------------------------------
(* Reading a store back. *)

\* ValidFn: the checksum covers the header and every record.
Valid(slot) ==
    slot.crc # NoVersion /\ \A i \in Body : slot.body[i] = slot.crc

\* chooseNewerRevision on the two headers as they read
Newer(both) == IF both[1].gen > both[0].gen THEN 1 ELSE 0

LoadedSlotMutNewestHeader(both) == Newer(both)
\* load: the newer header's slot, or the other one when that is not valid
LoadedSlot(both) ==
    IF Valid(both[Newer(both)]) THEN Newer(both) ELSE Other(Newer(both))

\* The store that load() ends with
LoadedFrom(both) ==
    LET s == LoadedSlot(both) IN
    IF Valid(both[s])
    THEN [version |-> both[s].crc, gen |-> both[s].gen, active |-> s, dirty |-> FALSE]
    ELSE EmptyStore
Loaded == LoadedFrom(slots)

-----------------------------------------------------------------------------
(* The control and network tasks, under shotStoreMutex. *)

\* append, removeById and clear with persistNow = false
Mutate ==
    /\ clear.step = "none" /\ fresh <= MaxVersion
    /\ live' = [live EXCEPT !.version = fresh, !.dirty = TRUE]
    /\ fresh' = fresh + 1
    /\ UNCHANGED <<image, worker, clear, slots, settled>>

\* updateRating bumps the generation of the live store, too
Rate ==
    /\ clear.step = "none" /\ fresh <= MaxVersion /\ live.gen < MaxGeneration
    /\ live' = [live EXCEPT !.version = fresh, !.dirty = TRUE, !.gen = @ + 1]
    /\ fresh' = fresh + 1
    /\ UNCHANGED <<image, worker, clear, slots, settled>>

\* capturePersistenceImage: the records are copied only when they are dirty.  A
\* full worker queue leaves the image unused.
Capture ==
    /\ worker = "idle" /\ clear.step = "none"
    /\ worker' \in {"writing", "idle"}
    /\ image' = [version |-> IF live.dirty THEN live.version ELSE image.version,
                 gen |-> live.gen, active |-> live.active, dirty |-> live.dirty,
                 phase |-> "IDLE", at |-> 0]
    /\ UNCHANGED <<live, clear, slots, fresh, settled>>

AcknowledgedMutForgetsProgress(persisted) ==
    [live EXCEPT !.dirty = @ /\ ~persisted]
\* acknowledgePersisted carries the flash progress over; records stay.
Acknowledged(persisted) ==
    [live EXCEPT !.gen = image.gen, !.active = image.active,
                 !.dirty = @ /\ ~persisted]

\* The worker reports: the image was written, a step failed, or a maintenance
\* lease made it abandon the image.  Dirtiness is cleared only when nothing was
\* mutated since the capture (the generation of serviceShotStorePersistence).
Acknowledge ==
    /\ worker # "idle" /\ clear.step = "none"
    /\ LET ok == worker = "writing" /\ ~image.dirty
           flushed == ok /\ image.active # live.active
       IN /\ live' = Acknowledged(ok /\ (live.dirty => live.version = image.version))
          /\ settled' = IF flushed THEN image.version ELSE settled
    /\ worker' = "idle"
    /\ UNCHANGED <<image, clear, slots, fresh>>

-----------------------------------------------------------------------------
(* The worker: flushStep and flashIoStoreStep, one flash operation a step. *)

\* A step that finds the transaction idle starts one: bump, then erase.
Started(im) ==
    IF im.phase = "IDLE"
    THEN [im EXCEPT !.gen = @ + 1, !.phase = "ERASE", !.at = 0]
    ELSE im
MayStep == worker = "writing" /\ image.dirty
           /\ (image.phase = "IDLE" => image.gen < MaxGeneration)

Erased(slot, at) ==
    IF at = 0 THEN [slot EXCEPT !.gen = -1, !.crc = NoVersion]
              ELSE [slot EXCEPT !.body[at] = NoVersion]
Written(slot, at, store) ==
    IF at = 0 THEN [slot EXCEPT !.gen = store.gen, !.crc = store.version]
              ELSE [slot EXCEPT !.body[at] = store.version]
\* What an erase or program operation that is cut short leaves of its piece
Torn(slot, at) ==
    IF at = 0 THEN {[slot EXCEPT !.gen = g, !.crc = NoVersion] :
                        g \in Generations \union {-1}}
              ELSE {[slot EXCEPT !.body[at] = NoVersion]}

PutSlot(s, slot) == slots' = [slots EXCEPT ![s] = slot]

\* The target slot after the operation of the step has been done.
StepDone(im) ==
    LET slot == slots[Other(im.active)] IN
    IF im.phase = "ERASE" THEN Erased(slot, im.at)
    ELSE Written(slot, IF im.phase = "COMMIT" THEN 0 ELSE im.at, im)
StepTorn(im) ==
    Torn(slots[Other(im.active)], IF im.phase = "COMMIT" THEN 0 ELSE im.at)

\* The header, which makes the slot valid, is programmed last.
Advance(im) ==
    CASE im.phase = "ERASE" /\ im.at < Pieces -> [im EXCEPT !.at = @ + 1]
      [] im.phase = "ERASE" /\ im.at = Pieces -> [im EXCEPT !.phase = "BODY", !.at = 1]
      [] im.phase = "BODY" /\ im.at < Pieces  -> [im EXCEPT !.at = @ + 1]
      [] im.phase = "BODY" /\ im.at = Pieces  -> [im EXCEPT !.phase = "COMMIT", !.at = 0]
      [] im.phase = "COMMIT" ->
            [im EXCEPT !.phase = "IDLE", !.at = 0, !.active = Other(@), !.dirty = FALSE]

FlushStep ==
    /\ MayStep
    /\ LET im == Started(image) IN
       /\ PutSlot(Other(im.active), StepDone(im))
       /\ image' = Advance(im)
    /\ UNCHANGED <<live, worker, clear, fresh, settled>>

\* The lock times out, or the driver reports an error: the operation was not
\* done, was done in part, or was done although it reports an error.
FlushStepFails ==
    /\ MayStep
    /\ LET im == Started(image) IN
       /\ \E slot \in {slots[Other(im.active)], StepDone(im)} \union StepTorn(im) :
             PutSlot(Other(im.active), slot)
       /\ image' = [im EXCEPT !.phase = "IDLE", !.at = 0]
    /\ worker' = "failed"
    /\ UNCHANGED <<live, clear, fresh, settled>>

-----------------------------------------------------------------------------
(* clear() with persistNow = true, under shotStoreMutex: a factory reset.  The *)
(* maintenance lease has waited for the worker's result.                       *)

Clear ==
    /\ worker = "idle" /\ clear.step = "none"
    /\ fresh <= MaxVersion /\ live.gen < MaxGeneration
    /\ live' = [live EXCEPT !.version = fresh, !.gen = @ + 1]
    /\ fresh' = fresh + 1
    /\ clear' = [step |-> "erase", at |-> 0]
    /\ UNCHANGED <<image, worker, slots, settled>>

\* save() erases the whole slot with one call ...
ClearErase ==
    /\ clear.step = "erase"
    /\ PutSlot(Other(live.active), Blank)
    /\ clear' = [step |-> "write", at |-> 0]
    /\ UNCHANGED <<live, image, worker, fresh, settled>>

\* ... and writes the store from its start, the header first.
ClearWrite ==
    /\ clear.step = "write"
    /\ PutSlot(Other(live.active), Written(slots[Other(live.active)], clear.at, live))
    /\ IF clear.at < Pieces
       THEN clear' = [clear EXCEPT !.at = @ + 1] /\ UNCHANGED <<live, settled>>
       ELSE /\ clear' = NotClearing
            /\ live' = [live EXCEPT !.active = Other(@), !.dirty = FALSE]
            /\ settled' = live.version
    /\ UNCHANGED <<image, worker, fresh>>

\* What an immediate save that is cut short leaves in its slot.  The erase starts
\* with the header, so what is left of the body does not matter.
ClearLeaves ==
    LET slot == slots[Other(live.active)] IN
    {slot} \union
    (IF clear.step = "write"
     THEN {Written(slot, clear.at, live)} \union Torn(slot, clear.at)
     ELSE {Blank} \union Torn(slot, 0))

\* persistMutation reloads the last good slot; a busy flash lock makes load()
\* keep the cleared store and leave it dirty.
ClearFails ==
    /\ clear.step # "none"
    /\ \E slot \in ClearLeaves : PutSlot(Other(live.active), slot)
    /\ clear' = NotClearing
    /\ \/ live' = Loaded' /\ settled' = Loaded'.version
       \/ live' = [live EXCEPT !.dirty = TRUE] /\ UNCHANGED settled
    /\ UNCHANGED <<image, worker, fresh>>

-----------------------------------------------------------------------------
(* A restart in the middle of whatever was under way; begin() loads. *)

Interrupted ==
    IF clear.step # "none"
    THEN {[slots EXCEPT ![Other(live.active)] = slot] : slot \in ClearLeaves}
    ELSE IF MayStep
    THEN LET im == Started(image) IN
         {[slots EXCEPT ![Other(im.active)] = slot] :
             slot \in {slots[Other(im.active)], StepDone(im)} \union StepTorn(im)}
    ELSE {slots}

Restart ==
    /\ slots' \in Interrupted
    /\ live' = Loaded' /\ settled' = Loaded'.version
    /\ worker' = "idle" /\ clear' = NotClearing
    /\ image' = [version |-> 0, gen |-> 0, active |-> 0, dirty |-> FALSE,
                 phase |-> "IDLE", at |-> 0]
    /\ UNCHANGED fresh

-----------------------------------------------------------------------------
Next ==
    \/ Mutate \/ Rate \/ Capture \/ Acknowledge
    \/ FlushStep \/ FlushStepFails
    \/ Clear \/ ClearErase \/ ClearWrite \/ ClearFails
    \/ Restart

Spec == Init /\ [][Next]_vars

-----------------------------------------------------------------------------
(* Properties. *)

\* A restart at any moment, in the middle of any flash operation, recovers a
\* version at least as new as the newest one reported to be persistent ("an
\* interrupted replacement never supersedes the previous valid slot").
ReportedVersionSurvives ==
    \A after \in Interrupted : settled <= LoadedFrom(after).version

\* A store that is not dirty has nothing to lose: flash holds what RAM holds.
CleanMeansDurable ==
    ~live.dirty /\ clear.step = "none" => Loaded.version = live.version

\* The store implements DurableLog.
Durable == INSTANCE DurableLog WITH
    Versions <- Versions, live <- live.version, durable <- Loaded.version,
    settled <- settled

\* Every step of the store is one of the durable log or changes nothing of it.
ImplementsDurableLog == Durable!Spec
=============================================================================
