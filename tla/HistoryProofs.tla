----------------------------- MODULE HistoryProofs -----------------------------
(* Theorems about the lists that the firmware keeps and shows: the dual-slot store    *)
(* that keeps them in flash, and the live stream that brings them to the pages of     *)
(* the Web UI.                                                                        *)
(*                                                                                   *)
(*   - the store, for every number of body pieces, mutations and generations: a       *)
(*     version reported as persistent survives a restart at any moment, a store that  *)
(*     is not dirty is in flash, and the store implements DurableLog;                 *)
(*   - the stream, for every number of sockets, every set of pages and every way the  *)
(*     frames of a batch fit the coalescing buffer: differences are only sent on top  *)
(*     of what the page shows.                                                        *)
EXTENDS FlashLog, UiStream, FiniteSetTheorems, SequenceTheorems, TLAPS

-----------------------------------------------------------------------------
(* The inductive invariant. *)

\* The slot the next transaction will not touch, and the newest generation used.
Owner == IF worker = "idle" THEN live ELSE image
Base  == Owner.active

\* A transaction has begun: its generation is newer than those of both slots.
Begun == clear.step # "none" \/ (worker = "writing" /\ image.phase # "IDLE")
UsedGeneration == IF Begun THEN Owner.gen - 1 ELSE Owner.gen

\* What two slots hold when b is the base, lo has been reported, hi is in RAM and
\* no generation above g was used: the base holds a version from lo to hi; the
\* other slot is not valid, is older, or holds such a version under a newer header.
Sound(both, b, lo, hi, g) ==
    /\ Valid(both[b]) => lo <= both[b].crc /\ both[b].crc <= hi /\ both[b].gen \in 0..g
    /\ ~Valid(both[b]) => lo = 0
    /\ Valid(both[Other(b)]) =>
          /\ both[Other(b)].gen \in 0..g
          /\ \/ Valid(both[b]) /\ both[Other(b)].gen < both[b].gen
             \/ /\ lo <= both[Other(b)].crc /\ both[Other(b)].crc <= hi
                /\ Valid(both[b]) => both[Other(b)].gen > both[b].gen

\* A restart would not find a version the control task has not been told of.
Reported(both, b) ==
    Valid(both[Other(b)]) => Valid(both[b]) /\ both[Other(b)].gen < both[b].gen

InvVersions ==
    /\ live.version < fresh /\ image.version < fresh
    /\ settled <= live.version
    /\ clear.step # "none" => worker = "idle"

\* The image in flight: still to be written, committed, or there was nothing to do.
InvImage ==
    worker # "idle" =>
      /\ image.dirty => /\ live.dirty /\ image.active = live.active
                        /\ settled <= image.version /\ image.version <= live.version
      /\ ~image.dirty => worker = "writing" /\ image.phase = "IDLE"
      /\ ~image.dirty /\ image.active = live.active =>
            (live.dirty => image.version < live.version)
      /\ ~image.dirty /\ image.active # live.active =>
            /\ live.dirty /\ settled <= image.version /\ image.version <= live.version
            /\ Valid(slots[image.active]) /\ slots[image.active].crc = image.version
            /\ Reported(slots, image.active)
      /\ worker = "failed" => image.phase = "IDLE"

InvSlots == Sound(slots, Base, settled, live.version, UsedGeneration)

\* A clean store is the one its base slot holds.
InvClean ==
    ~live.dirty /\ clear.step = "none" =>
      /\ live.version = IF Valid(slots[live.active]) THEN slots[live.active].crc ELSE 0
      /\ Reported(slots, live.active)

Target == slots[Other(Base)]
\* How far the transaction of the worker is ...
InvWorker ==
    worker = "writing" /\ image.phase # "IDLE" =>
      /\ image.dirty /\ Target.crc = NoVersion
      /\ image.phase = "ERASE" => image.at \in Body
      /\ image.phase = "BODY" =>
            image.at \in Body /\ \A i \in Body : i < image.at => Target.body[i] = image.version
      /\ image.phase = "COMMIT" => \A i \in Body : Target.body[i] = image.version
\* ... and the immediate save.
InvClear ==
    clear.step = "write" =>
      /\ Target.crc = IF clear.at = 0 THEN NoVersion ELSE live.version
      /\ clear.at # 0 => Target.gen = live.gen
      /\ \A i \in Body : Target.body[i] = IF i < clear.at THEN live.version ELSE NoVersion

IInv == /\ TypeOK /\ InvVersions /\ InvImage /\ InvSlots /\ InvClean
        /\ InvWorker /\ InvClear
-----------------------------------------------------------------------------
(* Slots. *)

\* There are two slots.
LEMMA OtherSlot ==
    ASSUME NEW s \in SlotIds
    PROVE  Other(s) \in SlotIds /\ Other(s) # s /\ Other(Other(s)) = s
  BY DEF Other, SlotIds

\* A valid slot holds a version.
LEMMA ValidSlot ==
    ASSUME NEW slot \in Slot, Valid(slot)
    PROVE  slot.crc \in Versions
  BY DEF Valid, Slot

\* chooseNewerRevision picks one of the two slots, the newer one.
LEMMA NewerSlot ==
    ASSUME NEW both \in [SlotIds -> Slot], NEW b \in SlotIds
    PROVE  /\ Newer(both) \in SlotIds
           /\ both[Other(b)].gen < both[b].gen => Newer(both) = b
           /\ both[Other(b)].gen > both[b].gen => Newer(both) = Other(b)
  <1>1. both[0].gen \in Int /\ both[1].gen \in Int
    BY DEF Slot, SlotIds, Generations
  <1> QED BY <1>1 DEF Newer, Other, SlotIds

\* load() ends with a version that may be reported, and forgets none that was.
LEMMA LoadSound ==
    ASSUME NEW both \in [SlotIds -> Slot], NEW b \in SlotIds,
           NEW lo \in Nat, NEW hi \in Nat, NEW g \in Int, lo <= hi,
           Sound(both, b, lo, hi, g)
    PROVE  /\ LoadedFrom(both) \in Store
           /\ lo <= LoadedFrom(both).version /\ LoadedFrom(both).version <= hi
           /\ Sound(both, LoadedFrom(both).active, LoadedFrom(both).version,
                    LoadedFrom(both).version, LoadedFrom(both).gen)
           /\ Reported(both, LoadedFrom(both).active)
           /\ LoadedFrom(both).version =
                 IF Valid(both[LoadedFrom(both).active])
                 THEN both[LoadedFrom(both).active].crc ELSE 0
           /\ LoadedFrom(both).dirty = FALSE
  <1> DEFINE o == Other(b)
             s == LoadedSlot(both)
             l == LoadedFrom(both)
  <1>1. /\ o \in SlotIds /\ o # b /\ Other(o) = b
        /\ both[b] \in Slot /\ both[o] \in Slot
    BY OtherSlot
  <1>2. /\ \A t \in SlotIds : t = b \/ t = o
        /\ Newer(both) \in SlotIds
    BY <1>1, NewerSlot DEF SlotIds
  <1>3. /\ s \in SlotIds
        /\ Reported(both, s)
        /\ Valid(both[s]) => lo <= both[s].crc /\ both[s].crc <= hi /\ both[s].gen \in 0..g
        /\ ~Valid(both[s]) => lo = 0 /\ ~Valid(both[Other(s)])
    <2>1. CASE ~Valid(both[b]) /\ ~Valid(both[o])
      <3>1. s \in SlotIds
        BY <1>2, OtherSlot DEF LoadedSlot
      <3>2. ~Valid(both[s]) /\ ~Valid(both[Other(s)])
        BY <3>1, <1>1, <1>2, <2>1
      <3> QED BY <3>1, <3>2, <2>1 DEF Sound, Reported
    <2>2. CASE ~Valid(both[b]) /\ Valid(both[o])
      <3>1. s = o
        BY <1>1, <1>2, <2>2 DEF LoadedSlot
      <3> QED BY <3>1, <1>1, <2>2 DEF Sound, Reported
    <2>3. CASE Valid(both[b]) /\ ~Valid(both[o])
      <3>1. s = b
        BY <1>1, <1>2, <2>3 DEF LoadedSlot
      <3> QED BY <3>1, <1>1, <2>3 DEF Sound, Reported
    <2>4. CASE Valid(both[b]) /\ Valid(both[o]) /\ both[o].gen < both[b].gen
      <3>1. s = b
        BY <1>1, <1>2, <2>4, NewerSlot DEF LoadedSlot
      <3> QED BY <3>1, <1>1, <2>4 DEF Sound, Reported
    <2>5. CASE Valid(both[b]) /\ Valid(both[o]) /\ ~(both[o].gen < both[b].gen)
      <3>1. /\ both[o].gen > both[b].gen /\ both[o].gen \in 0..g
            /\ lo <= both[o].crc /\ both[o].crc <= hi
        BY <2>5 DEF Sound
      <3>2. s = o
        BY <1>1, <1>2, <2>5, <3>1, NewerSlot DEF LoadedSlot
      <3>3. both[b].gen \in Int
        BY <1>1 DEF Slot, Generations
      <3> QED BY <3>1, <3>2, <3>3, <1>1, <2>5 DEF Reported
    <2> QED BY <2>1, <2>2, <2>3, <2>4, <2>5
  <1>4. CASE Valid(both[s])
    <2>1. l = [version |-> both[s].crc, gen |-> both[s].gen, active |-> s, dirty |-> FALSE]
      BY <1>4 DEF LoadedFrom
    <2>2. both[s].crc \in Versions /\ both[s].gen \in Generations
      BY <1>3, <1>4, ValidSlot DEF Slot, Generations
    <2>3. both[Other(s)] \in Slot
      BY <1>3, OtherSlot
    <2>4. both[s].gen \in 0..both[s].gen
      BY <2>2 DEF Generations
    <2>5. Sound(both, s, both[s].crc, both[s].crc, both[s].gen)
      <3>1. Valid(both[Other(s)]) =>
              /\ both[Other(s)].gen \in 0..both[s].gen
              /\ both[Other(s)].gen < both[s].gen
        <4> SUFFICES ASSUME Valid(both[Other(s)])
                     PROVE  both[Other(s)].gen \in 0..both[s].gen
                            /\ both[Other(s)].gen < both[s].gen
          OBVIOUS
        <4>1. both[Other(s)].gen < both[s].gen
          BY <1>3 DEF Reported
        <4>2. both[Other(s)].gen \in Nat
          BY <1>1, <1>2, <1>3 DEF Sound
        <4> QED BY <4>1, <4>2, <2>2 DEF Generations
      <3>2. both[s].crc <= both[s].crc
        BY <2>2 DEF Versions
      <3> QED BY <3>1, <3>2, <1>4, <2>4 DEF Sound
    <2>6. l \in Store
      BY <2>1, <2>2, <1>3 DEF Store
    <2> QED BY <2>1, <2>5, <2>6, <1>3, <1>4
  <1>5. CASE ~Valid(both[s])
    <2>1. l = EmptyStore
      BY <1>5 DEF LoadedFrom
    <2>2. /\ ~Valid(both[b]) /\ ~Valid(both[o]) /\ lo = 0
      BY <1>1, <1>2, <1>3, <1>5
    <2>3. ~Valid(both[0]) /\ ~Valid(both[1]) /\ Other(0) = 1
      BY <1>1, <1>2, <2>2 DEF SlotIds, Other
    <2>4. EmptyStore \in Store
      BY FlashAssumption DEF EmptyStore, Store, Versions, Generations, SlotIds
    <2>5. Sound(both, 0, 0, 0, 1) /\ Reported(both, 0)
      BY <2>3 DEF Sound, Reported
    <2> QED BY <2>1, <2>2, <2>3, <2>4, <2>5 DEF EmptyStore
  <1> QED BY <1>4, <1>5

\* Rewriting the slot that is not the base keeps both slots sound when it leaves
\* that slot invalid, or valid with an unreported version and a newer generation.
LEMMA PutSound ==
    ASSUME NEW both \in [SlotIds -> Slot], NEW b \in SlotIds, NEW slot \in Slot,
           NEW lo \in Nat, NEW hi \in Nat, NEW g \in Int, NEW h \in Int, g <= h,
           Sound(both, b, lo, hi, g),
           \/ slot = both[Other(b)]
           \/ ~Valid(slot)
           \/ lo <= slot.crc /\ slot.crc <= hi /\ slot.gen \in 0..h /\ slot.gen > g
    PROVE  /\ [both EXCEPT ![Other(b)] = slot] \in [SlotIds -> Slot]
           /\ Sound([both EXCEPT ![Other(b)] = slot], b, lo, hi, h)
  <1> DEFINE o == Other(b)
             new == [both EXCEPT ![o] = slot]
  <1>1. o \in SlotIds /\ o # b
    BY OtherSlot
  <1>2. new \in [SlotIds -> Slot] /\ new[b] = both[b] /\ new[o] = slot
    BY <1>1
  <1>3. \A n : n \in 0..g => n \in 0..h
    OBVIOUS
  <1>4. /\ Valid(new[b]) => lo <= new[b].crc /\ new[b].crc <= hi /\ new[b].gen \in 0..h
        /\ ~Valid(new[b]) => lo = 0
    BY <1>2, <1>3 DEF Sound
  <1>5. CASE slot = both[o]
    BY <1>2, <1>3, <1>4, <1>5 DEF Sound
  <1>6. CASE ~Valid(slot)
    BY <1>2, <1>4, <1>6 DEF Sound
  <1>7. CASE lo <= slot.crc /\ slot.crc <= hi /\ slot.gen \in 0..h /\ slot.gen > g
    <2>1. Valid(both[b]) => slot.gen > both[b].gen
      <3>1. Valid(both[b]) => both[b].gen \in 0..g
        BY DEF Sound
      <3> QED BY <3>1, <1>7
    <2> QED BY <2>1, <1>2, <1>4, <1>7 DEF Sound
  <1> QED BY <1>5, <1>6, <1>7

\* Fewer reported versions, more versions in RAM and more generations keep it.
LEMMA WeakenSound ==
    ASSUME NEW both \in [SlotIds -> Slot], NEW b \in SlotIds,
           NEW lo \in Nat, NEW hi \in Nat, NEW g \in Int, NEW hi2 \in Nat, NEW h \in Int,
           g <= h, hi <= hi2, Sound(both, b, lo, hi, g)
    PROVE  Sound(both, b, lo, hi2, h)
  <1>1. \A n : n \in 0..g => n \in 0..h
    OBVIOUS
  <1>2. both[b] \in Slot /\ both[Other(b)] \in Slot
    BY OtherSlot
  <1>3. \A slot \in Slot : slot.crc \in Int
    BY DEF Slot, Versions, NoVersion
  <1>4. \A slot \in Slot : slot.crc <= hi => slot.crc <= hi2
    BY <1>3
  <1> QED BY <1>1, <1>2, <1>4 DEF Sound

-----------------------------------------------------------------------------
(* What the operations of the worker leave in the target slot. *)

\* A worker that may step has or begins a transaction above the used generation.
LEMMA StartedImage ==
    ASSUME TypeOK, InvVersions, InvImage, InvWorker, MayStep
    PROVE  /\ worker = "writing" /\ clear.step = "none" /\ Owner = image
           /\ Started(image) \in Image
           /\ Started(image).phase # "IDLE"
           /\ Started(image).version = image.version
           /\ Started(image).active = image.active
           /\ Started(image).gen = UsedGeneration + 1
           /\ Started(image).dirty /\ image.dirty /\ live.dirty
           /\ live.active = image.active
           /\ settled <= image.version /\ image.version <= live.version
           /\ Started(image).phase = "ERASE" =>
                 \/ Started(image).at = 0
                 \/ Started(image).at \in Body /\ Target.crc = NoVersion
           /\ Started(image).phase = "BODY" =>
                 /\ Started(image).at \in Body /\ Target.crc = NoVersion
                 /\ \A i \in Body : i < Started(image).at => Target.body[i] = image.version
           /\ Started(image).phase = "COMMIT" =>
                 /\ Target.crc = NoVersion
                 /\ \A i \in Body : Target.body[i] = image.version
  <1>1. /\ worker = "writing" /\ clear.step = "none" /\ Owner = image
        /\ image.dirty /\ live.dirty /\ live.active = image.active
        /\ settled <= image.version /\ image.version <= live.version
    BY DEF MayStep, Owner, InvVersions, InvImage
  <1>2. image \in Image
    BY DEF TypeOK
  <1>3. CASE image.phase = "IDLE"
    <2> DEFINE im == [image EXCEPT !.gen = @ + 1, !.phase = "ERASE", !.at = 0]
    <2>1. Started(image) = im
      BY <1>3 DEF Started
    <2>2. /\ im.version = image.version /\ im.active = image.active /\ im.dirty = image.dirty
          /\ im.gen = image.gen + 1 /\ im.phase = "ERASE" /\ im.at = 0
      BY <1>2 DEF Image
    <2>3. image.gen \in Generations /\ image.gen + 1 \in Generations
      BY <1>2, <1>3, FlashAssumption DEF Image, Generations, MayStep
    <2>4. 0 \in 0..Pieces
      BY FlashAssumption
    <2>5. im \in Image
      BY <1>2, <2>3, <2>4 DEF Image, Phases
    <2>6. UsedGeneration = image.gen
      BY <1>1, <1>3 DEF UsedGeneration, Begun
    <2> HIDE DEF im
    <2> QED BY <1>1, <2>1, <2>2, <2>5, <2>6
  <1>4. CASE image.phase # "IDLE"
    <2>1. Started(image) = image
      BY <1>4 DEF Started
    <2>2. UsedGeneration = image.gen - 1 /\ image.gen \in Int
      BY <1>1, <1>2, <1>4 DEF UsedGeneration, Begun, Image, Generations
    <2>3. UsedGeneration + 1 = image.gen
      BY <2>2
    <2> QED BY <1>1, <1>2, <1>4, <2>1, <2>3 DEF InvWorker
  <1> QED BY <1>3, <1>4

\* Erasing a piece, whole or in part, leaves a slot whose header is blank or torn
\* when the piece was the header.
LEMMA ErasedPiece ==
    ASSUME NEW slot \in Slot, NEW at \in 0..Pieces
    PROVE  /\ Erased(slot, at) \in Slot
           /\ Erased(slot, at).crc = IF at = 0 THEN NoVersion ELSE slot.crc
           /\ \A t \in Torn(slot, at) :
                 t \in Slot /\ t.crc = IF at = 0 THEN NoVersion ELSE slot.crc
  <1>1. -1 \in Generations \union {-1} /\ NoVersion \in Versions \union {NoVersion}
    OBVIOUS
  <1>2. at # 0 => at \in Body
    BY DEF Body
  <1>3. CASE at = 0
    BY <1>1, <1>3 DEF Slot, Erased, Torn
  <1>4. CASE at # 0
    BY <1>1, <1>2, <1>4 DEF Slot, Erased, Torn
  <1> QED BY <1>3, <1>4

\* Programming a piece changes nothing else of the slot.
LEMMA WrittenPiece ==
    ASSUME NEW slot \in Slot, NEW at \in 0..Pieces, NEW store \in Store \union Image
    PROVE  /\ Written(slot, at, store) \in Slot
           /\ at = 0 => /\ Written(slot, at, store).crc = store.version
                        /\ Written(slot, at, store).gen = store.gen
                        /\ Written(slot, at, store).body = slot.body
           /\ at # 0 => /\ Written(slot, at, store).crc = slot.crc
                        /\ Written(slot, at, store).gen = slot.gen
                        /\ Written(slot, at, store).body =
                              [slot.body EXCEPT ![at] = store.version]
  <1>1. /\ store.gen \in Generations \union {-1}
        /\ store.version \in Versions \union {NoVersion}
    BY DEF Store, Image
  <1>2. at # 0 => at \in Body
    BY DEF Body
  <1>3. CASE at = 0
    BY <1>1, <1>3 DEF Slot, Written
  <1>4. CASE at # 0
    BY <1>1, <1>2, <1>4 DEF Slot, Written
  <1> QED BY <1>3, <1>4

\* A blank or torn header, or a piece that differs, makes a slot invalid.
LEMMA InvalidSlot ==
    ASSUME NEW slot
    PROVE  /\ slot.crc = NoVersion => ~Valid(slot)
           /\ \A i \in Body : slot.body[i] # slot.crc => ~Valid(slot)
  BY DEF Valid

\* A step of the worker, done or cut short, leaves the target slot as it was, not
\* valid, or committed.
LEMMA StepLeaves ==
    ASSUME TypeOK, InvVersions, InvImage, InvWorker, MayStep,
           NEW slot \in {Target, StepDone(Started(image))} \union StepTorn(Started(image))
    PROVE  /\ slot \in Slot
           /\ \/ slot = Target
              \/ ~Valid(slot)
              \/ slot.crc = image.version /\ slot.gen = UsedGeneration + 1
  <1> DEFINE im == Started(image)
  <1>1. im \in Image /\ im.gen = UsedGeneration + 1 /\ im.version = image.version
        /\ im.active = image.active /\ im.phase # "IDLE" /\ Owner = image
    BY StartedImage
  <1>2. Target = slots[Other(im.active)] /\ Target \in Slot
    BY <1>1, OtherSlot DEF Target, Base, TypeOK, Image
  <1>3. im.at \in 0..Pieces /\ 0 \in 0..Pieces /\ im \in Store \union Image
    BY <1>1, FlashAssumption DEF Image
  <1>4. CASE im.phase = "ERASE"
    <2>1. StepDone(im) = Erased(Target, im.at) /\ StepTorn(im) = Torn(Target, im.at)
      BY <1>2, <1>4 DEF StepDone, StepTorn
    <2>2. im.at # 0 => Target.crc = NoVersion
      BY <1>4, StartedImage
    <2>3. Erased(Target, im.at) \in Slot /\ Erased(Target, im.at).crc = NoVersion
      BY <1>2, <1>3, <2>2, ErasedPiece
    <2>4. \A t \in Torn(Target, im.at) : t \in Slot /\ t.crc = NoVersion
      BY <1>2, <1>3, <2>2, ErasedPiece
    <2> QED BY <1>2, <2>1, <2>3, <2>4, InvalidSlot
  <1>5. CASE im.phase = "BODY"
    <2>1. StepDone(im) = Written(Target, im.at, im) /\ StepTorn(im) = Torn(Target, im.at)
      BY <1>2, <1>5 DEF StepDone, StepTorn
    <2>2. im.at # 0 /\ Target.crc = NoVersion
      BY <1>5, StartedImage DEF Body
    <2>3. Written(Target, im.at, im) \in Slot /\ Written(Target, im.at, im).crc = NoVersion
      BY <1>2, <1>3, <2>2, WrittenPiece
    <2>4. \A t \in Torn(Target, im.at) : t \in Slot /\ t.crc = NoVersion
      BY <1>2, <1>3, <2>2, ErasedPiece
    <2> QED BY <1>2, <2>1, <2>3, <2>4, InvalidSlot
  <1>6. CASE im.phase = "COMMIT"
    <2>1. StepDone(im) = Written(Target, 0, im) /\ StepTorn(im) = Torn(Target, 0)
      BY <1>2, <1>6 DEF StepDone, StepTorn
    <2>2. /\ Written(Target, 0, im) \in Slot
          /\ Written(Target, 0, im).crc = image.version
          /\ Written(Target, 0, im).gen = UsedGeneration + 1
      BY <1>1, <1>2, <1>3, WrittenPiece
    <2>3. \A t \in Torn(Target, 0) : t \in Slot /\ t.crc = NoVersion
      BY <1>2, <1>3, ErasedPiece
    <2> QED BY <1>2, <2>1, <2>2, <2>3, InvalidSlot
  <1> QED BY <1>1, <1>4, <1>5, <1>6 DEF Image, Phases

\* So does an immediate save that is cut short.
LEMMA ClearLeavesSlot ==
    ASSUME TypeOK, InvVersions, InvClear, clear.step # "none", NEW slot \in ClearLeaves
    PROVE  /\ slot \in Slot
           /\ \/ slot = Target
              \/ ~Valid(slot)
              \/ slot.crc = live.version /\ slot.gen = UsedGeneration + 1
  <1>1. Owner = live /\ UsedGeneration = live.gen - 1 /\ live \in Store
    BY DEF Owner, UsedGeneration, Begun, InvVersions, TypeOK
  <1>2. Target = slots[Other(live.active)] /\ Target \in Slot
    BY <1>1, OtherSlot DEF Target, Base, TypeOK, Store
  <1>3. /\ live.gen \in Generations /\ live.version \in Versions /\ live \in Store \union Image
        /\ clear.at \in 0..Pieces /\ 0 \in 0..Pieces
        /\ UsedGeneration + 1 = live.gen
    BY <1>1, FlashAssumption DEF Store, TypeOK, Generations
  <1>4. CASE slot = Target
    BY <1>2, <1>4
  <1>5. CASE clear.step = "write" /\ slot # Target
    <2>1. slot \in {Written(Target, clear.at, live)} \union Torn(Target, clear.at)
      BY <1>2, <1>5 DEF ClearLeaves
    <2>2. Written(Target, clear.at, live) \in Slot
      BY <1>2, <1>3, WrittenPiece
    <2>3. CASE clear.at = 0
      <3>1. /\ Target.crc = NoVersion
            /\ \A t \in Torn(Target, 0) : t \in Slot /\ t.crc = NoVersion
            /\ Written(Target, 0, live).crc = live.version
            /\ Written(Target, 0, live).gen = live.gen
        <4>1. Target.crc = NoVersion
          BY <1>5, <2>3 DEF InvClear
        <4>2. \A t \in Torn(Target, 0) : t \in Slot /\ t.crc = NoVersion
          BY <1>2, <1>3, ErasedPiece
        <4>3. /\ Written(Target, 0, live).crc = live.version
              /\ Written(Target, 0, live).gen = live.gen
          BY <1>2, <1>3, WrittenPiece
        <4> QED BY <4>1, <4>2, <4>3
      <3> QED BY <1>3, <2>1, <2>2, <2>3, <3>1, InvalidSlot
    <2>4. CASE clear.at # 0
      <3>1. /\ Target.crc = live.version /\ clear.at \in Body /\ Target.gen = live.gen
            /\ \A i \in Body : Target.body[i] = IF i < clear.at THEN live.version ELSE NoVersion
        BY <1>3, <1>5, <2>4 DEF InvClear, Body
      <3>2. Target.body[clear.at] = NoVersion
        BY <3>1, <1>3
      <3>3. slot \in Slot
        BY <1>2, <1>3, <2>1, <2>2, ErasedPiece
      <3>4. CASE slot \in Torn(Target, clear.at)
        <4>1. slot = [Target EXCEPT !.body[clear.at] = NoVersion]
          BY <2>4, <3>4 DEF Torn
        <4>2. slot.body[clear.at] = NoVersion /\ slot.crc = live.version
          BY <4>1, <3>1, <1>2 DEF Slot
        <4>3. NoVersion # live.version
          BY <1>3 DEF NoVersion, Versions
        <4> QED BY <3>1, <3>3, <4>2, <4>3, InvalidSlot
      <3>5. CASE slot = Written(Target, clear.at, live)
        <4>1. Written(Target, clear.at, live).crc = Target.crc
              /\ Written(Target, clear.at, live).gen = Target.gen
          BY <1>2, <1>3, <2>4, WrittenPiece
        <4> QED BY <1>3, <3>1, <3>3, <3>5, <4>1
      <3> QED BY <2>1, <3>4, <3>5
    <2> QED BY <2>3, <2>4
  <1>6. CASE clear.step = "erase" /\ slot # Target
    <2>1. slot \in {Blank} \union Torn(Target, 0)
      BY <1>2, <1>6 DEF ClearLeaves
    <2>2. Blank \in Slot /\ Blank.crc = NoVersion
      BY DEF Blank, Slot
    <2>3. \A t \in Torn(Target, 0) : t \in Slot /\ t.crc = NoVersion
      BY <1>2, <1>3, ErasedPiece
    <2> QED BY <2>1, <2>2, <2>3, InvalidSlot
  <1>7. clear.step \in {"none", "erase", "write"}
    BY DEF TypeOK
  <1> QED BY <1>4, <1>5, <1>6, <1>7

-----------------------------------------------------------------------------
(* The invariant is inductive: one lemma per action. *)

\* What the invariant says of the types, in the form the steps use.
LEMMA InvFacts ==
    ASSUME IInv
    PROVE  /\ live \in Store /\ image \in Image /\ slots \in [SlotIds -> Slot]
           /\ live.version \in Nat /\ settled \in Nat /\ fresh \in Nat
           /\ live.gen \in Nat /\ image.gen \in Nat /\ image.version \in Nat
           /\ Base \in SlotIds /\ UsedGeneration \in Int /\ Target \in Slot
           /\ live.active \in SlotIds /\ image.active \in SlotIds
           /\ settled <= live.version /\ live.version < fresh
  <1>1. /\ live \in Store /\ image \in Image /\ slots \in [SlotIds -> Slot]
        /\ settled \in Nat /\ fresh \in Nat
        /\ settled <= live.version /\ live.version < fresh
    BY FlashAssumption DEF IInv, InvVersions, TypeOK, Versions
  <1>2. /\ live.version \in Nat /\ live.gen \in Nat /\ image.gen \in Nat
        /\ image.version \in Nat
        /\ live.active \in SlotIds /\ image.active \in SlotIds
    BY <1>1 DEF Store, Image, Versions, Generations
  <1>3. Base \in SlotIds /\ UsedGeneration \in Int
    BY <1>2 DEF Base, Owner, UsedGeneration
  <1>4. Target \in Slot
    BY <1>1, <1>3, OtherSlot DEF Target
  <1> QED BY <1>1, <1>2, <1>3, <1>4

\* Nothing has been written: the blank slots are sound for the empty store.
LEMMA InitInv == Init => IInv
  <1> SUFFICES ASSUME Init PROVE IInv
    OBVIOUS
  <1>1. /\ Blank \in Slot /\ ~Valid(Blank)
    BY InvalidSlot DEF Blank, Slot
  <1>2. slots \in [SlotIds -> Slot] /\ \A s \in SlotIds : ~Valid(slots[s])
    BY <1>1 DEF Init
  <1>3. /\ 0 \in Versions /\ 0 \in Generations /\ 1 \in Generations /\ 0 \in 0..Pieces
        /\ 0 \in SlotIds /\ 1 \in 1..MaxVersion + 1
    BY FlashAssumption DEF Versions, Generations, SlotIds
  <1>4. live \in Store /\ image \in Image
    BY <1>3 DEF Init, EmptyStore, Store, Image, Phases
  <1>5. TypeOK
    BY <1>2, <1>3, <1>4 DEF Init, TypeOK, NotClearing
  <1>6. live.version = 0 /\ live.active = 0 /\ live.gen = 1 /\ ~live.dirty
        /\ image.version = 0 /\ worker = "idle" /\ clear.step = "none"
        /\ fresh = 1 /\ settled = 0
    BY DEF Init, EmptyStore, NotClearing
  <1>7. ~Valid(slots[0]) /\ ~Valid(slots[Other(0)])
    BY <1>2, <1>3, OtherSlot
  <1>8. Base = 0
    BY <1>6 DEF Base, Owner
  <1>9. InvSlots
    BY <1>6, <1>7, <1>8 DEF InvSlots, Sound
  <1>10. InvClean
    BY <1>6, <1>7 DEF InvClean, Reported
  <1> QED BY <1>5, <1>6, <1>9, <1>10
          DEF IInv, InvVersions, InvImage, InvWorker, InvClear

\* A mutation makes a version newer than all others.
LEMMA MutateInv == IInv /\ (Mutate \/ Rate) => IInv'
  <1> SUFFICES ASSUME IInv, Mutate \/ Rate PROVE IInv'
    OBVIOUS
  <1>1. /\ clear.step = "none" /\ fresh <= MaxVersion
        /\ image' = image /\ worker' = worker /\ clear' = clear /\ slots' = slots
        /\ settled' = settled /\ fresh' = fresh + 1
    BY DEF Mutate, Rate
  <1>2. PICK g \in Generations :
          /\ g = live.gen \/ g = live.gen + 1
          /\ live' = [live EXCEPT !.version = fresh, !.dirty = TRUE, !.gen = g]
    <2>1. CASE Mutate
      <3>1. live' = [live EXCEPT !.version = fresh, !.dirty = TRUE, !.gen = live.gen]
        BY <2>1, InvFacts DEF Mutate, Store
      <3> QED BY <3>1, InvFacts DEF Store
    <2>2. CASE Rate
      <3>1. live.gen + 1 \in Generations
        BY <2>2, InvFacts, FlashAssumption DEF Rate, Generations
      <3> QED BY <2>2, <3>1 DEF Rate
    <2> QED BY <2>1, <2>2
  <1>3. /\ live'.version = fresh /\ live'.dirty /\ live'.gen = g /\ live'.active = live.active
    BY <1>2, InvFacts DEF Store
  <1>4. fresh \in Versions /\ fresh' \in 1..MaxVersion + 1
    BY <1>1, InvFacts, FlashAssumption DEF Versions, IInv, TypeOK
  <1>5. live' \in Store
    BY <1>2, <1>4, InvFacts DEF Store
  <1>6. TypeOK'
    BY <1>1, <1>4, <1>5 DEF IInv, TypeOK
  <1>7. InvVersions'
    BY <1>1, <1>3, InvFacts DEF IInv, InvVersions
  <1>8. /\ Base' = Base /\ UsedGeneration' \in Int /\ UsedGeneration <= UsedGeneration'
    <2>1. Base' = Base
      BY <1>1, <1>3 DEF Base, Owner
    <2>2. Begun' = Begun
      BY <1>1 DEF Begun
    <2>3. /\ Owner'.gen \in Int /\ Owner.gen \in Int /\ Owner.gen <= Owner'.gen
      BY <1>1, <1>2, <1>3, InvFacts DEF Owner
    <2> QED BY <2>1, <2>2, <2>3 DEF UsedGeneration
  <1>9. InvSlots'
    <2>1. Sound(slots, Base, settled, fresh, UsedGeneration')
      BY <1>8, InvFacts, WeakenSound DEF IInv, InvSlots
    <2> QED BY <1>1, <1>3, <1>8, <2>1 DEF InvSlots
  <1>10. InvImage'
    <2>1. worker # "idle" => image.version < fresh
      BY DEF IInv, InvVersions
    <2>2. worker # "idle" /\ image.dirty => image.version <= fresh
      BY <2>1, InvFacts
    <2>3. worker # "idle" /\ image.version <= live.version => image.version <= fresh
      BY InvFacts
    <2> QED BY <1>1, <1>3, <2>1, <2>2, <2>3 DEF IInv, InvImage
  <1>11. InvClean'
    BY <1>3 DEF InvClean
  <1>12. Target' = Target
    BY <1>1, <1>8 DEF Target
  <1>13. InvWorker' /\ InvClear'
    BY <1>1, <1>12 DEF IInv, InvWorker, InvClear
  <1> QED BY <1>6, <1>7, <1>9, <1>10, <1>11, <1>13 DEF IInv

\* An image has the generation and the active slot of the store it copies.
LEMMA CaptureInv == IInv /\ Capture => IInv'
  <1> SUFFICES ASSUME IInv, Capture PROVE IInv'
    OBVIOUS
  <1> DEFINE im == [version |-> IF live.dirty THEN live.version ELSE image.version,
                    gen |-> live.gen, active |-> live.active, dirty |-> live.dirty,
                    phase |-> "IDLE", at |-> 0]
  <1>1. /\ clear.step = "none" /\ worker = "idle"
        /\ image' = im /\ worker' \in {"writing", "idle"} /\ clear' = clear /\ slots' = slots
        /\ live' = live /\ settled' = settled /\ fresh' = fresh
    BY DEF Capture
  <1>2. im \in Image
    <2>1. (IF live.dirty THEN live.version ELSE image.version) \in Versions
      BY InvFacts DEF Store, Image
    <2>2. 0 \in 0..Pieces
      BY FlashAssumption
    <2> QED BY <2>1, <2>2, InvFacts DEF Store, Image, Phases
  <1>3. /\ image'.gen = live.gen /\ image'.active = live.active /\ image'.dirty = live.dirty
        /\ image'.phase = "IDLE"
        /\ live.dirty => image'.version = live.version
        /\ ~live.dirty => image'.version = image.version
    BY <1>1
  <1>4. TypeOK'
    BY <1>1, <1>2 DEF IInv, TypeOK
  <1>5. InvVersions'
    BY <1>1, <1>3 DEF IInv, InvVersions
  <1>6. Base' = Base /\ UsedGeneration' = UsedGeneration
    BY <1>1, <1>3 DEF Base, UsedGeneration, Begun, Owner
  <1>7. InvSlots'
    BY <1>1, <1>6 DEF IInv, InvSlots
  <1>8. InvImage'
    <2>1. live.dirty => settled <= image'.version /\ image'.version <= live.version
      BY <1>3, InvFacts
    <2> QED BY <1>1, <1>3, <2>1 DEF InvImage
  <1>9. InvClean'
    BY <1>1 DEF IInv, InvClean
  <1>10. InvWorker' /\ InvClear'
    BY <1>1, <1>3 DEF InvWorker, InvClear
  <1> QED BY <1>4, <1>5, <1>7, <1>8, <1>9, <1>10 DEF IInv

\* The store takes over where the worker has got to; a version is reported when the
\* worker has committed it, and the store is clean when it is that version still.
LEMMA AcknowledgeInv == IInv /\ Acknowledge => IInv'
  <1> SUFFICES ASSUME IInv, Acknowledge PROVE IInv'
    OBVIOUS
  <1> DEFINE ok == worker = "writing" /\ ~image.dirty
             persisted == ok /\ (live.dirty => live.version = image.version)
             flushed == ok /\ image.active # live.active
  <1>1. /\ clear.step = "none" /\ worker # "idle"
        /\ live' = Acknowledged(persisted)
        /\ settled' = IF flushed THEN image.version ELSE settled
        /\ image' = image /\ worker' = "idle" /\ clear' = clear /\ slots' = slots
        /\ fresh' = fresh
    BY DEF Acknowledge
  <1>2. /\ live'.gen = image.gen /\ live'.active = image.active
        /\ live'.version = live.version /\ live'.dirty = (live.dirty /\ ~persisted)
    BY <1>1, InvFacts DEF Acknowledged, Store
  <1>3. live' \in Store
    <2>1. (live.dirty /\ ~persisted) \in BOOLEAN
      OBVIOUS
    <2>2. live.dirty \in BOOLEAN
      BY InvFacts DEF Store
    <2> QED BY <1>1, <2>1, InvFacts DEF Acknowledged, Store, Image
  <1>4. flushed =>
          /\ live.dirty /\ settled <= image.version /\ image.version <= live.version
          /\ Valid(slots[image.active]) /\ slots[image.active].crc = image.version
          /\ Reported(slots, image.active)
    BY <1>1 DEF IInv, InvImage
  <1>5. settled' \in Versions /\ settled' <= live.version
    BY <1>1, <1>4, InvFacts DEF IInv, TypeOK, Image
  <1>6. TypeOK'
    BY <1>1, <1>3, <1>5 DEF IInv, TypeOK
  <1>7. InvVersions'
    BY <1>1, <1>2, <1>5 DEF IInv, InvVersions
  <1>8. Base = image.active /\ Base' = image.active
    BY <1>1, <1>2 DEF Base, Owner
  <1>9. UsedGeneration' = image.gen /\ UsedGeneration <= image.gen
    <2>1. UsedGeneration' = image.gen
      BY <1>1, <1>2 DEF UsedGeneration, Begun, Owner
    <2>2. Owner = image
      BY <1>1 DEF Owner
    <2> QED BY <2>1, <2>2, InvFacts DEF UsedGeneration
  <1>10. Sound(slots, image.active, settled, live.version, image.gen)
    BY <1>8, <1>9, InvFacts, WeakenSound DEF IInv, InvSlots
  <1>11. InvSlots'
    <2>1. CASE flushed
      <3>1. Sound(slots, image.active, image.version, live.version, image.gen)
        <4>1. image.version <= image.version
          BY InvFacts
        <4> QED BY <1>4, <1>10, <2>1, <4>1 DEF Sound, Reported
      <3> QED BY <1>1, <1>2, <1>8, <1>9, <2>1, <3>1 DEF InvSlots
    <2>2. CASE ~flushed
      BY <1>1, <1>2, <1>8, <1>9, <1>10, <2>2 DEF InvSlots
    <2> QED BY <2>1, <2>2
  <1>12. InvClean'
    <2> SUFFICES ASSUME ~(live'.dirty)
                 PROVE  /\ live'.version = IF Valid(slots[image.active])
                                           THEN slots[image.active].crc ELSE 0
                        /\ Reported(slots, image.active)
      BY <1>1, <1>2 DEF InvClean
    <2>1. CASE ~live.dirty
      <3>1. image.active = live.active
        BY <1>1, <2>1 DEF IInv, InvImage
      <3> QED BY <1>1, <1>2, <2>1, <3>1 DEF IInv, InvClean
    <2>2. CASE live.dirty
      <3>1. ok /\ live.version = image.version
        BY <1>2, <2>2
      <3>2. image.active # live.active
        BY <1>1, <2>2, <3>1, InvFacts DEF IInv, InvImage
      <3> QED BY <1>2, <1>4, <3>1, <3>2
    <2> QED BY <2>1, <2>2
  <1>13. InvImage' /\ InvWorker' /\ InvClear'
    BY <1>1 DEF InvImage, InvWorker, InvClear
  <1> QED BY <1>6, <1>7, <1>11, <1>12, <1>13 DEF IInv

\* An erase or a body piece keeps the transaction under way; the target slot stays
\* invalid.
LEMMA FlushOnInv == IInv /\ FlushStep /\ Started(image).phase # "COMMIT" => IInv'
  <1> SUFFICES ASSUME IInv, FlushStep, Started(image).phase # "COMMIT" PROVE IInv'
    OBVIOUS
  <1> DEFINE im == Started(image)
             slot == StepDone(im)
  <1>1. /\ MayStep /\ slots' = [slots EXCEPT ![Other(im.active)] = slot]
        /\ image' = Advance(im)
        /\ live' = live /\ worker' = worker /\ clear' = clear /\ fresh' = fresh
        /\ settled' = settled
    BY DEF FlushStep, PutSlot
  <1>2. /\ worker = "writing" /\ clear.step = "none" /\ Owner = image
        /\ im \in Image /\ im.phase \in {"ERASE", "BODY"} /\ im.version = image.version
        /\ im.active = image.active /\ im.gen = UsedGeneration + 1
        /\ im.dirty /\ image.dirty /\ live.dirty /\ live.active = image.active
        /\ settled <= image.version /\ image.version <= live.version
    BY <1>1, StartedImage DEF IInv, Image, Phases
  <1>3. Base = im.active /\ Target = slots[Other(im.active)] /\ Target \in Slot
    BY <1>2, InvFacts DEF Base, Target
  <1>4. slot \in Slot /\ slot.crc = NoVersion
    <2>1. CASE im.phase = "ERASE"
      <3>1. slot = Erased(Target, im.at) /\ im.at \in 0..Pieces
        BY <1>2, <1>3, <2>1 DEF StepDone, Image
      <3>2. im.at # 0 => Target.crc = NoVersion
        BY <1>1, <2>1, StartedImage DEF IInv
      <3> QED BY <1>3, <3>1, <3>2, ErasedPiece
    <2>2. CASE im.phase = "BODY"
      <3>1. slot = Written(Target, im.at, im) /\ im.at \in 0..Pieces /\ im \in Store \union Image
        BY <1>2, <1>3, <2>2 DEF StepDone, Image
      <3>2. im.at # 0 /\ Target.crc = NoVersion
        BY <1>1, <2>2, StartedImage DEF IInv, Body
      <3>3. /\ Written(Target, im.at, im) \in Slot
            /\ Written(Target, im.at, im).crc = Target.crc
        BY <1>3, <3>1, <3>2, WrittenPiece
      <3> QED BY <3>1, <3>2, <3>3
    <2> QED BY <1>2, <2>1, <2>2
  <1>5. /\ image' \in Image /\ image'.phase # "IDLE" /\ image'.dirty
        /\ image'.version = im.version /\ image'.active = im.active /\ image'.gen = im.gen
        /\ image'.phase = "ERASE" => image'.at \in Body
        /\ image'.phase = "BODY" =>
              /\ image'.at \in Body
              /\ \/ im.phase = "ERASE" /\ image'.at = 1
                 \/ im.phase = "BODY" /\ image'.at = im.at + 1
        /\ image'.phase = "COMMIT" => im.phase = "BODY" /\ im.at = Pieces
    <2>1. im.at \in 0..Pieces /\ Pieces \in Nat \ {0}
      BY <1>2, FlashAssumption DEF Image
    <2>2. CASE im.phase = "ERASE" /\ im.at < Pieces
      <3>1. image' = [im EXCEPT !.at = im.at + 1]
        BY <1>1, <2>1, <2>2 DEF Advance
      <3>2. im.at + 1 \in 0..Pieces /\ im.at + 1 \in Body
        BY <2>1, <2>2 DEF Body
      <3> QED BY <1>2, <2>2, <3>1, <3>2 DEF Image
    <2>3. CASE im.phase = "ERASE" /\ im.at = Pieces
      <3>1. image' = [im EXCEPT !.phase = "BODY", !.at = 1]
        BY <1>1, <2>1, <2>3 DEF Advance
      <3>2. 1 \in 0..Pieces /\ 1 \in Body
        BY <2>1 DEF Body
      <3>3. /\ image'.phase = "BODY" /\ image'.at = 1 /\ image'.dirty = im.dirty
            /\ image'.version = im.version /\ image'.active = im.active /\ image'.gen = im.gen
        BY <1>2, <3>1 DEF Image
      <3>4. image' \in Image
        BY <1>2, <3>1, <3>2 DEF Image, Phases
      <3>5. image'.dirty
        BY <1>2, <3>3
      <3>6. image'.phase # "IDLE" /\ image'.phase # "ERASE" /\ image'.phase # "COMMIT"
        BY <3>3
      <3> QED BY <2>3, <3>2, <3>3, <3>4, <3>5, <3>6
    <2>4. CASE im.phase = "BODY" /\ im.at < Pieces
      <3>1. image' = [im EXCEPT !.at = im.at + 1]
        BY <1>1, <2>1, <2>4 DEF Advance
      <3>2. im.at + 1 \in 0..Pieces /\ im.at + 1 \in Body
        BY <2>1, <2>4 DEF Body
      <3> QED BY <1>2, <2>4, <3>1, <3>2 DEF Image
    <2>5. CASE im.phase = "BODY" /\ im.at = Pieces
      <3>1. image' = [im EXCEPT !.phase = "COMMIT", !.at = 0]
        BY <1>1, <2>1, <2>5 DEF Advance
      <3>2. 0 \in 0..Pieces
        BY <2>1
      <3> QED BY <1>2, <2>5, <3>1, <3>2 DEF Image, Phases
    <2> QED BY <1>2, <2>1, <2>2, <2>3, <2>4, <2>5
  <1>6. /\ slots' \in [SlotIds -> Slot]
        /\ Sound(slots', Base, settled, live.version, UsedGeneration)
    <2>1. ~Valid(slot) /\ UsedGeneration <= UsedGeneration
      BY <1>4, InvalidSlot, InvFacts
    <2> QED BY <1>1, <1>3, <1>4, <2>1, InvFacts, PutSound DEF IInv, InvSlots
  <1>7. /\ Base' = Base /\ UsedGeneration' = UsedGeneration
    <2>1. Base' = Base
      BY <1>1, <1>2, <1>5 DEF Base, Owner
    <2>2. UsedGeneration' = im.gen - 1
      BY <1>1, <1>2, <1>5 DEF UsedGeneration, Begun, Owner
    <2> QED BY <2>1, <2>2, <1>2, InvFacts
  <1>8. InvSlots'
    BY <1>1, <1>6, <1>7 DEF InvSlots
  <1>9. TypeOK'
    BY <1>1, <1>5, <1>6 DEF IInv, TypeOK
  <1>10. InvVersions'
    BY <1>1, <1>2, <1>5 DEF IInv, InvVersions
  <1>11. InvImage'
    BY <1>1, <1>2, <1>5 DEF InvImage
  <1>12. InvClean' /\ InvClear'
    BY <1>1, <1>2 DEF InvClean, InvClear
  <1>13. Target' = slot
    <2>1. Target' = slots'[Other(im.active)]
      BY <1>3, <1>7 DEF Target
    <2> QED BY <2>1, <1>1, <1>2, InvFacts, OtherSlot
  <1>14. InvWorker'
    <2>1. im.phase = "BODY" =>
            \A i \in Body : i < im.at + 1 => slot.body[i] = image.version
      <3> SUFFICES ASSUME im.phase = "BODY", NEW i \in Body, i < im.at + 1
                   PROVE  slot.body[i] = image.version
        OBVIOUS
      <3>1. /\ im.at \in Body /\ im.at # 0 /\ im.at \in 0..Pieces /\ im \in Store \union Image
            /\ \A j \in Body : j < im.at => Target.body[j] = image.version
        BY <1>1, <1>2, StartedImage DEF IInv, Body
      <3>2. slot.body = [Target.body EXCEPT ![im.at] = im.version]
        BY <1>3, <3>1, WrittenPiece DEF StepDone
      <3>3. Target.body \in [Body -> Versions \union {NoVersion}]
        BY <1>3 DEF Slot
      <3>4. i < im.at \/ i = im.at
        BY <3>1 DEF Body
      <3> QED BY <1>2, <3>1, <3>2, <3>3, <3>4
    <2>2. image'.phase = "BODY" =>
            image'.at \in Body /\ \A i \in Body : i < image'.at => slot.body[i] = image.version
      <3> SUFFICES ASSUME image'.phase = "BODY"
                   PROVE  image'.at \in Body
                          /\ \A i \in Body : i < image'.at => slot.body[i] = image.version
        OBVIOUS
      <3>1. CASE image'.at = 1
        <4>1. \A i \in Body : ~(i < 1)
          BY DEF Body
        <4> QED BY <1>5, <3>1, <4>1
      <3>2. CASE im.phase = "BODY" /\ image'.at = im.at + 1
        BY <1>5, <2>1, <3>2
      <3> QED BY <1>5, <3>1, <3>2
    <2>3. image'.phase = "COMMIT" => \A i \in Body : slot.body[i] = image.version
      <3>1. \A i \in Body : i < Pieces + 1
        BY FlashAssumption DEF Body
      <3> QED BY <1>5, <2>1, <3>1
    <2> QED BY <1>2, <1>4, <1>5, <1>13, <2>2, <2>3 DEF InvWorker
  <1> QED BY <1>8, <1>9, <1>10, <1>11, <1>12, <1>14 DEF IInv

\* The header makes the target slot the base.
LEMMA FlushCommitInv == IInv /\ FlushStep /\ Started(image).phase = "COMMIT" => IInv'
  <1> SUFFICES ASSUME IInv, FlushStep, Started(image).phase = "COMMIT" PROVE IInv'
    OBVIOUS
  <1> DEFINE im == Started(image)
             slot == StepDone(im)
  <1>1. /\ MayStep /\ slots' = [slots EXCEPT ![Other(im.active)] = slot]
        /\ image' = Advance(im)
        /\ live' = live /\ worker' = worker /\ clear' = clear /\ fresh' = fresh
        /\ settled' = settled
    BY DEF FlushStep, PutSlot
  <1>2. /\ worker = "writing" /\ clear.step = "none" /\ Owner = image
        /\ im \in Image /\ im.version = image.version
        /\ im.active = image.active /\ im.gen = UsedGeneration + 1
        /\ live.dirty /\ live.active = image.active
        /\ settled <= image.version /\ image.version <= live.version
        /\ \A i \in Body : Target.body[i] = image.version
    BY <1>1, StartedImage DEF IInv
  <1>3. Base = im.active /\ Target = slots[Other(im.active)] /\ Target \in Slot
    BY <1>2, InvFacts DEF Base, Target
  <1>4. /\ slot \in Slot /\ slot.crc = image.version /\ slot.gen = im.gen
        /\ slot.body = Target.body
    <2>1. slot = Written(Target, 0, im) /\ 0 \in 0..Pieces /\ im \in Store \union Image
      BY <1>2, <1>3, FlashAssumption DEF StepDone
    <2>2. /\ Written(Target, 0, im) \in Slot /\ Written(Target, 0, im).crc = im.version
          /\ Written(Target, 0, im).gen = im.gen
          /\ Written(Target, 0, im).body = Target.body
      BY <1>3, <2>1, WrittenPiece
    <2> QED BY <1>2, <2>1, <2>2
  <1>5. Valid(slot)
    <2>1. image.version # NoVersion
      BY InvFacts DEF NoVersion
    <2> QED BY <1>2, <1>4, <2>1 DEF Valid
  <1>6. image' = [im EXCEPT !.phase = "IDLE", !.at = 0, !.active = Other(im.active),
                            !.dirty = FALSE]
    BY <1>1 DEF Advance
  <1>7. Other(im.active) \in SlotIds /\ Other(im.active) # im.active
        /\ Other(Other(im.active)) = im.active
    BY <1>2, InvFacts, OtherSlot
  <1>8. /\ image'.version = image.version /\ image'.gen = im.gen
        /\ image'.active = Other(im.active) /\ image'.dirty = FALSE /\ image'.phase = "IDLE"
    BY <1>2, <1>6 DEF Image
  <1>9. image' \in Image
    <2>1. 0 \in 0..Pieces
      BY FlashAssumption
    <2> QED BY <1>2, <1>6, <1>7, <2>1 DEF Image, Phases
  <1>10. /\ slots' \in [SlotIds -> Slot]
         /\ slots'[Other(im.active)] = slot /\ slots'[im.active] = slots[im.active]
    BY <1>1, <1>2, <1>4, <1>7, InvFacts
  <1>11. Base' = Other(im.active) /\ UsedGeneration' = im.gen
    BY <1>1, <1>2, <1>8 DEF Base, UsedGeneration, Begun, Owner
  <1>12. im.gen \in Nat /\ image.version \in Nat
    BY <1>2, InvFacts DEF Image, Generations
  <1>13. Valid(slots[im.active]) => slots[im.active].gen \in 0..im.gen
                                   /\ slots[im.active].gen < im.gen
    <2>1. Valid(slots[im.active]) => slots[im.active].gen \in 0..UsedGeneration
      BY <1>3 DEF IInv, InvSlots, Sound
    <2> QED BY <2>1, <1>2, <1>12, InvFacts
  <1>14. InvSlots'
    <2>1. im.gen \in 0..im.gen
      BY <1>12
    <2>2. Sound(slots', Other(im.active), settled, live.version, im.gen)
      BY <1>2, <1>4, <1>5, <1>7, <1>10, <1>13, <2>1 DEF Sound
    <2> QED BY <1>1, <1>11, <2>2 DEF InvSlots
  <1>15. Reported(slots', Other(im.active))
    BY <1>4, <1>5, <1>7, <1>10, <1>13 DEF Reported
  <1>16. TypeOK'
    BY <1>1, <1>9, <1>10 DEF IInv, TypeOK
  <1>17. InvVersions'
    BY <1>1, <1>8 DEF IInv, InvVersions
  <1>18. InvImage'
    <2>1. image'.active # live'.active
      BY <1>1, <1>2, <1>7, <1>8
    <2> QED BY <1>1, <1>2, <1>4, <1>5, <1>8, <1>10, <1>15, <2>1 DEF InvImage
  <1>19. InvClean' /\ InvWorker' /\ InvClear'
    BY <1>1, <1>2, <1>8 DEF InvClean, InvWorker, InvClear
  <1> QED BY <1>14, <1>16, <1>17, <1>18, <1>19 DEF IInv

\* A failing step ends the transaction; its generation is used.
LEMMA FlushFailsInv == IInv /\ FlushStepFails => IInv'
  <1> SUFFICES ASSUME IInv, FlushStepFails PROVE IInv'
    OBVIOUS
  <1> DEFINE im == Started(image)
  <1>1. PICK slot \in {slots[Other(im.active)], StepDone(im)} \union StepTorn(im) :
          slots' = [slots EXCEPT ![Other(im.active)] = slot]
    BY DEF FlushStepFails, PutSlot
  <1>2. /\ MayStep /\ image' = [im EXCEPT !.phase = "IDLE", !.at = 0]
        /\ live' = live /\ worker' = "failed" /\ clear' = clear /\ fresh' = fresh
        /\ settled' = settled
    BY DEF FlushStepFails
  <1>3. /\ worker = "writing" /\ clear.step = "none" /\ Owner = image
        /\ im \in Image /\ im.version = image.version
        /\ im.active = image.active /\ im.gen = UsedGeneration + 1
        /\ im.dirty /\ live.dirty /\ live.active = image.active
        /\ settled <= image.version /\ image.version <= live.version
    BY <1>2, StartedImage DEF IInv
  <1>4. Base = im.active /\ Target = slots[Other(im.active)]
    BY <1>3 DEF Base, Target
  <1>5. /\ slot \in Slot
        /\ \/ slot = Target
           \/ ~Valid(slot)
           \/ slot.crc = image.version /\ slot.gen = im.gen
    BY <1>1, <1>2, <1>3, <1>4, StepLeaves DEF IInv
  <1>6. /\ slots' \in [SlotIds -> Slot]
        /\ Sound(slots', Base, settled, live.version, im.gen)
    <2>1. im.gen \in Nat /\ im.gen \in 0..im.gen /\ im.gen > UsedGeneration
          /\ UsedGeneration <= im.gen
      BY <1>3, InvFacts DEF Image, Generations
    <2>2. \/ slot = slots[Other(Base)]
          \/ ~Valid(slot)
          \/ /\ settled <= slot.crc /\ slot.crc <= live.version
             /\ slot.gen \in 0..im.gen /\ slot.gen > UsedGeneration
      BY <1>3, <1>4, <1>5, <2>1
    <2>3. Sound(slots, Base, settled, live.version, UsedGeneration)
      BY DEF IInv, InvSlots
    <2>4. slots' = [slots EXCEPT ![Other(Base)] = slot]
      BY <1>1, <1>4
    <2>5. ASSUME NEW h \in Int, h = im.gen
          PROVE  Sound([slots EXCEPT ![Other(Base)] = slot], Base, settled,
                       live.version, h)
      <3>1. h \in Int /\ UsedGeneration <= h /\ slot \in Slot
        BY <1>5, <2>1, <2>5
      <3>2. \/ slot = slots[Other(Base)]
            \/ ~Valid(slot)
            \/ settled <= slot.crc /\ slot.crc <= live.version /\ slot.gen \in 0..h
               /\ slot.gen > UsedGeneration
        BY <2>2, <2>5
      <3>3. /\ slots \in [SlotIds -> Slot] /\ Base \in SlotIds /\ settled \in Nat
            /\ live.version \in Nat /\ UsedGeneration \in Int
        BY InvFacts
      <3> QED BY <3>1, <3>2, <3>3, <2>3, PutSound
    <2>6. slots' \in [SlotIds -> Slot]
      BY <1>5, <2>4, InvFacts
    <2>7. im.gen \in Int
      BY <2>1
    <2> HIDE DEF im
    <2> QED BY <2>4, <2>5, <2>6, <2>7
  <1>7. /\ image'.version = image.version /\ image'.gen = im.gen
        /\ image'.active = im.active /\ image'.dirty = im.dirty /\ image'.phase = "IDLE"
    BY <1>2, <1>3 DEF Image
  <1>8. image' \in Image
    <2>1. 0 \in 0..Pieces
      BY FlashAssumption
    <2> QED BY <1>2, <1>3, <2>1 DEF Image, Phases
  <1>9. Base' = Base /\ UsedGeneration' = im.gen
    BY <1>2, <1>3, <1>7 DEF Base, UsedGeneration, Begun, Owner
  <1>10. InvSlots'
    BY <1>2, <1>6, <1>9 DEF InvSlots
  <1>11. TypeOK'
    BY <1>2, <1>6, <1>8 DEF IInv, TypeOK
  <1>12. InvVersions'
    BY <1>2, <1>3, <1>7 DEF IInv, InvVersions
  <1>13. image'.dirty
    BY <1>3, <1>7
  <1>14. InvImage'
    BY <1>2, <1>3, <1>7, <1>13 DEF InvImage
  <1>15. InvClean' /\ InvWorker' /\ InvClear'
    BY <1>2, <1>3 DEF InvClean, InvWorker, InvClear
  <1> QED BY <1>10, <1>11, <1>12, <1>14, <1>15 DEF IInv

\* An immediate save begins: the cleared store is a new version.
LEMMA ClearBeginInv == IInv /\ Clear => IInv'
  <1> SUFFICES ASSUME IInv, Clear PROVE IInv'
    OBVIOUS
  <1>1. /\ worker = "idle" /\ clear.step = "none" /\ fresh <= MaxVersion
        /\ live' = [live EXCEPT !.version = fresh, !.gen = live.gen + 1]
        /\ fresh' = fresh + 1 /\ clear' = [step |-> "erase", at |-> 0]
        /\ image' = image /\ worker' = worker /\ slots' = slots /\ settled' = settled
    BY DEF Clear
  <1>2. live.gen + 1 \in Generations /\ fresh \in Versions /\ fresh' \in 1..MaxVersion + 1
    BY <1>1, InvFacts, FlashAssumption DEF Clear, Generations, Versions, IInv, TypeOK
  <1>3. live'.version = fresh /\ live'.gen = live.gen + 1 /\ live'.active = live.active
    BY <1>1, InvFacts DEF Store
  <1>4. live' \in Store
    BY <1>1, <1>2, InvFacts DEF Store
  <1>5. TypeOK'
    <2>1. 0 \in 0..Pieces
      BY FlashAssumption
    <2> QED BY <1>1, <1>2, <1>4, <2>1 DEF IInv, TypeOK
  <1>6. InvVersions'
    BY <1>1, <1>3, InvFacts DEF IInv, InvVersions
  <1>7. Base' = Base /\ UsedGeneration = live.gen /\ UsedGeneration' = live.gen
    <2>1. Owner = live /\ Owner' = live' /\ ~Begun
      BY <1>1 DEF Begun, Owner
    <2>2. Begun'
      <3>1. clear'.step = "erase"
        BY <1>1
      <3> QED BY <3>1 DEF Begun
    <2>3. UsedGeneration' = (live.gen + 1) - 1
      <3>1. UsedGeneration' = Owner'.gen - 1
        BY <2>2 DEF UsedGeneration
      <3>2. Owner'.gen = live.gen + 1
        BY <1>3, <2>1
      <3> QED BY <3>1, <3>2
    <2> QED BY <1>3, <2>1, <2>3, InvFacts DEF Base, UsedGeneration
  <1>8. InvSlots'
    <2>1. Sound(slots, Base, settled, fresh, UsedGeneration)
      BY InvFacts, WeakenSound DEF IInv, InvSlots
    <2> QED BY <1>1, <1>3, <1>7, <2>1 DEF InvSlots
  <1>9. InvImage' /\ InvClean' /\ InvWorker' /\ InvClear'
    BY <1>1 DEF InvImage, InvClean, InvWorker, InvClear
  <1> QED BY <1>5, <1>6, <1>8, <1>9 DEF IInv

\* The target slot is blank.
LEMMA ClearEraseInv == IInv /\ ClearErase => IInv'
  <1> SUFFICES ASSUME IInv, ClearErase PROVE IInv'
    OBVIOUS
  <1>1. /\ clear.step = "erase" /\ slots' = [slots EXCEPT ![Other(live.active)] = Blank]
        /\ clear' = [step |-> "write", at |-> 0]
        /\ live' = live /\ image' = image /\ worker' = worker /\ fresh' = fresh
        /\ settled' = settled
    BY DEF ClearErase, PutSlot
  <1>2. worker = "idle" /\ Base = live.active /\ Base' = live.active
        /\ UsedGeneration' = UsedGeneration
    BY <1>1 DEF IInv, InvVersions, Base, Owner, UsedGeneration, Begun
  <1>3. /\ Blank \in Slot /\ Blank.crc = NoVersion
        /\ Blank.body = [i \in Body |-> NoVersion]
    BY DEF Blank, Slot
  <1>4. /\ slots' \in [SlotIds -> Slot]
        /\ Sound(slots', Base, settled, live.version, UsedGeneration)
    <2>1. ~Valid(Blank) /\ UsedGeneration <= UsedGeneration
      BY <1>3, InvalidSlot, InvFacts
    <2>2. Sound(slots, Base, settled, live.version, UsedGeneration)
      BY DEF IInv, InvSlots
    <2> QED BY <1>1, <1>2, <1>3, <2>1, <2>2, InvFacts, PutSound
  <1>5. TypeOK'
    <2>1. 0 \in 0..Pieces
      BY FlashAssumption
    <2> QED BY <1>1, <1>4, <2>1 DEF IInv, TypeOK
  <1>6. Target' = Blank
    BY <1>1, <1>2, <1>3, InvFacts, OtherSlot DEF Target
  <1>7. InvClear'
    <2>1. \A i \in Body : ~(i < 0)
      BY DEF Body
    <2> QED BY <1>1, <1>3, <1>6, <2>1 DEF InvClear
  <1>8. InvSlots'
    BY <1>1, <1>2, <1>4 DEF InvSlots
  <1>9. InvVersions' /\ InvImage' /\ InvClean' /\ InvWorker'
    BY <1>1, <1>2 DEF IInv, InvVersions, InvImage, InvClean, InvWorker
  <1> QED BY <1>5, <1>7, <1>8, <1>9 DEF IInv

\* What the save has programmed so far, and that the slot is valid only when all is.
LEMMA ClearWriteSlot ==
    ASSUME IInv, clear.step = "write", NEW slot, slot = Written(Target, clear.at, live)
    PROVE  /\ worker = "idle" /\ Base = live.active /\ UsedGeneration = live.gen - 1
           /\ clear.at \in 0..Pieces
           /\ slot \in Slot /\ slot.crc = live.version /\ slot.gen = live.gen
           /\ \A i \in Body : slot.body[i] =
                  IF i < clear.at + 1 THEN live.version ELSE NoVersion
           /\ Valid(slot) <=> clear.at = Pieces
  <1>1. /\ worker = "idle" /\ Base = live.active /\ UsedGeneration = live.gen - 1
        /\ clear.at \in 0..Pieces /\ live \in Store \union Image /\ Target \in Slot
    BY InvFacts DEF IInv, InvVersions, TypeOK, Base, Owner, UsedGeneration, Begun
  <1>2. /\ Target.crc = IF clear.at = 0 THEN NoVersion ELSE live.version
        /\ clear.at # 0 => Target.gen = live.gen
        /\ \A i \in Body : Target.body[i] = IF i < clear.at THEN live.version ELSE NoVersion
        /\ Target.body \in [Body -> Versions \union {NoVersion}]
    BY <1>1 DEF IInv, InvClear, Slot
  <1>3. slot \in Slot
    BY <1>1, WrittenPiece
  <1>4. slot.crc = live.version /\ slot.gen = live.gen
    <2>1. CASE clear.at = 0
      <3>1. Written(Target, 0, live).crc = live.version /\ Written(Target, 0, live).gen = live.gen
        BY <1>1, <2>1, WrittenPiece
      <3> QED BY <2>1, <3>1
    <2>2. CASE clear.at # 0
      <3>1. /\ Written(Target, clear.at, live).crc = Target.crc
            /\ Written(Target, clear.at, live).gen = Target.gen
        BY <1>1, <2>2, WrittenPiece
      <3> QED BY <1>2, <2>2, <3>1
    <2> QED BY <2>1, <2>2
  <1>5. \A i \in Body : slot.body[i] = IF i < clear.at + 1 THEN live.version ELSE NoVersion
    <2>1. CASE clear.at = 0
      <3>1. Written(Target, 0, live).body = Target.body
        BY <1>1, <2>1, WrittenPiece
      <3>2. \A i \in Body : ~(i < 0) /\ ~(i < 0 + 1)
        BY DEF Body
      <3> QED BY <1>2, <2>1, <3>1, <3>2
    <2>2. CASE clear.at # 0
      <3>1. slot.body = [Target.body EXCEPT ![clear.at] = live.version]
        BY <1>1, <2>2, WrittenPiece
      <3> SUFFICES ASSUME NEW i \in Body
                   PROVE  slot.body[i] = IF i < clear.at + 1 THEN live.version ELSE NoVersion
        OBVIOUS
      <3>2. i < clear.at + 1 <=> i < clear.at \/ i = clear.at
        BY <1>1 DEF Body
      <3>3. slot.body[i] = IF i = clear.at THEN live.version ELSE Target.body[i]
        BY <1>2, <3>1
      <3> QED BY <1>2, <3>2, <3>3
    <2> QED BY <2>1, <2>2
  <1>6. Valid(slot) <=> clear.at = Pieces
    <2>1. live.version # NoVersion
      BY InvFacts DEF NoVersion
    <2>2. CASE clear.at = Pieces
      <3>1. \A i \in Body : i < clear.at + 1
        BY <2>2, FlashAssumption DEF Body
      <3> QED BY <1>4, <1>5, <2>1, <2>2, <3>1 DEF Valid
    <2>3. CASE clear.at # Pieces
      <3>1. Pieces \in Body /\ ~(Pieces < clear.at + 1)
        BY <1>1, <2>3, FlashAssumption DEF Body
      <3>2. slot.body[Pieces] # slot.crc
        BY <1>4, <1>5, <2>1, <3>1
      <3> QED BY <2>3, <3>1, <3>2, InvalidSlot
    <2> QED BY <2>2, <2>3
  <1> QED BY <1>1, <1>3, <1>4, <1>5, <1>6

\* Every program operation but the last leaves the target slot invalid; the last one
\* makes it the base.
LEMMA ClearWriteInv == IInv /\ ClearWrite => IInv'
  <1> SUFFICES ASSUME IInv, ClearWrite PROVE IInv'
    OBVIOUS
  <1> DEFINE slot == Written(slots[Other(live.active)], clear.at, live)
             o == Other(live.active)
  <1>1. /\ clear.step = "write" /\ slots' = [slots EXCEPT ![o] = slot]
        /\ image' = image /\ worker' = worker /\ fresh' = fresh
    BY DEF ClearWrite, PutSlot
  <1>2. worker = "idle" /\ Base = live.active /\ Target = slots[o]
    BY <1>1 DEF IInv, InvVersions, Base, Owner, Target
  <1>3. /\ UsedGeneration = live.gen - 1 /\ clear.at \in 0..Pieces
        /\ slot \in Slot /\ slot.crc = live.version /\ slot.gen = live.gen
        /\ \A i \in Body : slot.body[i] =
              IF i < clear.at + 1 THEN live.version ELSE NoVersion
        /\ Valid(slot) <=> clear.at = Pieces
    BY <1>1, <1>2, ClearWriteSlot
  <1>4. /\ o \in SlotIds /\ o # live.active /\ Other(o) = live.active
    BY InvFacts, OtherSlot
  <1>5. /\ slots' \in [SlotIds -> Slot] /\ slots'[o] = slot
        /\ slots'[live.active] = slots[live.active]
    BY <1>1, <1>3, <1>4, InvFacts
  <1>6. InvWorker' /\ InvImage'
    BY <1>1, <1>2 DEF InvWorker, InvImage
  <1>7. CASE clear.at < Pieces
    <2>1. /\ clear' = [clear EXCEPT !.at = clear.at + 1] /\ live' = live /\ settled' = settled
      BY <1>7 DEF ClearWrite
    <2>2. /\ clear'.step = "write" /\ clear'.at = clear.at + 1
          /\ clear' \in [step : {"none", "erase", "write"}, at : 0..Pieces]
      <3>1. clear.at + 1 \in 0..Pieces
        BY <1>3, <1>7, FlashAssumption
      <3> QED BY <1>1, <2>1, <3>1 DEF IInv, TypeOK
    <2>3. TypeOK'
      BY <1>1, <1>5, <2>1, <2>2 DEF IInv, TypeOK
    <2>4. InvVersions' /\ InvClean'
      BY <1>1, <1>2, <2>1, <2>2 DEF IInv, InvVersions, InvClean
    <2>5. Base' = Base /\ UsedGeneration' = UsedGeneration
      BY <1>1, <1>2, <2>1, <2>2 DEF Base, Owner, UsedGeneration, Begun
    <2>6. InvSlots'
      <3>1. ~Valid(slot) /\ UsedGeneration <= UsedGeneration
        BY <1>3, <1>7, InvFacts, FlashAssumption
      <3>2. Sound(slots', Base, settled, live.version, UsedGeneration)
        BY <1>1, <1>2, <1>3, <3>1, InvFacts, PutSound DEF IInv, InvSlots
      <3> QED BY <2>1, <2>5, <3>2 DEF InvSlots
    <2>7. Target' = slot
      BY <1>2, <1>5, <2>5 DEF Target
    <2>8. InvClear'
      <3>1. clear.at + 1 # 0
        BY <1>3
      <3> QED BY <1>3, <2>1, <2>2, <2>7, <3>1 DEF InvClear
    <2> QED BY <1>6, <2>3, <2>4, <2>6, <2>8 DEF IInv
  <1>8. CASE ~(clear.at < Pieces)
    <2>1. /\ clear' = NotClearing /\ settled' = live.version
          /\ live' = [live EXCEPT !.active = o, !.dirty = FALSE]
      BY <1>8 DEF ClearWrite
    <2>2. Valid(slot)
      BY <1>3, <1>8, FlashAssumption
    <2>3. /\ live'.version = live.version /\ live'.gen = live.gen /\ live'.active = o
          /\ live'.dirty = FALSE /\ live' \in Store /\ clear'.step = "none"
          /\ clear' \in [step : {"none", "erase", "write"}, at : 0..Pieces]
      <3>1. 0 \in 0..Pieces
        BY FlashAssumption
      <3> QED BY <1>4, <2>1, <3>1, InvFacts DEF Store, NotClearing
    <2>4. TypeOK'
      BY <1>1, <1>5, <2>1, <2>3, InvFacts DEF IInv, TypeOK, Store
    <2>5. InvVersions' /\ InvClear'
      <3>1. live.version <= live.version
        BY InvFacts
      <3> QED BY <1>1, <2>1, <2>3, <3>1 DEF IInv, InvVersions, InvClear
    <2>6. Base' = o /\ UsedGeneration' = live.gen
      BY <1>1, <1>2, <2>3 DEF Base, Owner, UsedGeneration, Begun
    <2>7. Valid(slots[live.active]) => /\ slots[live.active].gen \in 0..live.gen
                                      /\ slots[live.active].gen < live.gen
      <3>1. Valid(slots[live.active]) => slots[live.active].gen \in 0..UsedGeneration
        BY <1>2 DEF IInv, InvSlots, Sound
      <3> QED BY <3>1, <1>3, InvFacts
    <2>8. InvSlots'
      <3>1. live.gen \in 0..live.gen /\ live.version <= live.version
        BY InvFacts
      <3>2. Sound(slots', o, live.version, live.version, live.gen)
        BY <1>3, <1>4, <1>5, <2>2, <2>7, <3>1 DEF Sound
      <3> QED BY <2>1, <2>3, <2>6, <3>2 DEF InvSlots
    <2>9. InvClean'
      BY <1>3, <1>4, <1>5, <2>2, <2>3, <2>7 DEF InvClean, Reported
    <2> QED BY <1>6, <2>4, <2>5, <2>8, <2>9 DEF IInv
  <1> QED BY <1>7, <1>8

\* The slots an immediate save that is cut short leaves are sound.
LEMMA ClearLeavesSound ==
    ASSUME IInv, clear.step # "none", NEW slot \in ClearLeaves,
           NEW after, after = [slots EXCEPT ![Other(live.active)] = slot]
    PROVE  /\ worker = "idle" /\ Base = live.active
           /\ after \in [SlotIds -> Slot]
           /\ Sound(after, live.active, settled, live.version, live.gen)
  <1>1. worker = "idle" /\ Base = live.active /\ UsedGeneration = live.gen - 1
    BY DEF IInv, InvVersions, Base, Owner, UsedGeneration, Begun
  <1>2. Target = slots[Other(Base)]
    BY DEF Target
  <1>3. /\ slot \in Slot
        /\ \/ slot = Target
           \/ ~Valid(slot)
           \/ slot.crc = live.version /\ slot.gen = UsedGeneration + 1
    BY ClearLeavesSlot DEF IInv
  <1>4. /\ live.gen \in Int /\ UsedGeneration <= live.gen /\ live.gen \in 0..live.gen
        /\ live.gen > UsedGeneration /\ UsedGeneration + 1 = live.gen
    BY <1>1, InvFacts
  <1>5. \/ slot = slots[Other(Base)]
        \/ ~Valid(slot)
        \/ /\ settled <= slot.crc /\ slot.crc <= live.version
           /\ slot.gen \in 0..live.gen /\ slot.gen > UsedGeneration
    BY <1>2, <1>3, <1>4, InvFacts
  <1>6. Sound(slots, Base, settled, live.version, UsedGeneration)
    BY DEF IInv, InvSlots
  <1> QED BY <1>1, <1>3, <1>4, <1>5, <1>6, InvFacts, PutSound

\* So are those that a power loss at any moment leaves.
LEMMA InterruptedSound ==
    ASSUME IInv, NEW after \in Interrupted
    PROVE  /\ after \in [SlotIds -> Slot]
           /\ \E h \in Int : Sound(after, Base, settled, live.version, h)
  <1>1. CASE clear.step # "none"
    <2>1. PICK slot \in ClearLeaves : after = [slots EXCEPT ![Other(live.active)] = slot]
      BY <1>1 DEF Interrupted
    <2>2. /\ Base = live.active /\ after \in [SlotIds -> Slot]
          /\ Sound(after, live.active, settled, live.version, live.gen)
      BY <1>1, <2>1, ClearLeavesSound
    <2>3. live.gen \in Int
      BY InvFacts
    <2> QED BY <2>2, <2>3
  <1>2. CASE clear.step = "none" /\ MayStep
    <2> DEFINE im == Started(image)
    <2>1. PICK slot \in {slots[Other(im.active)], StepDone(im)} \union StepTorn(im) :
            after = [slots EXCEPT ![Other(im.active)] = slot]
      BY <1>2 DEF Interrupted
    <2>2. /\ Owner = image /\ im.active = image.active
          /\ settled <= image.version /\ image.version <= live.version
      BY <1>2, StartedImage DEF IInv
    <2>3. Base = im.active /\ Target = slots[Other(im.active)]
      BY <2>2 DEF Base, Target
    <2>4. /\ slot \in Slot
          /\ \/ slot = Target
             \/ ~Valid(slot)
             \/ slot.crc = image.version /\ slot.gen = UsedGeneration + 1
      BY <1>2, <2>1, <2>3, StepLeaves DEF IInv
    <2>5. UsedGeneration + 1 \in Nat
      <3>1. im \in Image /\ im.gen = UsedGeneration + 1
        BY <1>2, StartedImage DEF IInv
      <3> QED BY <3>1 DEF Image, Generations
    <2>6. ASSUME NEW h \in Int, h = UsedGeneration + 1
          PROVE  after \in [SlotIds -> Slot] /\ Sound(after, Base, settled, live.version, h)
      <3>1. \/ slot = slots[Other(Base)]
            \/ ~Valid(slot)
            \/ settled <= slot.crc /\ slot.crc <= live.version /\ slot.gen \in 0..h
               /\ slot.gen > UsedGeneration
        BY <2>2, <2>3, <2>4, <2>5, <2>6, InvFacts
      <3>2. Sound(slots, Base, settled, live.version, UsedGeneration)
        BY DEF IInv, InvSlots
      <3>3. UsedGeneration <= h /\ after = [slots EXCEPT ![Other(Base)] = slot]
        BY <2>1, <2>3, <2>6, InvFacts
      <3> QED BY <2>4, <3>1, <3>2, <3>3, InvFacts, PutSound
    <2> QED BY <2>5, <2>6
  <1>3. CASE clear.step = "none" /\ ~MayStep
    <2>1. after = slots
      BY <1>3 DEF Interrupted
    <2> QED BY <2>1, InvFacts DEF IInv, InvSlots
  <1> QED BY <1>1, <1>2, <1>3

\* Loading sound slots establishes the invariant.
LEMMA LoadInv ==
    ASSUME IInv, slots' \in [SlotIds -> Slot], image' \in Image, image'.version < fresh,
           worker' = "idle", clear' = NotClearing, fresh' = fresh,
           live' = LoadedFrom(slots'), settled' = LoadedFrom(slots').version,
           NEW h \in Int, Sound(slots', Base, settled, live.version, h)
    PROVE  /\ IInv'
           /\ settled <= live'.version /\ live'.version <= live.version
  <1> DEFINE l == LoadedFrom(slots')
  <1>1. /\ l \in Store /\ settled <= l.version /\ l.version <= live.version
        /\ Sound(slots', l.active, l.version, l.version, l.gen)
        /\ Reported(slots', l.active)
        /\ l.version = IF Valid(slots'[l.active]) THEN slots'[l.active].crc ELSE 0
    BY InvFacts, LoadSound
  <1>2. l.version \in Versions /\ l.version \in Nat
    BY <1>1 DEF Store, Versions
  <1>3. TypeOK'
    <2>1. clear' \in [step : {"none", "erase", "write"}, at : 0..Pieces]
      BY FlashAssumption DEF NotClearing
    <2> QED BY <1>1, <1>2, <2>1 DEF IInv, TypeOK
  <1>4. clear'.step = "none"
    BY DEF NotClearing
  <1>5. InvVersions'
    <2>1. l.version < fresh /\ l.version <= l.version
      BY <1>1, <1>2, InvFacts
    <2> QED BY <1>4, <2>1 DEF InvVersions
  <1>6. Base' = l.active /\ UsedGeneration' = l.gen
    BY <1>4 DEF Base, Owner, UsedGeneration, Begun
  <1>7. InvSlots'
    BY <1>1, <1>6 DEF InvSlots
  <1>8. InvClean'
    BY <1>1 DEF InvClean
  <1>9. InvImage' /\ InvWorker' /\ InvClear'
    BY <1>4 DEF InvImage, InvWorker, InvClear
  <1> QED BY <1>1, <1>3, <1>5, <1>7, <1>8, <1>9 DEF IInv

\* A failed save reloads the last good slot, or keeps the cleared store dirty.
LEMMA ClearFailsInv == IInv /\ ClearFails => IInv'
  <1> SUFFICES ASSUME IInv, ClearFails PROVE IInv'
    OBVIOUS
  <1>1. /\ clear.step # "none" /\ clear' = NotClearing
        /\ image' = image /\ worker' = worker /\ fresh' = fresh
    BY DEF ClearFails
  <1>2. PICK slot \in ClearLeaves : slots' = [slots EXCEPT ![Other(live.active)] = slot]
    BY DEF ClearFails, PutSlot
  <1>3. /\ worker = "idle" /\ Base = live.active
        /\ slots' \in [SlotIds -> Slot]
        /\ Sound(slots', live.active, settled, live.version, live.gen)
    BY <1>1, <1>2, ClearLeavesSound
  <1>4. CASE live' = Loaded' /\ settled' = Loaded'.version
    <2>1. live' = LoadedFrom(slots') /\ settled' = LoadedFrom(slots').version
      BY <1>4 DEF Loaded
    <2>2. image' \in Image /\ image'.version < fresh /\ live.gen \in Int /\ worker' = "idle"
      BY <1>1, <1>3, InvFacts DEF IInv, InvVersions
    <2> QED BY <1>1, <1>3, <2>1, <2>2, LoadInv
  <1>5. CASE live' = [live EXCEPT !.dirty = TRUE] /\ settled' = settled
    <2>1. /\ live'.version = live.version /\ live'.gen = live.gen /\ live'.active = live.active
          /\ live'.dirty /\ live' \in Store
      BY <1>5, InvFacts DEF Store
    <2>2. clear'.step = "none"
          /\ clear' \in [step : {"none", "erase", "write"}, at : 0..Pieces]
      BY <1>1, FlashAssumption DEF NotClearing
    <2>3. TypeOK'
      BY <1>1, <1>3, <1>5, <2>1, <2>2 DEF IInv, TypeOK
    <2>4. InvVersions' /\ InvImage' /\ InvClean' /\ InvWorker' /\ InvClear'
      BY <1>1, <1>3, <1>5, <2>1, <2>2
         DEF IInv, InvVersions, InvImage, InvClean, InvWorker, InvClear
    <2>5. Base' = live.active /\ UsedGeneration' = live.gen
      BY <1>1, <1>3, <2>1, <2>2 DEF Base, Owner, UsedGeneration, Begun
    <2>6. InvSlots'
      BY <1>3, <1>5, <2>1, <2>5 DEF InvSlots
    <2> QED BY <2>3, <2>4, <2>6 DEF IInv
  <1> QED BY <1>4, <1>5 DEF ClearFails

\* A restart in the middle of anything.
LEMMA RestartInv == IInv /\ Restart => IInv'
  <1> SUFFICES ASSUME IInv, Restart PROVE IInv'
    OBVIOUS
  <1>1. /\ slots' \in Interrupted /\ worker' = "idle" /\ clear' = NotClearing /\ fresh' = fresh
        /\ image' = [version |-> 0, gen |-> 0, active |-> 0, dirty |-> FALSE,
                     phase |-> "IDLE", at |-> 0]
        /\ live' = LoadedFrom(slots') /\ settled' = LoadedFrom(slots').version
    BY DEF Restart, Loaded
  <1>2. image' \in Image /\ image'.version < fresh
    <2>1. 0 \in Versions /\ 0 \in Generations /\ 0 \in SlotIds /\ 0 \in 0..Pieces /\ 0 < fresh
      BY FlashAssumption DEF Versions, Generations, SlotIds, IInv, TypeOK
    <2> QED BY <1>1, <2>1 DEF Image, Phases
  <1>3. /\ slots' \in [SlotIds -> Slot]
        /\ \E h \in Int : Sound(slots', Base, settled, live.version, h)
    BY <1>1, InterruptedSound
  <1> QED BY <1>1, <1>2, <1>3, LoadInv

-----------------------------------------------------------------------------
(* The theorems. *)

\* Every step preserves the invariant.
LEMMA StepInv == IInv /\ [Next]_vars => IInv'
  <1> SUFFICES ASSUME IInv, [Next]_vars PROVE IInv'
    OBVIOUS
  <1>1. CASE Mutate \/ Rate
    BY <1>1, MutateInv
  <1>2. CASE Capture
    BY <1>2, CaptureInv
  <1>3. CASE Acknowledge
    BY <1>3, AcknowledgeInv
  <1>4. CASE FlushStep
    BY <1>4, FlushOnInv, FlushCommitInv
  <1>5. CASE FlushStepFails
    BY <1>5, FlushFailsInv
  <1>6. CASE Clear
    BY <1>6, ClearBeginInv
  <1>7. CASE ClearErase
    BY <1>7, ClearEraseInv
  <1>8. CASE ClearWrite
    BY <1>8, ClearWriteInv
  <1>9. CASE ClearFails
    BY <1>9, ClearFailsInv
  <1>10. CASE Restart
    BY <1>10, RestartInv
  <1>11. CASE UNCHANGED vars
    BY <1>11 DEF vars, IInv, TypeOK, InvVersions, InvImage, InvSlots, InvClean, InvWorker,
                 InvClear, Sound, Reported, Valid, Base, Owner, Target, UsedGeneration, Begun
  <1> QED BY <1>1, <1>2, <1>3, <1>4, <1>5, <1>6, <1>7, <1>8, <1>9, <1>10, <1>11 DEF Next

\* The invariant holds in every reachable state, in particular the type invariant.
THEOREM TypeCorrect == Spec => []TypeOK
  <1>1. IInv => TypeOK
    BY DEF IInv
  <1> QED BY <1>1, InitInv, StepInv, PTL DEF Spec

\* A power loss in the middle of any flash operation recovers what was reported.
LEMMA SurvivesInv == IInv => ReportedVersionSurvives
  <1> SUFFICES ASSUME IInv, NEW after \in Interrupted
               PROVE  settled <= LoadedFrom(after).version
    BY DEF ReportedVersionSurvives
  <1>1. PICK h \in Int : Sound(after, Base, settled, live.version, h)
    BY InterruptedSound
  <1> QED BY <1>1, InterruptedSound, InvFacts, LoadSound

\* A version reported as persistent survives a restart at any moment.
THEOREM Survives == Spec => []ReportedVersionSurvives
  BY SurvivesInv, InitInv, StepInv, PTL DEF Spec

\* The base slot of a clean store is the one load() picks.
LEMMA CleanInv == IInv => CleanMeansDurable
  <1> SUFFICES ASSUME IInv, ~live.dirty, clear.step = "none"
               PROVE  Loaded.version = live.version
    BY DEF CleanMeansDurable
  <1>1. Base = live.active
    BY DEF IInv, InvImage, Base, Owner
  <1>2. /\ live.version = IF Valid(slots[live.active]) THEN slots[live.active].crc ELSE 0
        /\ Reported(slots, live.active)
    BY DEF IInv, InvClean
  <1>3. Sound(slots, live.active, live.version, live.version, UsedGeneration)
    <2>1. Sound(slots, live.active, settled, live.version, UsedGeneration)
      BY <1>1 DEF IInv, InvSlots
    <2>2. live.version <= live.version
      BY InvFacts
    <2> QED BY <1>2, <2>1, <2>2 DEF Sound, Reported
  <1>4. live.version <= Loaded.version /\ Loaded.version <= live.version /\ Loaded \in Store
    <2>1. live.version <= live.version
      BY InvFacts
    <2> QED BY <1>3, <2>1, InvFacts, LoadSound DEF Loaded
  <1> QED BY <1>4, InvFacts DEF Store, Versions

\* The version of a store that is not dirty is the one a restart would load.
THEOREM CleanIsDurable == Spec => []CleanMeansDurable
  BY CleanInv, InitInv, StepInv, PTL DEF Spec

\* What a restart would recover lies between what was reported and what is in RAM.
LEMMA DurableBounds ==
    ASSUME IInv
    PROVE  /\ settled <= Loaded.version /\ Loaded.version <= live.version
           /\ Loaded.version \in Versions /\ live.version \in Versions /\ settled \in Versions
  <1>1. /\ settled <= Loaded.version /\ Loaded.version <= live.version /\ Loaded \in Store
    BY InvFacts, LoadSound DEF Loaded, IInv, InvSlots
  <1> QED BY <1>1, InvFacts DEF Store, IInv, TypeOK

\* The initial states are those of the durable log.
LEMMA DurableInit == Init => Durable!Init
  <1> SUFFICES ASSUME Init PROVE Durable!Init
    OBVIOUS
  <1>1. live.version = 0 /\ settled = 0
    BY DEF Init, EmptyStore
  <1>2. Loaded.version = 0
    BY <1>1, InitInv, DurableBounds DEF Versions
  <1> QED BY <1>1, <1>2 DEF Durable!Init

\* Every step is a step of the durable log or changes nothing of it.
LEMMA DurableStep == IInv /\ IInv' /\ [Next]_vars => [Durable!Next]_Durable!cvars
  <1> SUFFICES ASSUME IInv, IInv', [Next]_vars
               PROVE  Durable!Next \/ UNCHANGED <<live.version, Loaded.version, settled>>
    BY DEF Durable!cvars
  <1>1. /\ settled <= Loaded.version /\ Loaded.version <= live.version
        /\ Loaded.version \in Versions /\ live.version \in Versions /\ settled \in Versions
    BY DurableBounds
  <1>2. /\ settled' <= Loaded'.version /\ Loaded'.version <= live'.version
        /\ Loaded'.version \in Versions /\ live'.version \in Versions /\ settled' \in Versions
    <2>1. IInv' => (/\ settled <= Loaded.version /\ Loaded.version <= live.version
                   /\ Loaded.version \in Versions /\ live.version \in Versions
                   /\ settled \in Versions)'
      BY DurableBounds, PTL
    <2> QED BY <2>1
  <1>3. ASSUME live'.version = live.version, settled <= settled'
        PROVE  Durable!Persist
    BY <1>2, <1>3 DEF Durable!Persist
  <1>4. ASSUME fresh <= MaxVersion, live'.version = fresh, slots' = slots, settled' = settled
        PROVE  Durable!Mutate
    <2>1. live'.version > live.version
      BY <1>4, InvFacts
    <2>2. Loaded' = Loaded
      BY <1>4 DEF Loaded
    <2> QED BY <1>2, <1>4, <2>1, <2>2 DEF Durable!Mutate
  <1>5. settled <= settled
    BY InvFacts
  <1>6. CASE Mutate \/ Rate \/ Clear
    <2>1. live'.version = fresh
      BY <1>6, InvFacts DEF Mutate, Rate, Clear, Store
    <2> QED BY <1>4, <1>6, <2>1 DEF Mutate, Rate, Clear, Durable!Next
  <1>7. CASE Capture \/ FlushStep \/ FlushStepFails \/ ClearErase
    BY <1>3, <1>5, <1>7 DEF Capture, FlushStep, FlushStepFails, ClearErase, Durable!Next
  <1>8. CASE Acknowledge
    <2>1. live'.version = live.version
      BY <1>8, InvFacts DEF Acknowledge, Acknowledged, Store
    <2>2. settled <= settled'
      BY <1>5, <1>8 DEF Acknowledge, IInv, InvImage
    <2> QED BY <1>3, <2>1, <2>2 DEF Durable!Next
  <1>9. CASE ClearWrite
    <2>1. live'.version = live.version /\ (settled' = settled \/ settled' = live.version)
      BY <1>9, InvFacts DEF ClearWrite, Store
    <2> QED BY <1>3, <1>5, <2>1, InvFacts DEF Durable!Next
  <1>10. ASSUME live' = Loaded', settled' = Loaded'.version, fresh' = fresh,
                slots' \in [SlotIds -> Slot],
                \E h \in Int : Sound(slots', Base, settled, live.version, h)
         PROVE  Durable!Recover
    <2>1. Loaded' = LoadedFrom(slots')
      BY DEF Loaded
    <2>2. settled <= Loaded'.version /\ Loaded'.version <= live.version
      BY <1>10, <2>1, InvFacts, LoadSound
    <2> QED BY <1>2, <1>10, <2>2 DEF Durable!Recover
  <1>11. CASE ClearFails
    <2>1. PICK slot \in ClearLeaves : slots' = [slots EXCEPT ![Other(live.active)] = slot]
      BY <1>11 DEF ClearFails, PutSlot
    <2>2. /\ Base = live.active /\ slots' \in [SlotIds -> Slot]
          /\ Sound(slots', live.active, settled, live.version, live.gen)
      BY <1>11, <2>1, ClearLeavesSound DEF ClearFails
    <2>3. CASE live' = Loaded' /\ settled' = Loaded'.version
      BY <1>10, <1>11, <2>2, <2>3, InvFacts DEF ClearFails, Durable!Next
    <2>4. CASE live' = [live EXCEPT !.dirty = TRUE] /\ settled' = settled
      <3>1. live'.version = live.version
        BY <2>4, InvFacts DEF Store
      <3> QED BY <1>3, <1>5, <2>4, <3>1 DEF Durable!Next
    <2> QED BY <1>11, <2>3, <2>4 DEF ClearFails
  <1>12. CASE Restart
    <2>1. slots' \in [SlotIds -> Slot] /\ \E h \in Int : Sound(slots', Base, settled, live.version, h)
      BY <1>12, InterruptedSound DEF Restart
    <2> QED BY <1>10, <1>12, <2>1 DEF Restart, Durable!Next
  <1>13. CASE UNCHANGED vars
    BY <1>13 DEF vars, Loaded
  <1> QED BY <1>6, <1>7, <1>8, <1>9, <1>11, <1>12, <1>13 DEF Next

\* The dual-slot store implements the durable log.
THEOREM FlashImplementsDurableLog == Spec => ImplementsDurableLog
  BY DurableInit, DurableStep, InitInv, StepInv, PTL
     DEF Spec, ImplementsDurableLog, Durable!Spec

-----------------------------------------------------------------------------
(* The live stream. *)

IsRec(r, fields) == r = [f \in fields |-> r[f]]

SessionFields == {"open", "closing", "peer", "bound", "late", "silent", "paused", "home", "presets",
                  "card", "settings", "diagnostic", "log", "history", "stats"}
StatsFields == {"on", "owed", "fetch", "epoch", "preset", "print", "held", "paging", "snapshot",
                "ofFetch", "at", "next"}
PageFields == {"slot", "home", "presets", "tag", "card", "settings", "diagnostic", "log", "history",
               "stats"}
WorkFields == {"k", "g", "open", "ends", "failed", "result", "waits"}
Contents == Nat \ {Kept}

\* The page of a list that is under way lies within the list it was begun for.
Paged(q) ==
    /\ q.next \in Seq(Contents) /\ q.at \in Nat /\ q.at <= device.epoch
    /\ q.at = device.epoch => Len(q.next) <= Len(device.rows)

IsSession(k) ==
    /\ IsRec(k, SessionFields)
    /\ IsRec(k.card, {"owed", "seq", "cycle", "count"})
    /\ IsRec(k.settings, {"on", "owed", "value"})
    /\ IsRec(k.diagnostic, {"on", "owed", "value", "sample"})
    /\ IsRec(k.diagnostic.sample, Sections)
    /\ IsRec(k.log, {"on", "push", "after"})
    /\ IsRec(k.history, {"on", "owed", "fetch", "epoch", "held"})
    /\ IsRec(k.stats, StatsFields)

IsPage(g) ==
    /\ IsRec(g, PageFields)
    /\ IsRec(g.diagnostic, {"value", "sample"}) /\ IsRec(g.diagnostic.sample, Sections)
    /\ IsRec(g.stats, {"known", "shown", "header", "building"})

IsWork(c) == IsRec(c, WorkFields) /\ c.waits = <<c.waits[1], c.waits[2]>>

DeviceOK == IsRec(device, {"shown", "rows", "epoch"}) /\ device.rows \in Seq(Contents) /\ device.epoch \in Nat

\* What the page has of a page of Stats that is under way: all that was sent, or nothing
\* when the page refused its first frame.
Assembles(q, v) ==
    q.paging /\ ~q.owed /\ ~q.ofFetch /\ q.next # <<>> =>
      IF v.known \/ q.snapshot THEN v.building.on /\ v.building.rows = q.next ELSE ~v.building.on

InStep(k, g) ==
    /\ CardInStep(k, g) /\ SettingsInStep(k, g) /\ DiagnosticInStep(k, g)
    /\ LogInStep(k, g) /\ HistoryInStep(k, g) /\ StatsInStep(k, g) /\ Assembles(k.stats, g.stats)

\* A session that no page is bound to yet.
Fresh(k) ==
    /\ k.card.owed /\ ~k.settings.on /\ ~k.diagnostic.on /\ ~k.log.on
    /\ k.history.held = <<>> /\ k.stats.held = <<>> /\ ~k.stats.paging

Standing ==
    /\ socket = [s \in Sockets |-> socket[s]] /\ page = [p \in Pages |-> page[p]] /\ DeviceOK
    /\ \A s \in Sockets :
         IsSession(socket[s]) /\ Paged(socket[s].stats) /\ (socket[s].open => socket[s].peer \in Pages)
    /\ \A p \in Pages : IsPage(page[p])

SessionsInStep ==
    /\ \A s \in Sockets : ~socket[s].bound /\ ~socket[s].closing => Fresh(socket[s])
    /\ \A s \in Sockets, p \in Pages :
         socket[s].bound /\ ~socket[s].closing /\ Reaches(s, p) => InStep(socket[s], page[p])

StreamInv == Standing /\ SessionsInStep

-----------------------------------------------------------------------------
\* A frame of Home, or none, changes no other part of the page.
LEMMA HomeIsApart ==
  ASSUME NEW g, IsPage(g), NEW f, f = NoFrame \/ f.part = "home"
  PROVE  LET h == Tells(g, f) IN
           /\ IsPage(h) /\ h.slot = g.slot /\ h.card = g.card /\ h.settings = g.settings
           /\ h.diagnostic = g.diagnostic /\ h.log = g.log /\ h.history = g.history /\ h.stats = g.stats
<1>1. CASE f = NoFrame
  <2>1. Tells(g, f) = g BY <1>1 DEF Tells, NoFrame, Sections
  <2> QED BY <2>1
<1>2. CASE f.part = "home"
  <2> DEFINE h == Tells(g, f)
  <2>1. h = [g EXCEPT !.home = IF f.value = Unknown THEN @ ELSE f.value,
                      !.presets = IF f.presets = Unknown THEN @ ELSE f.presets,
                      !.tag = IF f.tag = Unknown THEN @ ELSE f.tag]
    BY <1>2 DEF Tells, Sections
  <2>2. h = [x \in PageFields |-> h[x]] /\ \A x \in PageFields \ {"home", "presets", "tag"} : h[x] = g[x]
    BY <2>1 DEF IsPage, IsRec, PageFields
  <2> HIDE DEF h
  <2>3. \A x \in {"slot", "card", "settings", "diagnostic", "log", "history", "stats"} : h[x] = g[x]
    BY <2>2 DEF PageFields
  <2>4. IsPage(h) BY <2>2, <2>3 DEF IsPage, IsRec
  <2>5. /\ h.slot = g.slot /\ h.card = g.card /\ h.settings = g.settings
        /\ h.diagnostic = g.diagnostic /\ h.log = g.log /\ h.history = g.history /\ h.stats = g.stats
    BY <2>3
  <2> QED BY <2>4, <2>5 DEF h
<1> QED BY <1>1, <1>2

\* The frame of the card changes the card and nothing else.
LEMMA CardIsTold ==
  ASSUME NEW g, IsPage(g), NEW f, f.part = "card"
  PROVE  LET h == Tells(g, f) IN
           /\ IsPage(h) /\ h.slot = g.slot /\ h.card = f.card /\ h.settings = g.settings
           /\ h.diagnostic = g.diagnostic /\ h.log = g.log /\ h.history = g.history /\ h.stats = g.stats
<1> DEFINE h == Tells(g, f)
<1>1. h = [g EXCEPT !.card = f.card] BY DEF Tells, Sections
<1>2. h = [x \in PageFields |-> h[x]] /\ h.card = f.card /\ \A x \in PageFields \ {"card"} : h[x] = g[x]
  BY <1>1 DEF IsPage, IsRec, PageFields
<1> HIDE DEF h
<1>3. \A x \in {"slot", "settings", "diagnostic", "log", "history", "stats"} : h[x] = g[x]
  BY <1>2 DEF PageFields
<1>4. IsPage(h) BY <1>2, <1>3 DEF IsPage, IsRec
<1>5. /\ h.slot = g.slot /\ h.settings = g.settings
      /\ h.diagnostic = g.diagnostic /\ h.log = g.log /\ h.history = g.history /\ h.stats = g.stats
  BY <1>3
<1> QED BY <1>2, <1>4, <1>5 DEF h

-----------------------------------------------------------------------------
\* A write tells the page both frames that wait, or neither, and leaves the session alone.
LEMMA WriteIsAllOrNothing ==
  ASSUME NEW c, IsWork(c), NEW committed \in BOOLEAN, NEW r \in Write(c, committed)
  PROVE  /\ IsWork(r) /\ r.k = c.k /\ r.open = c.open /\ r.ends = c.ends /\ r.waits = NoFrames
         /\ \/ r.result = c.result /\ r.g = Tells(Tells(c.g, c.waits[1]), c.waits[2])
            \/ r.result \in {"clean", "broken"} /\ r.g = c.g
<1> DEFINE told == Tells(Tells(c.g, c.waits[1]), c.waits[2])
<1>0. /\ c = [x \in WorkFields |-> c[x]]
      /\ NoFrames = <<NoFrames[1], NoFrames[2]>>
  BY DEF IsWork, IsRec, NoFrames
<1>1. CASE r = AllTold(c)
  <2>1. r = [c EXCEPT !.g = told, !.waits = NoFrames] BY <1>1 DEF AllTold
  <2> HIDE DEF told
  <2>2. /\ r = [x \in WorkFields |-> r[x]] /\ r.k = c.k /\ r.open = c.open /\ r.ends = c.ends
        /\ r.waits = NoFrames /\ r.result = c.result /\ r.g = told
    BY <2>1, <1>0 DEF WorkFields
  <2> QED BY <2>2, <1>0 DEF IsWork, IsRec, told
<1>2. CASE r # AllTold(c)
  <2>1. PICK b \in Failures(c, committed) :
          r = [c EXCEPT !.waits = NoFrames, !.failed = TRUE, !.result = b]
    BY <1>2 DEF Write
  <2>2. b \in {"clean", "broken"} BY DEF Failures
  <2>3. /\ r = [x \in WorkFields |-> r[x]] /\ r.k = c.k /\ r.open = c.open /\ r.ends = c.ends
        /\ r.waits = NoFrames /\ r.result = b /\ r.g = c.g
    BY <2>1, <1>0 DEF WorkFields
  <2> QED BY <2>2, <2>3, <1>0 DEF IsWork, IsRec
<1> QED BY <1>1, <1>2

\* A commited write that fails closes the socket: nothing is taken back.
\* What waits is replaced by one frame.
LEMMA OneFrameWaits ==
  ASSUME NEW c, IsWork(c), NEW f
  PROVE  LET w == Waiting(c, f) IN
           /\ IsWork(w) /\ w.k = c.k /\ w.g = c.g /\ w.open = c.open /\ w.ends = c.ends
           /\ w.result = c.result /\ w.waits = <<f, NoFrame>> /\ w.waits[1] = f /\ w.waits[2] = NoFrame
<1> DEFINE w == Waiting(c, f)
<1>1. /\ w = [x \in WorkFields |-> w[x]] /\ w.k = c.k /\ w.g = c.g /\ w.open = c.open
      /\ w.ends = c.ends /\ w.result = c.result /\ w.waits = <<f, NoFrame>>
  BY DEF Waiting, IsWork, IsRec, WorkFields
<1> HIDE DEF w
<1>2. w.waits[1] = f /\ w.waits[2] = NoFrame BY <1>1
<1> QED BY <1>1, <1>2 DEF IsWork, IsRec, w

\* A frame of Home, or none.
IsHome(f) == f = NoFrame \/ f.part = "home"

\* What the two frames of a batch leave alone: k0 and g0 are the session and the page
\* the batch began with.
KeepsViews(c, k0, g0) ==
    /\ IsWork(c) /\ IsPage(c.g) /\ IsRec(c.k, SessionFields) /\ c.ends = FALSE
    /\ IsRec(c.k.card, {"owed", "seq", "cycle", "count"})
    /\ c.result \in {"sent", "clean", "broken"}
    /\ \A x \in {"slot", "settings", "diagnostic", "log", "history", "stats"} : c.g[x] = g0[x]
    /\ \A x \in SessionFields \ {"home", "presets", "card"} : c.k[x] = k0[x]
CardUntouched(c, k0, g0) ==
    c.k.card = k0.card /\ c.g.card = g0.card /\ IsHome(c.waits[1]) /\ c.waits[2] = NoFrame

\* The writes of a batch tell the page nothing but Home and the card.
LEMMA BatchTellsNoView ==
  ASSUME NEW c, NEW k0, NEW g0, KeepsViews(c, k0, g0), NEW committed \in BOOLEAN,
         IsHome(c.waits[1]) \/ c.waits[1].part = "card",
         IsHome(c.waits[2]) \/ c.waits[2].part = "card",
         NEW r \in Write(c, committed)
  PROVE  KeepsViews(r, k0, g0) /\ r.k = c.k /\ r.open = c.open /\ r.waits = NoFrames
<1> DEFINE t == Tells(c.g, c.waits[1])
           told == Tells(t, c.waits[2])
<1>1. /\ IsWork(r) /\ r.k = c.k /\ r.open = c.open /\ r.ends = c.ends /\ r.waits = NoFrames
      /\ \/ r.result = c.result /\ r.g = told
         \/ r.result \in {"clean", "broken"} /\ r.g = c.g
  BY WriteIsAllOrNothing DEF KeepsViews
<1>2. /\ IsPage(t) /\ t.slot = c.g.slot /\ t.settings = c.g.settings
      /\ t.diagnostic = c.g.diagnostic /\ t.log = c.g.log /\ t.history = c.g.history /\ t.stats = c.g.stats
  <2>1. CASE IsHome(c.waits[1]) BY <2>1, HomeIsApart DEF KeepsViews, IsHome
  <2>2. CASE c.waits[1].part = "card" BY <2>2, CardIsTold DEF KeepsViews
  <2> QED BY <2>1, <2>2
<1> HIDE DEF t
<1>3. /\ IsPage(told) /\ told.slot = t.slot /\ told.settings = t.settings
      /\ told.diagnostic = t.diagnostic /\ told.log = t.log /\ told.history = t.history /\ told.stats = t.stats
  <2>1. CASE IsHome(c.waits[2]) BY <1>2, <2>1, HomeIsApart DEF IsHome
  <2>2. CASE c.waits[2].part = "card" BY <1>2, <2>2, CardIsTold
  <2> QED BY <2>1, <2>2
<1> HIDE DEF told
<1>4. IsPage(r.g) /\
      \A x \in {"slot", "settings", "diagnostic", "log", "history", "stats"} : r.g[x] = c.g[x]
  BY <1>1, <1>2, <1>3 DEF KeepsViews
<1> QED BY <1>1, <1>4 DEF KeepsViews

\* A write of what waits after Home: the card is untouched.
LEMMA HomeIsWritten ==
  ASSUME NEW c, NEW k0, NEW g0, KeepsViews(c, k0, g0), CardUntouched(c, k0, g0),
         NEW committed \in BOOLEAN, NEW r \in Write(c, committed)
  PROVE  KeepsViews(r, k0, g0) /\ CardUntouched(r, k0, g0) /\ r.waits = NoFrames /\ r.open = c.open
         /\ r.k = c.k
<1> DEFINE t == Tells(c.g, c.waits[1])
           told == Tells(t, c.waits[2])
<1>1. KeepsViews(r, k0, g0) /\ r.k = c.k /\ r.open = c.open /\ r.waits = NoFrames
  BY BatchTellsNoView DEF CardUntouched, IsHome
<1>2. r.g = told \/ r.g = c.g BY WriteIsAllOrNothing DEF KeepsViews
<1>3. IsPage(t) /\ t.card = c.g.card BY HomeIsApart DEF KeepsViews, CardUntouched, IsHome
<1> HIDE DEF t
<1>4. told.card = t.card
  <2>1. c.waits[2] = NoFrame BY DEF CardUntouched
  <2> QED BY <1>3, <2>1, HomeIsApart
<1> HIDE DEF told
<1>5. NoFrames[1] = NoFrame /\ NoFrames[2] = NoFrame BY DEF NoFrames
<1> QED BY <1>1, <1>2, <1>3, <1>4, <1>5 DEF CardUntouched, IsHome

\* Home and its preset record are no part of what is to be kept.
LEMMA HomeMayMove ==
  ASSUME NEW c, NEW k0, NEW g0, KeepsViews(c, k0, g0), CardUntouched(c, k0, g0),
         NEW k, IsRec(k, SessionFields),
         \A x \in SessionFields \ {"home", "presets"} : k[x] = c.k[x]
  PROVE  LET r == [c EXCEPT !.k = k] IN
           /\ KeepsViews(r, k0, g0) /\ CardUntouched(r, k0, g0) /\ r.k = k
           /\ r.open = c.open /\ r.result = c.result /\ r.waits = c.waits
<1> DEFINE r == [c EXCEPT !.k = k]
<1>1. /\ r = [x \in WorkFields |-> r[x]] /\ r.k = k /\ r.open = c.open /\ r.ends = c.ends
      /\ r.waits = c.waits /\ r.result = c.result /\ r.g = c.g
  BY DEF KeepsViews, IsWork, IsRec, WorkFields
<1>2. k.card = c.k.card BY DEF SessionFields
<1> HIDE DEF r
<1>3. KeepsViews(r, k0, g0) BY <1>1, <1>2 DEF KeepsViews, IsWork, IsRec
<1>4. CardUntouched(r, k0, g0) BY <1>1, <1>2 DEF CardUntouched
<1> QED BY <1>1, <1>3, <1>4 DEF r

\* The transport takes or drops the frame of Home: the views and the card are untouched.
LEMMA HomeIsPut ==
  ASSUME NEW c, NEW k0, NEW g0, KeepsViews(c, k0, g0), CardUntouched(c, k0, g0),
         c.result = "sent", c.waits[1] = NoFrame, NEW f, f.part = "home", NEW fit,
         NEW r \in Put(c, f, fit)
  PROVE  KeepsViews(r, k0, g0) /\ CardUntouched(r, k0, g0) /\ r.open = c.open /\ r.k = c.k
<1> DEFINE w == Waiting(c, f)
<1>1. /\ IsWork(w) /\ w.k = c.k /\ w.g = c.g /\ w.open = c.open /\ w.ends = c.ends
      /\ w.result = c.result /\ w.waits[1] = f /\ w.waits[2] = NoFrame
  BY OneFrameWaits DEF KeepsViews
<1>2. r \in (IF fit = "alone" THEN Write(w, FALSE) ELSE {w}) BY DEF Put, Alone
<1> HIDE DEF w
<1>3. KeepsViews(w, k0, g0) BY <1>1 DEF KeepsViews
<1>4. IsHome(w.waits[1]) BY <1>1 DEF IsHome
<1>5. CardUntouched(w, k0, g0) BY <1>1, <1>4 DEF CardUntouched
<1>6. CASE r \in Write(w, FALSE) BY <1>1, <1>3, <1>5, <1>6, HomeIsWritten
<1>7. CASE r = w BY <1>1, <1>3, <1>5, <1>7
<1> QED BY <1>2, <1>6, <1>7

\* A batch that is broken off closes the socket.
LEMMA BreakingOff ==
  ASSUME NEW c, NEW k0, NEW g0, KeepsViews(c, k0, g0)
  PROVE  LET r == [c EXCEPT !.open = FALSE] IN
           /\ KeepsViews(r, k0, g0) /\ r.open = FALSE /\ r.result = c.result /\ r.k = c.k /\ r.g = c.g
           /\ r.waits = c.waits
<1> DEFINE r == [c EXCEPT !.open = FALSE]
<1>1. /\ r = [x \in WorkFields |-> r[x]] /\ r.k = c.k /\ r.open = FALSE /\ r.ends = c.ends
      /\ r.waits = c.waits /\ r.result = c.result /\ r.g = c.g
  BY DEF KeepsViews, IsWork, IsRec, WorkFields
<1> HIDE DEF r
<1> QED BY <1>1 DEF KeepsViews, IsWork, IsRec, r

\* Home in a batch (sendHomeStream): the views and the card are untouched, and a broken
\* write closes the socket.
LEMMA HomeLeavesTheViews ==
  ASSUME NEW c, NEW k0, NEW g0, KeepsViews(c, k0, g0), CardUntouched(c, k0, g0),
         c.result = "sent", c.waits[1] = NoFrame, NEW n, NEW fit, NEW r \in SendHome(c, n, fit)
  PROVE  /\ KeepsViews(r, k0, g0) /\ CardUntouched(r, k0, g0)
         /\ r.result = "broken" => r.open = FALSE
<1> DEFINE k == c.k
           a1 == [k EXCEPT !.home.value = n.value]
           a2 == [a1 EXCEPT !.presets.hash = n.preset]
           k1 == [a2 EXCEPT !.presets.tag = Unknown]
           c1 == [c EXCEPT !.k = k1]
           says == HomeSays(k, n) \/ PresetsListed(k, n)
<1>1. IsRec(k1, SessionFields) /\ \A x \in SessionFields \ {"home", "presets"} : k1[x] = k[x]
  BY DEF KeepsViews, IsRec, SessionFields
<1>2. [c EXCEPT !.k.home.value = n.value, !.k.presets.hash = n.preset, !.k.presets.tag = Unknown] = c1
  <2> DEFINE e1 == [c EXCEPT !.k.home.value = n.value]
             e2 == [e1 EXCEPT !.k.presets.hash = n.preset]
  <2>1. c = [x \in WorkFields |-> c[x]] BY DEF KeepsViews, IsWork, IsRec
  <2>2. e1 = [c EXCEPT !.k = a1] OBVIOUS
  <2> HIDE DEF a1
  <2>3. e1 = [x \in WorkFields |-> e1[x]] /\ e1.k = a1 BY <2>1, <2>2 DEF WorkFields
  <2>4. e2 = [e1 EXCEPT !.k = a2] BY <2>3
  <2> HIDE DEF a2
  <2>5. e2 = [c EXCEPT !.k = a2] BY <2>1, <2>2, <2>4 DEF WorkFields
  <2> HIDE DEF e1
  <2>6. e2 = [x \in WorkFields |-> e2[x]] /\ e2.k = a2 BY <2>3, <2>4 DEF WorkFields
  <2> HIDE DEF e2
  <2>7. [e2 EXCEPT !.k.presets.tag = Unknown] = [e2 EXCEPT !.k = k1] BY <2>6
  <2>8. [e2 EXCEPT !.k = k1] = [c EXCEPT !.k = k1] BY <2>1, <2>5 DEF WorkFields
  <2> QED BY <2>7, <2>8 DEF e2, e1
<1> HIDE DEF k1
<1>3. /\ KeepsViews(c1, k0, g0) /\ CardUntouched(c1, k0, g0)
      /\ c1.open = c.open /\ c1.result = c.result /\ c1.waits = c.waits
  BY <1>1, HomeMayMove
<1> HIDE DEF c1
<1>4. HomeFrame(k, n).part = "home" BY DEF HomeFrame
<1>5. CASE ~says BY <1>2, <1>3, <1>5 DEF SendHome
<1>6. CASE says /\ ~Owns(k)
  <2>1. r = [c EXCEPT !.open = FALSE] BY <1>6 DEF SendHome
  <2> QED BY <2>1, BreakingOff DEF CardUntouched
<1>7. CASE says /\ Owns(k)
  <2>1. PICK d \in Put(c1, HomeFrame(k, n), fit) : r = HomeTaken(d, n) BY <1>2, <1>7 DEF SendHome
  <2>2. KeepsViews(d, k0, g0) /\ CardUntouched(d, k0, g0) BY <1>3, <1>4, HomeIsPut
  <2>3. d = [x \in WorkFields |-> d[x]] BY <2>2 DEF KeepsViews, IsWork, IsRec
  <2>4. CASE d.result = "sent"
    <3> DEFINE accepted == [d.k EXCEPT !.home.owed = FALSE, !.presets.sent = n.preset]
    <3>1. r = [d EXCEPT !.k.home.owed = FALSE, !.k.presets.sent = n.preset]
      BY <2>1, <2>4 DEF HomeTaken
    <3>2. r = [d EXCEPT !.k = accepted] BY <2>3, <3>1 DEF WorkFields
    <3>3. IsRec(accepted, SessionFields) /\ \A x \in SessionFields \ {"home", "presets"} : accepted[x] = d.k[x]
      BY <2>2 DEF KeepsViews, IsRec, SessionFields
    <3> HIDE DEF accepted
    <3> QED BY <2>2, <2>4, <3>2, <3>3, HomeMayMove
  <2>5. CASE d.result = "clean"
    <3> DEFINE deferred == [d.k EXCEPT !.home.owed = TRUE]
    <3>1. r = [d EXCEPT !.k = deferred] BY <2>1, <2>5 DEF HomeTaken
    <3>2. IsRec(deferred, SessionFields) /\ \A x \in SessionFields \ {"home", "presets"} : deferred[x] = d.k[x]
      BY <2>2 DEF KeepsViews, IsRec, SessionFields
    <3> HIDE DEF deferred
    <3> QED BY <2>2, <2>5, <3>1, <3>2, HomeMayMove
  <2>6. CASE d.result = "broken"
    <3>1. r = [d EXCEPT !.open = FALSE] BY <2>1, <2>6 DEF HomeTaken
    <3> QED BY <2>2, <3>1, BreakingOff DEF CardUntouched
  <2> QED BY <2>2, <2>4, <2>5, <2>6 DEF KeepsViews
<1> HIDE DEF says
<1> QED BY <1>5, <1>6, <1>7

-----------------------------------------------------------------------------
\* The card in a batch: nothing of it is out, it waits as the last frame, or the
\* page has it.
CardWaits(c, g0) ==
    LET last == IF c.waits[2] = NoFrame THEN c.waits[1] ELSE c.waits[2] IN
    /\ last.part = "card" /\ ~c.k.card.owed
    /\ last.card = [seq |-> c.k.card.seq, cycle |-> c.k.card.cycle, count |-> c.k.card.count]
    /\ c.waits[2] # NoFrame => IsHome(c.waits[1]) /\ c.waits[1] # NoFrame
    /\ c.g.card = g0.card
CardIsOn(c, k0, g0) ==
    \/ CardUntouched(c, k0, g0)
    \/ CardWaits(c, g0)
    \/ c.waits[1] = NoFrame /\ CardInStep(c.k, c.g)

\* A batch after its two frames: unless the socket is to close, the card is in step
\* or, when the batch was dropped cleanly, the page shows the card it began with.
InBatch(c, k0, g0) ==
    /\ KeepsViews(c, k0, g0)
    /\ c.result = "broken" => c.open = FALSE
    /\ c.result = "clean" => c.g.card = g0.card
    /\ c.result = "sent" /\ c.open => CardIsOn(c, k0, g0)

\* The page that shows the frame of the card which the session recorded.
LEMMA CardArrives ==
  ASSUME NEW c, NEW k0, NEW g0, KeepsViews(c, k0, g0), c.result = "sent",
         CardWaits(c, g0), NEW committed \in BOOLEAN, NEW r \in Write(c, committed)
  PROVE  /\ KeepsViews(r, k0, g0) /\ r.k = c.k /\ r.open = c.open /\ r.waits[1] = NoFrame
         /\ r.result = "sent" => CardInStep(r.k, r.g)
         /\ r.result # "sent" => r.g.card = c.g.card
<1> DEFINE t == Tells(c.g, c.waits[1])
           told == Tells(t, c.waits[2])
           shown == [seq |-> c.k.card.seq, cycle |-> c.k.card.cycle, count |-> c.k.card.count]
<1>1. KeepsViews(r, k0, g0) /\ r.k = c.k /\ r.open = c.open /\ r.waits = NoFrames
  BY BatchTellsNoView DEF CardWaits, IsHome
<1>2. \/ r.result = c.result /\ r.g = told
      \/ r.result \in {"clean", "broken"} /\ r.g = c.g
  BY WriteIsAllOrNothing DEF KeepsViews
<1>3. told.card = shown
  <2>1. CASE c.waits[2] = NoFrame
    <3>1. c.waits[1].part = "card" /\ c.waits[1].card = shown BY <2>1 DEF CardWaits
    <3>2. IsPage(t) /\ t.card = c.waits[1].card BY <3>1, CardIsTold DEF KeepsViews
    <3> HIDE DEF t
    <3>3. told.card = t.card BY <2>1, <3>2, HomeIsApart
    <3> QED BY <3>1, <3>2, <3>3
  <2>2. CASE c.waits[2] # NoFrame
    <3>1. c.waits[2].part = "card" /\ c.waits[2].card = shown /\ IsHome(c.waits[1])
      BY <2>2 DEF CardWaits
    <3>2. IsPage(t) BY <3>1, HomeIsApart DEF KeepsViews, IsHome
    <3> HIDE DEF t
    <3>3. told.card = c.waits[2].card BY <3>1, <3>2, CardIsTold
    <3> QED BY <3>1, <3>3
  <2> QED BY <2>1, <2>2
<1> HIDE DEF told
<1>4. r.waits[1] = NoFrame BY <1>1 DEF NoFrames
<1> QED BY <1>1, <1>2, <1>3, <1>4 DEF CardInStep

\* The transport takes the frame of the card, or drops it with what waits before it.
LEMMA CardIsPut ==
  ASSUME NEW c, NEW k0, NEW g0, KeepsViews(c, k0, g0), CardUntouched(c, k0, g0),
         NEW f, f.part = "card", NEW fit, NEW r \in Put(c, f, fit)
  PROVE  /\ KeepsViews(r, k0, g0) /\ r.k = c.k /\ r.open = c.open
         /\ r.result = "clean" => r.g.card = g0.card
         /\ r.result = "sent" =>
              \/ r.waits[1] = NoFrame /\ r.g.card = f.card
              \/ r.waits[1] = f /\ r.waits[2] = NoFrame /\ r.g.card = g0.card
              \/ r.waits[2] = f /\ f # NoFrame /\ IsHome(r.waits[1]) /\ r.waits[1] # NoFrame /\ r.g.card = g0.card
<1>0. f # NoFrame BY DEF NoFrame
<1> DEFINE Holds(d) == /\ IsWork(Waiting(d, f)) /\ Waiting(d, f).k = d.k /\ Waiting(d, f).g = d.g
                       /\ Waiting(d, f).open = d.open /\ Waiting(d, f).ends = d.ends
                       /\ Waiting(d, f).result = d.result
                       /\ Waiting(d, f).waits[1] = f /\ Waiting(d, f).waits[2] = NoFrame
<1>1. ASSUME NEW d, KeepsViews(d, k0, g0)
      PROVE  KeepsViews(Waiting(d, f), k0, g0) /\ Holds(d)
  <2>1. Holds(d) BY <1>1, OneFrameWaits DEF KeepsViews
  <2> DEFINE w == Waiting(d, f)
  <2>2. /\ IsWork(w) /\ w.k = d.k /\ w.g = d.g /\ w.open = d.open /\ w.ends = d.ends /\ w.result = d.result
    BY <2>1
  <2> HIDE DEF w
  <2>3. KeepsViews(w, k0, g0) BY <1>1, <2>2 DEF KeepsViews
  <2> QED BY <2>1, <2>3 DEF w
<1>2. ASSUME NEW d, KeepsViews(d, k0, g0), d.result = "sent", d.g.card = g0.card,
             NEW committed \in BOOLEAN, NEW e \in Write(Waiting(d, f), committed)
      PROVE  /\ KeepsViews(e, k0, g0) /\ e.k = d.k /\ e.open = d.open /\ e.waits[1] = NoFrame
             /\ e.result = "sent" => e.g.card = f.card
             /\ e.result = "clean" => e.g.card = g0.card
  <2> DEFINE w == Waiting(d, f)
  <2>1. KeepsViews(w, k0, g0) /\ Holds(d) BY <1>1, <1>2
  <2>2. /\ w.k = d.k /\ w.g = d.g /\ w.open = d.open /\ w.result = d.result
        /\ w.waits[1] = f /\ w.waits[2] = NoFrame
    BY <2>1
  <2>3. e \in Write(w, committed) BY <1>2
  <2> HIDE DEF w, Holds
  <2>4. KeepsViews(e, k0, g0) /\ e.k = w.k /\ e.open = w.open /\ e.waits = NoFrames
    BY <2>1, <2>2, <2>3, BatchTellsNoView DEF IsHome
  <2> DEFINE t == Tells(w.g, w.waits[1])
             told == Tells(t, w.waits[2])
  <2>5. \/ e.result = w.result /\ e.g = told
        \/ e.result \in {"clean", "broken"} /\ e.g = w.g
    BY <2>1, <2>3, WriteIsAllOrNothing DEF KeepsViews
  <2>6. IsPage(t) /\ t.card = f.card BY <2>1, <2>2, CardIsTold DEF KeepsViews
  <2> HIDE DEF t
  <2>7. told.card = t.card BY <2>2, <2>6, HomeIsApart
  <2> HIDE DEF told
  <2>8. e.waits[1] = NoFrame BY <2>4 DEF NoFrames
  <2> QED BY <1>2, <2>2, <2>4, <2>5, <2>6, <2>7, <2>8
<1>3. CASE c.result # "sent"
  <2>1. r = c BY <1>3 DEF Put
  <2> QED BY <1>3, <2>1 DEF CardUntouched
<1>4. CASE c.result = "sent" /\ c.waits[1] = NoFrame
  <2>1. r \in Write(Waiting(c, f), FALSE) \/ r = Waiting(c, f) BY <1>4 DEF Put, Alone
  <2>2. CASE r \in Write(Waiting(c, f), FALSE) BY <1>2, <1>4, <2>2 DEF CardUntouched
  <2>3. CASE r = Waiting(c, f)
    <3>1. KeepsViews(r, k0, g0) /\ Holds(c) BY <1>1, <2>3
    <3>2. r.k = c.k /\ r.g = c.g /\ r.open = c.open /\ r.result = c.result /\ r.waits[1] = f /\ r.waits[2] = NoFrame
      BY <2>3, <3>1
    <3> QED BY <1>4, <3>1, <3>2 DEF CardUntouched
  <2> QED BY <2>1, <2>2, <2>3
<1>5. CASE c.result = "sent" /\ c.waits[1] # NoFrame /\ fit = "together"
  <2>1. r = [c EXCEPT !.waits = <<c.waits[1], f>>] BY <1>5 DEF Put
  <2>2. /\ r = [x \in WorkFields |-> r[x]] /\ r.k = c.k /\ r.g = c.g /\ r.open = c.open /\ r.ends = c.ends
        /\ r.result = c.result /\ r.waits = <<c.waits[1], f>>
    BY <2>1 DEF KeepsViews, IsWork, IsRec, WorkFields
  <2> DEFINE head == c.waits[1]
  <2> HIDE DEF head
  <2>3. r.waits = <<head, f>> BY <2>2 DEF head
  <2>4. r.waits[1] = head /\ r.waits[2] = f BY <2>3
  <2>5. IsWork(r) BY <2>2, <2>3, <2>4 DEF IsWork, IsRec
  <2>6. KeepsViews(r, k0, g0) BY <2>2, <2>5 DEF KeepsViews
  <2>7. IsHome(r.waits[1]) BY <2>4 DEF head, CardUntouched
  <2>8. r.waits[1] # NoFrame BY <1>5, <2>4 DEF head
  <2>9. r.g.card = g0.card BY <2>2 DEF CardUntouched
  <2> QED BY <1>0, <1>5, <2>2, <2>4, <2>6, <2>7, <2>8, <2>9
<1>6. CASE c.result = "sent" /\ c.waits[1] # NoFrame /\ fit # "together"
  <2>1. PICK d \in Write(c, FALSE) : r \in Follows(d, f, fit) BY <1>6 DEF Put, Flushed
  <2>2. KeepsViews(d, k0, g0) /\ CardUntouched(d, k0, g0) /\ d.open = c.open /\ d.k = c.k
    BY <2>1, HomeIsWritten
  <2>3. CASE d.result # "sent"
    <3>1. r = d BY <2>1, <2>3 DEF Follows
    <3> QED BY <2>2, <2>3, <3>1 DEF CardUntouched
  <2>4. CASE d.result = "sent" /\ fit = "payload"
    <3>1. r \in Write(Waiting(d, f), TRUE) BY <2>1, <2>4 DEF Follows
    <3>2. d.g.card = g0.card BY <2>2 DEF CardUntouched
    <3> QED BY <1>2, <2>2, <2>4, <3>1, <3>2
  <2>5. CASE d.result = "sent" /\ fit # "payload"
    <3>1. r = Waiting(d, f) BY <2>1, <2>5 DEF Follows
    <3>2. KeepsViews(r, k0, g0) /\ Holds(d) BY <1>1, <2>2, <3>1
    <3>3. r.k = d.k /\ r.g = d.g /\ r.open = d.open /\ r.result = d.result /\ r.waits[1] = f /\ r.waits[2] = NoFrame
      BY <3>1, <3>2
    <3> QED BY <2>2, <2>5, <3>2, <3>3 DEF CardUntouched
  <2> QED BY <2>3, <2>4, <2>5
<1> QED BY <1>3, <1>4, <1>5, <1>6

\* The shot card in a batch (sendShotCard) keeps what a batch is.
LEMMA CardLeavesTheViews ==
  ASSUME NEW c, NEW k0, NEW g0, KeepsViews(c, k0, g0), CardUntouched(c, k0, g0),
         c.result = "broken" => c.open = FALSE, NEW n, NEW fit, NEW r \in SendCard(c, n, fit)
  PROVE  InBatch(r, k0, g0)
<1> DEFINE shown == CardShown(c.k, n)
           sends == c.open /\ CardMoves(c.k, n)
           f == [part |-> "card", card |-> shown]
           kept == [owed |-> FALSE, seq |-> shown.seq, cycle |-> shown.cycle, count |-> shown.count]
<1>1. CASE ~sends
  <2>1. r = c BY <1>1 DEF SendCard
  <2> QED BY <2>1 DEF InBatch, CardIsOn, CardUntouched
<1>2. CASE sends /\ ~Owns(c.k)
  <2>1. r = [c EXCEPT !.open = FALSE] BY <1>2 DEF SendCard
  <2>2. KeepsViews(r, k0, g0) /\ r.open = FALSE /\ r.g = c.g BY <2>1, BreakingOff
  <2> QED BY <2>2 DEF InBatch, CardUntouched
<1>3. CASE sends /\ Owns(c.k)
  <2>1. PICK d \in Put(c, f, fit) : r = CardTaken(d, shown) BY <1>3 DEF SendCard
  <2>2. f.part = "card" /\ f.card = shown OBVIOUS
  <2> HIDE DEF f
  <2>3. /\ KeepsViews(d, k0, g0) /\ d.k = c.k /\ d.open = c.open
        /\ d.result = "clean" => d.g.card = g0.card
        /\ d.result = "sent" =>
             \/ d.waits[1] = NoFrame /\ d.g.card = f.card
             \/ d.waits[1] = f /\ d.waits[2] = NoFrame /\ d.g.card = g0.card
             \/ d.waits[2] = f /\ f # NoFrame /\ IsHome(d.waits[1]) /\ d.waits[1] # NoFrame /\ d.g.card = g0.card
    BY <2>1, <2>2, CardIsPut
  <2>4. CASE d.result = "sent"
    <3>1. r = [d EXCEPT !.k.card = kept] BY <2>1, <2>4 DEF CardTaken
    <3>2. /\ r = [x \in WorkFields |-> r[x]] /\ r.k = [d.k EXCEPT !.card = kept] /\ r.g = d.g
          /\ r.open = d.open /\ r.ends = d.ends /\ r.result = d.result /\ r.waits = d.waits
      BY <2>3, <3>1 DEF KeepsViews, IsWork, IsRec, WorkFields
    <3>3. shown = [seq |-> shown.seq, cycle |-> shown.cycle, count |-> shown.count] BY DEF CardShown
    <3> DEFINE fields == {"owed", "seq", "cycle", "count"}
    <3>4. kept = [x \in fields |-> kept[x]] /\ kept.owed = FALSE
          /\ shown = [seq |-> kept.seq, cycle |-> kept.cycle, count |-> kept.count]
      BY <3>3
    <3> HIDE DEF shown, kept
    <3>5. /\ r.k = [x \in SessionFields |-> r.k[x]] /\ r.k.card = kept
          /\ \A x \in SessionFields \ {"home", "presets", "card"} : r.k[x] = d.k[x]
      BY <2>3, <3>2 DEF KeepsViews, IsRec, SessionFields
    <3>6. KeepsViews(r, k0, g0) BY <2>3, <3>2, <3>4, <3>5 DEF KeepsViews, IsWork, IsRec
    <3>7. CASE d.waits[1] = NoFrame /\ d.g.card = f.card
      <4>1. CardInStep(r.k, r.g) BY <2>2, <3>2, <3>4, <3>5, <3>7 DEF CardInStep
      <4> QED BY <2>4, <3>2, <3>6, <3>7, <4>1 DEF InBatch, CardIsOn
    <3>8. CASE /\ d.g.card = g0.card
               /\ \/ d.waits[1] = f /\ d.waits[2] = NoFrame
                  \/ d.waits[2] = f /\ f # NoFrame /\ IsHome(d.waits[1]) /\ d.waits[1] # NoFrame
      <4>1. CardWaits(r, g0) BY <2>2, <3>2, <3>4, <3>5, <3>8 DEF CardWaits
      <4> QED BY <2>4, <3>2, <3>6, <4>1 DEF InBatch, CardIsOn
    <3> QED BY <2>3, <2>4, <3>7, <3>8
  <2>5. CASE d.result = "clean"
    <3>1. r = d BY <2>1, <2>5 DEF CardTaken
    <3> QED BY <2>3, <2>5, <3>1 DEF InBatch
  <2>6. CASE d.result = "broken"
    <3>1. r = [d EXCEPT !.open = FALSE] BY <2>1, <2>6 DEF CardTaken
    <3>2. KeepsViews(r, k0, g0) /\ r.open = FALSE /\ r.result = d.result BY <2>3, <3>1, BreakingOff
    <3> QED BY <2>6, <3>2 DEF InBatch
  <2> QED BY <2>3, <2>4, <2>5, <2>6 DEF KeepsViews
<1> HIDE DEF sends
<1> QED BY <1>1, <1>2, <1>3

\* Once what waits of a batch is flushed, the card is in step or nothing of it moved; a
\* batch that was dropped cleanly left the page its card.
LEMMA WhatWaitsIsFlushed ==
  ASSUME NEW c, NEW k0, NEW g0, InBatch(c, k0, g0), NEW r \in Batched(c)
  PROVE  /\ KeepsViews(r, k0, g0)
         /\ r.result = "clean" => r.g.card = g0.card
         /\ r.result = "sent" /\ r.open =>
              CardInStep(r.k, r.g) \/ (r.k.card = k0.card /\ r.g.card = g0.card)
<1>1. CASE ~(c.result = "sent" /\ c.open /\ c.waits[1] # NoFrame)
  <2>1. r = c BY <1>1 DEF Batched
  <2>2. ASSUME r.result = "sent", r.open
        PROVE  CardInStep(r.k, r.g) \/ (r.k.card = k0.card /\ r.g.card = g0.card)
    <3>1. c.waits[1] = NoFrame /\ CardIsOn(c, k0, g0) BY <1>1, <2>1, <2>2 DEF InBatch
    <3>2. ~CardWaits(c, g0) BY <3>1 DEF CardWaits, NoFrame, IsHome
    <3> QED BY <2>1, <3>1, <3>2 DEF CardIsOn, CardUntouched
  <2> QED BY <2>1, <2>2 DEF InBatch
<1>2. CASE c.result = "sent" /\ c.open /\ c.waits[1] # NoFrame
  <2>1. r \in Write(c, FALSE) BY <1>2 DEF Batched
  <2>2. KeepsViews(c, k0, g0) /\ (CardUntouched(c, k0, g0) \/ CardWaits(c, g0))
    BY <1>2 DEF InBatch, CardIsOn
  <2>3. CASE CardUntouched(c, k0, g0)
    <3>1. KeepsViews(r, k0, g0) /\ CardUntouched(r, k0, g0) /\ r.k = c.k BY <2>1, <2>2, <2>3, HomeIsWritten
    <3> QED BY <3>1 DEF CardUntouched
  <2>4. CASE CardWaits(c, g0)
    <3>1. /\ KeepsViews(r, k0, g0) /\ r.k = c.k
          /\ r.result = "sent" => CardInStep(r.k, r.g)
          /\ r.result # "sent" => r.g.card = c.g.card
      BY <1>2, <2>1, <2>2, <2>4, CardArrives
    <3> QED BY <2>4, <3>1 DEF CardWaits
  <2> QED BY <2>2, <2>3, <2>4
<1> QED BY <1>1, <1>2

-----------------------------------------------------------------------------
\* The work on one slot: who the session is of stays, and as long as the socket is to
\* stay open, a page it reaches is in step.
AtWork(c, k0, slot, reaches) ==
    /\ IsWork(c) /\ IsSession(c.k) /\ Paged(c.k.stats) /\ IsPage(c.g)
    /\ c.result \in {"sent", "clean", "broken"}
    /\ \A x \in {"open", "closing", "peer", "bound"} : c.k[x] = k0[x]
    /\ c.g.slot = slot
    /\ c.open /\ reaches => InStep(c.k, c.g)

Compared == {"settings", "diagnostic", "log", "history", "stats"}

\* Being in step depends on the card and the views only.
LEMMA InStepMoves ==
  ASSUME NEW k, NEW g, NEW k2, NEW g2, InStep(k, g),
         \A x \in Compared : k2[x] = k[x] /\ g2[x] = g[x],
         CardInStep(k2, g2) \/ (k2.card = k.card /\ g2.card = g.card)
  PROVE  InStep(k2, g2)
<1>1. /\ k2.settings = k.settings /\ k2.diagnostic = k.diagnostic /\ k2.log = k.log
      /\ k2.history = k.history /\ k2.stats = k.stats /\ g2.settings = g.settings
      /\ g2.diagnostic = g.diagnostic /\ g2.log = g.log /\ g2.history = g.history /\ g2.stats = g.stats
  BY DEF Compared
<1>2. CardInStep(k2, g2) BY DEF CardInStep, InStep
<1> QED BY <1>1, <1>2 DEF InStep, SettingsInStep, DiagnosticInStep, LogInStep, HistoryInStep, StatsInStep

\* A batch keeps the slot at work: it is out, it was rolled back, or the socket closes
\* (sendUiStream).
LEMMA BatchKeepsStep ==
  ASSUME NEW c, NEW k0, NEW slot, NEW reaches, AtWork(c, k0, slot, reaches), c.result = "sent",
         c.waits = NoFrames, c.open = TRUE, c.ends = FALSE, NEW n, NEW fits, NEW r \in SendBatch(c, n, fits)
  PROVE  AtWork(r, k0, slot, reaches)
<1> DEFINE k == c.k
           g == c.g
<1>1. PICK home \in SendHome(c, n, fits[1]) :
        \E card \in SendCard(home, n, fits[2]) : \E d \in Batched(card) : r = BatchEnds(c.k, d)
  BY DEF SendBatch
<1>2. PICK card \in SendCard(home, n, fits[2]) : \E d \in Batched(card) : r = BatchEnds(c.k, d)
  BY <1>1
<1>3. PICK d \in Batched(card) : r = BatchEnds(k, d) BY <1>2
<1>4. c.waits[1] = NoFrame /\ c.waits[2] = NoFrame BY DEF NoFrames
<1>5. KeepsViews(c, k, g) BY DEF KeepsViews, AtWork, IsSession
<1>6. CardUntouched(c, k, g) BY <1>4 DEF CardUntouched, IsHome
<1> HIDE DEF k, g
<1>7. KeepsViews(home, k, g) /\ CardUntouched(home, k, g) /\ (home.result = "broken" => home.open = FALSE)
  BY <1>1, <1>4, <1>5, <1>6, HomeLeavesTheViews
<1>8. InBatch(card, k, g) BY <1>2, <1>7, CardLeavesTheViews
<1>9. /\ KeepsViews(d, k, g)
      /\ d.result = "clean" => d.g.card = g.card
      /\ d.result = "sent" /\ d.open => CardInStep(d.k, d.g) \/ (d.k.card = k.card /\ d.g.card = g.card)
  BY <1>3, <1>8, WhatWaitsIsFlushed
<1>10. /\ IsSession(k) /\ Paged(k.stats) /\ IsPage(g) /\ g.slot = slot
       /\ \A x \in {"open", "closing", "peer", "bound"} : k[x] = k0[x]
       /\ reaches => InStep(k, g)
  BY DEF AtWork, k, g
<1>11. /\ IsRec(d.k, SessionFields) /\ IsRec(d.k.card, {"owed", "seq", "cycle", "count"})
       /\ \A x \in {"open", "closing", "peer", "bound"} \cup Compared : d.k[x] = k[x]
       /\ d.g.slot = slot /\ \A x \in Compared : d.g[x] = g[x]
  BY <1>9, <1>10 DEF KeepsViews, SessionFields, Compared
<1>12. IsSession(d.k) /\ Paged(d.k.stats)
  <2>1. /\ d.k.settings = k.settings /\ d.k.diagnostic = k.diagnostic /\ d.k.log = k.log
        /\ d.k.history = k.history /\ d.k.stats = k.stats
    BY <1>11 DEF Compared
  <2> QED BY <1>10, <1>11, <2>1 DEF IsSession
<1>13. \A x \in Compared : d.k[x] = k[x] /\ d.g[x] = g[x] BY <1>11
<1>14. CASE d.result = "sent"
  <2>1. r = d BY <1>3, <1>14 DEF BatchEnds
  <2>2. ASSUME d.open, reaches PROVE InStep(d.k, d.g)
    <3>1. InStep(k, g) BY <1>10, <2>2
    <3>2. CardInStep(d.k, d.g) \/ (d.k.card = k.card /\ d.g.card = g.card) BY <1>9, <1>14, <2>2
    <3> QED BY <1>13, <3>1, <3>2, InStepMoves
  <2> QED BY <1>9, <1>10, <1>11, <1>12, <2>1, <2>2 DEF AtWork, KeepsViews
<1>15. CASE d.result = "broken"
  <2>1. r = [d EXCEPT !.open = FALSE] BY <1>3, <1>15 DEF BatchEnds
  <2>2. KeepsViews(r, k, g) /\ r.open = FALSE /\ r.k = d.k /\ r.g = d.g BY <1>9, <2>1, BreakingOff
  <2> QED BY <1>10, <1>11, <1>12, <2>2 DEF AtWork, KeepsViews
<1>16. CASE d.result = "clean"
  <2> DEFINE back == IF d.open THEN RolledBack(k, d.k) ELSE d.k
  <2>1. r = [d EXCEPT !.k = back, !.ends = TRUE] BY <1>3, <1>16 DEF BatchEnds
  <2> HIDE DEF back
  <2>2. /\ r = [x \in WorkFields |-> r[x]] /\ r.k = back /\ r.g = d.g /\ r.open = d.open
        /\ r.result = d.result /\ r.waits = d.waits
    BY <1>9, <2>1 DEF KeepsViews, IsWork, IsRec, WorkFields
  <2>3. IsWork(r) BY <1>9, <2>2 DEF KeepsViews, IsWork, IsRec
  <2>4. CASE d.open
    <3>1. back = [k EXCEPT !.presets.sent = d.k.presets.sent] BY <2>4 DEF back, RolledBack
    <3>2. /\ back = [x \in SessionFields |-> back[x]] /\ back.card = k.card
          /\ \A x \in {"open", "closing", "peer", "bound"} \cup Compared : back[x] = k[x]
      BY <1>10, <3>1 DEF IsSession, IsRec, SessionFields, Compared
    <3>3. /\ back.settings = k.settings /\ back.diagnostic = k.diagnostic /\ back.log = k.log
          /\ back.history = k.history /\ back.stats = k.stats
      BY <3>2 DEF Compared
    <3>4. IsSession(back) /\ Paged(back.stats)
      <4>1. IsRec(back, SessionFields) BY <3>2 DEF IsRec
      <4> QED BY <1>10, <3>2, <3>3, <4>1 DEF IsSession
    <3>5. ASSUME reaches PROVE InStep(back, d.g)
      <4>1. InStep(k, g) BY <1>10, <3>5
      <4>2. \A x \in Compared : back[x] = k[x] /\ d.g[x] = g[x] BY <1>11, <3>2
      <4>3. back.card = k.card /\ d.g.card = g.card BY <1>9, <1>16, <3>2
      <4> QED BY <4>1, <4>2, <4>3, InStepMoves
    <3> QED BY <1>9, <1>10, <1>11, <1>16, <2>2, <2>3, <3>2, <3>4, <3>5 DEF AtWork, KeepsViews
  <2>5. CASE ~d.open
    <3>1. back = d.k BY <2>5 DEF back
    <3> QED BY <1>9, <1>10, <1>11, <1>12, <1>16, <2>2, <2>3, <2>5, <3>1 DEF AtWork, KeepsViews
  <2> QED BY <2>4, <2>5
<1> QED BY <1>9, <1>14, <1>15, <1>16 DEF KeepsViews

-----------------------------------------------------------------------------
\* What comes of a frame on its own: the session is as accepted and the page was told,
\* as deferred and it was not, or the socket is to close.
Comes(r, c, f, accepted, deferred) ==
    /\ IsWork(r) /\ r.ends = c.ends
    /\ \/ r.open = FALSE /\ r.k \in {c.k, accepted} /\ r.g = c.g /\ r.result \in {"sent", "broken"}
       \/ r.open = c.open /\ r.result = "sent" /\ r.k = accepted /\ r.g = Tells(c.g, f)
       \/ r.open = c.open /\ r.result = "clean" /\ r.k = deferred /\ r.g = c.g

\* A frame on its own comes to one of three ends (sendUiStreamFrame).
LEMMA WhatComesOfAFrame ==
  ASSUME NEW c, IsWork(c), c.result = "sent", NEW f, NEW accepted, NEW deferred,
         NEW r \in Sent(c, f, accepted, deferred)
  PROVE  Comes(r, c, f, accepted, deferred)
<1> USE DEF Comes
<1>1. CASE ~Owns(c.k)
  <2>1. r = [c EXCEPT !.open = FALSE] BY <1>1 DEF Sent
  <2>2. /\ r = [x \in WorkFields |-> r[x]] /\ r.k = c.k /\ r.g = c.g /\ r.open = FALSE /\ r.ends = c.ends
        /\ r.result = c.result /\ r.waits = c.waits
    BY <2>1 DEF IsWork, IsRec, WorkFields
  <2>3. IsWork(r) BY <2>2 DEF IsWork, IsRec
  <2> QED BY <2>2, <2>3
<1>2. CASE Owns(c.k)
  <2> DEFINE e == [c EXCEPT !.k = accepted]
             w == Waiting(e, f)
  <2>1. PICK d \in Write(w, FALSE) : r = Taken(d, deferred) BY <1>2 DEF Sent, Alone
  <2>2. /\ e = [x \in WorkFields |-> e[x]] /\ e.k = accepted /\ e.g = c.g /\ e.open = c.open
        /\ e.ends = c.ends /\ e.result = "sent" /\ e.waits = c.waits
    BY DEF IsWork, IsRec, WorkFields
  <2>3. IsWork(e)
    <3> HIDE DEF e
    <3> QED BY <2>2 DEF IsWork, IsRec
  <2> HIDE DEF e
  <2>4. /\ IsWork(w) /\ w.k = accepted /\ w.g = c.g /\ w.open = c.open /\ w.ends = c.ends
        /\ w.result = "sent" /\ w.waits[1] = f /\ w.waits[2] = NoFrame
    BY <2>2, <2>3, OneFrameWaits
  <2> HIDE DEF w
  <2>5. /\ IsWork(d) /\ d.k = accepted /\ d.open = c.open /\ d.ends = c.ends
        /\ \/ d.result = "sent" /\ d.g = Tells(Tells(c.g, f), NoFrame)
           \/ d.result \in {"clean", "broken"} /\ d.g = c.g
    <3>1. /\ IsWork(d) /\ d.k = w.k /\ d.open = w.open /\ d.ends = w.ends
          /\ \/ d.result = w.result /\ d.g = Tells(Tells(w.g, w.waits[1]), w.waits[2])
             \/ d.result \in {"clean", "broken"} /\ d.g = w.g
      BY <2>1, <2>4, WriteIsAllOrNothing
    <3> QED BY <2>4, <3>1
  <2>6. Tells(Tells(c.g, f), NoFrame) = Tells(c.g, f)
    <3> DEFINE t == Tells(c.g, f)
    <3> HIDE DEF t
    <3>1. Tells(t, NoFrame) = t BY DEF Tells, NoFrame, Sections
    <3> QED BY <3>1 DEF t
  <2>7. CASE d.result = "sent"
    <3>1. r = d BY <2>1, <2>7 DEF Taken
    <3> QED BY <2>5, <2>6, <2>7, <3>1
  <2>8. CASE d.result = "clean"
    <3>1. r = [d EXCEPT !.k = deferred] BY <2>1, <2>8 DEF Taken
    <3>2. /\ r = [x \in WorkFields |-> r[x]] /\ r.k = deferred /\ r.g = d.g /\ r.open = d.open /\ r.ends = d.ends
          /\ r.result = d.result /\ r.waits = d.waits
      BY <2>5, <3>1 DEF IsWork, IsRec, WorkFields
    <3>3. IsWork(r) BY <2>5, <3>2 DEF IsWork, IsRec
    <3> QED BY <2>5, <2>8, <3>2, <3>3
  <2>9. CASE d.result = "broken"
    <3>1. r = [d EXCEPT !.open = FALSE] BY <2>1, <2>9 DEF Taken
    <3>2. /\ r = [x \in WorkFields |-> r[x]] /\ r.k = d.k /\ r.g = d.g /\ r.open = FALSE /\ r.ends = d.ends
          /\ r.result = d.result /\ r.waits = d.waits
      BY <2>5, <3>1 DEF IsWork, IsRec, WorkFields
    <3>3. IsWork(r) BY <2>5, <3>2 DEF IsWork, IsRec
    <3> QED BY <2>5, <2>9, <3>2, <3>3
  <2> QED BY <2>5, <2>7, <2>8, <2>9
<1> QED BY <1>1, <1>2

\* What every view has to show of its frame.
LEMMA ViewKeepsStep ==
  ASSUME NEW c, NEW k0, NEW slot, NEW reaches, AtWork(c, k0, slot, reaches), c.result = "sent",
         NEW f, NEW accepted, NEW deferred,
         IsSession(accepted) /\ Paged(accepted.stats), IsSession(deferred) /\ Paged(deferred.stats),
         \A x \in {"open", "closing", "peer", "bound"} : accepted[x] = c.k[x] /\ deferred[x] = c.k[x],
         IsPage(Tells(c.g, f)), Tells(c.g, f).slot = c.g.slot,
         InStep(c.k, c.g) => InStep(accepted, Tells(c.g, f)) /\ InStep(deferred, c.g),
         NEW r \in Sent(c, f, accepted, deferred)
  PROVE  AtWork(r, k0, slot, reaches)
<1> DEFINE told == Tells(c.g, f)
<1>1. /\ IsWork(c) /\ IsSession(c.k) /\ Paged(c.k.stats) /\ IsPage(c.g) /\ c.g.slot = slot
      /\ \A x \in {"open", "closing", "peer", "bound"} : c.k[x] = k0[x]
      /\ c.open /\ reaches => InStep(c.k, c.g)
  BY DEF AtWork
<1>2. /\ IsPage(told) /\ told.slot = slot
      /\ InStep(c.k, c.g) => InStep(accepted, told) /\ InStep(deferred, c.g)
  BY <1>1
<1>3. /\ IsWork(r) /\ r.ends = c.ends
      /\ \/ r.open = FALSE /\ r.k \in {c.k, accepted} /\ r.g = c.g /\ r.result \in {"sent", "broken"}
         \/ r.open = c.open /\ r.result = "sent" /\ r.k = accepted /\ r.g = told
         \/ r.open = c.open /\ r.result = "clean" /\ r.k = deferred /\ r.g = c.g
  <2>1. IsWork(c) BY <1>1
  <2>2. Comes(r, c, f, accepted, deferred) BY <2>1, WhatComesOfAFrame
  <2> QED BY <2>2 DEF Comes
<1> HIDE DEF told
<1>4. CASE r.open = FALSE /\ r.k \in {c.k, accepted} /\ r.g = c.g /\ r.result \in {"sent", "broken"}
  BY <1>1, <1>3, <1>4 DEF AtWork
<1>5. CASE r.open = c.open /\ r.result = "sent" /\ r.k = accepted /\ r.g = told
  BY <1>1, <1>2, <1>3, <1>5 DEF AtWork
<1>6. CASE r.open = c.open /\ r.result = "clean" /\ r.k = deferred /\ r.g = c.g
  BY <1>1, <1>2, <1>3, <1>6 DEF AtWork
<1> QED BY <1>3, <1>4, <1>5, <1>6

\* A frame that was dropped cleanly does not stop the views that follow.
LEMMA AgainAtWork ==
  ASSUME NEW c, NEW k0, NEW slot, NEW reaches, AtWork(c, k0, slot, reaches)
  PROVE  AtWork(Again(c), k0, slot, reaches)
<1> DEFINE r == Again(c)
<1>1. CASE ~(c.result = "clean" /\ ~c.ends) BY <1>1 DEF Again
<1>2. CASE c.result = "clean" /\ ~c.ends
  <2>1. r = [c EXCEPT !.result = "sent"] BY <1>2 DEF Again
  <2>2. /\ r = [x \in WorkFields |-> r[x]] /\ r.k = c.k /\ r.g = c.g /\ r.open = c.open
        /\ r.result = "sent" /\ r.waits = c.waits
    BY <2>1 DEF AtWork, IsWork, IsRec, WorkFields
  <2> HIDE DEF r
  <2>3. IsWork(r) BY <2>2 DEF AtWork, IsWork, IsRec
  <2>4. AtWork(r, k0, slot, reaches) BY <2>2, <2>3 DEF AtWork
  <2> QED BY <2>4 DEF r
<1> QED BY <1>1, <1>2

\* k2 is k but for one view.
ButFor(k2, k, v) == IsRec(k2, SessionFields) /\ \A x \in SessionFields \ {v} : k2[x] = k[x]

\* A session stays a session when one of its views changes.
LEMMA OneViewMoves ==
  ASSUME NEW k, IsSession(k), NEW v \in {"settings", "diagnostic", "log", "history", "stats"},
         NEW k2, ButFor(k2, k, v),
         v = "settings" => IsRec(k2.settings, {"on", "owed", "value"}),
         v = "diagnostic" => IsRec(k2.diagnostic, {"on", "owed", "value", "sample"})
                               /\ IsRec(k2.diagnostic.sample, Sections),
         v = "log" => IsRec(k2.log, {"on", "push", "after"}),
         v = "history" => IsRec(k2.history, {"on", "owed", "fetch", "epoch", "held"}),
         v = "stats" => IsRec(k2.stats, StatsFields)
  PROVE  /\ IsSession(k2) /\ (v # "stats" => k2.stats = k.stats)
         /\ \A x \in {"open", "closing", "peer", "bound"} : k2[x] = k[x]
<1>1. /\ k2.card = k.card
      /\ v # "settings" => k2.settings = k.settings
      /\ v # "diagnostic" => k2.diagnostic = k.diagnostic
      /\ v # "log" => k2.log = k.log
      /\ v # "history" => k2.history = k.history
      /\ v # "stats" => k2.stats = k.stats
  BY DEF ButFor, SessionFields
<1>2. \A x \in {"open", "closing", "peer", "bound"} : k2[x] = k[x] BY DEF ButFor, SessionFields
<1>3. IsRec(k2, SessionFields) BY DEF ButFor
<1>4. IsRec(k2.settings, {"on", "owed", "value"}) BY <1>1 DEF IsSession
<1>5. IsRec(k2.diagnostic, {"on", "owed", "value", "sample"}) /\ IsRec(k2.diagnostic.sample, Sections)
  BY <1>1 DEF IsSession
<1>6. IsRec(k2.log, {"on", "push", "after"}) BY <1>1 DEF IsSession
<1>7. IsRec(k2.history, {"on", "owed", "fetch", "epoch", "held"}) BY <1>1 DEF IsSession
<1>8. IsRec(k2.stats, StatsFields) BY <1>1 DEF IsSession
<1>9. IsRec(k2.card, {"owed", "seq", "cycle", "count"}) BY <1>1 DEF IsSession
<1> QED BY <1>1, <1>2, <1>3, <1>4, <1>5, <1>6, <1>7, <1>8, <1>9 DEF IsSession

-----------------------------------------------------------------------------
\* A view of the page that a frame tells moves on its own.
LEMMA OneViewIsTold ==
  ASSUME NEW g, IsPage(g), NEW v \in {"settings", "diagnostic", "log", "history", "stats"}, NEW h,
         IsRec(h, PageFields), \A x \in PageFields \ {v} : h[x] = g[x],
         v = "diagnostic" => IsRec(h.diagnostic, {"value", "sample"}) /\ IsRec(h.diagnostic.sample, Sections),
         v = "stats" => IsRec(h.stats, {"known", "shown", "header", "building"})
  PROVE  IsPage(h) /\ h.slot = g.slot
<1>1. /\ h.slot = g.slot
      /\ v # "diagnostic" => h.diagnostic = g.diagnostic
      /\ v # "stats" => h.stats = g.stats
  BY DEF PageFields
<1>2. IsRec(h.diagnostic, {"value", "sample"}) /\ IsRec(h.diagnostic.sample, Sections) BY <1>1 DEF IsPage
<1>3. IsRec(h.stats, {"known", "shown", "header", "building"}) BY <1>1 DEF IsPage
<1> QED BY <1>1, <1>2, <1>3 DEF IsPage

\* A session and a page of which one view moved are in step when that view is.
InStepFor(k, g, v) ==
    CASE v = "settings" -> SettingsInStep(k, g)
      [] v = "diagnostic" -> DiagnosticInStep(k, g)
      [] v = "log" -> LogInStep(k, g)
      [] v = "history" -> HistoryInStep(k, g)
      [] v = "stats" -> StatsInStep(k, g) /\ Assembles(k.stats, g.stats)

\* When one view changed, only that view has to be shown to be in step.
LEMMA OneViewInStep ==
  ASSUME NEW k, NEW g, InStep(k, g), NEW v \in {"settings", "diagnostic", "log", "history", "stats"},
         NEW k2, ButFor(k2, k, v), NEW g2, \A x \in PageFields \ {v} : g2[x] = g[x],
         InStepFor(k2, g2, v)
  PROVE  InStep(k2, g2)
<1>1. /\ k2.card = k.card /\ g2.card = g.card
      /\ v # "settings" => k2.settings = k.settings /\ g2.settings = g.settings
      /\ v # "diagnostic" => k2.diagnostic = k.diagnostic /\ g2.diagnostic = g.diagnostic
      /\ v # "log" => k2.log = k.log /\ g2.log = g.log
      /\ v # "history" => k2.history = k.history /\ g2.history = g.history
      /\ v # "stats" => k2.stats = k.stats /\ g2.stats = g.stats
  BY DEF ButFor, SessionFields, PageFields
<1>2. CardInStep(k2, g2) BY <1>1 DEF InStep, CardInStep
<1>3. SettingsInStep(k2, g2) BY <1>1 DEF InStep, SettingsInStep, InStepFor
<1>4. DiagnosticInStep(k2, g2) BY <1>1 DEF InStep, DiagnosticInStep, InStepFor
<1>5. LogInStep(k2, g2) BY <1>1 DEF InStep, LogInStep, InStepFor
<1>6. HistoryInStep(k2, g2) BY <1>1 DEF InStep, HistoryInStep, InStepFor
<1>7. StatsInStep(k2, g2) /\ Assembles(k2.stats, g2.stats)
  BY <1>1 DEF InStep, StatsInStep, InStepFor
<1> QED BY <1>2, <1>3, <1>4, <1>5, <1>6, <1>7 DEF InStep

\* The settings: sendSettingsStream.
LEMMA SettingsKeepStep ==
  ASSUME NEW c, NEW k0, NEW slot, NEW reaches, AtWork(c, k0, slot, reaches), NEW n,
         NEW r \in SendSettings(c, n)
  PROVE  AtWork(r, k0, slot, reaches)
<1> DEFINE k == c.k
           a0 == [k EXCEPT !.settings.value = n.value]
           compared == [k EXCEPT !.settings.value = n.value, !.settings.owed = FALSE]
           deferred == SettingsDeferred(compared)
           f == [part |-> "settings", value |-> n.value]
           told == Tells(c.g, f)
           fields == {"on", "owed", "value"}
<1>0. IsSession(k) /\ Paged(k.stats) /\ IsPage(c.g) BY DEF AtWork
<1>1. CASE ~(GoesOn(c) /\ k.settings.on /\ SettingsMoved(k, n)) BY <1>1 DEF SendSettings
<1>2. CASE GoesOn(c) /\ k.settings.on /\ SettingsMoved(k, n)
  <2>1. PICK d \in Sent(c, f, compared, deferred) : r = Again(d) BY <1>2 DEF SendSettings
  <2>2. /\ compared = [x \in SessionFields |-> compared[x]]
        /\ compared.settings = [x \in fields |-> compared.settings[x]]
        /\ compared.settings.owed = FALSE /\ compared.settings.value = n.value
        /\ \A x \in SessionFields \ {"settings"} : compared[x] = k[x]
    <3>1. /\ a0 = [x \in SessionFields |-> a0[x]] /\ a0.settings = [k.settings EXCEPT !.value = n.value]
          /\ \A x \in SessionFields \ {"settings"} : a0[x] = k[x]
      BY <1>0 DEF IsSession, IsRec, SessionFields
    <3>2. k.settings = [x \in fields |-> k.settings[x]] BY <1>0 DEF IsSession, IsRec
    <3>3. compared = [a0 EXCEPT !.settings.owed = FALSE] OBVIOUS
    <3> HIDE DEF a0, compared, k
    <3>4. /\ compared = [x \in SessionFields |-> compared[x]]
          /\ compared.settings = [a0.settings EXCEPT !.owed = FALSE]
          /\ \A x \in SessionFields \ {"settings"} : compared[x] = a0[x]
      BY <3>1, <3>3 DEF SessionFields
    <3>5. a0.settings = [x \in fields |-> a0.settings[x]] /\ a0.settings.value = n.value BY <3>1, <3>2
    <3> QED BY <3>1, <3>4, <3>5
  <2> HIDE DEF compared
  <2>3. /\ deferred = [x \in SessionFields |-> deferred[x]]
        /\ deferred.settings = [compared.settings EXCEPT !.owed = TRUE]
        /\ \A x \in SessionFields \ {"settings"} : deferred[x] = compared[x]
    BY <2>2 DEF SettingsDeferred, SessionFields
  <2> HIDE DEF deferred
  <2>4. deferred.settings = [x \in fields |-> deferred.settings[x]] /\ deferred.settings.owed = TRUE
    BY <2>2, <2>3
  <2>5. ButFor(compared, k, "settings") /\ ButFor(deferred, k, "settings")
    BY <2>2, <2>3 DEF ButFor, IsRec
  <2>6. told = [c.g EXCEPT !.settings = n.value] BY DEF Tells, Sections
  <2>7. /\ told = [x \in PageFields |-> told[x]] /\ told.settings = n.value
        /\ \A x \in PageFields \ {"settings"} : told[x] = c.g[x]
    BY <1>0, <2>6 DEF IsPage, IsRec, PageFields
  <2> HIDE DEF told, f, k
  <2>8. IsPage(told) /\ told.slot = c.g.slot BY <1>0, <2>7, OneViewIsTold DEF IsRec
  <2>9. /\ IsSession(compared) /\ compared.stats = k.stats
        /\ \A x \in {"open", "closing", "peer", "bound"} : compared[x] = k[x]
    BY <1>0, <2>2, <2>5, OneViewMoves DEF IsRec
  <2>10. /\ IsSession(deferred) /\ deferred.stats = k.stats
         /\ \A x \in {"open", "closing", "peer", "bound"} : deferred[x] = k[x]
    BY <1>0, <2>4, <2>5, OneViewMoves DEF IsRec
  <2>11. ASSUME InStep(k, c.g) PROVE InStep(compared, told) /\ InStep(deferred, c.g)
    <3>1. InStepFor(compared, told, "settings") BY <2>2, <2>7 DEF InStepFor, SettingsInStep
    <3>2. InStepFor(deferred, c.g, "settings") BY <2>4 DEF InStepFor, SettingsInStep
    <3>3. InStep(compared, told) BY <2>5, <2>7, <2>11, <3>1, OneViewInStep
    <3>4. InStep(deferred, c.g) BY <2>5, <2>11, <3>2, OneViewInStep
    <3> QED BY <3>3, <3>4
  <2>12. AtWork(d, k0, slot, reaches)
    <3>1. c.result = "sent" BY <1>2 DEF GoesOn
    <3>2. Paged(compared.stats) /\ Paged(deferred.stats) BY <1>0, <2>9, <2>10
    <3>3. \A x \in {"open", "closing", "peer", "bound"} : compared[x] = c.k[x] /\ deferred[x] = c.k[x]
      BY <2>9, <2>10 DEF k
    <3>4. IsPage(Tells(c.g, f)) /\ Tells(c.g, f).slot = c.g.slot BY <2>8 DEF told
    <3>5. InStep(c.k, c.g) => InStep(compared, Tells(c.g, f)) /\ InStep(deferred, c.g)
      BY <2>11 DEF told, k
    <3> QED BY <2>1, <2>9, <2>10, <3>1, <3>2, <3>3, <3>4, <3>5, ViewKeepsStep
  <2> QED BY <2>1, <2>12, AgainAtWork
<1> QED BY <1>1, <1>2

\* The log: sendLogStream.
LEMMA LogKeepsStep ==
  ASSUME NEW c, NEW k0, NEW slot, NEW reaches, AtWork(c, k0, slot, reaches), NEW r \in SendLog(c)
  PROVE  AtWork(r, k0, slot, reaches)
<1> DEFINE k == c.k
           next == IF k.log.after < uiUsed.changes THEN k.log.after + 1 ELSE k.log.after
           more == next < uiUsed.changes
           a0 == [k EXCEPT !.log.after = next]
           accepted == [k EXCEPT !.log.after = next, !.log.push = more]
           f == [part |-> "log", value |-> next]
           told == Tells(c.g, f)
           fields == {"on", "push", "after"}
<1>0. IsSession(k) /\ Paged(k.stats) /\ IsPage(c.g) BY DEF AtWork
<1>1. CASE ~(GoesOn(c) /\ k.log.on /\ (k.log.push \/ k.log.after # uiUsed.changes)) BY <1>1 DEF SendLog
<1>2. CASE GoesOn(c) /\ k.log.on /\ (k.log.push \/ k.log.after # uiUsed.changes)
  <2>1. PICK d \in Sent(c, f, accepted, k) : r = Again(d) BY <1>2 DEF SendLog
  <2> HIDE DEF next, more
  <2>2. /\ accepted = [x \in SessionFields |-> accepted[x]]
        /\ accepted.log = [x \in fields |-> accepted.log[x]] /\ accepted.log.after = next
        /\ \A x \in SessionFields \ {"log"} : accepted[x] = k[x]
    <3>1. /\ a0 = [x \in SessionFields |-> a0[x]] /\ a0.log = [k.log EXCEPT !.after = next]
          /\ \A x \in SessionFields \ {"log"} : a0[x] = k[x]
      BY <1>0 DEF IsSession, IsRec, SessionFields
    <3>2. k.log = [x \in fields |-> k.log[x]] BY <1>0 DEF IsSession, IsRec
    <3>3. accepted = [a0 EXCEPT !.log.push = more] OBVIOUS
    <3> HIDE DEF a0, accepted, k
    <3>4. /\ accepted = [x \in SessionFields |-> accepted[x]]
          /\ accepted.log = [a0.log EXCEPT !.push = more]
          /\ \A x \in SessionFields \ {"log"} : accepted[x] = a0[x]
      BY <3>1, <3>3 DEF SessionFields
    <3>5. a0.log = [x \in fields |-> a0.log[x]] /\ a0.log.after = next BY <3>1, <3>2
    <3> QED BY <3>1, <3>4, <3>5
  <2> HIDE DEF accepted
  <2>3. ButFor(accepted, k, "log") BY <2>2 DEF ButFor, IsRec
  <2>4. told = [c.g EXCEPT !.log = next] BY DEF Tells, Sections
  <2>5. /\ told = [x \in PageFields |-> told[x]] /\ told.log = next
        /\ \A x \in PageFields \ {"log"} : told[x] = c.g[x]
    BY <1>0, <2>4 DEF IsPage, IsRec, PageFields
  <2> HIDE DEF told, f, k
  <2>6. IsPage(told) /\ told.slot = c.g.slot BY <1>0, <2>5, OneViewIsTold DEF IsRec
  <2>7. /\ IsSession(accepted) /\ accepted.stats = k.stats
        /\ \A x \in {"open", "closing", "peer", "bound"} : accepted[x] = k[x]
    BY <1>0, <2>2, <2>3, OneViewMoves DEF IsRec
  <2>8. ASSUME InStep(k, c.g) PROVE InStep(accepted, told)
    <3>1. InStepFor(accepted, told, "log") BY <2>2, <2>5 DEF InStepFor, LogInStep
    <3> QED BY <2>3, <2>5, <2>8, <3>1, OneViewInStep
  <2>9. AtWork(d, k0, slot, reaches)
    <3>1. c.result = "sent" BY <1>2 DEF GoesOn
    <3>2. Paged(accepted.stats) BY <1>0, <2>7
    <3>3. \A x \in {"open", "closing", "peer", "bound"} : accepted[x] = c.k[x] /\ k[x] = c.k[x]
      BY <2>7 DEF k
    <3>4. IsPage(Tells(c.g, f)) /\ Tells(c.g, f).slot = c.g.slot BY <2>6 DEF told
    <3>5. InStep(c.k, c.g) => InStep(accepted, Tells(c.g, f)) /\ InStep(k, c.g)
      BY <2>8 DEF told, k
    <3> QED BY <1>0, <2>1, <2>7, <3>1, <3>2, <3>3, <3>4, <3>5, ViewKeepsStep
  <2> QED BY <2>1, <2>9, AgainAtWork
<1> QED BY <1>1, <1>2

-----------------------------------------------------------------------------
\* A row goes out by its id only when the page shows its content.
LEMMA KeptRowIsShown ==
  ASSUME NEW held, NEW shown, NEW i, NEW content \in Contents,
         Row(held, i, content) = Kept, held = <<>> \/ held = shown
  PROVE  i \in DOMAIN shown /\ shown[i] = content
<1>1. Held(held, i, content) BY DEF Row, Contents, Kept
<1>2. i \in DOMAIN held /\ held[i] = content BY <1>1 DEF Held
<1>3. held # <<>> BY <1>2
<1> QED BY <1>2, <1>3

\* The page of History: sendHistoryStream.
LEMMA HistoryIsTold ==
  ASSUME DeviceOK, NEW h, NEW shown, h.held = <<>> \/ h.held = shown
  PROVE  LET f == HistoryFrame(h) IN Told(f.rows, shown, 0) = device.rows
<1> DEFINE f == HistoryFrame(h)
           rows == Told(f.rows, shown, 0)
<1>1. /\ f.rows = [i \in DOMAIN device.rows |->
            IF h.owed \/ h.fetch THEN device.rows[i] ELSE Row(h.held, i, device.rows[i])]
  BY DEF HistoryFrame
<1> HIDE DEF f
<1>2. device.rows = [i \in DOMAIN device.rows |-> device.rows[i]] /\ DOMAIN device.rows \subseteq Nat
      /\ \A i \in DOMAIN device.rows : device.rows[i] \in Contents
  BY DEF DeviceOK
<1>3. ASSUME NEW i \in DOMAIN device.rows
      PROVE  (IF f.rows[i] = Kept THEN shown[0 + i] ELSE f.rows[i]) = device.rows[i]
  <2>1. device.rows[i] \in Contents /\ 0 + i = i BY <1>2
  <2>2. f.rows[i] = IF h.owed \/ h.fetch THEN device.rows[i] ELSE Row(h.held, i, device.rows[i])
    BY <1>1
  <2>3. device.rows[i] # Kept BY <2>1 DEF Contents
  <2>4. CASE h.owed \/ h.fetch BY <2>2, <2>3, <2>4
  <2>5. CASE ~(h.owed \/ h.fetch)
    <3>1. f.rows[i] = Row(h.held, i, device.rows[i]) BY <2>2, <2>5
    <3>2. CASE f.rows[i] = Kept
      <4>1. Row(h.held, i, device.rows[i]) = Kept BY <3>1, <3>2
      <4> DEFINE content == device.rows[i]
                 held == h.held
      <4>2. content \in Contents /\ Row(held, i, content) = Kept /\ (held = <<>> \/ held = shown) BY <2>1, <4>1
      <4> HIDE DEF content, held
      <4>3. shown[i] = content BY <4>2, KeptRowIsShown
      <4> QED BY <2>1, <3>2, <4>3 DEF content
    <3>3. CASE f.rows[i] # Kept BY <3>1, <3>3 DEF Row
    <3> QED BY <3>2, <3>3
  <2> QED BY <2>4, <2>5
<1>4. rows = [i \in DOMAIN device.rows |-> IF f.rows[i] = Kept THEN shown[0 + i] ELSE f.rows[i]]
  BY <1>1 DEF Told
<1>5. rows = [i \in DOMAIN device.rows |-> device.rows[i]] BY <1>3, <1>4
<1> QED BY <1>2, <1>5 DEF f

\* The records of History, for a snapshot, a fetch or a difference (sendHistoryStream).
LEMMA HistoryKeepsStep ==
  ASSUME DeviceOK, NEW c, NEW k0, NEW slot, NEW reaches, AtWork(c, k0, slot, reaches),
         NEW r \in SendHistory(c)
  PROVE  AtWork(r, k0, slot, reaches)
<1> DEFINE k == c.k
           h == k.history
           accepted == [k EXCEPT !.history = HistoryAccepted(h)]
           late == h.fetch /\ ~h.owed
           deferred == [k EXCEPT !.history.fetch = @ /\ ~h.owed]
           f == HistoryFrame(h)
           told == Tells(c.g, f)
           fields == {"on", "owed", "fetch", "epoch", "held"}
<1>0. IsSession(k) /\ Paged(k.stats) /\ IsPage(c.g) BY DEF AtWork
<1>1. CASE ~(GoesOn(c) /\ h.on /\ (h.owed \/ h.fetch \/ h.epoch # device.epoch)) BY <1>1 DEF SendHistory
<1>2. CASE GoesOn(c) /\ h.on /\ (h.owed \/ h.fetch \/ h.epoch # device.epoch)
  <2>1. PICK d \in Sent(c, f, accepted, deferred) : r = Again(d) BY <1>2 DEF SendHistory
  <2>2. f.part = "history" /\ f.fetch = late BY DEF HistoryFrame
  <2>3. told = [c.g EXCEPT !.history = IF f.fetch THEN @ ELSE Told(f.rows, @, 0)]
    BY <2>2 DEF Tells, Sections
  <2>4. h = [x \in fields |-> h[x]] /\ IsRec(k, SessionFields) BY <1>0 DEF IsSession, IsRec
  <2>5. deferred.history = [h EXCEPT !.fetch = late] /\ ButFor(deferred, k, "history")
    BY <2>4 DEF ButFor, IsRec, SessionFields
  <2>6. accepted.history = HistoryAccepted(h) /\ ButFor(accepted, k, "history")
    BY <2>4 DEF ButFor, IsRec, SessionFields
  <2> HIDE DEF accepted, deferred, f, k
  <2>7. /\ told = [x \in PageFields |-> told[x]]
        /\ told.history = IF late THEN c.g.history ELSE Told(f.rows, c.g.history, 0)
        /\ \A x \in PageFields \ {"history"} : told[x] = c.g[x]
    BY <1>0, <2>2, <2>3 DEF IsPage, IsRec, PageFields
  <2> HIDE DEF told
  <2>8. IsPage(told) /\ told.slot = c.g.slot BY <1>0, <2>7, OneViewIsTold DEF IsRec
  <2>9. deferred.history = [x \in fields |-> deferred.history[x]] /\ deferred.history.held = h.held
    BY <2>4, <2>5
  <2>10. /\ accepted.history = [x \in fields |-> accepted.history[x]]
         /\ accepted.history.held = IF late THEN h.held ELSE device.rows
    <3>1. CASE late
      <4>1. accepted.history = [h EXCEPT !.fetch = FALSE] BY <2>6, <3>1 DEF HistoryAccepted
      <4> QED BY <2>4, <3>1, <4>1
    <3>2. CASE ~late
      <4>1. accepted.history = [h EXCEPT !.owed = FALSE, !.fetch = FALSE, !.epoch = device.epoch,
                                         !.held = device.rows]
        BY <2>6, <3>2 DEF HistoryAccepted
      <4> QED BY <2>4, <3>2, <4>1
    <3> QED BY <3>1, <3>2
  <2> HIDE DEF h
  <2>11. /\ IsSession(accepted) /\ accepted.stats = k.stats
         /\ \A x \in {"open", "closing", "peer", "bound"} : accepted[x] = k[x]
    BY <1>0, <2>6, <2>10, OneViewMoves DEF IsRec
  <2>12. /\ IsSession(deferred) /\ deferred.stats = k.stats
         /\ \A x \in {"open", "closing", "peer", "bound"} : deferred[x] = k[x]
    BY <1>0, <2>5, <2>9, OneViewMoves DEF IsRec
  <2>13. ASSUME InStep(k, c.g) PROVE InStep(accepted, told) /\ InStep(deferred, c.g)
    <3>1. h.held = <<>> \/ h.held = c.g.history BY <2>13 DEF InStep, HistoryInStep, h
    <3>2. Told(f.rows, c.g.history, 0) = device.rows BY <3>1, HistoryIsTold DEF f
    <3>3. InStepFor(accepted, told, "history")
      BY <2>7, <2>10, <3>1, <3>2 DEF InStepFor, HistoryInStep
    <3>4. InStepFor(deferred, c.g, "history") BY <2>9, <3>1 DEF InStepFor, HistoryInStep
    <3>5. InStep(accepted, told) BY <2>6, <2>7, <2>13, <3>3, OneViewInStep
    <3>6. InStep(deferred, c.g) BY <2>5, <2>13, <3>4, OneViewInStep
    <3> QED BY <3>5, <3>6
  <2>14. AtWork(d, k0, slot, reaches)
    <3>1. c.result = "sent" BY <1>2 DEF GoesOn
    <3>2. Paged(accepted.stats) /\ Paged(deferred.stats) BY <1>0, <2>11, <2>12
    <3>3. \A x \in {"open", "closing", "peer", "bound"} : accepted[x] = c.k[x] /\ deferred[x] = c.k[x]
      BY <2>11, <2>12 DEF k
    <3>4. IsPage(Tells(c.g, f)) /\ Tells(c.g, f).slot = c.g.slot BY <2>8 DEF told
    <3>5. InStep(c.k, c.g) => InStep(accepted, Tells(c.g, f)) /\ InStep(deferred, c.g)
      BY <2>13 DEF told, k
    <3> QED BY <2>1, <2>11, <2>12, <3>1, <3>2, <3>3, <3>4, <3>5, ViewKeepsStep
  <2> QED BY <2>1, <2>14, AgainAtWork
<1> QED BY <1>1, <1>2

-----------------------------------------------------------------------------
\* Diagnostics: sendDiagnosticStream.  In the course of a pass the page has the values
\* and the samples xs that the session has recorded, unless a snapshot is owed.
\* A sample under way: the sections of xs are told, or a snapshot is owed.
Elsewhere(k, g) ==
    /\ CardInStep(k, g) /\ SettingsInStep(k, g) /\ LogInStep(k, g) /\ HistoryInStep(k, g)
    /\ StatsInStep(k, g) /\ Assembles(k.stats, g.stats)
SampledTo(k, g, xs) ==
    /\ g.diagnostic.value = k.diagnostic.value
    /\ \A x \in xs : g.diagnostic.sample[x] = k.diagnostic.sample[x]
Sampling(c, k0, slot, reaches, xs) ==
    /\ IsWork(c) /\ IsSession(c.k) /\ Paged(c.k.stats) /\ IsPage(c.g)
    /\ c.result \in {"sent", "clean", "broken"} /\ ~c.ends
    /\ \A x \in {"open", "closing", "peer", "bound"} : c.k[x] = k0[x]
    /\ c.g.slot = slot
    /\ c.open /\ reaches =>
         /\ Elsewhere(c.k, c.g)
         /\ c.k.diagnostic.owed \/ (c.result = "sent" /\ SampledTo(c.k, c.g, xs))

\* Diagnostics move alone: everything else stays in step.
LEMMA ElsewhereStays ==
  ASSUME NEW k, NEW g, Elsewhere(k, g), NEW k2, ButFor(k2, k, "diagnostic"),
         NEW g2, \A x \in PageFields \ {"diagnostic"} : g2[x] = g[x]
  PROVE  Elsewhere(k2, g2)
<1>1. /\ k2.card = k.card /\ g2.card = g.card /\ k2.settings = k.settings /\ g2.settings = g.settings
      /\ k2.log = k.log /\ g2.log = g.log /\ k2.history = k.history /\ g2.history = g.history
      /\ k2.stats = k.stats /\ g2.stats = g.stats
  BY DEF ButFor, SessionFields, PageFields
<1>2. CardInStep(k2, g2) BY <1>1 DEF Elsewhere, CardInStep
<1>3. SettingsInStep(k2, g2) BY <1>1 DEF Elsewhere, SettingsInStep
<1>4. LogInStep(k2, g2) BY <1>1 DEF Elsewhere, LogInStep
<1>5. HistoryInStep(k2, g2) BY <1>1 DEF Elsewhere, HistoryInStep
<1>6. StatsInStep(k2, g2) /\ Assembles(k2.stats, g2.stats) BY <1>1 DEF Elsewhere, StatsInStep
<1> QED BY <1>2, <1>3, <1>4, <1>5, <1>6 DEF Elsewhere

\* A diagnostic sample with every section told is in step.
LEMMA SampledIsInStep ==
  ASSUME NEW k, NEW g, IsSession(k), IsPage(g)
  PROVE  /\ Elsewhere(k, g) /\ (k.diagnostic.owed \/ SampledTo(k, g, Sections)) => InStep(k, g)
         /\ InStep(k, g) => Elsewhere(k, g)
         /\ InStep(k, g) /\ k.diagnostic.on /\ ~k.diagnostic.owed => SampledTo(k, g, Sections)
<1> DEFINE e == g.diagnostic
           m == k.diagnostic
           es == e.sample
           ms == m.sample
<1>1. /\ e = [x \in {"value", "sample"} |-> e[x]] /\ es = [x \in Sections |-> es[x]]
      /\ ms = [x \in Sections |-> ms[x]]
  BY DEF IsPage, IsSession, IsRec
<1>2. InStep(k, g) <=> Elsewhere(k, g) /\ DiagnosticInStep(k, g) BY DEF InStep, Elsewhere
<1>3. SampledTo(k, g, Sections) <=> e.value = m.value /\ \A x \in Sections : es[x] = ms[x]
  BY DEF SampledTo
<1>4. DiagnosticInStep(k, g) <=> (m.on /\ ~m.owed => e = [value |-> m.value, sample |-> ms])
  BY DEF DiagnosticInStep
<1> HIDE DEF e, m
<1>5. (e = [value |-> m.value, sample |-> ms]) <=> e.value = m.value /\ es = ms
  <2> HIDE DEF ms
  <2>1. e = [value |-> m.value, sample |-> ms] => e.value = m.value /\ e.sample = ms OBVIOUS
  <2>2. ASSUME e.value = m.value, e.sample = ms PROVE e = [value |-> m.value, sample |-> ms]
    BY <1>1, <2>2
  <2> QED BY <2>1, <2>2
<1> HIDE DEF es, ms
<1>6. (es = ms) <=> \A x \in Sections : es[x] = ms[x]
  <2>1. ASSUME \A x \in Sections : es[x] = ms[x] PROVE es = ms
    <3>1. [x \in Sections |-> es[x]] = [x \in Sections |-> ms[x]] BY <2>1
    <3> QED BY <1>1, <3>1
  <2> QED BY <2>1
<1>7. m.owed => DiagnosticInStep(k, g) BY <1>4
<1>8. SampledTo(k, g, Sections) => DiagnosticInStep(k, g) BY <1>3, <1>4, <1>5, <1>6
<1>9. DiagnosticInStep(k, g) /\ m.on /\ ~m.owed => SampledTo(k, g, Sections) BY <1>3, <1>4, <1>5, <1>6
<1> QED BY <1>2, <1>7, <1>8, <1>9 DEF m

\* What a frame of Diagnostics has to show, its section or the event fields.
LEMMA SamplingStep ==
  ASSUME NEW c, NEW k0, NEW slot, NEW reaches, NEW xs, NEW ys,
         IsWork(c), c.result = "sent", ~c.ends, IsSession(c.k), Paged(c.k.stats), IsPage(c.g),
         \A x \in {"open", "closing", "peer", "bound"} : c.k[x] = k0[x], c.g.slot = slot,
         c.open /\ reaches => Elsewhere(c.k, c.g),
         NEW compared, ButFor(compared, c.k, "diagnostic"),
         IsRec(compared.diagnostic, {"on", "owed", "value", "sample"}), IsRec(compared.diagnostic.sample, Sections),
         NEW f, \A x \in PageFields \ {"diagnostic"} : Tells(c.g, f)[x] = c.g[x],
         IsRec(Tells(c.g, f), PageFields), IsRec(Tells(c.g, f).diagnostic, {"value", "sample"}),
         IsRec(Tells(c.g, f).diagnostic.sample, Sections),
         c.open /\ reaches => compared.diagnostic.owed \/ SampledTo(compared, Tells(c.g, f), ys),
         NEW r \in Sent(c, f, compared, DiagnosticDeferred(compared))
  PROVE  Sampling(r, k0, slot, reaches, ys)
<1> DEFINE told == Tells(c.g, f)
           deferred == DiagnosticDeferred(compared)
           fields == {"on", "owed", "value", "sample"}
<1>1. /\ IsSession(compared) /\ compared.stats = c.k.stats
      /\ \A x \in {"open", "closing", "peer", "bound"} : compared[x] = c.k[x]
  BY OneViewMoves
<1>2. /\ deferred = [x \in SessionFields |-> deferred[x]]
      /\ deferred.diagnostic = [compared.diagnostic EXCEPT !.owed = TRUE]
      /\ \A x \in SessionFields \ {"diagnostic"} : deferred[x] = compared[x]
  BY DEF DiagnosticDeferred, ButFor, IsRec, SessionFields
<1>3. compared.diagnostic = [x \in fields |-> compared.diagnostic[x]] BY DEF IsRec
<1>4. Comes(r, c, f, compared, deferred) BY WhatComesOfAFrame
<1> HIDE DEF deferred
<1>5. /\ deferred.diagnostic = [x \in fields |-> deferred.diagnostic[x]]
      /\ deferred.diagnostic.owed = TRUE /\ deferred.diagnostic.sample = compared.diagnostic.sample
  BY <1>2, <1>3
<1>6. ButFor(deferred, c.k, "diagnostic") BY <1>2 DEF ButFor, IsRec
<1>7. /\ IsSession(deferred) /\ deferred.stats = c.k.stats
      /\ \A x \in {"open", "closing", "peer", "bound"} : deferred[x] = c.k[x]
  <2>1. IsRec(deferred.diagnostic, fields) BY <1>5 DEF IsRec
  <2>2. IsRec(deferred.diagnostic.sample, Sections) BY <1>5
  <2> QED BY <1>6, <2>1, <2>2, OneViewMoves
<1>8. IsPage(told) /\ told.slot = c.g.slot BY OneViewIsTold
<1>9. ASSUME c.open, reaches
      PROVE  Elsewhere(compared, told) /\ Elsewhere(deferred, c.g) /\ (compared.diagnostic.owed \/ SampledTo(compared, told, ys))
  <2>1. Elsewhere(c.k, c.g) BY <1>9
  <2>2. \A x \in PageFields \ {"diagnostic"} : told[x] = c.g[x] OBVIOUS
  <2>3. compared.diagnostic.owed \/ SampledTo(compared, told, ys) BY <1>9
  <2> HIDE DEF told
  <2>4. Elsewhere(compared, told) BY <2>1, <2>2, ElsewhereStays
  <2>5. Elsewhere(deferred, c.g) BY <1>6, <2>1, ElsewhereStays
  <2> QED BY <2>3, <2>4, <2>5
<1>10. /\ IsWork(r) /\ ~r.ends
       /\ \/ r.open = FALSE /\ r.k \in {c.k, compared} /\ r.g = c.g /\ r.result \in {"sent", "broken"}
          \/ r.open = c.open /\ r.result = "sent" /\ r.k = compared /\ r.g = told
          \/ r.open = c.open /\ r.result = "clean" /\ r.k = deferred /\ r.g = c.g
  BY <1>4 DEF Comes
<1> HIDE DEF told
<1>11. CASE r.open = FALSE /\ r.k \in {c.k, compared} /\ r.g = c.g /\ r.result \in {"sent", "broken"}
  BY <1>1, <1>10, <1>11 DEF Sampling
<1>12. CASE r.open = c.open /\ r.result = "sent" /\ r.k = compared /\ r.g = told
  BY <1>1, <1>8, <1>9, <1>10, <1>12 DEF Sampling
<1>13. CASE r.open = c.open /\ r.result = "clean" /\ r.k = deferred /\ r.g = c.g
  BY <1>5, <1>7, <1>9, <1>10, <1>13 DEF Sampling
<1> QED BY <1>10, <1>11, <1>12, <1>13

\* One section of a sample: it joins those that are told, or a snapshot is owed.
LEMMA SectionIsSent ==
  ASSUME NEW c, NEW k0, NEW slot, NEW reaches, NEW xs \in SUBSET Sections,
         Sampling(c, k0, slot, reaches, xs), NEW x \in Sections, NEW n, NEW snapshot, snapshot \/ xs = Sections,
         NEW r \in SendSection(c, x, n, snapshot)
  PROVE  Sampling(r, k0, slot, reaches, xs \cup {x})
<1> DEFINE k == c.k
           ms == k.diagnostic.sample
           moves == snapshot \/ ms[x] # n.value
           m2 == [k.diagnostic EXCEPT !.sample[x] = n.value]
           compared == [k EXCEPT !.diagnostic.sample[x] = n.value]
           f == [part |-> x, value |-> n.value]
           told == Tells(c.g, f)
           fields == {"on", "owed", "value", "sample"}
<1>1. /\ IsWork(c) /\ IsSession(c.k) /\ Paged(c.k.stats) /\ IsPage(c.g) /\ ~c.ends
      /\ \A y \in {"open", "closing", "peer", "bound"} : c.k[y] = k0[y]
      /\ c.g.slot = slot
      /\ c.open /\ reaches => Elsewhere(c.k, c.g)
      /\ c.open /\ reaches => k.diagnostic.owed \/ (c.result = "sent" /\ SampledTo(c.k, c.g, xs))
  BY DEF Sampling
<1>2. CASE ~(GoesOn(c) /\ moves)
  <2>1. r = c BY <1>2 DEF SendSection
  <2>2. ASSUME c.open, reaches, ~c.k.diagnostic.owed
        PROVE  c.result = "sent" /\ SampledTo(c.k, c.g, xs \cup {x})
    <3>1. c.result = "sent" /\ SampledTo(c.k, c.g, xs) BY <1>1, <2>2
    <3>2. GoesOn(c) BY <1>1, <2>2, <3>1 DEF GoesOn
    <3>3. xs \cup {x} = xs BY <1>2, <3>2
    <3> QED BY <3>1, <3>3
  <2> QED BY <1>1, <2>1, <2>2 DEF Sampling
<1>3. CASE GoesOn(c) /\ moves
  <2>1. r \in Sent(c, f, compared, DiagnosticDeferred(compared)) BY <1>3 DEF SendSection
  <2>2. c.result = "sent" BY <1>3 DEF GoesOn
  <2>3. /\ k.diagnostic = [y \in fields |-> k.diagnostic[y]] /\ ms = [y \in Sections |-> ms[y]]
        /\ IsRec(k, SessionFields)
    BY <1>1 DEF IsSession, IsRec
  <2>4. compared.diagnostic = m2 /\ ButFor(compared, k, "diagnostic")
    BY <2>3 DEF ButFor, IsRec, SessionFields
  <2> HIDE DEF compared
  <2>5. /\ m2 = [y \in fields |-> m2[y]] /\ m2.owed = k.diagnostic.owed /\ m2.value = k.diagnostic.value
        /\ m2.sample = [ms EXCEPT ![x] = n.value]
    BY <2>3
  <2> HIDE DEF m2
  <2>6. m2.sample = [y \in Sections |-> m2.sample[y]] /\ \A y \in Sections : m2.sample[y] = IF y = x THEN n.value ELSE ms[y]
    <3> HIDE DEF ms
    <3> QED BY <2>3, <2>5
  <2>7. IsRec(compared.diagnostic, fields) /\ IsRec(compared.diagnostic.sample, Sections)
    BY <2>4, <2>5, <2>6 DEF IsRec
  <2>8. told = [c.g EXCEPT !.diagnostic.sample[x] = n.value] BY DEF Tells, Sections
  <2> DEFINE e == c.g.diagnostic
             es == e.sample
             e2 == [e EXCEPT !.sample[x] = n.value]
  <2>9. c.g = [y \in PageFields |-> c.g[y]] /\ e = [y \in {"value", "sample"} |-> e[y]] /\ es = [y \in Sections |-> es[y]]
    BY <1>1 DEF IsPage, IsRec
  <2>10. /\ told = [y \in PageFields |-> told[y]] /\ told.diagnostic = e2
         /\ \A y \in PageFields \ {"diagnostic"} : told[y] = c.g[y]
    <3> HIDE DEF told
    <3> QED BY <2>8, <2>9 DEF PageFields
  <2> HIDE DEF told
  <2>11. /\ e2 = [y \in {"value", "sample"} |-> e2[y]] /\ e2.value = e.value
         /\ e2.sample = [es EXCEPT ![x] = n.value]
    <3> HIDE DEF e
    <3> QED BY <2>9
  <2> HIDE DEF e2
  <2>12. e2.sample = [y \in Sections |-> e2.sample[y]] /\ \A y \in Sections : e2.sample[y] = IF y = x THEN n.value ELSE es[y]
    <3> HIDE DEF es
    <3> QED BY <2>9, <2>11
  <2>13. IsRec(told, PageFields) /\ IsRec(told.diagnostic, {"value", "sample"}) /\ IsRec(told.diagnostic.sample, Sections)
    BY <2>10, <2>11, <2>12 DEF IsRec
  <2>14. ASSUME c.open, reaches
         PROVE  compared.diagnostic.owed \/ SampledTo(compared, told, xs \cup {x})
    <3>1. k.diagnostic.owed \/ SampledTo(c.k, c.g, xs) BY <1>1, <2>14
    <3>2. CASE k.diagnostic.owed BY <2>4, <2>5, <3>2
    <3>3. CASE SampledTo(c.k, c.g, xs)
      <4>1. e.value = k.diagnostic.value /\ \A y \in xs : es[y] = ms[y] BY <3>3 DEF SampledTo
      <4>2. told.diagnostic.value = compared.diagnostic.value BY <2>4, <2>5, <2>10, <2>11, <4>1
      <4>3. ASSUME NEW y \in xs \cup {x}
            PROVE  told.diagnostic.sample[y] = compared.diagnostic.sample[y]
        <5>1. told.diagnostic.sample[y] = IF y = x THEN n.value ELSE es[y] BY <2>10, <2>12
        <5>2. compared.diagnostic.sample[y] = IF y = x THEN n.value ELSE ms[y] BY <2>4, <2>6
        <5> QED BY <4>1, <5>1, <5>2
      <4> QED BY <4>2, <4>3 DEF SampledTo
    <3> QED BY <3>1, <3>2, <3>3
  <2>15. /\ ButFor(compared, c.k, "diagnostic")
         /\ \A y \in PageFields \ {"diagnostic"} : Tells(c.g, f)[y] = c.g[y]
         /\ IsRec(Tells(c.g, f), PageFields) /\ IsRec(Tells(c.g, f).diagnostic, {"value", "sample"})
         /\ IsRec(Tells(c.g, f).diagnostic.sample, Sections)
         /\ c.open /\ reaches => compared.diagnostic.owed \/ SampledTo(compared, Tells(c.g, f), xs \cup {x})
    BY <2>4, <2>10, <2>13, <2>14 DEF told
  <2> HIDE DEF f, k, fields
  <2>16. IsRec(compared.diagnostic, {"on", "owed", "value", "sample"}) /\ IsRec(compared.diagnostic.sample, Sections)
    BY <2>7 DEF fields
  <2>17. /\ IsWork(c) /\ IsSession(c.k) /\ Paged(c.k.stats) /\ IsPage(c.g) /\ ~c.ends /\ c.g.slot = slot
         /\ \A y \in {"open", "closing", "peer", "bound"} : c.k[y] = k0[y]
         /\ c.open /\ reaches => Elsewhere(c.k, c.g)
    BY <1>1
  <2> QED BY <2>1, <2>2, <2>15, <2>16, <2>17, SamplingStep
<1> QED BY <1>2, <1>3

\* The event fields of Diagnostics: a snapshot starts the sample anew.
LEMMA EventsAreSent ==
  ASSUME NEW c, NEW k0, NEW slot, NEW reaches, AtWork(c, k0, slot, reaches), GoesOn(c),
         c.k.diagnostic.on, NEW n, NEW r \in SendEvents(c, n)
  PROVE  Sampling(r, k0, slot, reaches, IF c.k.diagnostic.owed THEN {} ELSE Sections)
<1> DEFINE k == c.k
           snapshot == k.diagnostic.owed
           m1 == [k.diagnostic EXCEPT !.value = n.value]
           m2 == [m1 EXCEPT !.owed = FALSE]
           a1 == [k EXCEPT !.diagnostic.value = n.value]
           compared == [k EXCEPT !.diagnostic.value = n.value, !.diagnostic.owed = FALSE]
           f == [part |-> "event", value |-> n.value, snapshot |-> snapshot]
           told == Tells(c.g, f)
           fields == {"on", "owed", "value", "sample"}
           xs == IF snapshot THEN {} ELSE Sections
<1>1. /\ IsWork(c) /\ IsSession(c.k) /\ Paged(c.k.stats) /\ IsPage(c.g) /\ c.g.slot = slot
      /\ \A y \in {"open", "closing", "peer", "bound"} : c.k[y] = k0[y]
      /\ c.open /\ reaches => InStep(c.k, c.g)
      /\ ~c.ends /\ c.result = "sent"
  BY DEF AtWork, GoesOn
<1>2. c.open /\ reaches => Elsewhere(c.k, c.g) BY <1>1, SampledIsInStep
<1>3. c.open /\ reaches /\ ~snapshot => SampledTo(c.k, c.g, Sections) BY <1>1, SampledIsInStep
<1>4. CASE ~EventsMoved(k, n)
  <2>1. r = c BY <1>4 DEF SendEvents
  <2>2. ~snapshot BY <1>4 DEF EventsMoved
  <2> QED BY <1>1, <1>2, <1>3, <2>1, <2>2 DEF Sampling
<1>5. CASE EventsMoved(k, n)
  <2>1. r \in Sent(c, f, compared, DiagnosticDeferred(compared)) BY <1>5 DEF SendEvents
  <2>2. k.diagnostic = [y \in fields |-> k.diagnostic[y]] /\ IsRec(k, SessionFields) /\ IsRec(k.diagnostic.sample, Sections)
    BY <1>1 DEF IsSession, IsRec
  <2>3. /\ a1 = [y \in SessionFields |-> a1[y]] /\ a1.diagnostic = m1
        /\ \A y \in SessionFields \ {"diagnostic"} : a1[y] = k[y]
    BY <2>2 DEF IsRec, SessionFields
  <2>4. compared = [a1 EXCEPT !.diagnostic.owed = FALSE] OBVIOUS
  <2> HIDE DEF a1, compared
  <2>5. /\ compared = [y \in SessionFields |-> compared[y]] /\ compared.diagnostic = m2
        /\ \A y \in SessionFields \ {"diagnostic"} : compared[y] = k[y]
    BY <2>3, <2>4 DEF SessionFields
  <2>6. /\ m1 = [y \in fields |-> m1[y]] /\ m1.value = n.value /\ m1.sample = k.diagnostic.sample
    BY <2>2
  <2> HIDE DEF m1
  <2>7. /\ m2 = [y \in fields |-> m2[y]] /\ m2.value = n.value /\ m2.sample = k.diagnostic.sample
    BY <2>6
  <2> HIDE DEF m2
  <2>8. IsRec(compared.diagnostic, fields) /\ IsRec(compared.diagnostic.sample, Sections)
    BY <2>2, <2>5, <2>7 DEF IsRec
  <2> DEFINE e == c.g.diagnostic
             sample == IF f.snapshot THEN NoSample ELSE e.sample
             e2 == [value |-> f.value, sample |-> sample]
  <2>9. told = [c.g EXCEPT !.diagnostic = e2] BY DEF Tells, Sections
  <2>10. IsRec(c.g, PageFields) /\ IsRec(e.sample, Sections) BY <1>1 DEF IsPage
  <2>11. /\ told = [y \in PageFields |-> told[y]] /\ told.diagnostic = e2
         /\ \A y \in PageFields \ {"diagnostic"} : told[y] = c.g[y]
    <3> HIDE DEF told, e2
    <3> QED BY <2>9, <2>10 DEF IsRec, PageFields
  <2> HIDE DEF told
  <2>12. IsRec(e2, {"value", "sample"}) /\ e2.value = n.value /\ e2.sample = sample
    <3> HIDE DEF sample
    <3> QED BY DEF IsRec
  <2> HIDE DEF e2
  <2>13. IsRec(sample, Sections) /\ (~snapshot => sample = e.sample) BY <2>10 DEF IsRec, NoSample
  <2> HIDE DEF sample
  <2>14. IsRec(told, PageFields) /\ IsRec(told.diagnostic, {"value", "sample"}) /\ IsRec(told.diagnostic.sample, Sections)
    BY <2>11, <2>12, <2>13 DEF IsRec
  <2>15. ASSUME c.open, reaches PROVE SampledTo(compared, told, xs)
    <3>1. told.diagnostic.value = compared.diagnostic.value BY <2>5, <2>7, <2>11, <2>12
    <3>2. ASSUME NEW y \in xs PROVE told.diagnostic.sample[y] = compared.diagnostic.sample[y]
      <4>1. ~snapshot /\ y \in Sections BY <3>2
      <4>2. e.sample[y] = k.diagnostic.sample[y] BY <1>3, <2>15, <4>1 DEF SampledTo
      <4> QED BY <2>5, <2>7, <2>11, <2>12, <2>13, <4>1, <4>2
    <3> HIDE DEF xs
    <3> QED BY <3>1, <3>2 DEF SampledTo
  <2>16. /\ ButFor(compared, c.k, "diagnostic")
         /\ \A y \in PageFields \ {"diagnostic"} : Tells(c.g, f)[y] = c.g[y]
         /\ IsRec(Tells(c.g, f), PageFields) /\ IsRec(Tells(c.g, f).diagnostic, {"value", "sample"})
         /\ IsRec(Tells(c.g, f).diagnostic.sample, Sections)
         /\ c.open /\ reaches => compared.diagnostic.owed \/ SampledTo(compared, Tells(c.g, f), xs)
    BY <2>5, <2>11, <2>14, <2>15 DEF told, ButFor, IsRec
  <2>17. IsRec(compared.diagnostic, {"on", "owed", "value", "sample"}) /\ IsRec(compared.diagnostic.sample, Sections)
    BY <2>8
  <2> HIDE DEF f, fields, xs
  <2>18. Sampling(r, k0, slot, reaches, xs)
    BY <1>1, <1>2, <2>1, <2>16, <2>17, SamplingStep
  <2> QED BY <2>18 DEF xs
<1> QED BY <1>4, <1>5

\* The four sections of a sample, one after the other.
LEMMA SampleIsSent ==
  ASSUME NEW c, NEW k0, NEW slot, NEW reaches, NEW snapshot, NEW xs \in SUBSET Sections,
         snapshot \/ xs = Sections, Sampling(c, k0, slot, reaches, xs), NEW n, NEW r \in SendSample(c, n, snapshot)
  PROVE  Sampling(r, k0, slot, reaches, Sections)
<1> DEFINE x1 == xs \cup {"telemetry"}
           x2 == x1 \cup {"tasks"}
           x3 == x2 \cup {"profile"}
           x4 == x3 \cup {"audit"}
<1>1. PICK t \in SendSection(c, "telemetry", n, snapshot) :
        \E d \in SendSection(t, "tasks", n, snapshot) : \E p \in SendSection(d, "profile", n, snapshot) :
          r \in SendAudit(p, n, snapshot)
  BY DEF SendSample
<1>2. PICK d \in SendSection(t, "tasks", n, snapshot) : \E p \in SendSection(d, "profile", n, snapshot) :
        r \in SendAudit(p, n, snapshot)
  BY <1>1
<1>3. PICK p \in SendSection(d, "profile", n, snapshot) : r \in SendSection(p, "audit", n, snapshot)
  BY <1>2 DEF SendAudit
<1>4. /\ {"telemetry", "tasks", "profile", "audit"} \subseteq Sections /\ x4 = Sections
      /\ {x1, x2, x3, x4} \subseteq SUBSET Sections
      /\ xs = Sections => x1 = Sections /\ x2 = Sections /\ x3 = Sections
  BY DEF Sections
<1> HIDE DEF x1, x2, x3, x4
<1>5. Sampling(t, k0, slot, reaches, x1) BY <1>1, <1>4, SectionIsSent DEF x1
<1>6. Sampling(d, k0, slot, reaches, x2) BY <1>2, <1>4, <1>5, SectionIsSent DEF x2
<1>7. Sampling(p, k0, slot, reaches, x3) BY <1>3, <1>4, <1>6, SectionIsSent DEF x3
<1>8. Sampling(r, k0, slot, reaches, x4) BY <1>3, <1>4, <1>7, SectionIsSent DEF x4
<1> QED BY <1>4, <1>8

\* A pass of Diagnostics, cut short by a frame that was deferred (sendDiagnosticStream).
LEMMA DiagnosticKeepsStep ==
  ASSUME NEW c, NEW k0, NEW slot, NEW reaches, AtWork(c, k0, slot, reaches), NEW n, NEW slow,
         NEW r \in SendDiagnostic(c, n, slow)
  PROVE  AtWork(r, k0, slot, reaches)
<1> DEFINE snapshot == c.k.diagnostic.owed
           xs == IF snapshot THEN {} ELSE Sections
<1>1. CASE ~(GoesOn(c) /\ c.k.diagnostic.on) BY <1>1 DEF SendDiagnostic
<1>2. CASE GoesOn(c) /\ c.k.diagnostic.on
  <2>1. PICK d : /\ r = Again(d)
                 /\ IF snapshot \/ slow THEN \E e \in SendEvents(c, n) : d \in SendSample(e, n, snapshot)
                    ELSE d \in SendEvents(c, n)
    BY <1>2 DEF SendDiagnostic
  <2>2. ASSUME NEW e \in SendEvents(c, n) PROVE Sampling(e, k0, slot, reaches, xs)
    BY <1>2, EventsAreSent
  <2>3. Sampling(d, k0, slot, reaches, Sections)
    <3>1. CASE snapshot \/ slow
      <4>1. PICK e \in SendEvents(c, n) : d \in SendSample(e, n, snapshot) BY <2>1, <3>1
      <4>2. Sampling(e, k0, slot, reaches, xs) BY <2>2
      <4>3. xs \in SUBSET Sections /\ (snapshot \/ xs = Sections) OBVIOUS
      <4> HIDE DEF xs, snapshot
      <4> QED BY <4>1, <4>2, <4>3, SampleIsSent
    <3>2. CASE ~(snapshot \/ slow)
      <4>1. d \in SendEvents(c, n) /\ xs = Sections BY <2>1, <3>2
      <4> QED BY <2>2, <4>1
    <3> QED BY <3>1, <3>2
  <2>4. AtWork(d, k0, slot, reaches)
    <3>1. d.open /\ reaches => InStep(d.k, d.g) BY <2>3, SampledIsInStep DEF Sampling
    <3> QED BY <2>3, <3>1 DEF AtWork, Sampling
  <2> QED BY <2>1, <2>4, AgainAtWork
<1> QED BY <1>1, <1>2

-----------------------------------------------------------------------------
\* Stats: sendStatsStream.  The rows of a frame, told to a page that shows what the
\* session holds, are the rows of the list.
LEMMA StatsRowsAreTold ==
  ASSUME DeviceOK, NEW q, NEW base \in Nat, NEW count \in Nat, base + count <= Len(device.rows),
         NEW shown, q.snapshot \/ q.ofFetch \/ q.held = <<>> \/ q.held = shown
  PROVE  LET rows == StatsRows(q, base, count) IN
           /\ KnownRows(rows, shown, base)
           /\ Told(rows, shown, base) = SubSeq(device.rows, base + 1, base + count)
<1> DEFINE rows == StatsRows(q, base, count)
           whole == q.snapshot \/ q.ofFetch
           seg == SubSeq(device.rows, base + 1, base + count)
<1>1. rows = [i \in 1 .. count |-> IF whole THEN device.rows[base + i]
                                   ELSE Row(q.held, base + i, device.rows[base + i])]
  BY DEF StatsRows
<1> HIDE DEF rows, whole
<1>2. device.rows \in Seq(Contents) /\ Len(device.rows) \in Nat BY DEF DeviceOK
<1>3. ASSUME NEW i \in 1 .. count PROVE base + i \in 1 .. Len(device.rows) BY <1>2
<1>4. ASSUME NEW i \in 1 .. count
      PROVE  /\ rows[i] = Kept => base + i \in DOMAIN shown
             /\ (IF rows[i] = Kept THEN shown[base + i] ELSE rows[i]) = device.rows[base + i]
  <2> DEFINE j == base + i
             content == device.rows[j]
             held == q.held
  <2>1. content \in Contents BY <1>2, <1>3, ElementOfSeq
  <2>2. rows[i] = IF whole THEN content ELSE Row(held, j, content) BY <1>1
  <2>3. whole \/ held = <<>> \/ held = shown BY DEF whole
  <2> HIDE DEF j, content, held
  <2>4. content # Kept BY <2>1 DEF Contents
  <2>5. CASE whole BY <2>2, <2>4, <2>5 DEF content, j
  <2>6. CASE ~whole
    <3>1. rows[i] = Row(held, j, content) BY <2>2, <2>6
    <3>2. CASE rows[i] = Kept
      <4>1. Row(held, j, content) = Kept /\ (held = <<>> \/ held = shown) BY <2>3, <2>6, <3>1, <3>2
      <4>2. j \in DOMAIN shown /\ shown[j] = content BY <2>1, <4>1, KeptRowIsShown
      <4> QED BY <3>2, <4>2 DEF content, j
    <3>3. CASE rows[i] # Kept
      <4>1. rows[i] = content BY <3>1, <3>3 DEF Row
      <4> QED BY <3>3, <4>1 DEF content, j
    <3> QED BY <3>2, <3>3
  <2> QED BY <2>5, <2>6
<1>5. DOMAIN rows = 1 .. count BY <1>1
<1>6. KnownRows(rows, shown, base) BY <1>4, <1>5 DEF KnownRows
<1>7. Told(rows, shown, base) = [i \in 1 .. count |-> IF rows[i] = Kept THEN shown[base + i] ELSE rows[i]]
  BY <1>5 DEF Told
<1>8. Told(rows, shown, base) = [i \in 1 .. count |-> device.rows[base + i]] BY <1>4, <1>7
<1>9. seg = [i \in 1 .. count |-> device.rows[base + i]]
  <2>1. \A i \in base + 1 .. base + count : device.rows[i] \in Contents
    <3> TAKE i \in base + 1 .. base + count
    <3>1. i \in 1 .. Len(device.rows) BY <1>2
    <3> QED BY <1>2, <3>1, ElementOfSeq
  <2>2. /\ seg \in Seq(Contents) /\ Len(seg) = (IF base + 1 <= base + count THEN base + count - (base + 1) + 1 ELSE 0)
        /\ \A i \in 1 .. base + count - (base + 1) + 1 : seg[i] = device.rows[base + 1 + i - 1]
    BY <2>1, SubSeqProperties
  <2>3. Len(seg) = count /\ 1 .. base + count - (base + 1) + 1 = 1 .. count BY <2>2
  <2>4. \A i \in 1 .. count : base + 1 + i - 1 = base + i OBVIOUS
  <2>5. \A i \in 1 .. count : seg[i] = device.rows[base + i]
    <3> TAKE i \in 1 .. count
    <3>1. seg[i] = device.rows[base + 1 + i - 1] BY <2>2, <2>3
    <3> QED BY <2>4, <3>1
  <2>6. seg = [i \in 1 .. Len(seg) |-> seg[i]] BY <2>2
  <2> HIDE DEF seg
  <2> QED BY <2>3, <2>5, <2>6
<1> QED BY <1>6, <1>8, <1>9 DEF rows

\* A page of Stats that begins or goes on lies within the list.
LEMMA BegunPageIsPaged ==
  ASSUME DeviceOK, NEW q, IsRec(q, StatsFields), Paged(q), NEW n
  PROVE  LET b == BegunPage(q, n) IN
           /\ IsRec(b, StatsFields) /\ Paged(b) /\ b.at = device.epoch /\ b.held = q.held
           /\ b.paging /\ ~b.owed /\ \A v : Assembles(q, v) => Assembles(b, v)
<1> DEFINE b == BegunPage(q, n)
<1>1. CASE Continues(q)
  <2>1. b = q BY <1>1 DEF BegunPage
  <2> QED BY <1>1, <2>1 DEF Continues
<1>2. CASE ~Continues(q)
  <2> DEFINE preset == IF Fetches(q) THEN q.preset ELSE n.preset
             fetches == Fetches(q)
  <2>1. b = [q EXCEPT !.paging = TRUE, !.snapshot = q.owed, !.ofFetch = fetches, !.owed = FALSE,
                      !.at = device.epoch, !.next = <<>>, !.preset = preset]
    BY <1>2 DEF BegunPage
  <2> HIDE DEF preset, fetches, b
  <2>2. /\ b = [x \in StatsFields |-> b[x]] /\ b.paging = TRUE /\ b.owed = FALSE /\ b.at = device.epoch
        /\ b.next = <<>> /\ b.held = q.held
    BY <2>1 DEF IsRec, StatsFields
  <2>3. Paged(b)
    <3>1. device.epoch \in Nat /\ Len(device.rows) \in Nat BY DEF DeviceOK
    <3>2. b.next \in Seq(Contents) /\ Len(b.next) = 0 BY <2>2, EmptySeq
    <3> QED BY <2>2, <3>1, <3>2 DEF Paged
  <2>4. \A v : Assembles(b, v) BY <2>2 DEF Assembles
  <2> QED BY <2>2, <2>3, <2>4 DEF IsRec, b
<1> QED BY <1>1, <1>2

\* What the page shows of Stats, or will: the list the session holds, or nothing it knows.
ShownAs(q, v) == q.held = <<>> \/ ~v.known \/ q.held = v.shown

\* The session after a frame of Stats: the page under way grew by its rows, or ended with
\* the whole list held.
LEMMA DeliveredIsPaged ==
  ASSUME DeviceOK, NEW b, IsRec(b, StatsFields), Paged(b), b.at = device.epoch, NEW n, NEW count \in Nat,
         Len(b.next) + count <= Len(device.rows)
  PROVE  LET q == Delivered(b, n, count)
             next == b.next \o SubSeq(device.rows, Len(b.next) + 1, Len(b.next) + count)
             more == Len(b.next) + count < Len(device.rows)
         IN  /\ IsRec(q, StatsFields) /\ Paged(q) /\ q.next = next /\ q.owed = b.owed /\ q.ofFetch = b.ofFetch
             /\ q.snapshot = b.snapshot
             /\ q.held = IF more \/ b.ofFetch THEN b.held ELSE next
             /\ q.paging = IF more THEN b.paging ELSE FALSE
<1> DEFINE q == Delivered(b, n, count)
           base == Len(b.next)
           seg == SubSeq(device.rows, base + 1, base + count)
           next == b.next \o seg
           more == base + count < Len(device.rows)
           ends == Len(next) = Len(device.rows)
<1>1. /\ device.rows \in Seq(Contents) /\ Len(device.rows) \in Nat /\ b.next \in Seq(Contents) /\ base \in Nat
      /\ b.at \in Nat /\ b.at <= device.epoch /\ device.epoch \in Nat
  BY DEF DeviceOK, Paged
<1>2. seg \in Seq(Contents) /\ Len(seg) = count
  <2>1. \A i \in base + 1 .. base + count : device.rows[i] \in Contents
    <3> TAKE i \in base + 1 .. base + count
    <3>1. i \in 1 .. Len(device.rows) BY <1>1
    <3> QED BY <1>1, <3>1, ElementOfSeq
  <2>2. seg \in Seq(Contents) /\ Len(seg) = (IF base + 1 <= base + count THEN base + count - (base + 1) + 1 ELSE 0)
    BY <1>1, <2>1, SubSeqProperties
  <2> QED BY <1>1, <2>2
<1> HIDE DEF seg
<1>3. next \in Seq(Contents) /\ Len(next) = base + count
  <2> HIDE DEF base
  <2>1. Len(next) = Len(b.next) + Len(seg) BY <1>1, <1>2, ConcatProperties
  <2> QED BY <1>1, <1>2, <2>1, ConcatProperties DEF base
<1> HIDE DEF next
<1>4. ends <=> ~more
  <2> DEFINE whole == Len(device.rows)
             all == Len(next)
  <2>1. base \in Nat /\ whole \in Nat /\ all = base + count /\ base + count <= whole BY <1>1, <1>3
  <2> HIDE DEF base, whole, all
  <2>2. all = whole <=> ~(base + count < whole) BY <2>1
  <2> QED BY <2>2 DEF base, whole, all
<1> DEFINE print == Fingerprint(n)
<1>5. q = CASE ~ends -> [b EXCEPT !.next = next]
            [] ends /\ b.ofFetch -> [b EXCEPT !.paging = FALSE, !.fetch = FALSE, !.next = next]
            [] ends /\ ~b.ofFetch -> [b EXCEPT !.paging = FALSE, !.epoch = device.epoch, !.print = print,
                                               !.next = next, !.held = next]
  BY DEF Delivered, next, seg
<1> HIDE DEF q, ends, print
<1>6. /\ q = [x \in StatsFields |-> q[x]] /\ q.next = next /\ q.owed = b.owed /\ q.ofFetch = b.ofFetch
      /\ q.snapshot = b.snapshot /\ q.at = b.at
      /\ q.held = IF more \/ b.ofFetch THEN b.held ELSE next
      /\ q.paging = IF more THEN b.paging ELSE FALSE
  <2> HIDE DEF more
  <2>1. CASE ~ends
    <3>1. q = [b EXCEPT !.next = next] BY <1>5, <2>1
    <3> QED BY <1>4, <2>1, <3>1 DEF IsRec, StatsFields
  <2>2. CASE ends /\ b.ofFetch
    <3>1. q = [b EXCEPT !.paging = FALSE, !.fetch = FALSE, !.next = next] BY <1>5, <2>2
    <3> QED BY <1>4, <2>2, <3>1 DEF IsRec, StatsFields
  <2>3. CASE ends /\ ~b.ofFetch
    <3>1. q = [b EXCEPT !.paging = FALSE, !.epoch = device.epoch, !.print = print,
                                               !.next = next, !.held = next]
      BY <1>5, <2>3
    <3> QED BY <1>4, <2>3, <3>1 DEF IsRec, StatsFields
  <2> QED BY <2>1, <2>2, <2>3
<1>7. Paged(q) BY <1>1, <1>3, <1>6 DEF Paged
<1>8. IsRec(q, StatsFields) BY <1>6 DEF IsRec
<1> QED BY <1>6, <1>7, <1>8 DEF q, next, seg, more

\* A page takes a frame of Stats, or refuses a page that is no snapshot until it has
\* shown one.
LEMMA PageTakesTheFrame ==
  ASSUME DeviceOK, NEW b, IsRec(b, StatsFields), Paged(b), b.at = device.epoch, b.paging, ~b.owed,
         NEW v, IsRec(v, {"known", "shown", "header", "building"}), ShownAs(b, v), Assembles(b, v),
         NEW n, NEW count \in Nat, Len(b.next) + count <= Len(device.rows)
  PROVE  LET q2 == Delivered(b, n, count)
             v2 == TellStats(v, StatsFrame(b, n, count))
         IN  IsRec(v2, {"known", "shown", "header", "building"}) /\ ShownAs(q2, v2) /\ Assembles(q2, v2)
<1> DEFINE q2 == Delivered(b, n, count)
           f == StatsFrame(b, n, count)
           v2 == TellStats(v, f)
           base == Len(b.next)
           seg == SubSeq(device.rows, base + 1, base + count)
           next == b.next \o seg
           more == base + count < Len(device.rows)
           fields == {"known", "shown", "header", "building"}
           header == IF f.base = 0 THEN f.header ELSE v.building.header
           told == Told(f.rows, v.shown, f.base)
           rows == IF f.base = 0 THEN told ELSE v.building.rows \o told
           begins == base = 0
<1>1. /\ device.rows \in Seq(Contents) /\ Len(device.rows) \in Nat /\ b.next \in Seq(Contents) /\ base \in Nat
  BY DEF DeviceOK, Paged
<1>2. /\ q2.next = next /\ q2.owed = b.owed /\ q2.ofFetch = b.ofFetch /\ q2.snapshot = b.snapshot
      /\ q2.held = IF more \/ b.ofFetch THEN b.held ELSE next
      /\ q2.paging = IF more THEN b.paging ELSE FALSE
  BY DeliveredIsPaged
<1>3. /\ f.base = base /\ f.fetch = b.ofFetch /\ f.snapshot = (begins /\ b.snapshot) /\ f.more = more
      /\ f.rows = StatsRows(b, base, count)
  BY DEF StatsFrame
<1>4. v2 = CASE ~StatsFits(v, f) -> [v EXCEPT !.building = NoPage]
             [] StatsFits(v, f) /\ f.more -> [v EXCEPT !.building = [on |-> TRUE, header |-> header, rows |-> rows]]
             [] StatsFits(v, f) /\ ~f.more /\ f.fetch -> [v EXCEPT !.building = NoPage]
             [] StatsFits(v, f) /\ ~f.more /\ ~f.fetch ->
                  [known |-> TRUE, shown |-> rows, header |-> header, building |-> NoPage]
  BY DEF TellStats
<1> HIDE DEF v2, f, q2, header
<1> DEFINE taken == /\ v2.known = v.known /\ v2.shown = v.shown
                    /\ v2.building = IF StatsFits(v, f) /\ more
                                     THEN [on |-> TRUE, header |-> header, rows |-> rows] ELSE NoPage
           shows == v2.known = TRUE /\ v2.shown = rows
<1>5. /\ IsRec(v2, fields)
      /\ IF StatsFits(v, f) /\ ~more /\ ~b.ofFetch THEN shows ELSE taken
  <2> HIDE DEF rows, more
  <2>0. v = [x \in fields |-> v[x]] BY DEF IsRec
  <2>1. CASE StatsFits(v, f) /\ more
    <3> DEFINE page2 == [on |-> TRUE, header |-> header, rows |-> rows]
    <3>1. v2 = [v EXCEPT !.building = page2] BY <1>3, <1>4, <2>1
    <3> HIDE DEF page2
    <3>2. v2 = [x \in fields |-> v2[x]] /\ v2.known = v.known /\ v2.shown = v.shown /\ v2.building = page2
      BY <2>0, <3>1
    <3> QED BY <2>1, <3>2 DEF IsRec, page2
  <2>2. CASE StatsFits(v, f) /\ ~more /\ ~b.ofFetch
    <3>1. v2 = [known |-> TRUE, shown |-> rows, header |-> header, building |-> NoPage]
      BY <1>3, <1>4, <2>2
    <3>2. IsRec(v2, fields) /\ shows BY <3>1 DEF IsRec
    <3> QED BY <2>2, <3>2
  <2>3. CASE ~StatsFits(v, f) \/ (StatsFits(v, f) /\ ~more /\ b.ofFetch)
    <3>1. v2 = [v EXCEPT !.building = NoPage] BY <1>3, <1>4, <2>3
    <3>2. v2 = [x \in fields |-> v2[x]] /\ v2.known = v.known /\ v2.shown = v.shown /\ v2.building = NoPage
      BY <2>0, <3>1
    <3> QED BY <2>3, <3>2 DEF IsRec
  <2> QED BY <2>1, <2>2, <2>3
<1>6. CASE b.ofFetch
  <2>1. taken /\ q2.held = b.held /\ q2.ofFetch = b.ofFetch BY <1>2, <1>5, <1>6
  <2>2. ShownAs(q2, v2) BY <2>1 DEF ShownAs
  <2>3. Assembles(q2, v2) BY <1>6, <2>1 DEF Assembles
  <2> QED BY <1>5, <2>2, <2>3 DEF v2, f, q2
<1>7. CASE ~b.ofFetch /\ (v.known \/ b.snapshot)
  <2>1. KnownRows(f.rows, v.shown, base) /\ told = seg
    <3>1. b.snapshot \/ b.ofFetch \/ b.held = <<>> \/ b.held = v.shown BY <1>7 DEF ShownAs
    <3>2. /\ KnownRows(StatsRows(b, base, count), v.shown, base)
          /\ Told(StatsRows(b, base, count), v.shown, base) = seg
      BY <1>1, <3>1, StatsRowsAreTold
    <3> QED BY <1>3, <3>2
  <2>2. ~begins => v.building.on /\ v.building.rows = b.next
    <3>1. ~begins => b.next # <<>> BY <1>1, EmptySeq
    <3> QED BY <1>7, <3>1 DEF Assembles
  <2>3. begins => b.next = <<>> BY <1>1, EmptySeq
  <2>4. StatsFits(v, f)
    <3>1. CASE begins BY <1>3, <1>7, <2>1, <3>1 DEF StatsFits
    <3>2. CASE ~begins BY <1>3, <2>1, <2>2, <3>2 DEF StatsFits
    <3> QED BY <3>1, <3>2
  <2>5. rows = next
    <3>1. CASE begins
      <4>1. seg \in Seq(Contents)
        <5>1. \A i \in base + 1 .. base + count : device.rows[i] \in Contents
          <6> TAKE i \in base + 1 .. base + count
          <6>1. i \in 1 .. Len(device.rows) BY <1>1
          <6> QED BY <1>1, <6>1, ElementOfSeq
        <5> QED BY <1>1, <5>1, SubSeqProperties
      <4>2. rows = seg /\ next = <<>> \o seg BY <1>3, <2>1, <2>3, <3>1
      <4> HIDE DEF rows, next, seg
      <4> QED BY <4>1, <4>2, ConcatEmptySeq
    <3>2. CASE ~begins BY <1>3, <2>1, <2>2, <3>2
    <3> QED BY <3>1, <3>2
  <2> HIDE DEF rows, next, seg, more
  <2>6. CASE more
    <3>1. taken /\ q2.held = b.held /\ v2.building.on = TRUE /\ v2.building.rows = q2.next BY <1>2, <1>5, <2>4, <2>5, <2>6
    <3>2. ShownAs(q2, v2) BY <3>1 DEF ShownAs
    <3>3. Assembles(q2, v2) BY <1>2, <1>7, <3>1 DEF Assembles
    <3> QED BY <1>5, <3>2, <3>3 DEF v2, f, q2
  <2>7. CASE ~more
    <3>1. shows /\ q2.held = rows /\ q2.paging = FALSE BY <1>2, <1>5, <1>7, <2>4, <2>5, <2>7
    <3>2. ShownAs(q2, v2) BY <3>1 DEF ShownAs
    <3>3. Assembles(q2, v2) BY <3>1 DEF Assembles
    <3> QED BY <1>5, <3>2, <3>3 DEF v2, f, q2
  <2> QED BY <2>6, <2>7
<1>8. CASE ~b.ofFetch /\ ~v.known /\ ~b.snapshot
  <2>1. ~begins => ~v.building.on
    <3>1. ~begins => b.next # <<>> BY <1>1, EmptySeq
    <3> QED BY <1>8, <3>1 DEF Assembles
  <2>2. ~StatsFits(v, f) BY <1>3, <1>8, <2>1 DEF StatsFits
  <2>3. taken BY <1>5, <2>2
  <2>4. v2.known = v.known /\ v2.building.on = FALSE BY <2>2, <2>3 DEF NoPage
  <2>5. ShownAs(q2, v2) BY <1>8, <2>4 DEF ShownAs
  <2>6. Assembles(q2, v2) BY <1>2, <1>8, <2>4 DEF Assembles
  <2> QED BY <1>5, <2>5, <2>6 DEF v2, f, q2
<1> QED BY <1>6, <1>7, <1>8

\* A session whose Stats moved, and the page it moved for.
LEMMA StatsMove ==
  ASSUME NEW k, IsSession(k), NEW q, IsRec(q, StatsFields), Paged(q)
  PROVE  LET k2 == [k EXCEPT !.stats = q] IN
           /\ IsSession(k2) /\ k2.stats = q /\ Paged(k2.stats) /\ ButFor(k2, k, "stats")
           /\ \A x \in {"open", "closing", "peer", "bound"} : k2[x] = k[x]
<1> DEFINE k2 == [k EXCEPT !.stats = q]
<1>1. IsRec(k, SessionFields) BY DEF IsSession
<1>2. k2.stats = q /\ ButFor(k2, k, "stats") BY <1>1 DEF ButFor, IsRec, SessionFields
<1> HIDE DEF k2
<1>3. IsSession(k2) /\ \A x \in {"open", "closing", "peer", "bound"} : k2[x] = k[x]
  BY <1>2, OneViewMoves
<1> QED BY <1>2, <1>3 DEF k2

\* A frame of Stats keeps the slot at work, delivered or deferred.
LEMMA PageIsSent ==
  ASSUME DeviceOK, NEW c, NEW k0, NEW slot, NEW reaches, AtWork(c, k0, slot, reaches), c.result = "sent",
         NEW b, IsRec(b, StatsFields), Paged(b), b.at = device.epoch, b.paging, ~b.owed,
         b.held = c.k.stats.held, \A v : Assembles(c.k.stats, v) => Assembles(b, v),
         NEW n, NEW count \in Nat, Len(b.next) + count <= Len(device.rows), NEW r \in SendPage(c, b, n, count)
  PROVE  AtWork(r, k0, slot, reaches)
<1> DEFINE k == c.k
           q2 == Delivered(b, n, count)
           f == StatsFrame(b, n, count)
           accepted == [k EXCEPT !.stats = q2]
           deferred == [k EXCEPT !.stats = b]
           v == c.g.stats
           v2 == TellStats(v, f)
           told == Tells(c.g, f)
           fields == {"known", "shown", "header", "building"}
<1>1. PICK d \in Sent(c, f, accepted, deferred) : r = Again(d) BY DEF SendPage
<1>2. IsSession(k) /\ Paged(k.stats) /\ IsPage(c.g) /\ IsRec(v, fields) BY DEF AtWork, IsPage
<1>3. IsRec(q2, StatsFields) /\ Paged(q2) BY DeliveredIsPaged
<1>4. told = [c.g EXCEPT !.stats = v2] BY DEF Tells, StatsFrame, Sections
<1>5. ASSUME ShownAs(b, v), Assembles(b, v) PROVE ShownAs(q2, v2) /\ Assembles(q2, v2)
  BY <1>2, <1>5, PageTakesTheFrame
<1>6. IsRec(v2, fields)
  <2> HIDE DEF f
  <2>1. v = [x \in fields |-> v[x]] BY <1>2 DEF IsRec
  <2>2. CASE ~StatsFits(v, f)
    <3>1. v2 = [v EXCEPT !.building = NoPage] BY <2>2 DEF TellStats
    <3> HIDE DEF v2
    <3> QED BY <2>1, <3>1 DEF IsRec
  <2>3. CASE StatsFits(v, f) /\ f.more
    <3>1. PICK page2 : v2 = [v EXCEPT !.building = page2] BY <2>3 DEF TellStats
    <3> HIDE DEF v2
    <3> QED BY <2>1, <3>1 DEF IsRec
  <2>4. CASE StatsFits(v, f) /\ ~f.more /\ f.fetch
    <3>1. v2 = [v EXCEPT !.building = NoPage] BY <2>4 DEF TellStats
    <3> HIDE DEF v2
    <3> QED BY <2>1, <3>1 DEF IsRec
  <2>5. CASE StatsFits(v, f) /\ ~f.more /\ ~f.fetch
    <3>1. PICK rows, header : v2 = [known |-> TRUE, shown |-> rows, header |-> header, building |-> NoPage]
      BY <2>5 DEF TellStats
    <3> HIDE DEF v2
    <3> QED BY <3>1 DEF IsRec
  <2> QED BY <2>2, <2>3, <2>4, <2>5
<1> HIDE DEF q2, f, v2
<1>7. /\ IsSession(accepted) /\ accepted.stats = q2 /\ Paged(accepted.stats) /\ ButFor(accepted, k, "stats")
      /\ \A x \in {"open", "closing", "peer", "bound"} : accepted[x] = k[x]
  BY <1>2, <1>3, StatsMove
<1>8. /\ IsSession(deferred) /\ deferred.stats = b /\ Paged(deferred.stats) /\ ButFor(deferred, k, "stats")
      /\ \A x \in {"open", "closing", "peer", "bound"} : deferred[x] = k[x]
  BY <1>2, StatsMove
<1> HIDE DEF accepted, deferred, told
<1>9. /\ told = [x \in PageFields |-> told[x]] /\ told.stats = v2
      /\ \A x \in PageFields \ {"stats"} : told[x] = c.g[x]
  BY <1>2, <1>4 DEF IsPage, IsRec, PageFields
<1>10. IsPage(told) /\ told.slot = c.g.slot BY <1>2, <1>6, <1>9, OneViewIsTold DEF IsRec
<1>11. ASSUME InStep(k, c.g) PROVE InStep(accepted, told) /\ InStep(deferred, c.g)
  <2>1. ShownAs(b, v) /\ Assembles(b, v) BY <1>11 DEF InStep, StatsInStep, ShownAs
  <2>2. ShownAs(q2, v2) /\ Assembles(q2, v2) BY <1>5, <2>1
  <2>3. InStepFor(accepted, told, "stats") BY <1>7, <1>9, <2>2 DEF InStepFor, StatsInStep, ShownAs
  <2>4. InStepFor(deferred, c.g, "stats") BY <1>8, <2>1 DEF InStepFor, StatsInStep, ShownAs
  <2>5. InStep(accepted, told) BY <1>7, <1>9, <1>11, <2>3, OneViewInStep
  <2>6. InStep(deferred, c.g) BY <1>8, <1>11, <2>4, OneViewInStep
  <2> QED BY <2>5, <2>6
<1>12. AtWork(d, k0, slot, reaches)
  <2>1. \A x \in {"open", "closing", "peer", "bound"} : accepted[x] = c.k[x] /\ deferred[x] = c.k[x]
    BY <1>7, <1>8
  <2>2. IsPage(Tells(c.g, f)) /\ Tells(c.g, f).slot = c.g.slot BY <1>10 DEF told
  <2>3. InStep(c.k, c.g) => InStep(accepted, Tells(c.g, f)) /\ InStep(deferred, c.g) BY <1>11 DEF told
  <2> HIDE DEF k
  <2> QED BY <1>1, <1>7, <1>8, <2>1, <2>2, <2>3, ViewKeepsStep
<1> QED BY <1>1, <1>12, AgainAtWork

\* The pages of Stats, paced, superseded or begun anew (sendStatsStream).
LEMMA StatsKeepStep ==
  ASSUME DeviceOK, NEW c, NEW k0, NEW slot, NEW reaches, AtWork(c, k0, slot, reaches), NEW n, NEW take,
         NEW r \in SendStats(c, n, take)
  PROVE  AtWork(r, k0, slot, reaches)
<1> DEFINE k == c.k
           q == k.stats
           sends == GoesOn(c) /\ q.on /\ ~(take = "none" /\ Continues(q))
<1>1. IsSession(k) /\ Paged(q) /\ IsPage(c.g) /\ IsRec(q, StatsFields) BY DEF AtWork, IsSession
<1>2. CASE ~sends BY <1>2 DEF SendStats
<1>3. CASE sends /\ StatsIdle(q, n)
  <2> DEFINE q2 == Stopped(q, n)
             k2 == [k EXCEPT !.stats = q2]
  <2>1. r = [c EXCEPT !.k.stats = q2] BY <1>3 DEF SendStats
  <2>2. q2 = [q EXCEPT !.paging = FALSE, !.epoch = device.epoch, !.preset = n.preset] BY DEF Stopped
  <2> HIDE DEF q2, q
  <2>3. /\ q2 = [x \in StatsFields |-> q2[x]] /\ q2.paging = FALSE /\ q2.held = q.held
        /\ q2.next = q.next /\ q2.at = q.at
    BY <1>1, <2>2 DEF IsRec, StatsFields
  <2>4. IsRec(q2, StatsFields) /\ Paged(q2) BY <1>1, <2>3 DEF IsRec, Paged
  <2>5. /\ IsSession(k2) /\ k2.stats = q2 /\ Paged(k2.stats) /\ ButFor(k2, k, "stats")
        /\ \A x \in {"open", "closing", "peer", "bound"} : k2[x] = k[x]
    BY <1>1, <2>4, StatsMove
  <2>6. r = [c EXCEPT !.k = k2] BY <2>1
  <2> HIDE DEF k2
  <2>7. /\ r = [x \in WorkFields |-> r[x]] /\ r.k = k2 /\ r.g = c.g /\ r.open = c.open
        /\ r.result = c.result /\ r.waits = c.waits
    BY <2>6 DEF AtWork, IsWork, IsRec, WorkFields
  <2>8. IsWork(r) BY <2>7 DEF AtWork, IsWork, IsRec
  <2>9. ASSUME InStep(k, c.g) PROVE InStep(k2, c.g)
    <3>1. StatsInStep(k, c.g) BY <2>9 DEF InStep
    <3>2. StatsInStep(k2, c.g) BY <2>3, <2>5, <3>1 DEF StatsInStep, q
    <3>3. Assembles(k2.stats, c.g.stats) BY <2>3, <2>5 DEF Assembles
    <3>4. InStepFor(k2, c.g, "stats") BY <3>2, <3>3 DEF InStepFor
    <3> QED BY <2>5, <2>9, <3>4, OneViewInStep
  <2> QED BY <2>5, <2>7, <2>8, <2>9 DEF AtWork
<1>4. CASE sends /\ ~StatsIdle(q, n)
  <2> DEFINE b == BegunPage(q, n)
             count == FrameRows(b, take)
  <2>1. r \in SendPage(c, b, n, count) BY <1>4 DEF SendStats
  <2>2. c.result = "sent" BY <1>4 DEF GoesOn
  <2>3. /\ IsRec(b, StatsFields) /\ Paged(b) /\ b.at = device.epoch /\ b.held = q.held
        /\ b.paging /\ ~b.owed /\ \A v : Assembles(q, v) => Assembles(b, v)
    BY <1>1, BegunPageIsPaged
  <2> HIDE DEF b, sends
  <2>4. count \in Nat /\ Len(b.next) + count <= Len(device.rows)
    <3> DEFINE whole == Len(device.rows)
               base == Len(b.next)
    <3>1. whole \in Nat /\ base \in Nat /\ base <= whole BY <2>3 DEF DeviceOK, Paged
    <3>2. count = IF take = "one" /\ whole - base > 0 THEN 1 ELSE whole - base BY DEF FrameRows
    <3> HIDE DEF whole, base, count
    <3>3. count \in Nat /\ base + count <= whole BY <3>1, <3>2
    <3> QED BY <3>3 DEF whole, base
  <2> HIDE DEF count
  <2> QED BY <2>1, <2>2, <2>3, <2>4, PageIsSent
<1> HIDE DEF sends
<1> QED BY <1>2, <1>3, <1>4

-----------------------------------------------------------------------------
\* No slot is numbered 0: a page on no slot is on none of them.
LEMMA SocketsAreNumbered == 0 \notin Sockets
<1> DEFINE last == Cardinality(Sockets)
<1>1. Sockets = 1 .. last BY UiStreamAssumption
<1> HIDE DEF last
<1>2. 0 \notin 1 .. last OBVIOUS
<1> QED BY <1>1, <1>2

\* The views of one dispatch, one after the other.
LEMMA ViewsKeepStep ==
  ASSUME DeviceOK, NEW c, NEW k0, NEW slot, NEW reaches, AtWork(c, k0, slot, reaches), NEW n, NEW slow,
         NEW take, NEW r \in SendViews(c, n, slow, take)
  PROVE  AtWork(r, k0, slot, reaches)
<1>1. PICK d1 \in SendDiagnostic(c, n, slow) : \E d2 \in SendSettings(d1, n) : \E d3 \in SendHistory(d2) :
        \E d4 \in SendStats(d3, n, take) : r \in SendLog(d4)
  BY DEF SendViews
<1>2. PICK d2 \in SendSettings(d1, n) : \E d3 \in SendHistory(d2) :
        \E d4 \in SendStats(d3, n, take) : r \in SendLog(d4)
  BY <1>1
<1>3. PICK d3 \in SendHistory(d2) : \E d4 \in SendStats(d3, n, take) : r \in SendLog(d4) BY <1>2
<1>4. PICK d4 \in SendStats(d3, n, take) : r \in SendLog(d4) BY <1>3
<1>5. AtWork(d1, k0, slot, reaches) BY <1>1, DiagnosticKeepsStep
<1>6. AtWork(d2, k0, slot, reaches) BY <1>2, <1>5, SettingsKeepStep
<1>7. AtWork(d3, k0, slot, reaches) BY <1>3, <1>6, HistoryKeepsStep
<1>8. AtWork(d4, k0, slot, reaches) BY <1>4, <1>7, StatsKeepStep
<1> QED BY <1>4, <1>8, LogKeepsStep

-----------------------------------------------------------------------------
Flags == {"closing", "bound", "late", "silent", "paused", "home", "presets"}

\* The flags of a session are no part of what the page is told.
LEMMA FlagsMayMove ==
  ASSUME NEW k, IsSession(k), NEW k2, IsRec(k2, SessionFields),
         \A x \in SessionFields \ Flags : k2[x] = k[x]
  PROVE  /\ IsSession(k2) /\ k2.stats = k.stats /\ k2.open = k.open /\ k2.peer = k.peer
         /\ \A g : InStep(k, g) => InStep(k2, g)
         /\ Fresh(k) => Fresh(k2)
<1>1. /\ k2.open = k.open /\ k2.peer = k.peer /\ k2.card = k.card /\ k2.settings = k.settings
      /\ k2.diagnostic = k.diagnostic /\ k2.log = k.log /\ k2.history = k.history /\ k2.stats = k.stats
  BY DEF SessionFields, Flags
<1>2. IsSession(k2) BY <1>1 DEF IsSession
<1>3. ASSUME NEW g, InStep(k, g) PROVE InStep(k2, g)
  <2>1. \A x \in Compared : k2[x] = k[x] /\ g[x] = g[x] BY <1>1 DEF Compared
  <2> QED BY <1>1, <1>3, <2>1, InStepMoves
<1>4. Fresh(k) => Fresh(k2) BY <1>1 DEF Fresh
<1> QED BY <1>1, <1>2, <1>3, <1>4

\* A step of one session and the pages it reaches; other sessions stay or are closed.
LEMMA OneSessionMoves ==
  ASSUME StreamInv, device' = device, NEW s, socket' = [t \in Sockets |-> socket'[t]],
         \A t \in Sockets : /\ IsSession(socket'[t]) /\ Paged(socket'[t].stats)
                            /\ socket'[t].open => socket'[t].peer \in Pages,
         \A t \in Sockets \ {s} : socket'[t] = socket[t] \/ socket'[t].closing,
         page' = [p \in Pages |-> page'[p]],
         \A p \in Pages : IsPage(page'[p]) /\ (page'[p] = page[p] \/ page'[p].slot \in {0, s}),
         s \in Sockets /\ ~socket'[s].bound /\ ~socket'[s].closing => Fresh(socket'[s]),
         \A p \in Pages : s \in Sockets /\ socket'[s].bound /\ ~socket'[s].closing /\ socket'[s].peer = p /\ page'[p].slot = s
                            => InStep(socket'[s], page'[p])
  PROVE  StreamInv'
<1>1. DeviceOK' BY DEF StreamInv, Standing, DeviceOK
<1>2. ASSUME NEW t \in Sockets PROVE Paged(socket[t].stats)'
  BY DEF Paged
<1>3. Standing' BY <1>1, <1>2 DEF Standing
<1>4. ASSUME NEW t \in Sockets, ~socket'[t].bound, ~socket'[t].closing PROVE Fresh(socket'[t])
  <2>1. CASE t = s BY <1>4, <2>1
  <2>2. CASE t # s BY <1>4, <2>2 DEF StreamInv, SessionsInStep
  <2> QED BY <2>1, <2>2
<1>5. ASSUME NEW t \in Sockets, NEW p \in Pages, socket'[t].bound, ~socket'[t].closing, Reaches(t, p)'
      PROVE  InStep(socket'[t], page'[p])
  <2>1. socket'[t].peer = p /\ page'[p].slot = t BY <1>5 DEF Reaches
  <2>2. CASE t = s BY <1>5, <2>1, <2>2
  <2>3. CASE t # s
    <3>1. socket'[t] = socket[t] BY <1>5, <2>3
    <3>2. t # 0 BY SocketsAreNumbered
    <3>3. page'[p] = page[p] BY <2>1, <2>3, <3>2
    <3>4. Reaches(t, p) BY <2>1, <3>1, <3>3 DEF Reaches
    <3> QED BY <1>5, <3>1, <3>3, <3>4 DEF StreamInv, SessionsInStep
  <2> QED BY <2>2, <2>3
<1>6. SessionsInStep' BY <1>4, <1>5 DEF SessionsInStep
<1> QED BY <1>3, <1>6 DEF StreamInv

-----------------------------------------------------------------------------
\* A fresh session is in step with any page.
LEMMA FreshIsInStep ==
  ASSUME NEW k, Fresh(k), NEW g
  PROVE  InStep(k, g)
BY DEF Fresh, InStep, CardInStep, SettingsInStep, DiagnosticInStep, LogInStep, HistoryInStep, StatsInStep,
       Assembles

\* A free slot is a fresh session that pages nothing.
LEMMA FreeSocketIsFresh ==
  /\ IsSession(FreeSocket) /\ Fresh(FreeSocket) /\ FreeSocket.open = FALSE /\ FreeSocket.bound = FALSE
  /\ FreeSocket.stats.next = <<>> /\ FreeSocket.stats.at = 0
BY DEF FreeSocket, IsSession, IsRec, SessionFields, StatsFields, NoSample, Fresh

\* What a page of Stats that has not begun is paged to.
LEMMA NothingIsPaged ==
  ASSUME DeviceOK, NEW q, q.next = <<>>, q.at = 0
  PROVE  Paged(q)
<1>1. Len(device.rows) \in Nat /\ device.epoch \in Nat BY DEF DeviceOK
<1>2. q.next \in Seq(Contents) /\ Len(q.next) = 0 BY EmptySeq
<1> QED BY <1>1, <1>2 DEF Paged

\* At boot every slot is free.
LEMMA InitIsInStep == UiStreamInit => StreamInv
<1> SUFFICES ASSUME UiStreamInit PROVE StreamInv
  OBVIOUS
<1>1. device = [shown |-> AtRest, rows |-> <<>>, epoch |-> 0] BY DEF UiStreamInit
<1>2. DeviceOK BY <1>1, EmptySeq DEF DeviceOK, IsRec
<1>3. socket = [s \in Sockets |-> socket[s]] /\ \A s \in Sockets : socket[s] = FreeSocket
  BY DEF UiStreamInit
<1>4. page = [p \in Pages |-> page[p]] /\ \A p \in Pages : page[p] = BlankPage
  BY DEF UiStreamInit
<1>5. IsPage(BlankPage) BY DEF BlankPage, IsPage, IsRec, PageFields, NoSample
<1>6. Paged(FreeSocket.stats) BY <1>2, FreeSocketIsFresh, NothingIsPaged
<1>7. Standing BY <1>2, <1>3, <1>4, <1>5, <1>6, FreeSocketIsFresh DEF Standing
<1>8. SessionsInStep BY <1>3, FreeSocketIsFresh DEF SessionsInStep
<1> QED BY <1>7, <1>8 DEF StreamInv

\* Steps that leave the sessions and the pages alone.
LEMMA NobodyMoves ==
  ASSUME StreamInv, socket' = socket, page' = page, DeviceOK', device'.epoch >= device.epoch,
         device'.epoch = device.epoch => device'.rows = device.rows
  PROVE  StreamInv'
<1>1. ASSUME NEW t \in Sockets PROVE Paged(socket[t].stats)'
  <2>1. Paged(socket[t].stats) BY DEF StreamInv, Standing
  <2> DEFINE q == socket[t].stats
  <2>2. /\ q.next \in Seq(Contents) /\ q.at \in Nat /\ q.at <= device.epoch
        /\ q.at = device.epoch => Len(q.next) <= Len(device.rows)
    BY <2>1 DEF Paged
  <2>3. device.epoch \in Nat /\ device'.epoch \in Nat BY DEF StreamInv, Standing, DeviceOK
  <2> HIDE DEF q
  <2>4. /\ q.next \in Seq(Contents) /\ q.at \in Nat /\ q.at <= device'.epoch
        /\ q.at = device'.epoch => Len(q.next) <= Len(device'.rows)
    BY <2>2, <2>3
  <2>5. q' = q BY DEF q
  <2> QED BY <2>4, <2>5 DEF Paged, q
<1>2. Standing' BY <1>1 DEF StreamInv, Standing
<1>3. SessionsInStep' BY DEF StreamInv, SessionsInStep, Reaches
<1> QED BY <1>2, <1>3 DEF StreamInv

\* The device moves on under the sessions: an outdated page of a list stays outdated.
LEMMA DeviceMoves ==
  ASSUME StreamInv, Changes \/ LiveEnds
  PROVE  StreamInv'
<1>1. /\ device.rows \in Seq(Contents) /\ device.epoch \in Nat
      /\ device = [x \in {"shown", "rows", "epoch"} |-> device[x]]
  BY DEF StreamInv, Standing, DeviceOK, IsRec
<1>2. socket' = socket /\ page' = page BY DEF Changes, LiveEnds
<1>3. CASE \E shown : device' = [device EXCEPT !.shown = shown]
  <2>1. PICK shown : device' = [device EXCEPT !.shown = shown] BY <1>3
  <2>2. /\ device' = [x \in {"shown", "rows", "epoch"} |-> device'[x]]
        /\ device'.rows = device.rows /\ device'.epoch = device.epoch
    BY <1>1, <2>1
  <2>3. DeviceOK' BY <1>1, <2>2 DEF DeviceOK, IsRec
  <2> QED BY <1>1, <1>2, <2>2, <2>3, NobodyMoves
<1>4. CASE \E rows \in Seq(Contents) : device' = [device EXCEPT !.rows = rows, !.epoch = @ + 1]
  <2>1. PICK rows \in Seq(Contents) : device' = [device EXCEPT !.rows = rows, !.epoch = @ + 1] BY <1>4
  <2>2. /\ device' = [x \in {"shown", "rows", "epoch"} |-> device'[x]]
        /\ device'.rows = rows /\ device'.epoch = device.epoch + 1
    BY <1>1, <2>1
  <2>3. DeviceOK' BY <1>1, <2>2 DEF DeviceOK, IsRec
  <2>4. device'.epoch >= device.epoch /\ device'.epoch # device.epoch BY <1>1, <2>2
  <2> QED BY <1>2, <2>3, <2>4, NobodyMoves
<1>5. CASE LiveEnds
  <2>1. device' = [device EXCEPT !.shown.live = FALSE] BY <1>5 DEF LiveEnds
  <2>2. device' = [device EXCEPT !.shown = [device.shown EXCEPT !.live = FALSE]] BY <2>1
  <2> QED BY <1>3, <2>2
<1>6. CASE Changes
  <2>1. CASE device' = [device EXCEPT !.shown.value = 1 - @]
    <3>1. device' = [device EXCEPT !.shown = [device.shown EXCEPT !.value = 1 - @]] BY <2>1
    <3> QED BY <1>3, <3>1
  <2>2. CASE device' = [device EXCEPT !.shown.preset = 1 - @]
    <3>1. device' = [device EXCEPT !.shown = [device.shown EXCEPT !.preset = 1 - @]] BY <2>2
    <3> QED BY <1>3, <3>1
  <2>3. CASE device' = [device EXCEPT !.shown.cycle = @ + 1, !.shown.count = 0, !.shown.live = TRUE]
    <3> DEFINE s1 == [device.shown EXCEPT !.cycle = @ + 1]
               s2 == [s1 EXCEPT !.count = 0]
               s3 == [s2 EXCEPT !.live = TRUE]
               d1 == [device EXCEPT !.shown.cycle = @ + 1]
               d2 == [d1 EXCEPT !.shown.count = 0]
    <3>1. device' = [d2 EXCEPT !.shown.live = TRUE] BY <2>3
    <3>2. d1 = [device EXCEPT !.shown = s1] OBVIOUS
    <3> HIDE DEF s1, d1
    <3>3. d1.shown = s1 BY <1>1, <3>2
    <3>4. d2 = [d1 EXCEPT !.shown = s2] BY <3>3
    <3> HIDE DEF s2, d2
    <3>5. d2 = [device EXCEPT !.shown = s2] BY <1>1, <3>2, <3>4
    <3>6. d2.shown = s2 BY <1>1, <3>5
    <3>7. device' = [d2 EXCEPT !.shown = s3] BY <3>1, <3>6
    <3> HIDE DEF s3
    <3>8. device' = [device EXCEPT !.shown = s3] BY <1>1, <3>5, <3>7
    <3> QED BY <1>3, <3>8
  <2>4. CASE device' = [device EXCEPT !.shown.count = @ + 1]
    <3>1. device' = [device EXCEPT !.shown = [device.shown EXCEPT !.count = @ + 1]] BY <2>4
    <3> QED BY <1>3, <3>1
  <2>5. CASE device' = [device EXCEPT !.rows = Append(@, 1), !.epoch = @ + 1]
    <3>1. 1 \in Contents BY DEF Contents, Kept
    <3>2. Append(device.rows, 1) \in Seq(Contents) BY <1>1, <3>1, AppendProperties
    <3> QED BY <1>4, <2>5, <3>2
  <2>6. CASE \E i \in DOMAIN device.rows : device' = [device EXCEPT !.rows[i] = @ + 1, !.epoch = @ + 1]
    <3>1. PICK i \in DOMAIN device.rows : device' = [device EXCEPT !.rows[i] = @ + 1, !.epoch = @ + 1]
      BY <2>6
    <3> DEFINE content == device.rows[i] + 1
               rows == [device.rows EXCEPT ![i] = content]
    <3>2. i \in 1 .. Len(device.rows) BY <1>1
    <3>3. device.rows[i] \in Contents BY <1>1, <3>2, ElementOfSeq
    <3>4. content \in Contents BY <3>3 DEF Contents, Kept
    <3> HIDE DEF content
    <3>5. rows \in Seq(Contents) BY <1>1, <3>2, <3>4, ExceptSeq
    <3>6. device' = [device EXCEPT !.rows = rows, !.epoch = @ + 1] BY <3>1 DEF content
    <3> QED BY <1>4, <3>5, <3>6
  <2> QED BY <1>6, <2>1, <2>2, <2>3, <2>4, <2>5, <2>6 DEF Changes
<1> QED BY <1>5, <1>6

-----------------------------------------------------------------------------
\* What the invariant says of one session.
LEMMA OneSession ==
  ASSUME StreamInv, NEW s \in Sockets
  PROVE  /\ IsSession(socket[s]) /\ Paged(socket[s].stats) /\ IsRec(socket[s], SessionFields)
         /\ socket[s].open => socket[s].peer \in Pages
         /\ ~socket[s].bound /\ ~socket[s].closing => Fresh(socket[s])
         /\ \A p \in Pages : socket[s].bound /\ ~socket[s].closing /\ Reaches(s, p) => InStep(socket[s], page[p])
BY DEF StreamInv, Standing, SessionsInStep, IsSession

\* What the invariant says of one page.
LEMMA EveryPage == ASSUME StreamInv, NEW p \in Pages PROVE IsPage(page[p])
BY DEF StreamInv, Standing

\* A step that leaves the pages alone, and every session or one of its flags.
LEMMA OnlyFlagsMove ==
  ASSUME StreamInv, device' = device, page' = page, NEW s, socket' = [t \in Sockets |-> socket'[t]],
         \A t \in Sockets : /\ IsRec(socket'[t], SessionFields)
                            /\ \A x \in SessionFields \ Flags : socket'[t][x] = socket[t][x],
         \A t \in Sockets \ {s} : socket'[t] = socket[t] \/ socket'[t].closing,
         s \in Sockets => \/ socket'[s].closing
                          \/ socket[s].closing = socket'[s].closing /\ socket[s].bound = socket'[s].bound
                          \/ ~socket[s].closing /\ ~socket[s].bound
  PROVE  StreamInv'
<1>1. ASSUME NEW t \in Sockets
      PROVE  /\ IsSession(socket'[t]) /\ Paged(socket'[t].stats)
             /\ socket'[t].open => socket'[t].peer \in Pages
             /\ socket'[t].peer = socket[t].peer
             /\ \A g : InStep(socket[t], g) => InStep(socket'[t], g)
             /\ Fresh(socket[t]) => Fresh(socket'[t])
  <2> DEFINE k == socket[t]
             k2 == socket'[t]
  <2>1. IsSession(k) /\ Paged(k.stats) /\ (k.open => k.peer \in Pages) BY OneSession
  <2>2. IsRec(k2, SessionFields) /\ \A x \in SessionFields \ Flags : k2[x] = k[x] OBVIOUS
  <2> HIDE DEF k, k2
  <2>3. /\ IsSession(k2) /\ k2.stats = k.stats /\ k2.open = k.open /\ k2.peer = k.peer
        /\ \A g : InStep(k, g) => InStep(k2, g)
        /\ Fresh(k) => Fresh(k2)
    BY <2>1, <2>2, FlagsMayMove
  <2> QED BY <2>1, <2>3 DEF k, k2
<1>2. page' = [p \in Pages |-> page'[p]] /\ \A p \in Pages : IsPage(page'[p]) /\ page'[p] = page[p]
  BY EveryPage DEF StreamInv, Standing
<1>3. s \in Sockets /\ ~socket'[s].bound /\ ~socket'[s].closing => Fresh(socket'[s])
  <2> SUFFICES ASSUME s \in Sockets, ~socket'[s].bound, ~socket'[s].closing PROVE Fresh(socket'[s])
    OBVIOUS
  <2>1. ~socket[s].bound /\ ~socket[s].closing OBVIOUS
  <2>2. Fresh(socket[s]) BY <2>1, OneSession
  <2> QED BY <1>1, <2>2
<1>4. ASSUME s \in Sockets, NEW p \in Pages, socket'[s].bound, ~socket'[s].closing, socket'[s].peer = p,
             page'[p].slot = s
      PROVE  InStep(socket'[s], page'[p])
  <2>1. Reaches(s, p) BY <1>1, <1>2, <1>4 DEF Reaches
  <2>2. CASE socket[s].bound /\ ~socket[s].closing
    <3>1. InStep(socket[s], page[p]) BY <1>4, <2>1, <2>2, OneSession
    <3> QED BY <1>1, <1>2, <1>4, <3>1
  <2>3. CASE ~socket[s].bound /\ ~socket[s].closing
    <3>1. Fresh(socket'[s]) BY <1>1, <1>4, <2>3, OneSession
    <3> QED BY <3>1, FreshIsInStep
  <2> QED BY <1>4, <2>2, <2>3
<1> QED BY <1>1, <1>2, <1>3, <1>4, OneSessionMoves

\* Five seconds without a bind leave a session what it was.
LEMMA BindTimesOutStep == ASSUME StreamInv, NEW s \in Sockets, BindTimesOut(s) PROVE StreamInv'
<1>1. /\ socket' = [socket EXCEPT ![s] = [socket[s] EXCEPT !.late = TRUE]] /\ device' = device /\ page' = page
  BY DEF BindTimesOut
<1> DEFINE k2 == [socket[s] EXCEPT !.late = TRUE]
<1>2. socket = [t \in Sockets |-> socket[t]] /\ \A t \in Sockets : IsRec(socket[t], SessionFields)
  BY OneSession DEF StreamInv, Standing
<1>3. /\ IsRec(k2, SessionFields) /\ k2.closing = socket[s].closing /\ k2.bound = socket[s].bound
      /\ \A x \in SessionFields \ Flags : k2[x] = socket[s][x]
  BY <1>2 DEF IsRec, SessionFields, Flags
<1> HIDE DEF k2
<1>4. /\ socket' = [t \in Sockets |-> socket'[t]] /\ socket'[s] = k2
      /\ \A t \in Sockets \ {s} : socket'[t] = socket[t]
  BY <1>1, <1>2 DEF k2
<1>5. \A t \in Sockets : /\ IsRec(socket'[t], SessionFields)
                         /\ \A x \in SessionFields \ Flags : socket'[t][x] = socket[t][x]
  BY <1>2, <1>3, <1>4
<1> QED BY <1>1, <1>3, <1>4, <1>5, OnlyFlagsMove

\* A session that goes silent stays what it was.
LEMMA GoesSilentStep == ASSUME StreamInv, NEW s \in Sockets, GoesSilent(s) PROVE StreamInv'
<1>1. /\ socket' = [socket EXCEPT ![s] = [socket[s] EXCEPT !.silent = TRUE]] /\ device' = device /\ page' = page
  BY DEF GoesSilent
<1> DEFINE k2 == [socket[s] EXCEPT !.silent = TRUE]
<1>2. socket = [t \in Sockets |-> socket[t]] /\ \A t \in Sockets : IsRec(socket[t], SessionFields)
  BY OneSession DEF StreamInv, Standing
<1>3. /\ IsRec(k2, SessionFields) /\ k2.closing = socket[s].closing /\ k2.bound = socket[s].bound
      /\ \A x \in SessionFields \ Flags : k2[x] = socket[s][x]
  BY <1>2 DEF IsRec, SessionFields, Flags
<1> HIDE DEF k2
<1>4. /\ socket' = [t \in Sockets |-> socket'[t]] /\ socket'[s] = k2
      /\ \A t \in Sockets \ {s} : socket'[t] = socket[t]
  BY <1>1, <1>2 DEF k2
<1>5. \A t \in Sockets : /\ IsRec(socket'[t], SessionFields)
                         /\ \A x \in SessionFields \ Flags : socket'[t][x] = socket[t][x]
  BY <1>2, <1>3, <1>4
<1> QED BY <1>1, <1>3, <1>4, <1>5, OnlyFlagsMove

\* A closing flag on one session, or on none.
LEMMA ClosingStep ==
  ASSUME StreamInv, NEW s \in Sockets, socket' = [socket EXCEPT ![s].closing = TRUE], device' = device, page' = page
  PROVE  StreamInv'
<1> DEFINE k2 == [socket[s] EXCEPT !.closing = TRUE]
<1>1. socket' = [socket EXCEPT ![s] = k2] OBVIOUS
<1>2. socket = [t \in Sockets |-> socket[t]] /\ \A t \in Sockets : IsRec(socket[t], SessionFields)
  BY OneSession DEF StreamInv, Standing
<1>3. /\ IsRec(k2, SessionFields) /\ k2.closing
      /\ \A x \in SessionFields \ Flags : k2[x] = socket[s][x]
  BY <1>2 DEF IsRec, SessionFields, Flags
<1> HIDE DEF k2
<1>4. /\ socket' = [t \in Sockets |-> socket'[t]] /\ socket'[s] = k2
      /\ \A t \in Sockets \ {s} : socket'[t] = socket[t]
  BY <1>1, <1>2
<1>5. \A t \in Sockets : /\ IsRec(socket'[t], SessionFields)
                         /\ \A x \in SessionFields \ Flags : socket'[t][x] = socket[t][x]
  BY <1>2, <1>3, <1>4
<1> QED BY <1>3, <1>4, <1>5, OnlyFlagsMove

\* bind: a fresh session takes the stream, and the one that had it is closed.
LEMMA BindStep == ASSUME StreamInv, NEW p \in Pages, NEW s \in Sockets, Bind(p, s) PROVE StreamInv'
<1>1. ~socket[s].bound /\ ~socket[s].closing /\ device' = device /\ page' = page BY DEF Bind
<1>2. socket = [t \in Sockets |-> socket[t]] /\ \A t \in Sockets : IsRec(socket[t], SessionFields)
  BY OneSession DEF StreamInv, Standing
<1> DEFINE binds == Owns(socket[s]) /\ ~socket[s].late
<1>3. CASE binds
  <2> DEFINE tag == page[p].tag
             k1 == [socket[s] EXCEPT !.bound = TRUE]
             k2 == [k1 EXCEPT !.silent = FALSE]
             k3 == [k2 EXCEPT !.presets.tag = tag]
             e1 == [socket EXCEPT ![s].bound = TRUE]
             e2 == [e1 EXCEPT ![s].silent = FALSE]
             e3 == [e2 EXCEPT ![s].presets.tag = tag]
             off(k) == [[[k EXCEPT !.bound = FALSE] EXCEPT !.late = TRUE] EXCEPT !.closing = TRUE]
  <2>1. socket' = Supersede(e3, s) BY <1>3 DEF Bind
  <2>2. e1 = [socket EXCEPT ![s] = k1] OBVIOUS
  <2>3. k1 = [x \in SessionFields |-> k1[x]] /\ \A x \in SessionFields \ Flags : k1[x] = socket[s][x]
    BY <1>2 DEF IsRec, SessionFields, Flags
  <2> HIDE DEF k1, e1, tag
  <2>4. e1 = [t \in Sockets |-> e1[t]] /\ e1[s] = k1 /\ \A t \in Sockets \ {s} : e1[t] = socket[t]
    BY <1>2, <2>2
  <2>5. e2 = [e1 EXCEPT ![s] = k2] BY <2>4
  <2>6. k2 = [x \in SessionFields |-> k2[x]] /\ \A x \in SessionFields \ Flags : k2[x] = socket[s][x]
    BY <2>3 DEF SessionFields, Flags
  <2> HIDE DEF k2, e2
  <2>7. e2 = [t \in Sockets |-> e2[t]] /\ e2[s] = k2 /\ \A t \in Sockets \ {s} : e2[t] = socket[t]
    BY <2>4, <2>5
  <2>8. e3 = [e2 EXCEPT ![s] = k3] BY <2>7
  <2>9. k3 = [x \in SessionFields |-> k3[x]] /\ \A x \in SessionFields \ Flags : k3[x] = socket[s][x]
    BY <2>6 DEF SessionFields, Flags
  <2> HIDE DEF k3, e3
  <2>10. e3[s] = k3 /\ \A t \in Sockets \ {s} : e3[t] = socket[t] BY <2>7, <2>8
  <2>11. /\ socket' = [t \in Sockets |-> socket'[t]] /\ socket'[s] = k3
         /\ \A t \in Sockets \ {s} : socket'[t] = IF socket[t].bound THEN off(socket[t]) ELSE socket[t]
    <3>1. ASSUME NEW k
          PROVE  [k EXCEPT !.bound = FALSE, !.late = TRUE, !.closing = TRUE] = off(k)
      OBVIOUS
    <3> HIDE DEF off
    <3>2. Supersede(e3, s) = [t \in Sockets |-> IF t # s /\ e3[t].bound THEN off(e3[t]) ELSE e3[t]]
      BY <3>1 DEF Supersede
    <3>3. ASSUME NEW t \in Sockets \ {s}
          PROVE  socket'[t] = IF socket[t].bound THEN off(socket[t]) ELSE socket[t]
      BY <2>1, <2>10, <3>2
    <3> QED BY <2>1, <2>10, <3>2, <3>3
  <2>12. ASSUME NEW t \in Sockets
         PROVE  /\ IsRec(off(socket[t]), SessionFields) /\ off(socket[t]).closing
                /\ \A x \in SessionFields \ Flags : off(socket[t])[x] = socket[t][x]
    <3> DEFINE k == socket[t]
               o1 == [k EXCEPT !.bound = FALSE]
               o2 == [o1 EXCEPT !.late = TRUE]
               o3 == [o2 EXCEPT !.closing = TRUE]
    <3>1. k = [x \in SessionFields |-> k[x]] BY <1>2 DEF IsRec
    <3> HIDE DEF k
    <3>2. o1 = [x \in SessionFields |-> o1[x]] /\ \A x \in SessionFields \ Flags : o1[x] = k[x]
      BY <3>1 DEF SessionFields, Flags
    <3> HIDE DEF o1
    <3>3. o2 = [x \in SessionFields |-> o2[x]] /\ \A x \in SessionFields \ Flags : o2[x] = k[x]
      BY <3>2 DEF SessionFields, Flags
    <3> HIDE DEF o2
    <3>4. o3 = [x \in SessionFields |-> o3[x]] /\ o3.closing = TRUE /\ \A x \in SessionFields \ Flags : o3[x] = k[x]
      BY <3>3 DEF SessionFields, Flags
    <3> QED BY <3>4 DEF IsRec, k, o1, o2
  <2> HIDE DEF off
  <2>13. \A t \in Sockets : /\ IsRec(socket'[t], SessionFields)
                            /\ \A x \in SessionFields \ Flags : socket'[t][x] = socket[t][x]
    <3> TAKE t \in Sockets
    <3>1. CASE t = s BY <2>9, <2>11, <3>1 DEF IsRec
    <3>2. CASE t # s BY <1>2, <2>11, <2>12, <3>2
    <3> QED BY <3>1, <3>2
  <2>14. \A t \in Sockets \ {s} : socket'[t] = socket[t] \/ socket'[t].closing BY <2>11, <2>12
  <2> QED BY <1>1, <2>11, <2>13, <2>14, OnlyFlagsMove
<1>4. CASE ~binds
  <2>1. socket' = [socket EXCEPT ![s].closing = TRUE] BY <1>4 DEF Bind
  <2> QED BY <1>1, <2>1, ClosingStep
<1> QED BY <1>3, <1>4

-----------------------------------------------------------------------------
\* A new socket starts a fresh session.
LEMMA OpenStep == ASSUME StreamInv, NEW p \in Pages, NEW s \in Sockets, Open(p, s) PROVE StreamInv'
<1> DEFINE f1 == [FreeSocket EXCEPT !.open = TRUE]
           k2 == [f1 EXCEPT !.peer = p]
<1>1. socket' = [socket EXCEPT ![s] = k2] /\ device' = device BY DEF Open
<1>2. IsRec(FreeSocket, SessionFields) /\ FreeSocket.bound = FALSE /\ Fresh(FreeSocket) /\ IsSession(FreeSocket)
  BY FreeSocketIsFresh DEF IsSession
<1>3. Paged(FreeSocket.stats) BY FreeSocketIsFresh, NothingIsPaged DEF StreamInv, Standing
<1>4. /\ IsRec(k2, SessionFields) /\ k2.peer = p /\ k2.bound = FALSE
      /\ \A x \in SessionFields \ {"open", "peer"} : k2[x] = FreeSocket[x]
  <2> DEFINE k == FreeSocket
  <2>1. IsRec(k, SessionFields) /\ k.bound = FALSE BY <1>2
  <2> HIDE DEF k
  <2>2. LET a == [k EXCEPT !.open = TRUE]
            b == [a EXCEPT !.peer = p]
        IN  /\ IsRec(b, SessionFields) /\ b.peer = p /\ b.bound = FALSE
            /\ \A x \in SessionFields \ {"open", "peer"} : b[x] = k[x]
    BY <2>1 DEF IsRec, SessionFields
  <2> QED BY <2>2 DEF k
<1> HIDE DEF k2
<1>5. /\ k2.card = FreeSocket.card /\ k2.settings = FreeSocket.settings /\ k2.diagnostic = FreeSocket.diagnostic
      /\ k2.log = FreeSocket.log /\ k2.history = FreeSocket.history /\ k2.stats = FreeSocket.stats
  BY <1>4 DEF SessionFields
<1>6. IsSession(k2) /\ Fresh(k2) /\ Paged(k2.stats) BY <1>2, <1>3, <1>4, <1>5 DEF IsSession, Fresh
<1> DEFINE g == page[p]
           v2 == [g.stats EXCEPT !.building = NoPage]
           a1 == [g EXCEPT !.slot = s]
           a2 == [a1 EXCEPT !.home = Unknown]
           a3 == [a2 EXCEPT !.card = BlankPage.card]
           a4 == [a3 EXCEPT !.settings = Unknown]
           a5 == [a4 EXCEPT !.diagnostic = BlankPage.diagnostic]
           g2 == [a5 EXCEPT !.stats = v2]
           p1 == [page EXCEPT ![p].slot = s]
           p2 == [p1 EXCEPT ![p].home = Unknown]
           p3 == [p2 EXCEPT ![p].card = BlankPage.card]
           p4 == [p3 EXCEPT ![p].settings = Unknown]
           p5 == [p4 EXCEPT ![p].diagnostic = BlankPage.diagnostic]
           blank == BlankPage.diagnostic
           card == BlankPage.card
           others(q) == q = [x \in Pages |-> q[x]] /\ \A x \in Pages \ {p} : q[x] = page[x]
<1>7. page' = [p5 EXCEPT ![p].stats.building = NoPage] BY DEF Open
<1>8. IsPage(g) /\ others(page) BY EveryPage DEF StreamInv, Standing
<1> DEFINE old == {"presets", "tag", "log", "history", "stats"}
           like(h) == h = [x \in PageFields |-> h[x]] /\ \A x \in old : h[x] = g[x]
<1>9. like(g) BY <1>8 DEF IsPage, IsRec
<1>10. IsRec(blank, {"value", "sample"}) /\ IsRec(blank.sample, Sections)
  BY DEF BlankPage, IsRec, NoSample
<1> HIDE DEF blank, card
<1>11. others(p1) /\ p1[p] = a1 BY <1>8
<1>12. like(a1) /\ a1.slot = s BY <1>9 DEF PageFields
<1> HIDE DEF p1, a1, g
<1>13. others(p2) /\ p2[p] = a2 BY <1>11
<1>14. like(a2) /\ a2.slot = s BY <1>12 DEF PageFields
<1> HIDE DEF p2, a2
<1>15. others(p3) /\ p3[p] = a3 BY <1>13
<1>16. like(a3) /\ a3.slot = s BY <1>14 DEF PageFields
<1> HIDE DEF p3, a3
<1>17. others(p4) /\ p4[p] = a4 BY <1>15
<1>18. like(a4) /\ a4.slot = s BY <1>16 DEF PageFields
<1> HIDE DEF p4, a4
<1>19. others(p5) /\ p5[p] = a5 BY <1>17
<1>20. like(a5) /\ a5.slot = s /\ a5.diagnostic = blank BY <1>18 DEF PageFields, blank
<1> HIDE DEF p5, a5
<1>21. a5.stats = g.stats BY <1>20
<1>22. others(page') /\ page'[p] = g2
  <2>1. page' = [p5 EXCEPT ![p] = [a5 EXCEPT !.stats = [a5.stats EXCEPT !.building = NoPage]]]
    BY <1>7, <1>19
  <2>2. page' = [p5 EXCEPT ![p] = g2] BY <1>21, <2>1
  <2> HIDE DEF g2
  <2> QED BY <1>19, <2>2
<1>23. v2 = [x \in {"known", "shown", "header", "building"} |-> v2[x]]
  <2>1. g.stats = [x \in {"known", "shown", "header", "building"} |-> g.stats[x]] BY <1>8 DEF IsPage, IsRec
  <2> QED BY <2>1
<1> HIDE DEF v2
<1>24. /\ g2 = [x \in PageFields |-> g2[x]] /\ g2.slot = s /\ g2.diagnostic = blank /\ g2.stats = v2
  BY <1>20 DEF PageFields
<1> HIDE DEF g2
<1>25. IsPage(g2) BY <1>10, <1>23, <1>24 DEF IsPage, IsRec
<1>26. \A q \in Pages : IsPage(page'[q]) /\ (page'[q] = page[q] \/ page'[q].slot \in {0, s})
  BY <1>22, <1>24, <1>25, EveryPage
<1>27. /\ socket' = [t \in Sockets |-> socket'[t]] /\ socket'[s] = k2
       /\ \A t \in Sockets \ {s} : socket'[t] = socket[t]
  BY <1>1 DEF StreamInv, Standing
<1>28. \A t \in Sockets : /\ IsSession(socket'[t]) /\ Paged(socket'[t].stats)
                          /\ socket'[t].open => socket'[t].peer \in Pages
  BY <1>4, <1>6, <1>27, OneSession
<1>29. page' = [q \in Pages |-> page'[q]] BY <1>22
<1>30. ~socket'[s].bound /\ Fresh(socket'[s]) BY <1>4, <1>6, <1>27
<1> QED BY <1>1, <1>26, <1>27, <1>28, <1>29, <1>30, OneSessionMoves

\* A page that leaves is on no slot.
LEMMA LeaveStep == ASSUME StreamInv, NEW p \in Pages, Leave(p) PROVE StreamInv'
<1> DEFINE s == page[p].slot
           g2 == [page[p] EXCEPT !.slot = 0]
           k2 == [socket[s] EXCEPT !.closing = TRUE]
<1>1. /\ page' = [page EXCEPT ![p].slot = 0] /\ device' = device
      /\ socket' = [socket EXCEPT ![s].closing = TRUE] \/ socket' = socket
  BY DEF Leave
<1>2. IsPage(page[p]) /\ page = [q \in Pages |-> page[q]] BY EveryPage DEF StreamInv, Standing
<1>3. g2.slot = 0 /\ IsPage(g2)
  <2>1. page[p] = [x \in PageFields |-> page[p][x]] BY <1>2 DEF IsPage, IsRec
  <2>2. /\ g2 = [x \in PageFields |-> g2[x]] /\ g2.slot = 0 /\ g2.diagnostic = page[p].diagnostic
        /\ g2.stats = page[p].stats
    BY <2>1 DEF PageFields
  <2> HIDE DEF g2
  <2> QED BY <1>2, <2>2 DEF IsPage, IsRec
<1>4. page' = [page EXCEPT ![p] = g2] BY <1>1
<1> HIDE DEF g2, s
<1>5. page' = [q \in Pages |-> page'[q]] /\ page'[p] = g2 /\ \A q \in Pages \ {p} : page'[q] = page[q]
  BY <1>2, <1>4
<1>6. \A q \in Pages : IsPage(page'[q]) /\ (page'[q] = page[q] \/ page'[q].slot \in {0, s})
  BY <1>3, <1>5, EveryPage
<1>7. socket = [t \in Sockets |-> socket[t]] BY DEF StreamInv, Standing
<1>8. /\ socket' = [t \in Sockets |-> socket'[t]] /\ \A t \in Sockets \ {s} : socket'[t] = socket[t]
      /\ s \in Sockets => socket'[s] = socket[s] \/ socket'[s] = k2
  <2>1. CASE socket' = socket BY <1>7, <2>1
  <2>2. CASE socket' = [socket EXCEPT ![s].closing = TRUE]
    <3>1. socket' = [socket EXCEPT ![s] = k2] BY <2>2
    <3> HIDE DEF k2
    <3> QED BY <1>7, <3>1
  <2> QED BY <1>1, <2>1, <2>2
<1>9. ASSUME s \in Sockets
      PROVE  /\ IsRec(k2, SessionFields) /\ k2.closing = TRUE
             /\ \A x \in SessionFields \ Flags : k2[x] = socket[s][x]
  <2>1. IsRec(socket[s], SessionFields) BY <1>9, OneSession
  <2> QED BY <2>1 DEF IsRec, SessionFields, Flags
<1> HIDE DEF k2
<1>10. ASSUME s \in Sockets PROVE IsSession(k2) /\ k2.stats = socket[s].stats /\ k2.open = socket[s].open /\ k2.peer = socket[s].peer
  <2> DEFINE k == socket[s]
  <2>1. IsSession(k) BY <1>10, OneSession
  <2>2. IsRec(k2, SessionFields) /\ \A x \in SessionFields \ Flags : k2[x] = k[x] BY <1>9, <1>10
  <2> HIDE DEF k
  <2>3. IsSession(k2) /\ k2.stats = k.stats /\ k2.open = k.open /\ k2.peer = k.peer
    BY <2>1, <2>2, FlagsMayMove
  <2> QED BY <2>3 DEF k
<1>11. \A t \in Sockets : /\ IsSession(socket'[t]) /\ Paged(socket'[t].stats)
                          /\ socket'[t].open => socket'[t].peer \in Pages
  <2> TAKE t \in Sockets
  <2>1. CASE socket'[t] = socket[t] BY <2>1, OneSession
  <2>2. CASE socket'[t] # socket[t]
    <3>1. t = s /\ socket'[t] = k2 BY <1>8, <2>2
    <3> QED BY <1>10, <3>1, OneSession
  <2> QED BY <2>1, <2>2
<1>12. s \in Sockets /\ ~socket'[s].bound /\ ~socket'[s].closing => Fresh(socket'[s])
  BY <1>8, <1>9, OneSession
<1>13. ASSUME s \in Sockets, NEW q \in Pages, socket'[s].bound, ~socket'[s].closing, socket'[s].peer = q,
              page'[q].slot = s
       PROVE  InStep(socket'[s], page'[q])
  <2>1. socket'[s] = socket[s] BY <1>8, <1>9, <1>13
  <2>2. q # p BY <1>3, <1>5, <1>13, SocketsAreNumbered
  <2>3. page'[q] = page[q] /\ Reaches(s, q) BY <1>5, <1>13, <2>1, <2>2 DEF Reaches
  <2> QED BY <1>13, <2>1, <2>3, OneSession
<1>14. \A q \in Pages : s \in Sockets /\ socket'[s].bound /\ ~socket'[s].closing /\ socket'[s].peer = q
                          /\ page'[q].slot = s => InStep(socket'[s], page'[q])
  BY <1>13
<1>15. /\ \A t \in Sockets \ {s} : socket'[t] = socket[t] \/ socket'[t].closing
       /\ socket' = [t \in Sockets |-> socket'[t]] /\ page' = [q \in Pages |-> page'[q]] /\ device' = device
  BY <1>1, <1>5, <1>8
<1> QED BY <1>6, <1>11, <1>12, <1>14, <1>15, OneSessionMoves

\* A closed socket frees its slot, and no page is on it.
LEMMA CloseStep == ASSUME StreamInv, NEW s \in Sockets, Close(s) PROVE StreamInv'
<1>1. /\ socket' = [socket EXCEPT ![s] = FreeSocket] /\ device' = device
      /\ page' = [p \in Pages |-> IF Reaches(s, p) THEN [page[p] EXCEPT !.slot = 0] ELSE page[p]]
  BY DEF Close
<1>2. /\ socket' = [t \in Sockets |-> socket'[t]] /\ socket'[s] = FreeSocket
      /\ \A t \in Sockets \ {s} : socket'[t] = socket[t]
  BY <1>1 DEF StreamInv, Standing
<1>3. /\ IsSession(FreeSocket) /\ Fresh(FreeSocket) /\ FreeSocket.open = FALSE /\ FreeSocket.bound = FALSE
      /\ Paged(FreeSocket.stats)
  BY FreeSocketIsFresh, NothingIsPaged DEF StreamInv, Standing
<1>4. ASSUME NEW p \in Pages PROVE IsPage(page'[p]) /\ (page'[p] = page[p] \/ page'[p].slot \in {0, s})
  <2> DEFINE g == page[p]
             g2 == [g EXCEPT !.slot = 0]
  <2>1. IsPage(g) BY EveryPage
  <2>2. page'[p] = g \/ page'[p] = g2 BY <1>1
  <2> HIDE DEF g
  <2>3. /\ g2 = [x \in PageFields |-> g2[x]] /\ g2.slot = 0 /\ g2.diagnostic = g.diagnostic
        /\ g2.stats = g.stats
    BY <2>1 DEF IsPage, IsRec, PageFields
  <2> HIDE DEF g2
  <2>4. IsPage(g2) BY <2>1, <2>3 DEF IsPage, IsRec
  <2> QED BY <2>1, <2>2, <2>3, <2>4 DEF g
<1>5. \A t \in Sockets : /\ IsSession(socket'[t]) /\ Paged(socket'[t].stats)
                         /\ socket'[t].open => socket'[t].peer \in Pages
  BY <1>2, <1>3, OneSession
<1>6. page' = [p \in Pages |-> page'[p]] BY <1>1
<1>7. ~socket'[s].bound /\ Fresh(socket'[s]) BY <1>2, <1>3
<1> QED BY <1>1, <1>2, <1>4, <1>5, <1>6, <1>7, OneSessionMoves

-----------------------------------------------------------------------------
\* The operations of a page: what each has to show of what the session becomes.
LEMMA OpStep ==
  ASSUME StreamInv, NEW p \in Pages, NEW s \in Sockets, NEW becomes, Op(p, s, becomes),
         IsSession(becomes), Paged(becomes.stats),
         becomes.open = socket[s].open, becomes.peer = socket[s].peer, becomes.bound = socket[s].bound,
         page' = [q \in Pages |-> page'[q]], \A q \in Pages \ {p} : page'[q] = page[q],
         IsPage(page'[p]), page'[p].slot = page[p].slot,
         InStep(socket[s], page[p]) => becomes.closing \/ InStep(becomes, page'[p])
  PROVE  StreamInv'
<1>1. /\ Reaches(s, p) /\ socket[s].bound /\ ~socket[s].closing /\ device' = device
      /\ socket' = [socket EXCEPT ![s] = IF Owns(@) THEN Heard(becomes) ELSE [@ EXCEPT !.closing = TRUE]]
  BY DEF Op
<1> DEFINE heard == Heard(becomes)
           closed == [socket[s] EXCEPT !.closing = TRUE]
           k2 == socket'[s]
<1>2. /\ socket' = [t \in Sockets |-> socket'[t]] /\ \A t \in Sockets \ {s} : socket'[t] = socket[t]
      /\ k2 = heard \/ k2 = closed
  BY <1>1 DEF StreamInv, Standing
<1>3. /\ IsRec(heard, SessionFields) /\ heard.bound = becomes.bound /\ heard.closing = becomes.closing
      /\ \A x \in SessionFields \ Flags : heard[x] = becomes[x]
  <2>1. IsRec(becomes, SessionFields) BY DEF IsSession
  <2> QED BY <2>1 DEF Heard, IsRec, SessionFields, Flags
<1> HIDE DEF heard
<1>4. /\ IsSession(heard) /\ heard.stats = becomes.stats /\ heard.open = becomes.open /\ heard.peer = becomes.peer
      /\ \A g : InStep(becomes, g) => InStep(heard, g)
  BY <1>3, FlagsMayMove
<1>5. /\ IsSession(closed) /\ closed.stats = socket[s].stats /\ closed.open = socket[s].open
      /\ closed.peer = socket[s].peer /\ closed.closing = TRUE
  <2> DEFINE k == socket[s]
  <2>1. IsSession(k) /\ IsRec(k, SessionFields) BY OneSession
  <2> HIDE DEF k
  <2>2. LET c == [k EXCEPT !.closing = TRUE]
        IN  IsRec(c, SessionFields) /\ c.closing = TRUE /\ \A x \in SessionFields \ Flags : c[x] = k[x]
    BY <2>1 DEF IsRec, SessionFields, Flags
  <2>3. LET c == [k EXCEPT !.closing = TRUE]
        IN  IsSession(c) /\ c.stats = k.stats /\ c.open = k.open /\ c.peer = k.peer
    BY <2>1, <2>2, FlagsMayMove
  <2> QED BY <2>2, <2>3 DEF k
<1> HIDE DEF closed
<1>6. /\ IsSession(k2) /\ Paged(k2.stats) /\ k2.open = socket[s].open /\ k2.peer = socket[s].peer
  BY <1>2, <1>4, <1>5, OneSession
<1>7. \A t \in Sockets : /\ IsSession(socket'[t]) /\ Paged(socket'[t].stats)
                         /\ socket'[t].open => socket'[t].peer \in Pages
  BY <1>2, <1>6, OneSession
<1>8. ~k2.bound /\ ~k2.closing => Fresh(k2) BY <1>1, <1>2, <1>3, <1>5
<1>9. ASSUME NEW q \in Pages, ~k2.closing, k2.peer = q, page'[q].slot = s
      PROVE  InStep(k2, page'[q])
  <2>1. q = p BY <1>1, <1>6, <1>9 DEF Reaches
  <2>2. InStep(socket[s], page[p]) BY <1>1, OneSession
  <2>3. k2 = heard /\ ~heard.closing BY <1>2, <1>5, <1>9
  <2> QED BY <1>3, <1>4, <2>1, <2>2, <2>3
<1>10. \A q \in Pages : IsPage(page'[q]) /\ (page'[q] = page[q] \/ page'[q].slot \in {0, s})
  <2> TAKE q \in Pages
  <2>1. CASE q = p BY <1>1, <2>1 DEF Reaches
  <2>2. CASE q # p BY <2>2, EveryPage
  <2> QED BY <2>1, <2>2
<1>11. \A q \in Pages : k2.bound /\ ~k2.closing /\ k2.peer = q /\ page'[q].slot = s => InStep(k2, page'[q])
  BY <1>9
<1>12. \A t \in Sockets \ {s} : socket'[t] = socket[t] \/ socket'[t].closing BY <1>2
<1> QED BY <1>1, <1>2, <1>7, <1>8, <1>10, <1>11, <1>12, OneSessionMoves

\* An operation that leaves the pages alone.
LEMMA PagesStay ==
  ASSUME StreamInv, page' = page, NEW p \in Pages
  PROVE  /\ page' = [q \in Pages |-> page'[q]] /\ \A q \in Pages \ {p} : page'[q] = page[q]
         /\ IsPage(page'[p]) /\ page'[p].slot = page[p].slot
BY EveryPage DEF StreamInv, Standing

\* activity: only the pause of the session changes.
LEMMA ActivityStep == ASSUME StreamInv, NEW p \in Pages, NEW s \in Sockets, Activity(p, s) PROVE StreamInv'
<1>1. PICK hidden \in BOOLEAN : Op(p, s, [socket[s] EXCEPT !.paused = hidden]) /\ page' = page
  BY DEF Activity
<1> DEFINE k == socket[s]
           k2 == [k EXCEPT !.paused = hidden]
<1>2. Op(p, s, k2) BY <1>1
<1>3. IsSession(k) /\ Paged(k.stats) /\ IsRec(k, SessionFields) BY OneSession
<1>4. /\ IsRec(k2, SessionFields) /\ k2.bound = k.bound
      /\ \A x \in SessionFields \ Flags : k2[x] = k[x]
  <2> HIDE DEF k
  <2> QED BY <1>3 DEF IsRec, SessionFields, Flags
<1> HIDE DEF k2
<1>5. /\ IsSession(k2) /\ k2.stats = k.stats /\ k2.open = k.open /\ k2.peer = k.peer
      /\ \A g : InStep(k, g) => InStep(k2, g)
  BY <1>3, <1>4, FlagsMayMove
<1> QED BY <1>1, <1>2, <1>3, <1>4, <1>5, PagesStay, OpStep

\* An operation that fails validation closes the socket.
LEMMA BadOpStep == ASSUME StreamInv, NEW p \in Pages, NEW s \in Sockets, BadOp(p, s) PROVE StreamInv'
<1> DEFINE k == socket[s]
           k2 == [k EXCEPT !.closing = TRUE]
<1>1. Op(p, s, k2) /\ page' = page BY DEF BadOp
<1>3. IsSession(k) /\ Paged(k.stats) /\ IsRec(k, SessionFields) BY OneSession
<1>4. /\ IsRec(k2, SessionFields) /\ k2.bound = k.bound /\ k2.closing
      /\ \A x \in SessionFields \ Flags : k2[x] = k[x]
  <2> HIDE DEF k
  <2> QED BY <1>3 DEF IsRec, SessionFields, Flags
<1> HIDE DEF k2
<1>5. /\ IsSession(k2) /\ k2.stats = k.stats /\ k2.open = k.open /\ k2.peer = k.peer
  BY <1>3, <1>4, FlagsMayMove
<1> QED BY <1>1, <1>3, <1>4, <1>5, PagesStay, OpStep

\* The page that drops what it has of a page of Stats.
LEMMA BuildingIsDropped ==
  ASSUME StreamInv, NEW p \in Pages, page' = [page EXCEPT ![p].stats.building = NoPage]
  PROVE  /\ page' = [q \in Pages |-> page'[q]] /\ \A q \in Pages \ {p} : page'[q] = page[q]
         /\ IsPage(page'[p]) /\ page'[p].slot = page[p].slot
         /\ \A x \in PageFields \ {"stats"} : page'[p][x] = page[p][x]
         /\ page'[p].stats.known = page[p].stats.known /\ page'[p].stats.shown = page[p].stats.shown
<1> DEFINE g == page[p]
           v == g.stats
           v2 == [v EXCEPT !.building = NoPage]
           g2 == [g EXCEPT !.stats = v2]
           fields == {"known", "shown", "header", "building"}
<1>1. page' = [page EXCEPT ![p] = g2] OBVIOUS
<1>2. IsPage(g) /\ page = [q \in Pages |-> page[q]] BY EveryPage DEF StreamInv, Standing
<1>3. v = [x \in fields |-> v[x]] /\ g = [x \in PageFields |-> g[x]] BY <1>2 DEF IsPage, IsRec
<1> HIDE DEF g2
<1>4. page' = [q \in Pages |-> page'[q]] /\ (\A q \in Pages \ {p} : page'[q] = page[q]) /\ page'[p] = g2
  BY <1>1, <1>2
<1> HIDE DEF v
<1>5. v2 = [x \in fields |-> v2[x]] /\ v2.known = v.known /\ v2.shown = v.shown BY <1>3
<1> HIDE DEF v2, g
<1>6. g2 = [x \in PageFields |-> g2[x]] /\ g2.stats = v2 /\ \A x \in PageFields \ {"stats"} : g2[x] = g[x]
  BY <1>3 DEF g2, PageFields
<1>7. IsPage(g2) /\ g2.slot = g.slot BY <1>2, <1>5, <1>6, OneViewIsTold DEF IsRec
<1> QED BY <1>4, <1>5, <1>6, <1>7 DEF g, v

\* An operation on one view has only that view to answer for.
LEMMA ViewOpStep ==
  ASSUME StreamInv, NEW p \in Pages, NEW s \in Sockets, NEW becomes, Op(p, s, becomes),
         NEW v \in {"settings", "diagnostic", "log", "history", "stats"}, ButFor(becomes, socket[s], v),
         v = "settings" => IsRec(becomes.settings, {"on", "owed", "value"}),
         v = "diagnostic" => IsRec(becomes.diagnostic, {"on", "owed", "value", "sample"})
                               /\ IsRec(becomes.diagnostic.sample, Sections),
         v = "log" => IsRec(becomes.log, {"on", "push", "after"}),
         v = "history" => IsRec(becomes.history, {"on", "owed", "fetch", "epoch", "held"}),
         v = "stats" => IsRec(becomes.stats, StatsFields) /\ Paged(becomes.stats),
         page' = page \/ (v = "stats" /\ page' = [page EXCEPT ![p].stats.building = NoPage]),
         InStep(socket[s], page[p]) => InStepFor(becomes, page'[p], v)
  PROVE  StreamInv'
<1> DEFINE k == socket[s]
<1>1. IsSession(k) /\ Paged(k.stats) BY OneSession
<1>2. /\ IsSession(becomes) /\ (v # "stats" => becomes.stats = k.stats)
      /\ \A x \in {"open", "closing", "peer", "bound"} : becomes[x] = k[x]
  BY <1>1, OneViewMoves
<1>3. Paged(becomes.stats) /\ becomes.open = k.open /\ becomes.peer = k.peer /\ becomes.bound = k.bound
  BY <1>1, <1>2
<1>4. /\ page' = [q \in Pages |-> page'[q]] /\ \A q \in Pages \ {p} : page'[q] = page[q]
      /\ IsPage(page'[p]) /\ page'[p].slot = page[p].slot
      /\ \A x \in PageFields \ {v} : page'[p][x] = page[p][x]
  BY PagesStay, BuildingIsDropped
<1>5. ASSUME InStep(k, page[p]) PROVE InStep(becomes, page'[p])
  <2> DEFINE g == page[p]
             g2 == page'[p]
  <2>1. InStep(k, g) /\ InStepFor(becomes, g2, v) /\ ButFor(becomes, k, v) BY <1>5
  <2>2. \A x \in PageFields \ {v} : g2[x] = g[x] BY <1>4
  <2> HIDE DEF k, g, g2
  <2>3. InStep(becomes, g2) BY <2>1, <2>2, OneViewInStep
  <2> QED BY <2>3 DEF g2
<1> QED BY <1>2, <1>3, <1>4, <1>5, OpStep

\* fetch: one more page of a list, the standing one stays.
LEMMA FetchStep == ASSUME StreamInv, NEW p \in Pages, NEW s \in Sockets, Fetch(p, s) PROVE StreamInv'
<1> DEFINE k == socket[s]
           h == k.history
           q == k.stats
           h2 == [h EXCEPT !.fetch = TRUE]
           q1 == [q EXCEPT !.fetch = TRUE]
           paging == q.paging /\ ~q.ofFetch
           q2 == [q1 EXCEPT !.paging = paging]
           fields == {"on", "owed", "fetch", "epoch", "held"}
<1>1. /\ page' = page
      /\ \/ Op(p, s, [k EXCEPT !.history.fetch = TRUE])
         \/ Op(p, s, [k EXCEPT !.stats.fetch = TRUE, !.stats.paging = @ /\ ~k.stats.ofFetch])
  BY DEF Fetch
<1>2. IsSession(k) /\ Paged(k.stats) /\ IsRec(k, SessionFields) BY OneSession
<1>3. h = [x \in fields |-> h[x]] /\ IsRec(q, StatsFields) BY <1>2 DEF IsSession, IsRec
<1>4. CASE Op(p, s, [k EXCEPT !.history.fetch = TRUE])
  <2> DEFINE k2 == [k EXCEPT !.history = h2]
  <2>1. Op(p, s, k2) BY <1>4
  <2> HIDE DEF h
  <2>2. h2 = [x \in fields |-> h2[x]] /\ h2.held = h.held BY <1>3
  <2> HIDE DEF h2, k
  <2>3. k2.history = h2 /\ ButFor(k2, k, "history") BY <1>2 DEF ButFor, IsRec, SessionFields
  <2> HIDE DEF k2
  <2>4. InStep(k, page[p]) => InStepFor(k2, page'[p], "history")
    BY <1>1, <2>2, <2>3 DEF InStep, InStepFor, HistoryInStep, h
  <2> QED BY <1>1, <2>1, <2>2, <2>3, <2>4, ViewOpStep DEF k, IsRec
<1>5. CASE Op(p, s, [k EXCEPT !.stats.fetch = TRUE, !.stats.paging = @ /\ ~k.stats.ofFetch])
  <2> DEFINE k1 == [k EXCEPT !.stats = q1]
             k2 == [k1 EXCEPT !.stats = q2]
  <2>1. Op(p, s, [k1 EXCEPT !.stats.paging = @ /\ ~k.stats.ofFetch])
    <3>1. [k EXCEPT !.stats.fetch = TRUE, !.stats.paging = @ /\ ~k.stats.ofFetch]
            = [k1 EXCEPT !.stats.paging = @ /\ ~k.stats.ofFetch]
      OBVIOUS
    <3> QED BY <1>5, <3>1
  <2> HIDE DEF paging
  <2>2. q1 = [x \in StatsFields |-> q1[x]] /\ \A x \in StatsFields \ {"fetch"} : q1[x] = q[x]
    <3> HIDE DEF q
    <3> QED BY <1>3 DEF IsRec, StatsFields
  <2> HIDE DEF q1, k
  <2>3. k1 = [x \in SessionFields |-> k1[x]] /\ k1.stats = q1 /\ \A x \in SessionFields \ {"stats"} : k1[x] = k[x]
    BY <1>2 DEF IsRec, SessionFields
  <2> HIDE DEF k1
  <2>4. q1.paging = q.paging BY <2>2 DEF StatsFields
  <2>5. Op(p, s, k2)
    <3>1. [k1 EXCEPT !.stats.paging = @ /\ ~k.stats.ofFetch] = [k1 EXCEPT !.stats = [q1 EXCEPT !.paging = @ /\ ~k.stats.ofFetch]]
      BY <2>3
    <3>2. [q1 EXCEPT !.paging = @ /\ ~k.stats.ofFetch] = q2
      BY <2>4 DEF paging
    <3> QED BY <2>1, <3>1, <3>2
  <2>6. q2 = [x \in StatsFields |-> q2[x]] /\ q2.paging = paging /\ \A x \in StatsFields \ {"fetch", "paging"} : q2[x] = q[x]
    BY <2>2 DEF StatsFields
  <2> HIDE DEF q2
  <2>7. k2.stats = q2 /\ ButFor(k2, k, "stats") BY <2>3 DEF ButFor, IsRec, SessionFields
  <2> HIDE DEF k2, q
  <2>8. /\ q2.next = q.next /\ q2.at = q.at /\ q2.held = q.held /\ q2.owed = q.owed /\ q2.ofFetch = q.ofFetch
        /\ q2.snapshot = q.snapshot
    BY <2>6 DEF StatsFields
  <2>9. IsRec(q2, StatsFields) /\ Paged(q2) BY <1>2, <2>6, <2>8 DEF IsRec, Paged, q
  <2>10. ASSUME InStep(k, page[p]) PROVE InStepFor(k2, page'[p], "stats")
    <3>1. StatsInStep(k, page[p]) /\ Assembles(q, page[p].stats) BY <2>10 DEF InStep, q
    <3>2. StatsInStep(k2, page[p]) BY <2>7, <2>8, <3>1 DEF StatsInStep, q
    <3>3. Assembles(q2, page[p].stats) BY <2>6, <2>8, <3>1 DEF Assembles, paging
    <3> QED BY <1>1, <2>7, <3>2, <3>3 DEF InStepFor
  <2>11. IsRec(k2.stats, StatsFields) /\ Paged(k2.stats) BY <2>7, <2>9
  <2> QED BY <1>1, <2>5, <2>7, <2>10, <2>11, ViewOpStep DEF k
<1> QED BY <1>1, <1>4, <1>5

\* subscribe and unsubscribe: the view that is turned on is owed a snapshot.
LEMMA SubscribeStep == ASSUME StreamInv, NEW p \in Pages, NEW s \in Sockets, Subscribe(p, s) PROVE StreamInv'
<1> DEFINE k == socket[s]
<1>1. PICK v \in Views :
        /\ Op(p, s, IF k[v].on THEN Unsubscribed(k, v) ELSE Subscribed(k, p, v))
        /\ page' = IF v = "stats" THEN [page EXCEPT ![p].stats.building = NoPage] ELSE page
  BY DEF Subscribe
<1>2. v \in {"settings", "diagnostic", "log", "history", "stats"} BY UiStreamAssumption
<1>3. IsSession(k) /\ Paged(k.stats) /\ IsRec(k, SessionFields) BY OneSession
<1>4. PICK m : \/ m = Unsubscribed(k, v) /\ Op(p, s, m)
               \/ m = Subscribed(k, p, v) /\ Op(p, s, m)
  BY <1>1
<1>5. page' = page \/ (v = "stats" /\ page' = [page EXCEPT ![p].stats.building = NoPage]) BY <1>1
<1>6. v # "stats" => page' = page BY <1>1
<1>7. /\ IsRec(k.settings, {"on", "owed", "value"})
      /\ IsRec(k.diagnostic, {"on", "owed", "value", "sample"}) /\ IsRec(k.diagnostic.sample, Sections)
      /\ IsRec(k.log, {"on", "push", "after"})
      /\ IsRec(k.history, {"on", "owed", "fetch", "epoch", "held"})
      /\ IsRec(k.stats, StatsFields)
  BY <1>3 DEF IsSession
<1>8. CASE v = "settings"
  <2> DEFINE r == k.settings
             r1 == [r EXCEPT !.on = FALSE]
             a == [r EXCEPT !.on = TRUE]
             r2 == [a EXCEPT !.owed = TRUE]
             fields == {"on", "owed", "value"}
  <2>1. m = [k EXCEPT !.settings = r1] \/ m = [k EXCEPT !.settings = r2]
    <3>1. CASE m = Unsubscribed(k, v)
      <4>1. m = [k EXCEPT !.settings.on = FALSE] BY <1>8, <3>1 DEF Unsubscribed
      <4> QED BY <4>1
    <3>2. CASE m = Subscribed(k, p, v)
      <4> DEFINE k1 == [k EXCEPT !.settings.on = TRUE]
      <4>1. m = [k1 EXCEPT !.settings.owed = TRUE] BY <1>8, <3>2 DEF Subscribed
      <4>2. k1 = [k EXCEPT !.settings = a] OBVIOUS
      <4> HIDE DEF k1, a, k
      <4>3. k1.settings = a BY <1>3, <4>2 DEF IsRec, SessionFields
      <4>4. m = [k1 EXCEPT !.settings = r2] BY <4>1, <4>3
      <4> HIDE DEF r2
      <4>5. m = [k EXCEPT !.settings = r2] BY <1>3, <4>2, <4>4 DEF IsRec, SessionFields
      <4> QED BY <4>5
    <3> QED BY <1>4, <3>1, <3>2
  <2>2. r = [x \in fields |-> r[x]] BY <1>7 DEF IsRec
  <2> HIDE DEF r
  <2>3. r1 = [x \in fields |-> r1[x]] /\ r1.on = FALSE BY <2>2
  <2>4. a = [x \in fields |-> a[x]] BY <2>2
  <2> HIDE DEF r1, a
  <2>5. r2 = [x \in fields |-> r2[x]] /\ r2.owed = TRUE BY <2>4
  <2> HIDE DEF r2, k
  <2>6. (m.settings = r1 \/ m.settings = r2) /\ ButFor(m, k, "settings")
    BY <1>3, <2>1 DEF ButFor, IsRec, SessionFields
  <2>7. IsRec(m.settings, fields) /\ InStepFor(m, page'[p], "settings")
    BY <2>3, <2>5, <2>6 DEF IsRec, InStepFor, SettingsInStep
  <2> QED BY <1>4, <1>5, <1>8, <2>6, <2>7, ViewOpStep DEF k
<1>9. CASE v = "diagnostic"
  <2> DEFINE r == k.diagnostic
             a == [r EXCEPT !.on = FALSE]
             r1 == [a EXCEPT !.owed = FALSE]
             b == [r EXCEPT !.on = TRUE]
             r2 == [b EXCEPT !.owed = TRUE]
             fields == {"on", "owed", "value", "sample"}
  <2>1. m = [k EXCEPT !.diagnostic = r1] \/ m = [k EXCEPT !.diagnostic = r2]
    <3>1. CASE m = Unsubscribed(k, v)
      <4> DEFINE k1 == [k EXCEPT !.diagnostic.on = FALSE]
      <4>1. m = [k1 EXCEPT !.diagnostic.owed = FALSE] BY <1>9, <3>1 DEF Unsubscribed
      <4>2. k1 = [k EXCEPT !.diagnostic = a] OBVIOUS
      <4> HIDE DEF k1, a, k
      <4>3. k1.diagnostic = a BY <1>3, <4>2 DEF IsRec, SessionFields
      <4>4. m = [k1 EXCEPT !.diagnostic = r1] BY <4>1, <4>3
      <4> HIDE DEF r1
      <4>5. m = [k EXCEPT !.diagnostic = r1] BY <1>3, <4>2, <4>4 DEF IsRec, SessionFields
      <4> QED BY <4>5
    <3>2. CASE m = Subscribed(k, p, v)
      <4> DEFINE k1 == [k EXCEPT !.diagnostic.on = TRUE]
      <4>1. m = [k1 EXCEPT !.diagnostic.owed = TRUE] BY <1>9, <3>2 DEF Subscribed
      <4>2. k1 = [k EXCEPT !.diagnostic = b] OBVIOUS
      <4> HIDE DEF k1, b, k
      <4>3. k1.diagnostic = b BY <1>3, <4>2 DEF IsRec, SessionFields
      <4>4. m = [k1 EXCEPT !.diagnostic = r2] BY <4>1, <4>3
      <4> HIDE DEF r2
      <4>5. m = [k EXCEPT !.diagnostic = r2] BY <1>3, <4>2, <4>4 DEF IsRec, SessionFields
      <4> QED BY <4>5
    <3> QED BY <1>4, <3>1, <3>2
  <2>2. r = [x \in fields |-> r[x]] /\ IsRec(r.sample, Sections) BY <1>7 DEF IsRec
  <2> HIDE DEF r
  <2>3. a = [x \in fields |-> a[x]] /\ a.on = FALSE /\ a.sample = r.sample BY <2>2
  <2>4. b = [x \in fields |-> b[x]] /\ b.sample = r.sample BY <2>2
  <2> HIDE DEF a, b
  <2>5. r1 = [x \in fields |-> r1[x]] /\ r1.on = FALSE /\ r1.sample = r.sample BY <2>3
  <2>6. r2 = [x \in fields |-> r2[x]] /\ r2.owed = TRUE /\ r2.sample = r.sample BY <2>4
  <2> HIDE DEF r1, r2, k
  <2>7. (m.diagnostic = r1 \/ m.diagnostic = r2) /\ ButFor(m, k, "diagnostic")
    BY <1>3, <2>1 DEF ButFor, IsRec, SessionFields
  <2>8. IsRec(m.diagnostic, fields) /\ IsRec(m.diagnostic.sample, Sections)
    BY <2>2, <2>5, <2>6, <2>7 DEF IsRec
  <2>9. InStepFor(m, page'[p], "diagnostic") BY <2>5, <2>6, <2>7 DEF InStepFor, DiagnosticInStep
  <2> QED BY <1>4, <1>5, <1>9, <2>7, <2>8, <2>9, ViewOpStep DEF k
<1>10. CASE v = "log"
  <2> DEFINE r == k.log
             r1 == [r EXCEPT !.on = FALSE]
             after == page[p].log
             r2 == [on |-> TRUE, push |-> TRUE, after |-> after]
             fields == {"on", "push", "after"}
  <2>1. m = [k EXCEPT !.log = r1] \/ m = [k EXCEPT !.log = r2]
    <3>1. CASE m = Unsubscribed(k, v)
      <4>1. m = [k EXCEPT !.log.on = FALSE] BY <1>10, <3>1 DEF Unsubscribed
      <4> QED BY <4>1
    <3>2. CASE m = Subscribed(k, p, v) BY <1>10, <3>2 DEF Subscribed
    <3> QED BY <1>4, <3>1, <3>2
  <2>2. r = [x \in fields |-> r[x]] BY <1>7 DEF IsRec
  <2> HIDE DEF r, after
  <2>3. r1 = [x \in fields |-> r1[x]] /\ r1.on = FALSE BY <2>2
  <2>4. r2 = [x \in fields |-> r2[x]] /\ r2.after = after OBVIOUS
  <2> HIDE DEF r1, r2, k
  <2>5. (m.log = r1 \/ m.log = r2) /\ ButFor(m, k, "log")
    BY <1>3, <2>1 DEF ButFor, IsRec, SessionFields
  <2>6. IsRec(m.log, fields) BY <2>3, <2>4, <2>5 DEF IsRec
  <2>7. LogInStep(m, page[p]) BY <2>3, <2>4, <2>5 DEF LogInStep, after
  <2>8. InStepFor(m, page'[p], "log") BY <1>6, <1>10, <2>7 DEF InStepFor
  <2> QED BY <1>4, <1>5, <1>10, <2>5, <2>6, <2>8, ViewOpStep DEF k
<1>11. CASE v = "history"
  <2> DEFINE r == k.history
             a == [r EXCEPT !.on = FALSE]
             r1 == [a EXCEPT !.fetch = FALSE]
             b == [r EXCEPT !.on = TRUE]
             r2 == [b EXCEPT !.owed = TRUE]
             fields == {"on", "owed", "fetch", "epoch", "held"}
  <2>1. m = [k EXCEPT !.history = r1] \/ m = [k EXCEPT !.history = r2]
    <3>1. CASE m = Unsubscribed(k, v)
      <4> DEFINE k1 == [k EXCEPT !.history.on = FALSE]
      <4>1. m = [k1 EXCEPT !.history.fetch = FALSE] BY <1>11, <3>1 DEF Unsubscribed
      <4>2. k1 = [k EXCEPT !.history = a] OBVIOUS
      <4> HIDE DEF k1, a, k
      <4>3. k1.history = a BY <1>3, <4>2 DEF IsRec, SessionFields
      <4>4. m = [k1 EXCEPT !.history = r1] BY <4>1, <4>3
      <4> HIDE DEF r1
      <4>5. m = [k EXCEPT !.history = r1] BY <1>3, <4>2, <4>4 DEF IsRec, SessionFields
      <4> QED BY <4>5
    <3>2. CASE m = Subscribed(k, p, v)
      <4> DEFINE k1 == [k EXCEPT !.history.on = TRUE]
      <4>1. m = [k1 EXCEPT !.history.owed = TRUE] BY <1>11, <3>2 DEF Subscribed
      <4>2. k1 = [k EXCEPT !.history = b] OBVIOUS
      <4> HIDE DEF k1, b, k
      <4>3. k1.history = b BY <1>3, <4>2 DEF IsRec, SessionFields
      <4>4. m = [k1 EXCEPT !.history = r2] BY <4>1, <4>3
      <4> HIDE DEF r2
      <4>5. m = [k EXCEPT !.history = r2] BY <1>3, <4>2, <4>4 DEF IsRec, SessionFields
      <4> QED BY <4>5
    <3> QED BY <1>4, <3>1, <3>2
  <2>2. r = [x \in fields |-> r[x]] BY <1>7 DEF IsRec
  <2> HIDE DEF r
  <2>3. a = [x \in fields |-> a[x]] /\ a.held = r.held BY <2>2
  <2>4. b = [x \in fields |-> b[x]] /\ b.held = r.held BY <2>2
  <2> HIDE DEF a, b
  <2>5. r1 = [x \in fields |-> r1[x]] /\ r1.held = r.held BY <2>3
  <2>6. r2 = [x \in fields |-> r2[x]] /\ r2.held = r.held BY <2>4
  <2> HIDE DEF r1, r2, k
  <2>7. (m.history = r1 \/ m.history = r2) /\ ButFor(m, k, "history")
    BY <1>3, <2>1 DEF ButFor, IsRec, SessionFields
  <2>8. IsRec(m.history, fields) /\ m.history.held = k.history.held BY <2>5, <2>6, <2>7 DEF IsRec, r
  <2>9. InStep(k, page[p]) => HistoryInStep(m, page[p]) BY <2>8 DEF InStep, HistoryInStep
  <2>10. InStep(k, page[p]) => InStepFor(m, page'[p], "history") BY <1>6, <1>11, <2>9 DEF InStepFor
  <2> QED BY <1>4, <1>5, <1>11, <2>7, <2>8, <2>10, ViewOpStep DEF k
<1>12. CASE v = "stats"
  <2> DEFINE r == k.stats
             like(x) == /\ IsRec(x, StatsFields) /\ x.held = r.held /\ x.next = r.next /\ x.at = r.at
             put(x) == [k EXCEPT !.stats = x]
  <2>0. IsRec(r, StatsFields) BY <1>7
  <2>1. ASSUME NEW x, NEW y PROVE put(x).stats = x /\ [put(x) EXCEPT !.stats = y] = put(y)
    <3> HIDE DEF k
    <3> QED BY <1>3 DEF IsRec, SessionFields
  <2>2. ASSUME NEW x, like(x), NEW z
        PROVE  /\ like([x EXCEPT !.on = z]) /\ like([x EXCEPT !.owed = z]) /\ like([x EXCEPT !.fetch = z])
               /\ like([x EXCEPT !.paging = z]) /\ [x EXCEPT !.paging = z].paging = z
    <3> HIDE DEF r
    <3>1. x = [y \in StatsFields |-> x[y]] BY <2>2 DEF IsRec
    <3> QED BY <2>2, <3>1 DEF IsRec, StatsFields
  <2>3. \E x : like(x) /\ x.paging = FALSE /\ m = put(x)
    <3> DEFINE a1 == [r EXCEPT !.on = FALSE]
               a2 == [a1 EXCEPT !.fetch = FALSE]
               a3 == [a2 EXCEPT !.paging = FALSE]
               b1 == [r EXCEPT !.on = TRUE]
               b2 == [b1 EXCEPT !.owed = TRUE]
               b3 == [b2 EXCEPT !.fetch = FALSE]
               b4 == [b3 EXCEPT !.paging = FALSE]
    <3>0. put(a1) = [k EXCEPT !.stats.on = FALSE] /\ put(b1) = [k EXCEPT !.stats.on = TRUE] OBVIOUS
    <3>1. like(r) BY <2>0
    <3> HIDE DEF like, put
    <3>2. like(a1) BY <2>2, <3>1
    <3>3. like(b1) BY <2>2, <3>1
    <3> HIDE DEF a1, b1
    <3>4. like(a2) BY <2>2, <3>2
    <3>5. like(b2) BY <2>2, <3>3
    <3> HIDE DEF a2, b2
    <3>6. like(a3) /\ a3.paging = FALSE BY <2>2, <3>4
    <3>7. like(b3) BY <2>2, <3>5
    <3> HIDE DEF a3, b3
    <3>8. like(b4) /\ b4.paging = FALSE BY <2>2, <3>7
    <3> HIDE DEF b4
    <3>9. CASE m = Unsubscribed(k, v)
      <4> DEFINE m1 == [k EXCEPT !.stats.on = FALSE]
                 m2 == [m1 EXCEPT !.stats.fetch = FALSE]
      <4>1. m = [m2 EXCEPT !.stats.paging = FALSE] BY <1>12, <3>9 DEF Unsubscribed
      <4>2. m1 = put(a1) BY <3>0
      <4> HIDE DEF m1
      <4>3. m2 = [put(a1) EXCEPT !.stats = a2] BY <2>1, <4>2 DEF a2
      <4>4. m2 = put(a2) BY <2>1, <4>3
      <4> HIDE DEF m2
      <4>5. m = [put(a2) EXCEPT !.stats = a3] BY <2>1, <4>1, <4>4 DEF a3
      <4>6. m = put(a3) BY <2>1, <4>5
      <4> QED BY <3>6, <4>6
    <3>10. CASE m = Subscribed(k, p, v)
      <4> DEFINE m1 == [k EXCEPT !.stats.on = TRUE]
                 m2 == [m1 EXCEPT !.stats.owed = TRUE]
                 m3 == [m2 EXCEPT !.stats.fetch = FALSE]
      <4>1. m = [m3 EXCEPT !.stats.paging = FALSE] BY <1>12, <3>10 DEF Subscribed
      <4>2. m1 = put(b1) BY <3>0
      <4> HIDE DEF m1
      <4>3. m2 = [put(b1) EXCEPT !.stats = b2] BY <2>1, <4>2 DEF b2
      <4>4. m2 = put(b2) BY <2>1, <4>3
      <4> HIDE DEF m2
      <4>5. m3 = [put(b2) EXCEPT !.stats = b3] BY <2>1, <4>4 DEF b3
      <4>6. m3 = put(b3) BY <2>1, <4>5
      <4> HIDE DEF m3
      <4>7. m = [put(b3) EXCEPT !.stats = b4] BY <2>1, <4>1, <4>6 DEF b4
      <4>8. m = put(b4) BY <2>1, <4>7
      <4> QED BY <3>8, <4>8
    <3> QED BY <1>4, <3>9, <3>10
  <2>4. PICK x : like(x) /\ x.paging = FALSE /\ m = put(x) BY <2>3
  <2>5. m.stats = x /\ ButFor(m, k, "stats")
    <3>1. m = [k EXCEPT !.stats = x] BY <2>4
    <3> HIDE DEF k
    <3> QED BY <1>3, <3>1 DEF ButFor, IsRec, SessionFields
  <2>6. IsRec(x, StatsFields) /\ Paged(x) /\ x.held = r.held BY <1>3, <2>4 DEF Paged
  <2>7. page'[p].stats.known = page[p].stats.known /\ page'[p].stats.shown = page[p].stats.shown
    <3>1. page' = [page EXCEPT ![p].stats.building = NoPage] BY <1>1, <1>12
    <3> QED BY <3>1, BuildingIsDropped
  <2>8. ASSUME InStep(k, page[p]) PROVE InStepFor(m, page'[p], "stats")
    <3>1. StatsInStep(k, page[p]) BY <2>8 DEF InStep
    <3> HIDE DEF k
    <3>2. StatsInStep(m, page'[p]) BY <2>5, <2>6, <2>7, <3>1 DEF StatsInStep
    <3>3. Assembles(m.stats, page'[p].stats) BY <2>4, <2>5 DEF Assembles
    <3> QED BY <3>2, <3>3 DEF InStepFor
  <2>9. IsRec(m.stats, StatsFields) /\ Paged(m.stats) BY <2>5, <2>6
  <2>10. Op(p, s, m) BY <1>4
  <2> HIDE DEF put, like, k
  <2> QED BY <1>5, <1>12, <2>5, <2>8, <2>9, <2>10, ViewOpStep DEF k
<1> QED BY <1>2, <1>8, <1>9, <1>10, <1>11, <1>12

\* What a session that is to start over becomes: everything is owed but the log.
LEMMA EverythingIsOwed ==
  ASSUME NEW k, IsSession(k)
  PROVE  LET m == Resynced(k) IN
           /\ IsSession(m) /\ m.open = k.open /\ m.peer = k.peer /\ m.bound = k.bound
           /\ m.card.owed /\ m.settings.owed /\ m.diagnostic.owed = m.diagnostic.on /\ m.log = k.log
           /\ m.history.held = k.history.held /\ m.stats.owed /\ m.stats.held = k.stats.held
           /\ m.stats.next = k.stats.next /\ m.stats.at = k.stats.at
<1> DEFINE k1 == [k EXCEPT !.home.owed = TRUE]
           k2 == [k1 EXCEPT !.card.owed = TRUE]
           k3 == [k2 EXCEPT !.settings.owed = TRUE]
           k4 == [k3 EXCEPT !.diagnostic.owed = k.diagnostic.on]
           k5 == [k4 EXCEPT !.history.owed = TRUE]
           k6 == [k5 EXCEPT !.stats.owed = TRUE]
           k7 == [k6 EXCEPT !.stats.fetch = FALSE]
<1>1. Resynced(k) = k7 BY DEF Resynced
<1>2. /\ k = [x \in SessionFields |-> k[x]]
      /\ IsRec(k.card, {"owed", "seq", "cycle", "count"}) /\ IsRec(k.settings, {"on", "owed", "value"})
      /\ IsRec(k.diagnostic, {"on", "owed", "value", "sample"}) /\ IsRec(k.diagnostic.sample, Sections)
      /\ IsRec(k.log, {"on", "push", "after"})
      /\ IsRec(k.history, {"on", "owed", "fetch", "epoch", "held"}) /\ IsRec(k.stats, StatsFields)
  BY DEF IsSession, IsRec
<1>3. k1 = [x \in SessionFields |-> k1[x]] /\ \A x \in SessionFields \ {"home"} : k1[x] = k[x]
  BY <1>2 DEF SessionFields
<1> HIDE DEF k1
<1>4. /\ k2 = [x \in SessionFields |-> k2[x]] /\ k2.card = [k1.card EXCEPT !.owed = TRUE]
      /\ \A x \in SessionFields \ {"card"} : k2[x] = k1[x]
  BY <1>3 DEF SessionFields
<1> HIDE DEF k2
<1>5. /\ k3 = [x \in SessionFields |-> k3[x]] /\ k3.settings = [k2.settings EXCEPT !.owed = TRUE]
      /\ \A x \in SessionFields \ {"settings"} : k3[x] = k2[x]
  BY <1>4 DEF SessionFields
<1> HIDE DEF k3
<1>6. /\ k4 = [x \in SessionFields |-> k4[x]]
      /\ k4.diagnostic = [k3.diagnostic EXCEPT !.owed = k.diagnostic.on]
      /\ \A x \in SessionFields \ {"diagnostic"} : k4[x] = k3[x]
  BY <1>5 DEF SessionFields
<1> HIDE DEF k4
<1>7. /\ k5 = [x \in SessionFields |-> k5[x]] /\ k5.history = [k4.history EXCEPT !.owed = TRUE]
      /\ \A x \in SessionFields \ {"history"} : k5[x] = k4[x]
  BY <1>6 DEF SessionFields
<1> HIDE DEF k5
<1>8. /\ k6 = [x \in SessionFields |-> k6[x]] /\ k6.stats = [k5.stats EXCEPT !.owed = TRUE]
      /\ \A x \in SessionFields \ {"stats"} : k6[x] = k5[x]
  BY <1>7 DEF SessionFields
<1> HIDE DEF k6
<1>9. /\ k7 = [x \in SessionFields |-> k7[x]] /\ k7.stats = [k6.stats EXCEPT !.fetch = FALSE]
      /\ \A x \in SessionFields \ {"stats"} : k7[x] = k6[x]
  BY <1>8 DEF SessionFields
<1> HIDE DEF k7
<1>10. /\ k7.card = [k.card EXCEPT !.owed = TRUE] /\ k7.settings = [k.settings EXCEPT !.owed = TRUE]
       /\ k7.diagnostic = [k.diagnostic EXCEPT !.owed = k.diagnostic.on]
       /\ k7.history = [k.history EXCEPT !.owed = TRUE]
       /\ k7.stats = [[k.stats EXCEPT !.owed = TRUE] EXCEPT !.fetch = FALSE]
       /\ k7.log = k.log /\ k7.open = k.open /\ k7.peer = k.peer /\ k7.bound = k.bound
  <2>1. k1.card = k.card /\ k1.settings = k.settings /\ k1.diagnostic = k.diagnostic
        /\ k1.history = k.history /\ k1.stats = k.stats
    BY <1>3 DEF SessionFields
  <2>2. k2.settings = k1.settings /\ k2.diagnostic = k1.diagnostic /\ k2.history = k1.history
        /\ k2.stats = k1.stats
    BY <1>4 DEF SessionFields
  <2>3. k3.card = k2.card /\ k3.diagnostic = k2.diagnostic /\ k3.history = k2.history /\ k3.stats = k2.stats
    BY <1>5 DEF SessionFields
  <2>4. k4.card = k3.card /\ k4.settings = k3.settings /\ k4.history = k3.history /\ k4.stats = k3.stats
    BY <1>6 DEF SessionFields
  <2>5. k5.card = k4.card /\ k5.settings = k4.settings /\ k5.diagnostic = k4.diagnostic
        /\ k5.stats = k4.stats
    BY <1>7 DEF SessionFields
  <2>6. k6.card = k5.card /\ k6.settings = k5.settings /\ k6.diagnostic = k5.diagnostic
        /\ k6.history = k5.history
    BY <1>8 DEF SessionFields
  <2>7. k7.card = k6.card /\ k7.settings = k6.settings /\ k7.diagnostic = k6.diagnostic
        /\ k7.history = k6.history
    BY <1>9 DEF SessionFields
  <2>8. \A x \in {"log", "open", "peer", "bound"} :
          /\ k1[x] = k[x] /\ k2[x] = k1[x] /\ k3[x] = k2[x] /\ k4[x] = k3[x]
          /\ k5[x] = k4[x] /\ k6[x] = k5[x] /\ k7[x] = k6[x]
    BY <1>3, <1>4, <1>5, <1>6, <1>7, <1>8, <1>9 DEF SessionFields
  <2>9. k7.log = k.log /\ k7.open = k.open /\ k7.peer = k.peer /\ k7.bound = k.bound
    BY <2>8
  <2>10. k7.card = [k.card EXCEPT !.owed = TRUE] BY <1>4, <2>1, <2>3, <2>4, <2>5, <2>6, <2>7
  <2>11. k7.settings = [k.settings EXCEPT !.owed = TRUE] BY <1>5, <2>1, <2>2, <2>4, <2>5, <2>6, <2>7
  <2>12. k7.diagnostic = [k.diagnostic EXCEPT !.owed = k.diagnostic.on]
    BY <1>6, <2>1, <2>2, <2>3, <2>5, <2>6, <2>7
  <2>0. /\ k5.history = [k4.history EXCEPT !.owed = TRUE] /\ k6.stats = [k5.stats EXCEPT !.owed = TRUE]
        /\ k7.stats = [k6.stats EXCEPT !.fetch = FALSE]
    BY <1>7, <1>8, <1>9
  <2>13. k7.history = [k.history EXCEPT !.owed = TRUE]
    <3>1. k4.history = k.history BY <2>1, <2>2, <2>3, <2>4
    <3>2. k7.history = k5.history BY <2>6, <2>7
    <3> QED BY <2>0, <3>1, <3>2
  <2>14. k7.stats = [[k.stats EXCEPT !.owed = TRUE] EXCEPT !.fetch = FALSE]
    BY <2>0, <2>1, <2>2, <2>3, <2>4, <2>5
  <2> QED BY <2>9, <2>10, <2>11, <2>12, <2>13, <2>14
<1>11. IsRec(k7.card, {"owed", "seq", "cycle", "count"}) /\ k7.card.owed
  BY <1>2, <1>10 DEF IsRec
<1>12. IsRec(k7.settings, {"on", "owed", "value"}) /\ k7.settings.owed
  BY <1>2, <1>10 DEF IsRec
<1>13. /\ IsRec(k7.diagnostic, {"on", "owed", "value", "sample"}) /\ k7.diagnostic.owed = k7.diagnostic.on
       /\ k7.diagnostic.sample = k.diagnostic.sample
  BY <1>2, <1>10 DEF IsRec
<1>14. IsRec(k7.history, {"on", "owed", "fetch", "epoch", "held"}) /\ k7.history.held = k.history.held
  BY <1>2, <1>10 DEF IsRec
<1>15. /\ IsRec(k7.stats, StatsFields) /\ k7.stats.owed /\ k7.stats.held = k.stats.held
       /\ k7.stats.next = k.stats.next /\ k7.stats.at = k.stats.at
  BY <1>2, <1>10 DEF IsRec, StatsFields
<1>16. IsRec(k7, SessionFields) BY <1>9 DEF IsRec
<1> QED BY <1>1, <1>2, <1>10, <1>11, <1>12, <1>13, <1>14, <1>15, <1>16 DEF IsSession

\* resync: the page drops what it was assembling, and everything is owed to it again.
LEMMA ResyncStep == ASSUME StreamInv, NEW p \in Pages, NEW s \in Sockets, Resync(p, s) PROVE StreamInv'
<1> DEFINE k == socket[s]
           m == Resynced(k)
<1>1. Op(p, s, m) /\ page' = [page EXCEPT ![p].stats.building = NoPage] BY DEF Resync
<1>2. IsSession(k) /\ Paged(k.stats) BY OneSession
<1>3. /\ page' = [q \in Pages |-> page'[q]] /\ \A q \in Pages \ {p} : page'[q] = page[q]
      /\ IsPage(page'[p]) /\ page'[p].slot = page[p].slot
      /\ \A x \in PageFields \ {"stats"} : page'[p][x] = page[p][x]
      /\ page'[p].stats.known = page[p].stats.known /\ page'[p].stats.shown = page[p].stats.shown
  BY <1>1, BuildingIsDropped
<1> HIDE DEF k
<1>4. /\ IsSession(m) /\ m.open = k.open /\ m.peer = k.peer /\ m.bound = k.bound
      /\ m.card.owed /\ m.settings.owed /\ m.diagnostic.owed = m.diagnostic.on /\ m.log = k.log
      /\ m.history.held = k.history.held /\ m.stats.owed /\ m.stats.held = k.stats.held
      /\ m.stats.next = k.stats.next /\ m.stats.at = k.stats.at
  BY <1>2, EverythingIsOwed
<1> HIDE DEF m
<1>5. Paged(m.stats) BY <1>2, <1>4 DEF Paged
<1>6. ASSUME InStep(k, page[p]) PROVE InStep(m, page'[p])
  <2>1. LogInStep(k, page[p]) /\ HistoryInStep(k, page[p]) /\ StatsInStep(k, page[p])
    BY <1>6 DEF InStep
  <2>2. page'[p].log = page[p].log /\ page'[p].history = page[p].history BY <1>3 DEF PageFields
  <2>3. CardInStep(m, page'[p]) /\ SettingsInStep(m, page'[p]) /\ DiagnosticInStep(m, page'[p])
    BY <1>4 DEF CardInStep, SettingsInStep, DiagnosticInStep
  <2>4. LogInStep(m, page'[p]) /\ HistoryInStep(m, page'[p])
    BY <1>4, <2>1, <2>2 DEF LogInStep, HistoryInStep
  <2>5. StatsInStep(m, page'[p]) /\ Assembles(m.stats, page'[p].stats)
    BY <1>3, <1>4, <2>1 DEF StatsInStep, Assembles
  <2> QED BY <2>3, <2>4, <2>5 DEF InStep
<1> QED BY <1>1, <1>3, <1>4, <1>5, <1>6, OpStep DEF k

-----------------------------------------------------------------------------
\* A dispatch that has begun is at one of the slots, and one is queued only for a slot.
Slots ==
    /\ IsRec(dispatch, {"pending", "queued", "at", "seen"})
    /\ dispatch.at # 0 => dispatch.at \in Sockets
    /\ dispatch.queued => Sockets # {}

\* Every slot of the array has its number, from 1 on.
LEMMA LastSocket ==
  /\ Cardinality(Sockets) \in Nat
  /\ \A s : s \in Sockets <=> s \in Nat /\ 1 <= s /\ s <= Cardinality(Sockets)
<1> DEFINE last == Cardinality(Sockets)
<1>1. last \in Nat BY UiStreamAssumption, FS_CardinalityType
<1>2. Sockets = 1 .. last BY UiStreamAssumption
<1> HIDE DEF last
<1>3. \A s : s \in Sockets <=> s \in Nat /\ 1 <= s /\ s <= last BY <1>1, <1>2
<1> QED BY <1>1, <1>3 DEF last

\* The dispatch goes from slot to slot, and every other step leaves it where it is.
LEMMA DispatchIsAtASlot ==
  ASSUME Slots, [UiStreamNext]_uiStreamVars
  PROVE  Slots'
<1> DEFINE fields == {"pending", "queued", "at", "seen"}
           last == Cardinality(Sockets)
<1>1. dispatch = [x \in fields |-> dispatch[x]] BY DEF Slots, IsRec
<1>2. CASE dispatch' = dispatch BY <1>2 DEF Slots
<1>3. CASE dispatch' = NoDispatch
  <2>1. /\ dispatch' = [x \in fields |-> dispatch'[x]] /\ dispatch'.at = 0 /\ dispatch'.queued = FALSE
    BY <1>3 DEF NoDispatch
  <2> QED BY <2>1 DEF Slots, IsRec
<1>4. CASE Queue
  <2> DEFINE d == [dispatch EXCEPT !.pending = TRUE]
  <2>1. Sockets # {} /\ dispatch' = [d EXCEPT !.queued = TRUE] BY <1>4 DEF Queue
  <2>2. d = [x \in fields |-> d[x]] /\ d.at = dispatch.at BY <1>1
  <2> HIDE DEF d
  <2>3. dispatch' = [x \in fields |-> dispatch'[x]] /\ dispatch'.at = dispatch.at BY <2>1, <2>2
  <2> QED BY <2>1, <2>3 DEF Slots, IsRec
<1>5. CASE Begin
  <2> DEFINE d1 == [dispatch EXCEPT !.queued = FALSE]
             d2 == [d1 EXCEPT !.at = 1]
  <2>1. dispatch.queued /\ dispatch' = [d2 EXCEPT !.seen = device.shown] BY <1>5 DEF Begin
  <2>2. d1 = [x \in fields |-> d1[x]] /\ d1.queued = FALSE BY <1>1
  <2> HIDE DEF d1
  <2>3. d2 = [x \in fields |-> d2[x]] /\ d2.queued = FALSE /\ d2.at = 1 BY <2>2
  <2> HIDE DEF d2
  <2>4. dispatch' = [x \in fields |-> dispatch'[x]] /\ dispatch'.queued = FALSE /\ dispatch'.at = 1
    BY <2>1, <2>3
  <2>5. PICK s : s \in Sockets BY <2>1 DEF Slots
  <2>6. 1 \in Sockets BY <2>5, LastSocket
  <2> QED BY <2>4, <2>6 DEF Slots, IsRec
<1>6. CASE Serve
  <2>1. dispatch.at \in Sockets /\ dispatch' = NextSlot BY <1>6 DEF Serve, Httpd, Slots
  <2> DEFINE at == dispatch.at + 1
  <2>2. CASE dispatch.at # last
    <3>1. dispatch' = [dispatch EXCEPT !.at = at] BY <2>1, <2>2 DEF NextSlot
    <3>2. at \in Sockets BY <2>1, <2>2, LastSocket
    <3> HIDE DEF at
    <3>3. dispatch' = [x \in fields |-> dispatch'[x]] /\ dispatch'.at = at /\ dispatch'.queued = dispatch.queued
      BY <1>1, <3>1
    <3> QED BY <3>2, <3>3 DEF Slots, IsRec
  <2>3. CASE dispatch.at = last BY <1>3, <2>1, <2>3 DEF NextSlot
  <2> QED BY <2>2, <2>3
<1>7. CASE Busy BY <1>3, <1>7 DEF Busy
<1>8. CASE UNCHANGED uiStreamVars BY <1>2, <1>8 DEF uiStreamVars
<1>9. CASE \E p \in Pages :
             \/ Claim(p) \/ Leave(p)
             \/ \E s \in Sockets : Open(p, s) \/ Bind(p, s) \/ Activity(p, s) \/ Resync(p, s)
                                 \/ Subscribe(p, s) \/ Fetch(p, s) \/ BadOp(p, s)
  <2>1. PICK p \in Pages :
          \/ Claim(p) \/ Leave(p)
          \/ \E s \in Sockets : Open(p, s) \/ Bind(p, s) \/ Activity(p, s) \/ Resync(p, s)
                              \/ Subscribe(p, s) \/ Fetch(p, s) \/ BadOp(p, s)
    BY <1>9
  <2>2. CASE Claim(p) \/ Leave(p) BY <1>2, <2>2 DEF Claim, Leave
  <2>3. CASE \E s \in Sockets : Open(p, s) \/ Bind(p, s) BY <1>2, <2>3 DEF Open, Bind
  <2>4. ASSUME NEW s \in Sockets, NEW becomes, Op(p, s, becomes) PROVE Slots'
    BY <1>2, <2>4 DEF Op
  <2>5. CASE \E s \in Sockets : Activity(p, s) \/ BadOp(p, s) BY <2>4, <2>5 DEF Activity, BadOp
  <2>6. CASE \E s \in Sockets : Resync(p, s) \/ Subscribe(p, s) \/ Fetch(p, s)
    BY <2>4, <2>6 DEF Resync, Subscribe, Fetch
  <2> QED BY <2>1, <2>2, <2>3, <2>5, <2>6
<1>10. CASE (\E s \in Sockets : Close(s) \/ BindTimesOut(s) \/ GoesSilent(s))
            \/ SignOutUi \/ Changes \/ LiveEnds
  BY <1>2, <1>10 DEF Close, BindTimesOut, GoesSilent, SignOutUi, Changes, LiveEnds
<1> QED BY <1>4, <1>5, <1>6, <1>7, <1>8, <1>9, <1>10 DEF UiStreamNext

-----------------------------------------------------------------------------
\* A silent session is given up, and another that may not be served is closed.
LEMMA GivenUpStep ==
  ASSUME StreamInv, NEW s \in Sockets, device' = device, page' = page,
         socket' = [socket EXCEPT ![s].bound = FALSE, ![s].late = TRUE, ![s].closing = TRUE]
  PROVE  StreamInv'
<1> DEFINE k == socket[s]
           k1 == [k EXCEPT !.bound = FALSE]
           k2 == [k1 EXCEPT !.late = TRUE]
           k3 == [k2 EXCEPT !.closing = TRUE]
           e1 == [socket EXCEPT ![s].bound = FALSE]
           e2 == [e1 EXCEPT ![s].late = TRUE]
<1>1. socket' = [e2 EXCEPT ![s].closing = TRUE] OBVIOUS
<1>2. socket = [t \in Sockets |-> socket[t]] /\ \A t \in Sockets : IsRec(socket[t], SessionFields)
  BY OneSession DEF StreamInv, Standing
<1>3. e1 = [socket EXCEPT ![s] = k1] OBVIOUS
<1>4. IsRec(k, SessionFields) BY <1>2
<1> HIDE DEF k, e1
<1>5. k1 = [x \in SessionFields |-> k1[x]] /\ \A x \in SessionFields \ Flags : k1[x] = k[x]
  BY <1>4 DEF IsRec, SessionFields, Flags
<1> HIDE DEF k1
<1>6. e1 = [t \in Sockets |-> e1[t]] /\ e1[s] = k1 /\ \A t \in Sockets \ {s} : e1[t] = socket[t]
  BY <1>2, <1>3
<1>7. e2 = [e1 EXCEPT ![s] = k2] BY <1>6
<1>8. k2 = [x \in SessionFields |-> k2[x]] /\ \A x \in SessionFields \ Flags : k2[x] = k[x]
  BY <1>5 DEF SessionFields, Flags
<1> HIDE DEF k2, e2
<1>9. e2 = [t \in Sockets |-> e2[t]] /\ e2[s] = k2 /\ \A t \in Sockets \ {s} : e2[t] = socket[t]
  BY <1>6, <1>7
<1>10. socket' = [e2 EXCEPT ![s] = k3] BY <1>1, <1>9
<1>11. k3 = [x \in SessionFields |-> k3[x]] /\ k3.closing = TRUE /\ \A x \in SessionFields \ Flags : k3[x] = k[x]
  BY <1>8 DEF SessionFields, Flags
<1> HIDE DEF k3
<1>12. /\ socket' = [t \in Sockets |-> socket'[t]] /\ socket'[s] = k3
       /\ \A t \in Sockets \ {s} : socket'[t] = socket[t]
  BY <1>9, <1>10
<1>13. \A t \in Sockets : /\ IsRec(socket'[t], SessionFields)
                          /\ \A x \in SessionFields \ Flags : socket'[t][x] = socket[t][x]
  <2> TAKE t \in Sockets
  <2>1. CASE t = s
    <3>1. socket'[t] = k3 /\ socket[t] = k BY <1>12, <2>1 DEF k
    <3>2. IsRec(k3, SessionFields) /\ \A x \in SessionFields \ Flags : k3[x] = k[x]
      BY <1>11 DEF IsRec
    <3> QED BY <3>1, <3>2
  <2>2. CASE t # s BY <1>2, <1>12, <2>2
  <2> QED BY <2>1, <2>2
<1>14. socket'[s].closing BY <1>11, <1>12
<1>15. \A t \in Sockets \ {s} : socket'[t] = socket[t] \/ socket'[t].closing BY <1>12
<1> QED BY <1>12, <1>13, <1>14, <1>15, OnlyFlagsMove

\* The work on a slot begins with what the session and its page stand at.
LEMMA WorkBegins ==
  ASSUME StreamInv, NEW s \in Sockets, socket[s].open
  PROVE  LET k == socket[s]
             reached == k.bound /\ ~k.closing /\ Reaches(s, k.peer)
         IN  /\ AtWork(Work(s), k, Work(s).g.slot, reached) /\ Work(s).result = "sent"
             /\ Work(s).waits = NoFrames /\ Work(s).open = TRUE /\ Work(s).ends = FALSE
             /\ Reaches(s, k.peer) => Work(s).g = page[k.peer]
<1> DEFINE k == socket[s]
           reached == k.bound /\ ~k.closing /\ Reaches(s, k.peer)
           g == IF Reaches(s, k.peer) THEN page[k.peer] ELSE BlankPage
           c == [k |-> k, open |-> TRUE, ends |-> FALSE, failed |-> FALSE, result |-> "sent",
                 waits |-> NoFrames, g |-> g]
<1>1. Work(s) = c BY DEF Work
<1>2. k.peer \in Pages /\ IsSession(k) /\ Paged(k.stats) BY OneSession
<1>3. IsPage(BlankPage) BY DEF BlankPage, IsPage, IsRec, PageFields, NoSample
<1>4. IsPage(g) BY <1>2, <1>3, EveryPage
<1>5. reached => InStep(k, g) BY <1>2, OneSession
<1>6. NoFrames = <<NoFrames[1], NoFrames[2]>> BY DEF NoFrames
<1>7. Reaches(s, k.peer) => g = page[k.peer] OBVIOUS
<1> HIDE DEF k, g, reached
<1>8. /\ IsWork(c) /\ c.k = k /\ c.g = g /\ c.result = "sent" /\ c.waits = NoFrames /\ c.open = TRUE
      /\ c.ends = FALSE
  BY <1>6 DEF IsWork, IsRec, WorkFields
<1> HIDE DEF c
<1>9. AtWork(c, k, c.g.slot, reached) BY <1>2, <1>4, <1>5, <1>8 DEF AtWork
<1> QED BY <1>1, <1>7, <1>8, <1>9 DEF k, reached

\* One slot of a dispatch: the batch, the views, and the socket is closed if it broke.
LEMMA SendStep ==
  ASSUME StreamInv, NEW s \in Sockets, socket[s].open, socket[s].bound, SendTo(s), device' = device
  PROVE  StreamInv'
<1> DEFINE k == socket[s]
           p0 == k.peer
           reached == k.bound /\ ~k.closing /\ Reaches(s, p0)
           slot == Work(s).g.slot
           n == dispatch.seen
<1>1. PICK fits \in HomeFits \X CardFits : \E batch \in SendBatch(Work(s), n, fits) :
        \E slow \in BOOLEAN, take \in {"none", "one", "rest"} :
          /\ slow => socket[s].diagnostic.on
          /\ take # "rest" => socket[s].stats.on
          /\ \E d \in SendViews(batch, n, slow, take) :
               /\ socket' = [socket EXCEPT ![s] = [d.k EXCEPT !.closing = @ \/ ~d.open]]
               /\ page' = [p \in Pages |-> IF Reaches(s, p) THEN d.g ELSE page[p]]
               /\ uiUsed' = [uiUsed EXCEPT !.faults = IF d.failed THEN @ + 1 ELSE @]
  BY DEF SendTo
<1>2. PICK batch \in SendBatch(Work(s), n, fits) :
        \E slow \in BOOLEAN, take \in {"none", "one", "rest"} :
          /\ slow => socket[s].diagnostic.on
          /\ take # "rest" => socket[s].stats.on
          /\ \E d \in SendViews(batch, n, slow, take) :
               /\ socket' = [socket EXCEPT ![s] = [d.k EXCEPT !.closing = @ \/ ~d.open]]
               /\ page' = [p \in Pages |-> IF Reaches(s, p) THEN d.g ELSE page[p]]
               /\ uiUsed' = [uiUsed EXCEPT !.faults = IF d.failed THEN @ + 1 ELSE @]
  BY <1>1
<1>3. PICK slow \in BOOLEAN, take \in {"none", "one", "rest"} :
          /\ slow => socket[s].diagnostic.on
          /\ take # "rest" => socket[s].stats.on
          /\ \E d \in SendViews(batch, n, slow, take) :
               /\ socket' = [socket EXCEPT ![s] = [d.k EXCEPT !.closing = @ \/ ~d.open]]
               /\ page' = [p \in Pages |-> IF Reaches(s, p) THEN d.g ELSE page[p]]
               /\ uiUsed' = [uiUsed EXCEPT !.faults = IF d.failed THEN @ + 1 ELSE @]
  BY <1>2
<1>4. PICK d \in SendViews(batch, n, slow, take) :
          /\ socket' = [socket EXCEPT ![s] = [d.k EXCEPT !.closing = @ \/ ~d.open]]
          /\ page' = [p \in Pages |-> IF Reaches(s, p) THEN d.g ELSE page[p]]
  BY <1>3
<1>5. /\ AtWork(Work(s), k, slot, reached) /\ Work(s).result = "sent" /\ Work(s).waits = NoFrames
      /\ Work(s).open = TRUE /\ Work(s).ends = FALSE
      /\ Reaches(s, p0) => Work(s).g = page[p0]
  BY WorkBegins
<1>6. p0 \in Pages /\ k.bound BY OneSession
<1>7. DeviceOK BY DEF StreamInv, Standing
<1>8. Reaches(s, p0) => slot = page[p0].slot BY <1>5
<1>9. reached <=> ~k.closing /\ Reaches(s, p0) BY <1>6
<1> HIDE DEF slot, n, reached
<1>10. AtWork(batch, k, slot, reached)
  <2> HIDE DEF k
  <2> QED BY <1>5, BatchKeepsStep
<1>11. AtWork(d, k, slot, reached)
  <2> HIDE DEF k
  <2> QED BY <1>7, <1>10, ViewsKeepStep
<1> DEFINE closing == d.k.closing \/ ~d.open
           k2 == [d.k EXCEPT !.closing = closing]
<1>12. /\ IsSession(d.k) /\ Paged(d.k.stats) /\ IsPage(d.g) /\ d.g.slot = slot
       /\ d.k.open = k.open /\ d.k.closing = k.closing /\ d.k.peer = p0 /\ d.k.bound = k.bound
       /\ d.open /\ reached => InStep(d.k, d.g)
  BY <1>11 DEF AtWork
<1>13. socket' = [socket EXCEPT ![s] = k2] BY <1>4
<1>14. ~closing => d.open /\ ~k.closing BY <1>12
<1> HIDE DEF closing
<1>15. /\ IsRec(k2, SessionFields) /\ k2.closing = closing /\ k2.bound = d.k.bound
       /\ \A x \in SessionFields \ Flags : k2[x] = d.k[x]
  BY <1>12 DEF IsSession, IsRec, SessionFields, Flags
<1> HIDE DEF k2
<1>16. /\ IsSession(k2) /\ k2.stats = d.k.stats /\ k2.open = d.k.open /\ k2.peer = d.k.peer
       /\ \A g : InStep(d.k, g) => InStep(k2, g)
  <2> DEFINE dk == d.k
  <2>1. IsSession(dk) /\ IsRec(k2, SessionFields) /\ \A x \in SessionFields \ Flags : k2[x] = dk[x]
    BY <1>12, <1>15
  <2> HIDE DEF dk
  <2>2. /\ IsSession(k2) /\ k2.stats = dk.stats /\ k2.open = dk.open /\ k2.peer = dk.peer
        /\ \A g : InStep(dk, g) => InStep(k2, g)
    BY <2>1, FlagsMayMove
  <2> QED BY <2>2 DEF dk
<1>17. /\ socket' = [t \in Sockets |-> socket'[t]] /\ socket'[s] = k2
       /\ \A t \in Sockets \ {s} : socket'[t] = socket[t]
  BY <1>13 DEF StreamInv, Standing
<1>18. \A t \in Sockets : /\ IsSession(socket'[t]) /\ Paged(socket'[t].stats)
                          /\ socket'[t].open => socket'[t].peer \in Pages
  BY <1>6, <1>12, <1>16, <1>17, OneSession
<1>19. page' = [p \in Pages |-> page'[p]] /\ \A p \in Pages : page'[p] = IF Reaches(s, p) THEN d.g ELSE page[p]
  BY <1>4
<1>20. \A p \in Pages : IsPage(page'[p]) /\ (page'[p] = page[p] \/ page'[p].slot \in {0, s})
  <2> TAKE p \in Pages
  <2>1. CASE Reaches(s, p)
    <3>1. p = p0 /\ page[p].slot = s BY <2>1 DEF Reaches
    <3> QED BY <1>8, <1>12, <1>19, <2>1, <3>1
  <2>2. CASE ~Reaches(s, p) BY <1>19, <2>2, EveryPage
  <2> QED BY <2>1, <2>2
<1>21. ASSUME NEW p \in Pages, ~k2.closing, k2.peer = p, page'[p].slot = s
       PROVE  InStep(k2, page'[p])
  <2>1. p = p0 BY <1>12, <1>16, <1>21
  <2>2. Reaches(s, p) BY <1>19, <1>21, <2>1 DEF Reaches
  <2>3. page'[p] = d.g BY <1>19, <2>2
  <2>4. d.open /\ reached BY <1>9, <1>14, <1>15, <1>21, <2>1, <2>2
  <2> QED BY <1>12, <1>16, <2>3, <2>4
<1>22. k2.bound BY <1>6, <1>12, <1>15
<1>23. \A p \in Pages : s \in Sockets /\ socket'[s].bound /\ ~socket'[s].closing /\ socket'[s].peer = p
                          /\ page'[p].slot = s
                        => InStep(socket'[s], page'[p])
  BY <1>17, <1>21
<1>24. s \in Sockets /\ ~socket'[s].bound /\ ~socket'[s].closing => Fresh(socket'[s]) BY <1>17, <1>22
<1>25. \A t \in Sockets \ {s} : socket'[t] = socket[t] \/ socket'[t].closing BY <1>17
<1> HIDE DEF k
<1> QED BY <1>17, <1>18, <1>19, <1>20, <1>23, <1>24, <1>25, OneSessionMoves

\* One slot of a dispatch.
LEMMA ServeStep == ASSUME StreamInv, Slots, Serve PROVE StreamInv'
<1> DEFINE s == dispatch.at
<1>1. s \in Sockets /\ device' = device BY DEF Serve, Httpd, Slots
<1>2. \/ /\ socket' = [socket EXCEPT ![s].bound = FALSE, ![s].late = TRUE, ![s].closing = TRUE]
         /\ page' = page
      \/ socket' = [socket EXCEPT ![s].closing = TRUE] /\ page' = page
      \/ socket[s].open /\ socket[s].bound /\ SendTo(s)
      \/ socket' = socket /\ page' = page
  BY DEF Serve
<1> HIDE DEF s
<1>3. CASE /\ socket' = [socket EXCEPT ![s].bound = FALSE, ![s].late = TRUE, ![s].closing = TRUE]
           /\ page' = page
  BY <1>1, <1>3, GivenUpStep
<1>4. CASE socket' = [socket EXCEPT ![s].closing = TRUE] /\ page' = page BY <1>1, <1>4, ClosingStep
<1>5. CASE socket[s].open /\ socket[s].bound /\ SendTo(s) BY <1>1, <1>5, SendStep
<1>6. CASE socket' = socket /\ page' = page
  <2>1. DeviceOK' /\ device.epoch >= device.epoch BY <1>1 DEF StreamInv, Standing, DeviceOK
  <2> QED BY <1>1, <1>6, <2>1, NobodyMoves
<1> QED BY <1>2, <1>3, <1>4, <1>5, <1>6

-----------------------------------------------------------------------------
\* Every step keeps every session in step with the page it serves.
LEMMA StepsKeepStep ==
  ASSUME StreamInv, Slots, [UiStreamNext]_uiStreamVars
  PROVE  StreamInv'
<1>1. CASE socket' = socket /\ page' = page /\ device' = device
  <2>1. DeviceOK' /\ device.epoch >= device.epoch BY <1>1 DEF StreamInv, Standing, DeviceOK
  <2> QED BY <1>1, <2>1, NobodyMoves
<1>2. CASE \E p \in Pages : Claim(p) BY <1>1, <1>2 DEF Claim
<1>3. CASE SignOutUi \/ Queue \/ Busy \/ Begin \/ UNCHANGED uiStreamVars
  BY <1>1, <1>3 DEF SignOutUi, Queue, Busy, Begin, uiStreamVars
<1>4. CASE \E p \in Pages : Leave(p) BY <1>4, LeaveStep
<1>5. CASE \E p \in Pages, s \in Sockets : Open(p, s) BY <1>5, OpenStep
<1>6. CASE \E p \in Pages, s \in Sockets : Bind(p, s) BY <1>6, BindStep
<1>7. CASE \E p \in Pages, s \in Sockets : Activity(p, s) BY <1>7, ActivityStep
<1>8. CASE \E p \in Pages, s \in Sockets : Resync(p, s) BY <1>8, ResyncStep
<1>9. CASE \E p \in Pages, s \in Sockets : Subscribe(p, s) BY <1>9, SubscribeStep
<1>10. CASE \E p \in Pages, s \in Sockets : Fetch(p, s) BY <1>10, FetchStep
<1>11. CASE \E p \in Pages, s \in Sockets : BadOp(p, s) BY <1>11, BadOpStep
<1>12. CASE \E s \in Sockets : Close(s) BY <1>12, CloseStep
<1>13. CASE \E s \in Sockets : BindTimesOut(s) BY <1>13, BindTimesOutStep
<1>14. CASE \E s \in Sockets : GoesSilent(s) BY <1>14, GoesSilentStep
<1>15. CASE Serve BY <1>15, ServeStep
<1>16. CASE Changes \/ LiveEnds BY <1>16, DeviceMoves
<1> QED BY <1>2, <1>3, <1>4, <1>5, <1>6, <1>7, <1>8, <1>9, <1>10, <1>11, <1>12, <1>13, <1>14, <1>15, <1>16
        DEF UiStreamNext

\* In every state a session and the page it serves are in step, also over a page of
\* Stats that is under way, and a dispatch is at one of the slots
\* (OpenBrewByWeightNetworkUiStream.inc, OpenBrewByWeightHomeStream.inc).
THEOREM SessionsStayInStep == UiStreamSpec => [](StreamInv /\ Slots)
<1>1. UiStreamInit => Slots BY DEF UiStreamInit, Slots, IsRec, NoDispatch
<1>2. StreamInv /\ Slots /\ [UiStreamNext]_uiStreamVars => (StreamInv /\ Slots)' BY StepsKeepStep, DispatchIsAtASlot
<1> QED BY <1>1, <1>2, InitIsInStep, PTL DEF UiStreamSpec

\* Differences are only sent on top of what the page shows: every view the page is
\* subscribed to, the shot card and the rows named by their ids are what the session
\* has recorded, whatever was deferred, rolled back, superseded or fetched.
THEOREM OnTopOfWhatIsShown == UiStreamSpec => []PageIsWhereTheSessionIs
<1>1. StreamInv => PageIsWhereTheSessionIs
  BY DEF StreamInv, SessionsInStep, InStep, PageIsWhereTheSessionIs
<1> QED BY <1>1, SessionsStayInStep, PTL
=============================================================================
