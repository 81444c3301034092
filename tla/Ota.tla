-------------------------------- MODULE Ota --------------------------------
(***************************************************************************)
(* Firmware updates over the network: the resumable upload into the        *)
(* inactive slot with its two-key journal, staging, the change of the boot *)
(* selection, and the confirmation or rollback of an image that has just   *)
(* booted (OpenBrewByWeightOta.cpp, network/...NetworkOta.inc).            *)
(*                                                                         *)
(* Every method holds the one OTA mutex, so a request is one operation;    *)
(* it is split into steps where the power may fail between two writes to   *)
(* flash. An image is Sectors pieces; a slot is a sequence of the images   *)
(* its pieces come from, "junk" for a torn or blank one. SHA-256 tells two *)
(* different prefixes apart.                                               *)
(***************************************************************************)
EXTENDS Integers, FiniteSets

CONSTANTS Images,      \* the images a client may upload
          Sectors,     \* pieces of an image
          Checkpoint,  \* OTA_JOURNAL_CHECKPOINT_BYTES, in pieces
          MaxEvents    \* bound: sessions created, discarded, and resets

ASSUME OtaAssumption == /\ Sectors \in Nat \ {0}
                        /\ Checkpoint \in 1..Sectors
                        /\ MaxEvents \in Nat

VARIABLES slot,      \* flash: per app slot, the image each piece is from
          select,    \* otadata: the slot the bootloader prefers
          mark,      \* otadata: the state recorded for each slot
          journal,   \* NVS keys j0 and j1
          run,       \* the slot that is running
          image,     \* confirmed_, rejected_ and pendingVerify_
          ses,       \* session_ and its progress
          stale,     \* journalStale_
          work,      \* where the operation that holds the mutex stands
          idle,      \* controlAllowsConfiguration
          accepted,  \* history: what the client has had accepted
          left       \* events left

flash == <<slot, select, mark, journal>>
ram == <<run, image, ses, stale, work>>
vars == <<slot, select, mark, journal, run, image, ses, stale, work, idle,
          accepted, left>>

Target == 1 - run
Whole(s) == \E i \in Images \cup {"base"} : slot[s] = [n \in 1..Sectors |-> i]
Blank == [n \in 1..Sectors |-> "junk"]
NothingAccepted(id) == [id |-> id, data |-> [n \in 1..Sectors |-> {}]]
NoSession == [state |-> "IDLE", id |-> "none", received |-> 0,
              journaled |-> 0, gen |-> 0]
Active == ses.state = "RECEIVING"
Free == work.at = "idle"
Idle == [at |-> "idle", then |-> "none", left |-> 0, data |-> "junk"]
At(step) == [Idle EXCEPT !.at = step]
Erase(then) == [Idle EXCEPT !.at = "erase0", !.then = then]

\* A device installed over USB, with or without an otadata record.
Init ==
  /\ slot = [s \in 0..1 |-> IF s = 0 THEN [n \in 1..Sectors |-> "base"]
                                     ELSE Blank]
  /\ select = 0
  /\ mark \in [0..1 -> {"NONE", "VALID"}] /\ mark[1] = "NONE"
  /\ journal = [k \in 0..1 |-> [gen |-> 0]]
  /\ run = 0 /\ image = "CONFIRMED"
  /\ ses = NoSession /\ stale = FALSE /\ work = Idle
  /\ idle = TRUE
  /\ accepted = NothingAccepted("none")
  /\ left = MaxEvents

----------------------------------------------------------------------------
(* Failing and closing a session. *)

\* finishFailure and clearSession: the journal is erased later.
Failed == /\ ses' = [NoSession EXCEPT !.gen = ses.gen]
          /\ stale' = TRUE
          /\ work' = Idle

Spend == left > 0 /\ left' = left - 1

\* clearJournal removes j0, then j1; either may fail, and the power may be
\* cut in between.
EraseKey ==
  /\ work.at \in {"erase0", "erase1"}
  /\ LET k == IF work.at = "erase0" THEN 0 ELSE 1
     IN /\ journal' = [journal EXCEPT ![k] = [gen |-> 0]]
        /\ IF k = 0 THEN work' = [work EXCEPT !.at = "erase1"]
                         /\ UNCHANGED stale
           ELSE /\ work' = IF work.then = "create" THEN At("begin") ELSE Idle
                /\ stale' = IF work.then = "restore" THEN stale ELSE FALSE
  /\ UNCHANGED <<slot, select, mark, run, image, ses, idle, accepted, left>>

EraseFails ==
  /\ work.at \in {"erase0", "erase1"}
  /\ stale' = IF work.then = "restore" THEN stale ELSE TRUE
  /\ work' = Idle
  /\ ses' = IF work.then = "create" THEN [NoSession EXCEPT !.gen = ses.gen]
                                    ELSE ses
  /\ UNCHANGED <<flash, run, image, idle, accepted, left>>

----------------------------------------------------------------------------
(* Sessions. *)

MayCreateMutPendingOnly == image # "PENDING"

\* esp_ota_begin refuses to write while the running slot is unconfirmed; so
\* does createSession, for a rejected image as well.
MayCreate == image = "CONFIRMED"

\* The session fields are set once the old journal is gone ("begin").
CreateSession(id) ==
  /\ Free /\ idle /\ MayCreate /\ Spend
  /\ ses.state = "IDLE"
  /\ ses' = [ses EXCEPT !.id = id]
  /\ work' = Erase("create")
  /\ UNCHANGED <<flash, run, image, stale, idle, accepted>>

BeginSession ==
  /\ work.at = "begin"
  /\ ses' = [state |-> "RECEIVING", id |-> ses.id, received |-> 0,
             journaled |-> 0, gen |-> ses.gen + 1]
  /\ work' = At("persist")
  /\ accepted' = NothingAccepted(ses.id)
  /\ UNCHANGED <<flash, run, image, stale, idle, left>>

Prefix(s, n) == [i \in 1..n |-> slot[s][i]]

\* persistSession: the record goes to the key of its generation's parity.
Persist ==
  /\ work.at = "persist"
  /\ LET g == ses.gen + 1
     IN /\ journal' = [journal EXCEPT ![g % 2] =
                         [gen |-> g, id |-> ses.id, received |-> ses.received,
                          prefix |-> Prefix(Target, ses.received)]]
        /\ ses' = [ses EXCEPT !.gen = g, !.journaled = ses.received]
  /\ work' = Idle
  /\ UNCHANGED <<slot, select, mark, run, image, stale, idle, accepted, left>>

PersistFails ==
  /\ work.at = "persist"
  /\ Failed
  /\ UNCHANGED <<flash, run, image, idle, accepted, left>>

CheckpointDue == /\ ses.received < Sectors
                 /\ ses.received - ses.journaled >= Checkpoint

Discard ==
  /\ Free /\ idle /\ Spend
  /\ ses.state # "COMMITTED"
  /\ Failed
  /\ UNCHANGED <<flash, run, image, idle, accepted>>

\* The age of the session is not modelled: it may have expired at any call.
SessionExpires ==
  /\ Free /\ Active
  /\ Failed
  /\ UNCHANGED <<flash, run, image, idle, accepted, left>>

EraseStale ==
  /\ Free /\ idle /\ stale /\ ~Active
  /\ work' = Erase("expire")
  /\ UNCHANGED <<flash, run, image, ses, stale, idle, accepted, left>>

----------------------------------------------------------------------------
(* One PATCH: writeRange. *)

OffsetFits(offset) == offset = ses.received

\* A client whose answer was lost may send an earlier range again. Its file
\* may be another one than it declared.
Patch(id, offset, n, d) ==
  /\ Free /\ idle /\ Active
  /\ ses.id = id
  /\ OffsetFits(offset) /\ n \in 1..(Sectors - ses.received)
  /\ work' = [at |-> "range", then |-> IF offset = ses.received THEN "whole"
                                       ELSE "shifted",
              left |-> n, data |-> d]
  /\ UNCHANGED <<flash, run, image, ses, stale, idle, accepted, left>>

Piece == IF work.then = "whole" THEN work.data ELSE "junk"

\* A sector is written only after it was received whole and the machine was
\* seen at rest once more.
WriteSector ==
  /\ work.at = "range" /\ work.left > 0 /\ idle
  /\ slot' = [slot EXCEPT ![Target][ses.received + 1] = Piece]
  /\ accepted' = [accepted EXCEPT !.data[ses.received + 1] = @ \cup {work.data}]
  /\ ses' = [ses EXCEPT !.received = ses.received + 1]
  /\ work' = [work EXCEPT !.left = work.left - 1]
  /\ UNCHANGED <<select, mark, journal, run, image, stale, idle, left>>

\* SAFETY_LOST, BAD_IMAGE, a wrong tag, WRITE_FAILED.
RangeFails ==
  /\ work.at = "range"
  /\ Failed
  /\ UNCHANGED <<flash, run, image, idle, accepted, left>>

\* The range is complete, or reception failed: what was written is kept.
RangeEnds ==
  /\ work.at = "range"
  /\ work' = CASE CheckpointDue -> At("persist")
               [] ~CheckpointDue /\ work.left = 0 /\ ses.received = Sectors ->
                    At("verify")
               [] OTHER -> Idle
  /\ UNCHANGED <<flash, run, image, ses, stale, idle, accepted, left>>

HashMatchesMutEndOnly == TRUE

\* verifySessionSha256
HashMatches == slot[Target] = [n \in 1..Sectors |-> ses.id]

\* esp_ota_end checks the image, then the declared hash is compared, and the
\* machine is looked at once more.
Stage ==
  /\ work.at = "verify"
  /\ IF Whole(Target) /\ HashMatches /\ idle
     THEN /\ ses' = [ses EXCEPT !.state = "STAGED", !.journaled = 0]
          /\ work' = Erase("stage")
          /\ UNCHANGED stale
     ELSE Failed
  /\ UNCHANGED <<flash, run, image, idle, accepted, left>>

\* commit: esp_ota_set_boot_partition selects the slot; the record is new.
Commit ==
  /\ Free /\ idle /\ ses.state = "STAGED"
  /\ \/ /\ Whole(Target)
        /\ select' = Target
        /\ mark' = [mark EXCEPT ![Target] = "NEW"]
        /\ ses' = [ses EXCEPT !.state = "COMMITTED"]
        /\ UNCHANGED <<stale, work>>
     \/ Failed /\ UNCHANGED <<select, mark>>
  /\ UNCHANGED <<slot, journal, run, image, idle, accepted, left>>

----------------------------------------------------------------------------
(* Boot, confirmation and rollback. *)

\* The bootloader: a new image is tried once; one that did not confirm itself
\* is aborted and the other slot is used, if it holds an image.
Tried == [mark EXCEPT ![select] =
            CASE mark[select] = "NEW" -> "PENDING"
              [] mark[select] = "PENDING" -> "ABORTED"
              [] OTHER -> mark[select]]
BootSlot == IF Tried[select] \notin {"ABORTED", "INVALID"} /\ Whole(select)
            THEN select ELSE 1 - select

\* readBootState
ImageOf(state) == CASE state = "PENDING" -> "PENDING"
                    [] state \in {"ABORTED", "INVALID"} -> "REJECTED"
                    [] OTHER -> "CONFIRMED"

RollbackPossible == mark[1 - run] = "VALID" /\ Whole(1 - run)

Newest(keys) ==
  CHOOSE k \in keys : \A o \in keys : journal[k].gen >= journal[o].gen

PrefixMatchesMutNotRead(s, r) == TRUE

\* restoreSessionJournal reads the prefix back and hashes it.
PrefixMatches(s, r) == Prefix(s, r.received) = r.prefix

Restored(s, keys) ==
  LET r == journal[Newest(keys)]
  IN IF /\ keys # {}
        /\ r.received < Sectors /\ PrefixMatches(s, r)
     THEN [state |-> "RECEIVING", id |-> r.id, received |-> r.received,
           journaled |-> r.received, gen |-> r.gen]
     ELSE NoSession

\* begin: the slots' roles, the state of the running image, and, when it is
\* confirmed, the session of the newest record that could be read.
Boot ==
  /\ work.at = "off"
  /\ mark' = Tried /\ run' = BootSlot
  /\ image' \in {ImageOf(mark'[run']), "UNREAD"}
  /\ stale' = FALSE
  /\ \E keys \in SUBSET {k \in 0..1 : journal[k].gen > 0} :
       LET used == IF image' = "CONFIRMED" THEN keys ELSE {}
       IN /\ ses' = Restored(1 - run', used)
          /\ work' = IF used # {} /\ ses'.state = "IDLE" THEN Erase("restore")
                                                        ELSE Idle
  /\ UNCHANGED <<slot, select, journal, idle, accepted, left>>

PowerOff == /\ run' = 0 /\ image' = "UNREAD" /\ ses' = NoSession
            /\ stale' = FALSE /\ work' = At("off")

\* A loss of power may tear the piece being written.
PowerCut ==
  /\ work.at # "off" /\ Spend
  /\ slot' \in IF work.at = "range" /\ ses.received < Sectors
               THEN {slot, [slot EXCEPT ![Target][ses.received + 1] = "junk"]}
               ELSE {slot}
  /\ PowerOff
  /\ UNCHANGED <<select, mark, journal, idle, accepted>>

\* The restart the network task asks for: of a committed image, or to roll a
\* rejected one back. Control grants it with the machine at rest.
Restart ==
  /\ Free /\ idle
  /\ ses.state = "COMMITTED" \/ image = "REJECTED"
  /\ PowerOff
  /\ UNCHANGED <<flash, idle, accepted, left>>

Confirmed == /\ mark' = [mark EXCEPT ![run] = "VALID"]
             /\ image' = "CONFIRMED"

\* serviceBoot reads the record again when the read at boot failed.
RereadState ==
  /\ Free /\ idle /\ image = "UNREAD"
  /\ image' = ImageOf(mark[run])
  /\ UNCHANGED <<flash, run, ses, stale, work, idle, accepted, left>>

\* The Web UI was served long enough.
ConfirmImage ==
  /\ Free /\ idle /\ image = "PENDING"
  /\ Confirmed
  /\ UNCHANGED <<slot, select, journal, run, ses, stale, work, idle, accepted,
                 left>>

KeepsWithoutAlternativeMutWaits == ~RollbackPossible /\ FALSE

\* At the deadline an image with no alternative is kept.
KeepsWithoutAlternative == ~RollbackPossible

\* The deadline has passed with no Web UI.
DeadlinePasses ==
  /\ Free /\ idle /\ image = "PENDING"
  /\ \/ /\ RollbackPossible
        /\ mark' = [mark EXCEPT ![run] = "INVALID"]
        /\ image' = "REJECTED"
     \/ KeepsWithoutAlternative /\ Confirmed
  /\ UNCHANGED <<slot, select, journal, run, ses, stale, work, idle, accepted,
                 left>>

MachineMoves ==
  /\ work.at \in {"idle", "range", "verify"}
  /\ idle' = ~idle
  /\ UNCHANGED <<flash, ram, accepted, left>>

----------------------------------------------------------------------------
Client == \/ \E id \in Images : CreateSession(id)
          \/ \E id, d \in Images, o \in 0..Sectors, n \in 1..Sectors :
               Patch(id, o, n, d)
          \/ Discard \/ Commit
Worker == \/ EraseKey \/ EraseFails \/ BeginSession \/ Persist \/ PersistFails
          \/ WriteSector \/ RangeFails \/ RangeEnds \/ Stage
Manager == \/ SessionExpires \/ EraseStale \/ RereadState \/ ConfirmImage
           \/ DeadlinePasses \/ Restart
Next == Client \/ Worker \/ Manager \/ Boot \/ PowerCut \/ MachineMoves

Spec == Init /\ [][Next]_vars

\* Operations end, the device boots, the machine comes to rest again and
\* again; the deadline of a pending image passes at last.
FairSpec == /\ Spec
            /\ WF_vars(Worker) /\ WF_vars(Boot)
            /\ SF_vars(RereadState \/ DeadlinePasses \/ Restart)
            /\ []<>idle

----------------------------------------------------------------------------
\* What a session says it has received is in the slot, every piece one that
\* the client had accepted for that place, and it is the session the client
\* created last: after a lost answer, an aborted upload, a torn write, and a
\* restart from whichever journal record could be read (restoreSessionJournal,
\* writeRange).
ResumeIsExact ==
  Active => /\ ses.id = accepted.id
            /\ \A i \in 1..ses.received : slot[Target][i] \in accepted.data[i]

\* An image that is staged, or selected and not yet tried, is the whole image
\* whose hash the client declared (writeRange, commit).
StagedIsDeclared ==
  ses.state \in {"STAGED", "COMMITTED"} =>
    slot[Target] = [n \in 1..Sectors |-> ses.id]

\* Whatever upload, confirmation or rollback is under way, a loss of power
\* finds an image to boot (createSession, rejectRunningImageLocked).
SomethingBoots == Whole(BootSlot)

\* An image that was booted on trial is confirmed, or the other one runs.
UpdateSettles ==
  image \in {"PENDING", "REJECTED", "UNREAD"} ~> image = "CONFIRMED"
=============================================================================
